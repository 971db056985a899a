--------------------------- MODULE RateLimiter_proofs ---------------------------
(***************************************************************************)
(* Proofs about RateLimiter for every set of requests and clients, limit,  *)
(* window and resolution of the clock.                                     *)
(*                                                                         *)
(* The bucket of a key is a suffix of the times its requests were          *)
(* admitted, and every admission that is not in it has left the window.    *)
(***************************************************************************)
EXTENDS RateLimiter, FiniteSetTheorems, SequenceTheorems, TLAPS

Times == 0..Horizon
Span == Window * Second

(* The bucket `had` of a key whose requests were admitted at `times`. *)
Bucket(had, times, t) ==
  /\ times \in Seq(Times) /\ had \in Seq(Times)
  /\ Len(had) =< Limit /\ Len(had) =< Len(times)
  /\ \A i \in 1..Len(had) : had[i] = times[Len(times) - Len(had) + i]
  /\ \A i \in 1..(Len(times) - Len(had)) : t - times[i] > Span
  /\ \A i, j \in 1..Len(times) : i =< j => times[i] =< times[j]
  /\ \A i \in 1..Len(times) : times[i] =< t
  /\ \A i \in 1..Len(times) : i + Limit =< Len(times) => times[i + Limit] - times[i] > Span

(* `left` is the bucket `had` with stale hits popped from its left. *)
Popped(left, had, t) ==
  \E m \in 1..(Len(had) + 1) :
    /\ left = SubSeq(had, m, Len(had))
    /\ \A i \in 1..(m - 1) : t - had[i] > Span
    /\ m =< Len(had) => t - had[m] =< Span

-----------------------------------------------------------------------------
LEMMA Constants ==
  Limit \in Nat \ {0} /\ Span \in Nat /\ Horizon \in Nat /\ Second \in Nat \ {0}
BY RateLimiterAssumption DEF Span

LEMMA MinOf ==
  ASSUME NEW S, S \subseteq Nat, S # {}
  PROVE  Min(S) \in S /\ \A y \in S : Min(S) =< y
<1> DEFINE R == OpToRel(<, Nat)
<1>1. IsWellFoundedOn(R, Nat)
  BY NatLessThanWellFounded
<1>2. \A x, y \in Nat : x < y => <<x, y>> \in R
  BY DEF OpToRel
<1> HIDE DEF R
<1>3. \E x \in S : \A y \in S : ~ (<<y, x>> \in R)
  BY <1>1, WFMin
<1>4. \E x \in S : \A y \in S : x =< y
  <2>1. PICK x \in S : \A y \in S : ~ (<<y, x>> \in R)
    BY <1>3
  <2>2. \A y \in S : ~(y < x) /\ y \in Nat /\ x \in Nat
    BY <1>2, <2>1
  <2> QED
    BY <2>2
<1> QED
  BY <1>4 DEF Min

LEMMA CurrentPopped ==
  ASSUME NEW b \in Buckets, hits[b] \in Seq(Times), now \in Times
  PROVE  Popped(Current(b), hits[b], now)
<1> DEFINE had == hits[b]
           n == Len(had)
           fresh == {i \in DOMAIN had : ~Stale(had[i])}
           m == Min(fresh \cup {n + 1})
<1>1. n \in Nat /\ DOMAIN had = 1..n /\ \A i \in 1..n : had[i] \in Nat
  <2> Times \subseteq Nat
    BY DEF Times
  <2> QED
    BY LenProperties, ElementOfSeq
<1>2. /\ m \in fresh \cup {n + 1} /\ \A i \in fresh \cup {n + 1} : m =< i
  <2> fresh \cup {n + 1} \subseteq Nat
    BY <1>1
  <2> HIDE DEF fresh
  <2> QED
    BY MinOf
<1>3. \A i \in 1..n : i \in fresh <=> now - had[i] =< Span
  <2> now \in Nat /\ Span \in Nat
    BY Constants DEF Times
  <2> QED
    BY <1>1 DEF Stale, Span
<1>4. Current(b) = SubSeq(had, m, n)
  BY DEF Current
<1> HIDE DEF m
<1>5. m \in 1..(n + 1)
  BY <1>1, <1>2
<1> HIDE DEF fresh
<1>6. \A i \in 1..(m - 1) : now - had[i] > Span
  <2> TAKE i \in 1..(m - 1)
  <2>1. i \in 1..n /\ i \notin fresh
    BY <1>1, <1>2, <1>5
  <2>2. ~(now - had[i] =< Span)
    BY <2>1, <1>3
  <2>3. now - had[i] \in Int /\ Span \in Int
    BY <2>1, <1>1, Constants DEF Times
  <2> QED
    BY <2>2, <2>3
<1>7. m =< n => now - had[m] =< Span
  BY <1>1, <1>2, <1>3, <1>5
<1> QED
  BY <1>4, <1>5, <1>6, <1>7 DEF Popped

(* What is left of a bucket is a suffix of it. *)
LEMMA LeftIs ==
  ASSUME NEW had \in Seq(Times), NEW t \in Times, NEW left, Popped(left, had, t)
  PROVE  /\ left \in Seq(Times) /\ Len(left) \in Nat /\ Len(left) =< Len(had)
         /\ \A i \in 1..Len(left) : left[i] = had[Len(had) - Len(left) + i]
         /\ \A i \in 1..(Len(had) - Len(left)) : t - had[i] > Span
         /\ left # <<>> => t - left[1] =< Span
<1> DEFINE n == Len(had)
<1>1. n \in Nat /\ \A i \in 1..n : had[i] \in Times
  OBVIOUS
<1>2. PICK m \in 1..(n + 1) : /\ left = SubSeq(had, m, n)
                              /\ \A i \in 1..(m - 1) : t - had[i] > Span
                              /\ m =< n => t - had[m] =< Span
  BY DEF Popped
<1> HIDE DEF n
<1>3. m \in Int /\ n \in Int /\ \A i \in m..n : had[i] \in Times
  BY <1>1
<1>4. /\ left \in Seq(Times) /\ Len(left) = IF m =< n THEN n - m + 1 ELSE 0
      /\ \A i \in 1..(n - m + 1) : left[i] = had[m + i - 1]
  BY <1>2, <1>3, SubSeqProperties
<1>5. Len(left) = n - m + 1 /\ Len(left) \in Nat /\ Len(left) =< n
  BY <1>1, <1>4
<1>6. \A i \in 1..Len(left) : left[i] = had[n - Len(left) + i]
  <2> TAKE i \in 1..Len(left)
  <2> m + i - 1 = n - Len(left) + i /\ i \in 1..(n - m + 1)
    BY <1>1, <1>5
  <2> QED
    BY <1>4
<1>7. \A i \in 1..(n - Len(left)) : t - had[i] > Span
  BY <1>1, <1>2, <1>5
<1>8. left # <<>> => t - left[1] =< Span
  <2> SUFFICES ASSUME left # <<>> PROVE t - left[1] =< Span
    OBVIOUS
  <2>1. Len(left) # 0
    BY <1>4, EmptySeq
  <2>2. m =< n /\ left[1] = had[m]
    BY <2>1, <1>1, <1>4, <1>5
  <2> QED
    BY <1>2, <2>2
<1> QED
  BY <1>4, <1>5, <1>6, <1>7, <1>8 DEF n

LEMMA Later ==
  ASSUME NEW had, NEW times, NEW t \in Times, Bucket(had, times, t),
         NEW u \in Times, t =< u
  PROVE  Bucket(had, times, u)
<1>1. /\ Len(had) \in Nat /\ Len(times) \in Nat /\ Span \in Nat /\ t \in Nat /\ u \in Nat
      /\ \A i \in 1..Len(times) : times[i] \in Nat
  BY Constants DEF Bucket, Times
<1>2. \A i \in 1..(Len(times) - Len(had)) : u - times[i] > Span
  BY <1>1 DEF Bucket
<1>3. \A i \in 1..Len(times) : times[i] =< u
  BY <1>1 DEF Bucket
<1> QED
  BY <1>2, <1>3 DEF Bucket

LEMMA LeftBucket ==
  ASSUME NEW had, NEW times, NEW t \in Times, Bucket(had, times, t),
         NEW left, Popped(left, had, t)
  PROVE  Bucket(left, times, t)
<1> DEFINE a == Len(times)
           h == Len(had)
           n == Len(left)
<1>1. /\ a \in Nat /\ h \in Nat /\ h =< Limit /\ h =< a /\ Limit \in Nat
      /\ \A i \in 1..h : had[i] = times[a - h + i]
      /\ \A i \in 1..(a - h) : t - times[i] > Span
  BY Constants DEF Bucket
<1>2. /\ left \in Seq(Times) /\ n \in Nat /\ n =< h
      /\ \A i \in 1..n : left[i] = had[h - n + i]
      /\ \A i \in 1..(h - n) : t - had[i] > Span
  BY LeftIs DEF Bucket
<1> HIDE DEF a, h, n
<1>3. \A i \in 1..n : left[i] = times[a - n + i]
  <2> TAKE i \in 1..n
  <2>1. h - n + i \in 1..h /\ a - h + (h - n + i) = a - n + i
    BY <1>1, <1>2
  <2> QED
    BY <1>1, <1>2, <2>1
<1>4. \A i \in 1..(a - n) : t - times[i] > Span
  <2> TAKE i \in 1..(a - n)
  <2>1. CASE i =< a - h
    BY <1>1, <2>1
  <2>2. CASE i > a - h
    <3>1. i - (a - h) \in 1..(h - n) /\ i - (a - h) \in 1..h /\ a - h + (i - (a - h)) = i
      BY <1>1, <1>2, <2>2
    <3> QED
      BY <1>1, <1>2, <3>1
  <2> QED
    BY <1>1, <2>1, <2>2
<1> QED
  BY <1>1, <1>2, <1>3, <1>4 DEF Bucket, a, h, n

(* There is room: whatever was admitted Limit admissions ago has left the  *)
(* window.                                                                 *)
LEMMA AdmittedBucket ==
  ASSUME NEW left, NEW times, NEW t \in Times, Bucket(left, times, t), Len(left) < Limit
  PROVE  /\ Bucket(Append(left, t), Append(times, t), t)
         /\ Len(Append(times, t)) = Len(times) + 1
<1> DEFINE a == Len(times)
           n == Len(left)
           more == Append(times, t)
           hit == Append(left, t)
<1>1. /\ a \in Nat /\ n \in Nat /\ n < Limit /\ n =< a /\ Limit \in Nat
      /\ Limit > 0 /\ Span \in Nat /\ t \in Nat
      /\ \A i \in 1..a : times[i] \in Nat /\ times[i] =< t
      /\ \A i \in 1..n : left[i] = times[a - n + i]
      /\ \A i \in 1..(a - n) : t - times[i] > Span
      /\ \A i, j \in 1..a : i =< j => times[i] =< times[j]
      /\ \A i \in 1..a : i + Limit =< a => times[i + Limit] - times[i] > Span
  BY Constants DEF Bucket, Times
<1>2. /\ more \in Seq(Times) /\ Len(more) = a + 1 /\ more[a + 1] = t
      /\ \A i \in 1..a : more[i] = times[i]
  BY AppendProperties DEF Bucket
<1>3. /\ hit \in Seq(Times) /\ Len(hit) = n + 1 /\ hit[n + 1] = t
      /\ \A i \in 1..n : hit[i] = left[i]
  BY AppendProperties DEF Bucket
<1> HIDE DEF a, n, more, hit
<1>4. \A i \in 1..(n + 1) : hit[i] = more[(a + 1) - (n + 1) + i]
  <2> TAKE i \in 1..(n + 1)
  <2>1. (a + 1) - (n + 1) + i = a - n + i
    BY <1>1
  <2>2. CASE i = n + 1
    BY <1>1, <1>2, <1>3, <2>1, <2>2
  <2>3. CASE i # n + 1
    <3>1. i \in 1..n /\ a - n + i \in 1..a
      BY <1>1, <2>3
    <3> QED
      BY <1>1, <1>2, <1>3, <2>1, <3>1
  <2> QED
    BY <2>2, <2>3
<1>5. \A i \in 1..((a + 1) - (n + 1)) : t - more[i] > Span
  BY <1>1, <1>2
<1>6. \A i \in 1..(a + 1) : more[i] =< t /\ more[i] \in Nat
  BY <1>1, <1>2
<1>7. \A i, j \in 1..(a + 1) : i =< j => more[i] =< more[j]
  <2> TAKE i, j \in 1..(a + 1)
  <2>1. CASE j = a + 1
    BY <1>2, <1>6, <2>1
  <2>2. CASE j # a + 1
    BY <1>1, <1>2, <2>2
  <2> QED
    BY <2>1, <2>2
<1>8. \A i \in 1..(a + 1) : i + Limit =< a + 1 => more[i + Limit] - more[i] > Span
  <2> SUFFICES ASSUME NEW i \in 1..(a + 1), i + Limit =< a + 1
               PROVE  more[i + Limit] - more[i] > Span
    OBVIOUS
  <2>1. i \in 1..a /\ more[i] = times[i]
    BY <1>1, <1>2
  <2>2. CASE i + Limit = a + 1
    <3>1. i \in 1..(a - n)
      BY <1>1, <2>1, <2>2
    <3> QED
      BY <1>1, <1>2, <2>1, <2>2, <3>1
  <2>3. CASE i + Limit # a + 1
    <3>1. i + Limit \in 1..a /\ more[i + Limit] = times[i + Limit]
      BY <1>1, <1>2, <2>1, <2>3
    <3> QED
      BY <1>1, <2>1, <3>1
  <2> QED
    BY <2>2, <2>3
<1>9. n + 1 =< Limit /\ n + 1 =< a + 1
  BY <1>1
<1>10. Bucket(hit, more, t)
  BY <1>2, <1>3, <1>4, <1>5, <1>6, <1>7, <1>8, <1>9 DEF Bucket
<1> QED
  BY <1>2, <1>10 DEF a, more, hit

(* The admissions that are still in the window. *)
Within(times, t) == {i \in 1..Len(times) : t - times[i] =< Span}

LEMMA WithinSuffix ==
  ASSUME NEW times \in Seq(Times), NEW t \in Times, NEW k \in 0..Len(times),
         \A i \in 1..(Len(times) - k) : t - times[i] > Span
  PROVE  /\ Cardinality(Within(times, t)) \in Nat
         /\ Cardinality(Within(times, t)) =< k
         /\ (k > 0 => t - times[Len(times) - k + 1] =< Span)
            /\ (\A i, j \in 1..Len(times) : i =< j => times[i] =< times[j])
              => Cardinality(Within(times, t)) = k
<1> DEFINE a == Len(times)
           last == (a - k + 1)..a
           seen == Within(times, t)
<1>1. /\ a \in Nat /\ k \in Nat /\ k =< a /\ Span \in Nat /\ t \in Nat
      /\ \A i \in 1..a : times[i] \in Nat
  BY Constants DEF Times
<1>2. IsFiniteSet(last) /\ Cardinality(last) = k
  <2>1. a - k + 1 \in Int /\ a \in Int
    BY <1>1
  <2> HIDE DEF a
  <2>2. IsFiniteSet(last) /\ Cardinality(last) = IF a - k + 1 > a THEN 0 ELSE a - (a - k + 1) + 1
    BY <2>1, FS_Interval
  <2> QED
    BY <1>1, <2>2
<1>3. seen \subseteq last
  BY <1>1 DEF Within
<1> HIDE DEF last
<1>4. Cardinality(seen) \in Nat /\ Cardinality(seen) =< k
  BY <1>2, <1>3, FS_Subset, FS_CardinalityType
<1>5. ASSUME k > 0 => t - times[a - k + 1] =< Span,
             \A i, j \in 1..a : i =< j => times[i] =< times[j]
      PROVE  Cardinality(seen) = k
  <2>1. ASSUME NEW i \in last PROVE i \in seen
    <3>1. i \in 1..a /\ a - k + 1 \in 1..a /\ a - k + 1 =< i /\ k > 0
      BY <1>1, <2>1 DEF last
    <3>2. times[a - k + 1] =< times[i] /\ t - times[a - k + 1] =< Span
      BY <1>5, <3>1
    <3>3. t - times[i] =< Span
      BY <1>1, <3>1, <3>2, SMTT(30)
    <3> QED
      BY <3>1, <3>3 DEF Within
  <2>2. seen = last
    BY <1>3, <2>1
  <2> QED
    BY <1>2, <2>2
<1> QED
  BY <1>4, <1>5

-----------------------------------------------------------------------------
(* What int() leaves of a number of seconds. *)
LEMMA Seconds ==
  ASSUME NEW x \in Nat, NEW d \in Nat \ {0}
  PROVE  x \div d \in Nat /\ (x \div d) * d =< x /\ x < (x \div d + 1) * d
OBVIOUS

LEMMA SecondsBound ==
  ASSUME NEW x \in Nat, x =< Span
  PROVE  x \div Second =< Window
<1>1. /\ x \div Second \in Nat /\ (x \div Second) * Second =< x
      /\ Window \in Nat /\ Second \in Nat \ {0}
  BY Seconds, RateLimiterAssumption
<1>2. (x \div Second) * Second =< Window * Second
  BY <1>1 DEF Span
<1> DEFINE q == x \div Second
<1> HIDE DEF q
<1>3. ASSUME q > Window PROVE FALSE
  <2>1. q - Window \in Nat \ {0} /\ q * Second = Window * Second + (q - Window) * Second
    BY <1>1, <1>3 DEF q
  <2>2. (q - Window) * Second >= 1
    BY <1>1, <2>1
  <2> QED
    BY <1>1, <1>2, <2>1, <2>2 DEF q
<1> QED
  BY <1>1, <1>3 DEF q

(* A key that nothing was admitted for since `rf` had its window full then. *)
Refused(times, rf, t) ==
  /\ rf \in [at : Times, retry : 0..(Window + 1), after : -1..Cardinality(Requests)]
  /\ rf.at =< t /\ rf.after =< Len(times)
  /\ rf.after = Len(times) =>
       LET oldest == times[Len(times) - Limit + 1] IN
       /\ Limit =< Len(times)
       /\ rf.at - oldest =< Span
       /\ rf.retry = (Span - (rf.at - oldest)) \div Second + 1
       /\ \A i \in 1..(Len(times) - Limit) : rf.at - times[i] > Span

(* What RetryAfterRight says of one key. *)
Right(times, rf, t) ==
  rf.after = Len(times) =>
    LET due == rf.at + rf.retry * Second
    IN  /\ t = rf.at => Cardinality(Within(times, t)) = Limit
        /\ t >= due => Cardinality(Within(times, t)) < Limit
        /\ t < due - Second => Cardinality(Within(times, t)) = Limit

LEMMA RefusedRight ==
  ASSUME NEW had, NEW times, NEW t \in Times, Bucket(had, times, t),
         NEW rf, Refused(times, rf, t)
  PROVE  Right(times, rf, t)
<1> SUFFICES ASSUME rf.after = Len(times) PROVE Right(times, rf, t)
  BY DEF Right
<1> DEFINE a == Len(times)
           old == times[a - Limit + 1]
           x == Span - (rf.at - old)
           q == x \div Second
           due == rf.at + rf.retry * Second
           n == Cardinality(Within(times, t))
<1>1. /\ times \in Seq(Times) /\ a \in Nat /\ Limit \in Nat \ {0} /\ Span \in Nat /\ t \in Nat
      /\ Second \in Nat \ {0} /\ \A i \in 1..a : times[i] \in Nat /\ times[i] =< t
      /\ \A i, j \in 1..a : i =< j => times[i] =< times[j]
  BY Constants, SMTT(30) DEF Bucket, Times
<1>2. /\ rf.at \in Nat /\ rf.at =< t /\ Limit =< a /\ rf.at - old =< Span
      /\ rf.retry = q + 1
      /\ \A i \in 1..(a - Limit) : rf.at - times[i] > Span
  BY DEF Refused, Times
<1>3. old \in Nat /\ x \in Nat
  <2>1. a - Limit + 1 \in 1..a
    BY <1>1, <1>2
  <2>2. old \in Nat
    BY <1>1, <2>1
  <2>3. rf.at \in Nat /\ Span \in Nat /\ rf.at - old =< Span
    BY <1>1, <1>2
  <2> HIDE DEF old
  <2> QED
    BY ONLY <2>2, <2>3
<1>4. \A i \in 1..(a - Limit) : t - times[i] > Span
  <2> TAKE i \in 1..(a - Limit)
  <2>1. rf.at - times[i] > Span /\ times[i] \in Nat
    BY <1>1, <1>2
  <2> QED
    BY <1>1, <1>2, <2>1, SMTT(30)
<1>5. Limit \in 0..a
  BY <1>1, <1>2
<1>6. n \in Nat /\ n =< Limit /\ (t - old =< Span => n = Limit)
  BY <1>1, <1>4, <1>5, WithinSuffix
<1>7. t - old > Span => n < Limit
  <2> SUFFICES ASSUME t - old > Span PROVE n < Limit
    OBVIOUS
  <2>1. \A i \in 1..(a - (Limit - 1)) : t - times[i] > Span
    <3> TAKE i \in 1..(a - (Limit - 1))
    <3>1. i \in 1..(a - Limit) \/ i = a - Limit + 1
      <4>1. a \in Nat /\ Limit \in Nat
        BY <1>1
      <4> HIDE DEF a
      <4> QED
        BY ONLY <4>1, i \in 1..(a - (Limit - 1))
    <3> QED
      BY <1>4, <3>1
  <2>2. Limit - 1 \in 0..a
    BY <1>1, <1>2
  <2>3. n =< Limit - 1
    BY <1>1, <2>1, <2>2, WithinSuffix
  <2> QED
    BY <1>1, <1>6, <2>3
<1>8. q \in Nat /\ q * Second =< x /\ x < (q + 1) * Second
  BY <1>1, <1>3, Seconds
<1> HIDE DEF n, old, q
<1>9. t = rf.at => n = Limit
  BY <1>2, <1>6
<1>10. t >= due => n < Limit
  <2> SUFFICES ASSUME t >= due PROVE n < Limit
    OBVIOUS
  <2>1. (q + 1) * Second \in Nat /\ due = rf.at + (q + 1) * Second
    BY <1>1, <1>2, <1>8
  <2> DEFINE y == (q + 1) * Second
  <2>2. y \in Nat /\ t >= rf.at + y /\ x < y
    BY <1>8, <2>1
  <2> HIDE DEF y
  <2>3. t - old > Span
    BY <1>1, <1>2, <1>3, <2>2
  <2> QED
    BY <1>7, <2>3
<1>11. t < due - Second => n = Limit
  <2> SUFFICES ASSUME t < due - Second PROVE n = Limit
    OBVIOUS
  <2>1. q * Second \in Nat /\ due - Second = rf.at + q * Second
    BY <1>1, <1>2, <1>8
  <2> DEFINE y == q * Second
  <2>2. y \in Nat /\ t < rf.at + y /\ y =< x
    BY <1>8, <2>1
  <2> HIDE DEF y
  <2>3. t - old =< Span
    BY <1>1, <1>2, <1>3, <2>2, SMTT(30)
  <2> QED
    BY <1>6, <2>3
<1> QED
  BY <1>9, <1>10, <1>11 DEF Right, n

LEMMA RefusedLater ==
  ASSUME NEW times, NEW rf, NEW t \in Times, Refused(times, rf, t), NEW u \in Times, t =< u
  PROVE  Refused(times, rf, u)
<1>1. rf.at \in Nat /\ t \in Nat /\ u \in Nat /\ rf.at =< t
  BY DEF Refused, Times
<1> QED
  BY <1>1 DEF Refused

LEMMA RefusedAdmitted ==
  ASSUME NEW times \in Seq(Times), NEW rf, NEW t \in Times, Refused(times, rf, t)
  PROVE  Refused(Append(times, t), rf, t)
<1> DEFINE more == Append(times, t)
<1>1. Len(more) = Len(times) + 1 /\ Len(times) \in Nat
  BY AppendProperties
<1>2. rf.after \in Int
  BY DEF Refused
<1> HIDE DEF more
<1>3. rf.after =< Len(more) /\ rf.after # Len(more)
  BY <1>1, <1>2 DEF Refused
<1> QED
  BY <1>3 DEF Refused, more

(* A bucket that is full keeps all its hits, and its oldest decides. *)
LEMMA FullRefused ==
  ASSUME NEW had, NEW times, NEW t \in Times, Bucket(had, times, t),
         NEW left, Popped(left, had, t), Len(left) >= Limit,
         Len(times) =< Cardinality(Requests), Cardinality(Requests) \in Nat,
         NEW rf, rf = [at |-> t, retry |-> (Span - (t - Head(left))) \div Second + 1,
                       after |-> Len(times)]
  PROVE  Refused(times, rf, t)
<1> DEFINE a == Len(times)
           old == times[a - Limit + 1]
           x == Span - (t - old)
<1>1. Bucket(left, times, t)
  BY LeftBucket
<1>2. /\ left \in Seq(Times) /\ Len(left) = Limit /\ a \in Nat /\ Limit =< a
      /\ Limit \in Nat \ {0} /\ Span \in Nat /\ t \in Nat
      /\ \A i \in 1..a : times[i] \in Nat /\ times[i] =< t
      /\ \A i \in 1..Limit : left[i] = times[a - Limit + i]
      /\ \A i \in 1..(a - Limit) : t - times[i] > Span
  <2>1. /\ left \in Seq(Times) /\ Len(left) = Limit /\ a \in Nat /\ Limit =< a
        /\ Limit \in Nat \ {0} /\ Span \in Nat /\ t \in Nat
    BY <1>1, Constants DEF Bucket, Times
  <2>2. \A i \in 1..a : times[i] \in Nat /\ times[i] =< t
    <3>1. times \in Seq(Times) /\ \A i \in 1..a : times[i] =< t
      BY <1>1 DEF Bucket
    <3>2. \A i \in 1..a : times[i] \in Times
      BY <3>1, ElementOfSeq
    <3> QED
      BY <3>1, <3>2 DEF Times
  <2>3. \A i \in 1..Limit : left[i] = times[a - Limit + i]
    BY <1>1, <2>1 DEF Bucket
  <2>4. \A i \in 1..(a - Limit) : t - times[i] > Span
    BY <1>1, <2>1 DEF Bucket
  <2> QED
    BY <2>1, <2>2, <2>3, <2>4
<1>3. left # <<>> /\ Head(left) = left[1]
  BY <1>2, EmptySeq
<1>4. Head(left) = old /\ a - Limit + 1 \in 1..a
  BY <1>2, <1>3
<1>5. t - old =< Span /\ old \in Nat /\ old =< t
  <2>1. had \in Seq(Times)
    BY DEF Bucket
  <2>2. t - left[1] =< Span
    BY <1>3, <2>1, LeftIs
  <2> QED
    BY <1>2, <1>3, <1>4, <2>2
<1> HIDE DEF a, old
<1>6. x \in Nat /\ x =< Span
  BY <1>2, <1>5
<1>7. x \div Second \in Nat /\ x \div Second =< Window /\ Window \in Nat
  BY <1>6, SecondsBound, Seconds, RateLimiterAssumption
<1>8. rf.at = t /\ rf.retry = x \div Second + 1 /\ rf.after = a
  BY <1>4 DEF a
<1>9. rf.retry \in 0..(Window + 1)
  BY <1>7, <1>8
<1>10. rf.after \in -1..Cardinality(Requests)
  BY <1>2, <1>8 DEF a
<1>11. rf \in [at : Times, retry : 0..(Window + 1), after : -1..Cardinality(Requests)]
  BY <1>8, <1>9, <1>10
<1> QED
  BY <1>2, <1>5, <1>8, <1>11 DEF Refused, a, old

-----------------------------------------------------------------------------
States == {"new", "admitted", "called", "answered", "refused", "rejected"}

(* The requests that the tier of bucket b has let pass for b. *)
Passed(b, p) ==
  {r \in Requests :
     IF b = Peer THEN p[r] \in {"called", "answered"}
     ELSE ClientOf[r] = b /\ p[r] \in {"admitted", "called", "answered", "rejected"}}

Counted(b, times, p) == Len(times) =< Cardinality(Passed(b, p))

Inv ==
  /\ now \in Times
  /\ hits = [b \in Buckets |-> hits[b]]
  /\ admitted = [b \in Buckets |-> admitted[b]]
  /\ refusal = [b \in Buckets |-> refusal[b]]
  /\ pc \in [Requests -> States] /\ remaining \in [Requests -> 0..Limit]
  /\ \A b \in Buckets :
       /\ Bucket(hits[b], admitted[b], now) /\ Refused(admitted[b], refusal[b], now)
       /\ Counted(b, admitted[b], pc)

LEMMA PassedFinite ==
  ASSUME NEW b, NEW p
  PROVE  /\ IsFiniteSet(Passed(b, p)) /\ Cardinality(Passed(b, p)) \in Nat
         /\ Cardinality(Requests) \in Nat
         /\ Cardinality(Passed(b, p)) =< Cardinality(Requests)
<1>1. IsFiniteSet(Requests) /\ Passed(b, p) \subseteq Requests
  BY RateLimiterAssumption DEF Passed
<1> QED
  BY <1>1, FS_Subset, FS_CardinalityType

LEMMA InitInv == Init => Inv
<1> SUFFICES ASSUME Init PROVE Inv
  OBVIOUS
<1>1. 0 \in Times /\ 0 \in 0..Limit /\ 0 \in 0..(Window + 1)
  BY RateLimiterAssumption DEF Times
<1>2. ASSUME NEW b \in Buckets
      PROVE  /\ Bucket(hits[b], admitted[b], now) /\ Refused(admitted[b], refusal[b], now)
             /\ Counted(b, admitted[b], pc)
  <2>1. hits[b] = <<>> /\ admitted[b] = <<>> /\ refusal[b] = NoRefusal /\ now = 0
    BY DEF Init
  <2>2. <<>> \in Seq(Times) /\ Len(<<>>) = 0
    OBVIOUS
  <2>3. Bucket(<<>>, <<>>, 0)
    BY <2>2, Constants DEF Bucket
  <2>4. Cardinality(Requests) \in Nat /\ Cardinality(Passed(b, pc)) \in Nat
    BY PassedFinite
  <2>5. Refused(<<>>, NoRefusal, 0)
    BY <1>1, <2>2, <2>4 DEF Refused, NoRefusal
  <2> QED
    BY <2>1, <2>2, <2>3, <2>4, <2>5 DEF Counted
<1>3. pc \in [Requests -> States] /\ remaining \in [Requests -> 0..Limit]
  BY <1>1 DEF Init, States
<1> QED
  BY <1>1, <1>2, <1>3 DEF Init, Inv

(* What a step of bucket b must keep. *)
LEMMA StepInv ==
  ASSUME Inv, NEW b \in Buckets, UNCHANGED <<now, remaining>>,
         NEW had, hits' = [hits EXCEPT ![b] = had],
         NEW times, admitted' = [admitted EXCEPT ![b] = times],
         NEW rf, refusal' = [refusal EXCEPT ![b] = rf],
         pc' \in [Requests -> States],
         \A d \in Buckets \ {b} : Passed(d, pc) \subseteq Passed(d, pc'),
         Bucket(had, times, now), Refused(times, rf, now), Counted(b, times, pc')
  PROVE  Inv'
<1>1. /\ hits' = [d \in Buckets |-> hits'[d]] /\ admitted' = [d \in Buckets |-> admitted'[d]]
      /\ refusal' = [d \in Buckets |-> refusal'[d]]
      /\ \A d \in Buckets : /\ hits'[d] = IF d = b THEN had ELSE hits[d]
                            /\ admitted'[d] = IF d = b THEN times ELSE admitted[d]
                            /\ refusal'[d] = IF d = b THEN rf ELSE refusal[d]
  BY DEF Inv
<1>2. ASSUME NEW d \in Buckets, d # b PROVE Counted(d, admitted[d], pc')
  <2>1. Len(admitted[d]) \in Nat /\ Len(admitted[d]) =< Cardinality(Passed(d, pc))
    BY DEF Inv, Counted, Bucket
  <2>2. IsFiniteSet(Passed(d, pc')) /\ Cardinality(Passed(d, pc')) \in Nat
        /\ Cardinality(Passed(d, pc)) \in Nat
    BY PassedFinite
  <2>3. Passed(d, pc) \in SUBSET Passed(d, pc')
    BY <1>2
  <2>4. Cardinality(Passed(d, pc)) =< Cardinality(Passed(d, pc'))
    BY <2>2, <2>3, FS_Subset
  <2> QED
    BY <2>1, <2>2, <2>4 DEF Counted
<1>3. ASSUME NEW d \in Buckets
      PROVE  /\ Bucket(hits'[d], admitted'[d], now) /\ Refused(admitted'[d], refusal'[d], now)
             /\ Counted(d, admitted'[d], pc')
  <2>1. CASE d = b
    BY <1>1, <2>1
  <2>2. CASE d # b
    BY <1>1, <1>2, <2>2 DEF Inv
  <2> QED
    BY <2>1, <2>2
<1> QED
  BY <1>1, <1>3 DEF Inv

LEMMA CurrentIs ==
  ASSUME Inv, NEW b \in Buckets
  PROVE  /\ Popped(Current(b), hits[b], now) /\ Bucket(Current(b), admitted[b], now)
         /\ Full(b) <=> Len(Current(b)) >= Limit
         /\ Len(Current(b)) \in Nat /\ Limit \in Nat
<1>1. Bucket(hits[b], admitted[b], now) /\ hits[b] \in Seq(Times) /\ now \in Times
  BY DEF Inv, Bucket
<1>2. Popped(Current(b), hits[b], now)
  BY <1>1, CurrentPopped
<1> QED
  BY <1>1, <1>2, LeftBucket, LeftIs, Constants DEF Full

(* A request gets from where it is to `to`. *)
LEMMA AdmitInv ==
  ASSUME Inv, NEW r \in Requests, NEW b \in Buckets, NEW to, Admit(r, b, to),
         \/ pc[r] = "new" /\ to = "admitted" /\ b = ClientOf[r]
         \/ pc[r] = "admitted" /\ to = "called" /\ b = Peer
  PROVE  Inv'
<1> DEFINE times == Append(admitted[b], now)
           had == Append(Current(b), now)
<1>1. /\ hits' = [hits EXCEPT ![b] = had] /\ admitted' = [admitted EXCEPT ![b] = times]
      /\ UNCHANGED <<now, remaining, refusal>> /\ pc' = [pc EXCEPT ![r] = to] /\ ~Full(b)
  BY DEF Admit, Inv
<1>2. now \in Times /\ admitted[b] \in Seq(Times) /\ pc \in [Requests -> States]
      /\ Refused(admitted[b], refusal[b], now)
  BY DEF Inv, Bucket
<1>3. Bucket(had, times, now) /\ Len(times) = Len(admitted[b]) + 1
  <2>1. Len(Current(b)) < Limit /\ Bucket(Current(b), admitted[b], now)
    BY <1>1, CurrentIs
  <2> QED
    BY <1>2, <2>1, AdmittedBucket
<1>4. Refused(times, refusal[b], now)
  BY <1>2, RefusedAdmitted
<1>5. Passed(b, pc') = Passed(b, pc) \cup {r} /\ r \notin Passed(b, pc)
      /\ \A d \in Buckets \ {b} : Passed(d, pc) \subseteq Passed(d, pc')
  <2>1. ClientOf[r] # Peer
    BY RateLimiterAssumption
  <2> QED
    BY <1>1, <1>2, <2>1 DEF Passed
<1>6. Counted(b, times, pc')
  <2>1. Len(admitted[b]) \in Nat /\ Len(admitted[b]) =< Cardinality(Passed(b, pc))
    BY <1>2 DEF Inv, Counted
  <2>2. IsFiniteSet(Passed(b, pc)) /\ Cardinality(Passed(b, pc)) \in Nat
    BY PassedFinite
  <2>3. Cardinality(Passed(b, pc')) = Cardinality(Passed(b, pc)) + 1
    BY <1>5, <2>2, FS_AddElement
  <2> QED
    BY <1>3, <2>1, <2>2, <2>3 DEF Counted
<1>7. pc' \in [Requests -> States]
  BY <1>1, <1>2 DEF States
<1>8. refusal' = [refusal EXCEPT ![b] = refusal[b]]
  BY <1>1 DEF Inv
<1> HIDE DEF times, had
<1> QED
  BY <1>1, <1>3, <1>4, <1>5, <1>6, <1>7, <1>8, StepInv

LEMMA RefuseInv ==
  ASSUME Inv, NEW r \in Requests, NEW b \in Buckets, NEW end, Refuse(r, b, end),
         \/ pc[r] = "new" /\ end = "refused"
         \/ pc[r] = "admitted" /\ end = "rejected"
  PROVE  Inv'
<1> DEFINE left == Current(b)
           rf == [at |-> now, retry |-> RetryAfter(Head(left)), after |-> Len(admitted[b])]
<1>1. /\ hits' = [hits EXCEPT ![b] = left] /\ refusal' = [refusal EXCEPT ![b] = rf]
      /\ UNCHANGED <<now, remaining, admitted>> /\ pc' = [pc EXCEPT ![r] = end] /\ Full(b)
  BY DEF Refuse
<1>2. now \in Times /\ pc \in [Requests -> States] /\ Bucket(hits[b], admitted[b], now)
  BY DEF Inv
<1>3. Popped(left, hits[b], now) /\ Bucket(left, admitted[b], now) /\ Len(left) >= Limit
  BY <1>1, CurrentIs
<1>4. \A d \in Buckets : Passed(d, pc) \subseteq Passed(d, pc')
  BY <1>1, <1>2 DEF Passed
<1>5. Len(admitted[b]) \in Nat /\ Len(admitted[b]) =< Cardinality(Passed(b, pc))
  BY DEF Inv, Counted, Bucket
<1>6. /\ Cardinality(Passed(b, pc)) \in Nat /\ Cardinality(Requests) \in Nat
      /\ Cardinality(Passed(b, pc)) =< Cardinality(Requests)
      /\ IsFiniteSet(Passed(b, pc')) /\ Cardinality(Passed(b, pc')) \in Nat
  BY PassedFinite
<1>7. Counted(b, admitted[b], pc')
  <2>1. Passed(b, pc) \in SUBSET Passed(b, pc')
    BY <1>4
  <2>2. Cardinality(Passed(b, pc)) =< Cardinality(Passed(b, pc'))
    BY <1>6, <2>1, FS_Subset
  <2> QED
    BY <1>5, <1>6, <2>2 DEF Counted
<1>8. Len(admitted[b]) =< Cardinality(Requests)
  BY <1>5, <1>6
<1>9. rf = [at |-> now, retry |-> (Span - (now - Head(left))) \div Second + 1,
            after |-> Len(admitted[b])]
  BY DEF RetryAfter, Span
<1> HIDE DEF left, rf
<1>10. Refused(admitted[b], rf, now)
  BY <1>2, <1>3, <1>6, <1>8, <1>9, FullRefused
<1>11. pc' \in [Requests -> States]
  BY <1>1, <1>2 DEF States
<1>12. admitted' = [admitted EXCEPT ![b] = admitted[b]]
  BY <1>1 DEF Inv
<1> QED
  BY <1>1, <1>3, <1>4, <1>7, <1>10, <1>11, <1>12, StepInv

LEMMA AnswerInv ==
  ASSUME Inv, NEW r \in Requests, Answer(r)
  PROVE  Inv'
<1>1. /\ pc[r] = "called" /\ pc' = [pc EXCEPT ![r] = "answered"]
      /\ remaining' = [remaining EXCEPT ![r] = Remaining(ClientOf[r])]
      /\ UNCHANGED <<now, hits, admitted, refusal>>
  BY DEF Answer
<1>2. ClientOf[r] \in Buckets
  BY RateLimiterAssumption DEF Buckets
<1>3. Remaining(ClientOf[r]) \in 0..Limit
  <2>1. Len(hits[ClientOf[r]]) \in Nat /\ Limit \in Nat
    BY <1>2, Constants DEF Inv, Bucket
  <2> QED
    BY <2>1 DEF Remaining
<1>4. remaining' \in [Requests -> 0..Limit] /\ pc' \in [Requests -> States]
  BY <1>1, <1>3 DEF Inv, States
<1>5. \A b \in Buckets : Passed(b, pc') = Passed(b, pc)
  BY <1>1 DEF Inv, Passed
<1>6. \A b \in Buckets : Counted(b, admitted[b], pc')
  BY <1>5 DEF Inv, Counted
<1> QED
  BY <1>1, <1>4, <1>6 DEF Inv

LEMMA TickInv ==
  ASSUME Inv, Tick
  PROVE  Inv'
<1>1. now \in Times /\ now' \in Times /\ now =< now'
      /\ UNCHANGED <<hits, pc, remaining, admitted, refusal>>
  BY Constants DEF Inv, Tick, Times
<1>2. ASSUME NEW b \in Buckets
      PROVE  Bucket(hits[b], admitted[b], now') /\ Refused(admitted[b], refusal[b], now')
  BY <1>1, Later, RefusedLater DEF Inv
<1> QED
  BY <1>1, <1>2 DEF Inv

LEMMA NextInv ==
  ASSUME Inv, [Next]_vars
  PROVE  Inv'
<1>1. ASSUME NEW r \in Requests, Arrive(r) PROVE Inv'
  <2>1. ClientOf[r] \in Buckets
    BY RateLimiterAssumption DEF Buckets
  <2> QED
    BY <1>1, <2>1, AdmitInv, RefuseInv DEF Arrive
<1>2. ASSUME NEW r \in Requests, Call(r) PROVE Inv'
  <2>1. Peer \in Buckets
    BY DEF Buckets
  <2> QED
    BY <1>2, <2>1, AdmitInv, RefuseInv DEF Call
<1>3. ASSUME NEW r \in Requests, Answer(r) PROVE Inv'
  BY <1>3, AnswerInv
<1>4. ASSUME Tick PROVE Inv'
  BY <1>4, TickInv
<1>5. ASSUME UNCHANGED vars PROVE Inv'
  BY <1>5 DEF vars, Inv
<1> QED
  BY <1>1, <1>2, <1>3, <1>4, <1>5 DEF Next

(* Inv is the inductive invariant: each bucket is what its admissions have  *)
(* left in the window, and each refusal was given with a full window.       *)
THEOREM Invariance == Spec => []Inv
<1>1. Init => Inv
  BY InitInv
<1>2. Inv /\ [Next]_vars => Inv'
  BY NextInv
<1> QED
  BY <1>1, <1>2, PTL DEF Spec

(* The variables have their types: no bucket ever holds more than Limit     *)
(* hits, Retry-After is at most a second more than the window and never     *)
(* negative (middleware.py:95-101).                                         *)
THEOREM Typed == Spec => []TypeOK
<1>1. Inv => TypeOK
  <2> SUFFICES ASSUME Inv PROVE TypeOK
    OBVIOUS
  <2>1. \A b \in Buckets : hits[b] \in Seq(Times) /\ Len(hits[b]) =< Limit
    BY DEF Inv, Bucket
  <2>2. admitted \in [Buckets -> Seq(Times)]
    BY DEF Inv, Bucket
  <2>3. refusal \in [Buckets -> [at : Times, retry : 0..(Window + 1),
                                 after : -1..Cardinality(Requests)]]
    BY DEF Inv, Refused
  <2> QED
    BY <2>1, <2>2, <2>3 DEF TypeOK, Inv, Times, States
<1> QED
  BY <1>1, Invariance, PTL

(* Any window of time holds at most Limit admitted requests of a key,       *)
(* wherever it starts: the deque of middleware.py:91-107 counts a sliding   *)
(* window and not a fixed one.                                              *)
THEOREM WindowSlides == Spec => []SlidingWindow
<1>1. Inv => SlidingWindow
  BY DEF Inv, Bucket, SlidingWindow, Span
<1> QED
  BY <1>1, Invariance, PTL

(* A 429 is given only with a full window, and its Retry-After              *)
(* (middleware.py:96) is enough and at most a second too much.              *)
THEOREM RetryAfterIsRight == Spec => []RetryAfterRight
<1>1. Inv => RetryAfterRight
  <2> SUFFICES ASSUME Inv, NEW b \in Buckets
               PROVE  refusal[b].after = Len(admitted[b]) =>
                        LET due == refusal[b].at + refusal[b].retry * Second
                        IN  /\ now = refusal[b].at => Cardinality(InWindow(b)) = Limit
                            /\ now >= due => Cardinality(InWindow(b)) < Limit
                            /\ now < due - Second => Cardinality(InWindow(b)) = Limit
    BY DEF RetryAfterRight
  <2>1. Right(admitted[b], refusal[b], now)
    BY RefusedRight DEF Inv
  <2>2. InWindow(b) = Within(admitted[b], now)
    BY DEF InWindow, Within, Span
  <2> QED
    BY <2>1, <2>2 DEF Right
<1> QED
  BY <1>1, Invariance, PTL

(* X-RateLimit-Remaining, computed from the deque as it is when the         *)
(* handler's answer comes back (middleware.py:108-110), never promises more *)
(* than the window has left at that moment.                                 *)
THEOREM RemainingIsThere == Spec => RemainingNotOverstated
<1> DEFINE Told == \A r \in Requests : pc[r] = "called" /\ pc'[r] = "answered" =>
                     remaining'[r] + Cardinality(InWindow(ClientOf[r])) =< Limit
<1>1. Inv /\ [Next]_vars => Told
  <2> SUFFICES ASSUME Inv, [Next]_vars, NEW r \in Requests,
                      pc[r] = "called", pc'[r] = "answered"
               PROVE  remaining'[r] + Cardinality(InWindow(ClientOf[r])) =< Limit
    OBVIOUS
  <2> DEFINE b == ClientOf[r]
             n == Cardinality(InWindow(b))
             h == Len(hits[b])
  <2>1. Answer(r)
    <3>1. pc' # pc /\ pc \in [Requests -> States]
      BY DEF Inv
    <3>2. PICK q \in Requests : Arrive(q) \/ Call(q) \/ Answer(q)
      BY <3>1 DEF Next, Tick, vars
    <3>3. q = r
      BY <3>1, <3>2 DEF Arrive, Call, Answer, Admit, Refuse
    <3> QED
      BY <3>1, <3>2, <3>3 DEF Arrive, Call, Admit, Refuse
  <2>2. remaining'[r] = Remaining(b)
    BY <2>1 DEF Answer, Inv
  <2>3. b \in Buckets
    BY RateLimiterAssumption DEF Buckets
  <2>4. Bucket(hits[b], admitted[b], now) /\ now \in Times
    BY <2>3 DEF Inv
  <2>5. n \in Nat /\ n =< h
    <3>1. h \in 0..Len(admitted[b]) /\ admitted[b] \in Seq(Times)
          /\ \A i \in 1..(Len(admitted[b]) - h) : now - admitted[b][i] > Span
      BY <2>4 DEF Bucket
    <3>2. InWindow(b) = Within(admitted[b], now)
      BY DEF InWindow, Within, Span
    <3> HIDE DEF h, b
    <3> QED
      BY <2>4, <3>1, <3>2, WithinSuffix
  <2>6. h \in Nat /\ h =< Limit /\ Limit \in Nat
    BY <2>4, Constants DEF Bucket
  <2>7. Remaining(b) = IF h >= Limit THEN 0 ELSE Limit - h
    BY DEF Remaining
  <2> HIDE DEF n, h
  <2>8. Remaining(b) + n =< Limit
    BY <2>5, <2>6, <2>7
  <2> QED
    BY <2>2, <2>8 DEF n
<1>2. Spec => [][Told]_vars
  BY <1>1, Invariance, PTL DEF Spec
<1> QED
  BY <1>2 DEF RemainingNotOverstated
=============================================================================
