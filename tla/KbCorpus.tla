------------------------------- MODULE KbCorpus -------------------------------
(***************************************************************************)
(* rag.chunk_document: an article is cut into chunks of whole paragraphs.  *)
(* A paragraph is a heading or a text of some length; the texts of a chunk *)
(* are joined by two characters.                                           *)
(***************************************************************************)
EXTENDS Integers, SequencesExt

MaxChunkChars == 450
MinChunkChars == 120

(* What an article may consist of. *)
Part == [heading : BOOLEAN, id : STRING, size : Nat]
Heading(title) == [heading |-> TRUE, id |-> title, size |-> 0]
Paragraph(id, size) == [heading |-> FALSE, id |-> id, size |-> size]
Chunk(section, texts) == [section |-> section, texts |-> texts]

Sizes(texts) ==
  LET sum[n \in 0..Len(texts)] == IF n = 0 THEN 0 ELSE sum[n - 1] + texts[n].size
  IN  sum[Len(texts)]
Joined(texts) == Sizes(texts) + 2 * (Len(texts) - 1)

(* One paragraph: a full buffer becomes a chunk, under the heading that was *)
(* seen last.                                                               *)
Pack(acc, p) ==
  IF p.heading THEN [acc EXCEPT !.section = p.id]
  ELSE IF acc.buf # <<>> /\ Sizes(acc.buf) + p.size > MaxChunkChars
  THEN [acc EXCEPT !.chunks = Append(@, Chunk(acc.section, acc.buf)), !.buf = <<p>>]
  ELSE [acc EXCEPT !.buf = Append(@, p)]

(* Seeded fault: a short rest is dropped. *)
FlushShortLost(acc) ==
  IF acc.buf = <<>> \/ (acc.chunks # <<>> /\ Joined(acc.buf) < MinChunkChars) THEN acc.chunks
  ELSE Append(acc.chunks, Chunk(acc.section, acc.buf))

(* The rest is a chunk of its own, or joins the last one if it is short. *)
Flush(acc) ==
  IF acc.buf = <<>> THEN acc.chunks
  ELSE IF acc.chunks # <<>> /\ Joined(acc.buf) < MinChunkChars
  THEN Append(Front(acc.chunks), [Last(acc.chunks) EXCEPT !.texts = @ \o acc.buf])
  ELSE Append(acc.chunks, Chunk(acc.section, acc.buf))

Unpacked == [chunks |-> <<>>, buf |-> <<>>, section |-> "none"]
ChunkDocument(content) ==
  LET packed[n \in 0..Len(content)] == IF n = 0 THEN Unpacked ELSE Pack(packed[n - 1], content[n])
  IN  Flush(packed[Len(content)])

-----------------------------------------------------------------------------
(* The paragraphs of an article, and those of its chunks. *)
Keep(kept, p) == IF p.heading THEN kept ELSE Append(kept, p)
Paragraphs(content) ==
  LET kept[n \in 0..Len(content)] == IF n = 0 THEN <<>> ELSE Keep(kept[n - 1], content[n])
  IN  kept[Len(content)]
Adjoin(texts, chunk) == texts \o chunk.texts
Texts(chunks) ==
  LET all[n \in 0..Len(chunks)] == IF n = 0 THEN <<>> ELSE Adjoin(all[n - 1], chunks[n])
  IN  all[Len(chunks)]

(* What retrieval relies on: the chunks hold every paragraph once and in    *)
(* order, none is cut; a chunk is within the limit but for a paragraph that *)
(* alone is over it and a short rest that joined; and a rule is parted from *)
(* the exception after it only if the two would be over the limit.          *)
Whole(content, chunks) ==
  /\ Texts(chunks) = Paragraphs(content)
  /\ \A i \in DOMAIN chunks :
       LET texts == chunks[i].texts IN
       \E n \in 1..Len(texts) :
         /\ n = 1 \/ Sizes(SubSeq(texts, 1, n)) <= MaxChunkChars
         /\ n = Len(texts) \/ Joined(SubSeq(texts, n + 1, Len(texts))) < MinChunkChars
  /\ \A i \in 1..(Len(chunks) - 1) :
       Sizes(chunks[i].texts) + Head(chunks[i + 1].texts).size > MaxChunkChars
=============================================================================
