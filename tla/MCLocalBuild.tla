----------------------------- MODULE MCLocalBuild -----------------------------
(* Articles of up to two parts, and of three that begin with a long text.   *)
(* 330 and 120 are just within the limit, a rest of 120 or of twice 59 is   *)
(* just long enough, 59 alone is too short.                                 *)
EXTENDS LocalBuild

Long == {Paragraph("r", 330), Paragraph("s", 500)}
Parts == {Heading("h"), Paragraph("p", 59), Paragraph("q", 120)} \cup Long
MCArticles == {a \in UNION {[1..n -> Parts] : n \in 0..3} : Len(a) = 3 => a[1] \in Long}
=============================================================================
