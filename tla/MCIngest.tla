------------------------------ MODULE MCIngest ------------------------------
(***************************************************************************)
(* The instances of Ingest that TLC checks: which source reports which     *)
(* candidate, and what the candidates and the sources are like.            *)
(***************************************************************************)
EXTENDS Ingest

CONSTANTS s1, s2, c1, c2, c3, c4, v1, v2, v3

\* Source s2 reports c2, source s1 all others.
Reporters == [x \in Cands |-> IF x = c2 THEN s2 ELSE s1]
Peers == [s \in Sources |-> 1]
\* s2 is the manufacturer, s1 a source it outranks.
Ladder == [s \in Sources |-> IF s = s2 THEN 2 ELSE 1]
NamedAfterOneProduct == [x \in Cands |-> "unique"]
\* The name on c3 fits two products.
NamedLoosely == [x \in Cands |-> IF x = c3 THEN "ambiguous" ELSE "unique"]

\* s1 is behind s2 and catches up with it.
CatchingUp == [x \in Cands |-> IF x = c1 THEN v1 ELSE v2]
\* The sources never agree.
Disagreeing == [x \in Cands |-> CASE x = c1 -> v1 [] x = c2 -> v2 [] OTHER -> v3]

\* c1 is the older release; the vendor dates all of them.
Dated == [x \in Cands |-> IF x = c1 THEN 1 ELSE 2]
\* A step from c1 straight to c2 is doubted.
ALeap == {<<c1, c2>>}
=============================================================================
