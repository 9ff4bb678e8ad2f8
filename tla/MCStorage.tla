----------------------------- MODULE MCStorage -----------------------------
(***************************************************************************)
(* Migration files the way their authors write them.                       *)
(***************************************************************************)
EXTENDS Storage

CONSTANTS o1, o2, w1, w2, h1, h2

Plain == <<Sql(<<Word, Semicolon>>)>>
Spread == <<Sql(<<Word, Comment, Semicolon>>), Sql(<<>>), Sql(<<Word, Semicolon, Comment, Quote>>)>>
\* A literal with a line's end and a semicolon in it.
Literal == <<Sql(<<Word, Quote, Semicolon>>), Sql(<<Word, Quote, Semicolon>>)>>
\* A function body with statements, an apostrophe and what looks like an annotation in it.
Body == <<Sql(<<Word, "$tag$", Quote, Semicolon>>), Sql(<<Word, "$$", Semicolon>>),
          Sql(<<"$tag$", Semicolon>>)>>
Open == <<Sql(<<Word>>)>>

Lines(statements) == FlattenSeq(statements)
Meaning(statements) == SelectSeq(Lines(statements), LAMBDA l : l.tokens # <<>>)
Remark == Sql(<<Comment, Quote, Word>>)

File(up, down) == [does |-> Meaning(up), text |->
    <<Remark, Annotation("up")>> \o Lines(up) \o <<Annotation("down")>> \o Lines(down)]
Block(up, down) == [does |-> Meaning(up), text |->
    <<Annotation("up"), Annotation("no transaction"), Annotation("begin"), Remark>> \o Lines(up)
      \o <<Annotation("end"), Annotation("down"), Annotation("begin")>> \o Lines(down)
      \o <<Annotation("end")>>]
\* The end of a block is forgotten.
Unended == [does |-> <<>>, text |-> <<Annotation("up"), Annotation("begin")>> \o Plain]

SomeFiles == <<
    <<File(<<Plain, Literal>>, <<Plain>>), File(<<Body, Open>>, <<Plain>>)>>,
    <<Block(<<Plain, Body, Spread>>, <<Plain>>), File(<<Spread, Plain>>, <<Literal>>)>>,
    <<File(<<Literal>>, <<Body>>), Unended>>,
    <<File(<<Plain>>, <<>>), File(<<Body>>, <<>>), File(<<Literal>>, <<Plain>>)>>>>

\* An older build beside the newest; in the end, the builds of two branches, which both have
\* the last file.
CarriesOf == [s \in DOMAIN SomeFiles |->
    IF s < 4 THEN [p \in Operators \union Workers |-> IF p = o2 THEN {1} ELSE {1, 2}]
    ELSE (o1 :> {1, 3} @@ o2 :> {2, 3} @@ w1 :> {1, 2, 3} @@ w2 :> {1, 3})]
=============================================================================
