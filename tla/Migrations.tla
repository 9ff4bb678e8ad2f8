----------------------------- MODULE Migrations -----------------------------
(***************************************************************************)
(* How the migration runner reads a goose file                             *)
(* (internal/adapters/postgres/migrate.go).                                *)
(*                                                                         *)
(* A line is what it is as an annotation and the tokens in it that the     *)
(* runner looks for: the quote, the two dollar quotes a file may use, the  *)
(* comment sign, the semicolon, and anything else.                         *)
(***************************************************************************)
EXTENDS Naturals, Sequences, SequencesExt

Quote == "'"
DollarTags == {"$$", "$tag$"}
Comment == "--"
Semicolon == ";"
Word == "word"

Annotations == {"up", "down", "begin", "end", "no transaction", "unknown"}
Sql(tokens) == [ann |-> "none", tokens |-> tokens]
Annotation(a) == [ann |-> a, tokens |-> <<Comment, Word>>]

StartsWithComment(line) == line.tokens # <<>> /\ Head(line.tokens) = Comment

\* What is open after a token: nothing, a literal, a dollar quote, or the line is a comment.
ScanToken(open, token) ==
    CASE open = Comment -> Comment
      [] open # "" /\ token = open -> ""
      [] open = "" /\ token \in DollarTags \union {Quote, Comment} -> token
      [] OTHER -> open

\* Blind to literals: an apostrophe opens nothing.
ScanLineNoLiterals(line, open) ==
    LET last == FoldLeft(LAMBDA o, t : IF t = Quote THEN o ELSE ScanToken(o, t), open, line.tokens)
    IN  IF last = Comment THEN "" ELSE last

\* A comment lasts to the end of its line, a literal or a dollar quote beyond.
ScanLine(line, open) ==
    LET last == FoldLeft(ScanToken, open, line.tokens)
    IN  IF last = Comment THEN "" ELSE last

\* The text is cut at the first comment sign, be it inside a literal or not.
Code(line) ==
    LET signs == {i \in DOMAIN line.tokens : line.tokens[i] = Comment}
    IN  IF signs = {} THEN line.tokens
        ELSE SubSeq(line.tokens, 1, (CHOOSE i \in signs : \A j \in signs : i <= j) - 1)
EndsStatement(line) == Code(line) # <<>> /\ Last(Code(line)) = Semicolon

Reading == [section |-> "none", inBlock |-> FALSE, open |-> "", buf |-> <<>>,
            up |-> <<>>, down |-> <<>>, ok |-> TRUE]

\* A buffer with nothing but blank lines in it is no statement.
Flush(r) ==
    LET emptied == [r EXCEPT !.buf = <<>>]
    IN  IF \A i \in DOMAIN r.buf : r.buf[i].tokens = <<>> THEN emptied
        ELSE IF r.section = "down" THEN [emptied EXCEPT !.down = Append(@, r.buf)]
        ELSE [emptied EXCEPT !.up = Append(@, r.buf)]

Buffered(r, line) == [r EXCEPT !.buf = Append(@, line)]

ReadAnnotation(r, line) ==
    CASE line.ann \in {"up", "down"} -> [Flush(r) EXCEPT !.section = line.ann]
      [] line.ann = "begin" -> [Flush(r) EXCEPT !.inBlock = TRUE, !.ok = @ /\ ~r.inBlock]
      [] line.ann = "end" -> [Flush(r) EXCEPT !.inBlock = FALSE, !.ok = @ /\ r.inBlock]
      [] OTHER -> r

ReadSql(r, line) ==
    LET read == IF r.inBlock THEN Buffered(r, line)
                ELSE [Buffered(r, line) EXCEPT !.open = ScanLine(line, r.open)]
    IN  IF ~r.inBlock /\ read.open = "" /\ EndsStatement(line) THEN Flush(read) ELSE read

\* An annotation is one only where no literal is open; nothing counts before the first section.
ReadLine(r, line) ==
    IF r.open = "" /\ line.ann # "none" THEN ReadAnnotation(r, line)
    ELSE IF r.section = "none" THEN r
    ELSE IF r.open = "" /\ StartsWithComment(line) THEN Buffered(r, line)
    ELSE ReadSql(r, line)

ParseGoose(file) ==
    LET r == FoldLeft(ReadLine, Reading, file)
    IN  [Flush(r) EXCEPT !.ok = @ /\ ~r.inBlock]

\* One file that cannot be read, or has nothing to do, keeps the whole set from loading.
Loads(parsed) == parsed.ok /\ parsed.up # <<>>

\* PostgreSQL's own reading of a text: what is open after one more token of it.
LexToken(open, token) ==
    CASE open = Comment /\ token = "newline" -> ""
      [] open = "" /\ token \in DollarTags \union {Quote, Comment} -> token
      [] open # Comment /\ token = open -> ""
      [] OTHER -> open

\* A statement can be executed when every literal in it is closed.
WellFormed(statement) ==
    LET text == FlattenSeq([i \in DOMAIN statement |-> Append(statement[i].tokens, "newline")])
    IN  FoldLeft(LexToken, "", text) = ""
=============================================================================
