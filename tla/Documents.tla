----------------------------- MODULE Documents -----------------------------
(***************************************************************************)
(* The documents that collectors read: what change detection hashes of a   *)
(* page (internal/adapters/normalize), and the containers that each engine *)
(* finds in an artifact (internal/adapters/collectors).                    *)
(*                                                                         *)
(* A page is a sequence of blocks.  A block is the elements in it, whether *)
(* the container selector matches it, and for each section selector which  *)
(* of its sections the block is in or is, 0 for none.  White space separates the texts of elements,  *)
(* so that they are hashed one by one.                                     *)
(***************************************************************************)
EXTENDS Collector

CONSTANTS
    DefaultStripped,    \* the tags that are never hashed
    DefaultMaxBytes,    \* the containers that fit in an artifact unless it is configured
    MaxInput,           \* those that an engine reads at most
    MaxMatches          \* the containers an engine takes of one artifact

-----------------------------------------------------------------------------
(***************************************************************************)
(* Normalizer.Normalize.                                                   *)
(***************************************************************************)

NoMatch == <<"selector matched nothing">>

Collapsed(text) == IF text \in Blank THEN "" ELSE text
Written(texts) == SelectSeq(texts, LAMBDA t : t # "")
TextsOf(block) == Written([i \in DOMAIN block.elements |-> Collapsed(block.elements[i].text)])

Without(block, tags) ==
    [block EXCEPT !.elements = SelectSeq(@, LAMBDA e : e.tag \notin tags)]
Stripped(page, tags) == [i \in DOMAIN page |-> Without(page[i], tags)]

Sections(page, selector) == {page[i].sections[selector] : i \in DOMAIN page} \ {0}
AllTexts(page) == FlattenSeq([i \in DOMAIN page |-> TextsOf(page[i])])
SectionTexts(page, selector) ==
    LET inOrder == SetToSortSeq(Sections(page, selector), <)
    IN  [s \in DOMAIN inOrder |->
            AllTexts(SelectSeq(page, LAMBDA b : b.sections[selector] = inOrder[s]))]

\* What is hashed: only texts of HTML, of the sections if they are selected, and never of
\* nothing.  Anything that is not HTML is hashed as it is, but for white space.
Normalize(html, page, section, strip) ==
    LET kept == Stripped(page, DefaultStripped \union strip)
    IN  CASE ~html -> [i \in DOMAIN page |->
                        [page[i] EXCEPT !.elements =
                            [j \in DOMAIN @ |-> [@[j] EXCEPT !.text = Collapsed(@)]]]]
          [] html /\ section = "" -> AllTexts(kept)
          [] html /\ section # "" /\ Sections(kept, section) = {} -> NoMatch
          [] html /\ section # "" /\ Sections(kept, section) # {} ->
                SelectSeq(SectionTexts(kept, section), LAMBDA texts : texts # <<>>)

-----------------------------------------------------------------------------
(***************************************************************************)
(* A feed: its root, and its entries with the fields of both dialects.     *)
(***************************************************************************)

\* RSS writes a link as text, Atom as attributes.
PageLink(link) == link.rel \in {"", "alternate"} /\ (link.href \notin Blank \/ link.text \notin Blank)
\* Mutation: the first link, whatever it is for.
LinkTextFirst(links) ==
    IF links = <<>> THEN "" ELSE FirstNonEmpty(Head(links).href, Head(links).text)
LinkText(links) ==
    LET pages == SelectSeq(links, PageLink)
    IN  IF pages = <<>> THEN "" ELSE FirstNonEmpty(Head(pages).href, Head(pages).text)

FieldText(entry, name) ==
    CASE name \in {"title", "updated"} -> Collapsed(entry[name])
      [] name = "link" -> LinkText(entry.links)
      [] name = "guid" -> Collapsed(FirstNonEmpty(entry.guid, entry.id))
      [] name = "description" -> Collapsed(FirstNonEmpty(entry.description, entry.summary))
      [] name = "content" -> Collapsed(FirstNonEmpty(entry.encoded, entry.content))
      [] name = "pub_date" -> Collapsed(FirstNonEmpty(entry.pubDate, entry.published))
      [] name = "category" -> Collapsed(FirstNonEmpty(entry.category.text, entry.category.term))
      [] name = "author" -> Collapsed(FirstNonEmpty(entry.author.name, entry.author.text))

FeedContainer(entry) ==
    [i \in DOMAIN FeedFields |->
        [tag |-> FeedFields[i], text |-> FieldText(entry, FeedFields[i]), attr |-> Absent]]

-----------------------------------------------------------------------------
(***************************************************************************)
(* The containers of an artifact, and the candidates made of them.         *)
(***************************************************************************)

FirstOnes(s, n) == SubSeq(s, 1, IF Len(s) < n THEN Len(s) ELSE n)

\* Mutation: the whole page is searched.
HtmlContainersAnywhere(c, page) ==
    SelectSeq(Stripped(page, c.strip), LAMBDA b : b.container)
\* A container is in a section, or is one, when sections are selected.
HtmlContainers(c, page) ==
    SelectSeq(Stripped(page, c.strip), LAMBDA b : b.container /\ (c.section # "" => b.sections[c.section] # 0))

InputLimit(c) ==
    IF Given(c.maxBytes, DefaultMaxBytes) < MaxInput THEN Given(c.maxBytes, DefaultMaxBytes) ELSE MaxInput

\* A text is cut where the engine's bound is, and read as far as that.
TextContainers(c, body) == FirstOnes(FirstOnes(body, InputLimit(c)), MaxMatches)

\* A feed that was cut does not parse; another root or dialect has nothing to extract.
FeedContainers(c, feed) ==
    LET found == CASE feed.root = "rss" -> "item" [] feed.root = "feed" -> "entry" [] OTHER -> "neither"
    IN  IF Len(feed.entries) > InputLimit(c) \/ found = "neither"
           \/ ContainerOf(c) \notin {"auto", found}
        THEN <<>>
        ELSE LET taken == FirstOnes(feed.entries, MaxMatches)
             IN  [i \in DOMAIN taken |-> FeedContainer(taken[i])]

\* A container that makes no candidate is skipped.
ExtractFrom(c, containers) ==
    SelectSeq([i \in DOMAIN containers |-> BuildCandidate(c, containers[i]).candidate],
              LAMBDA candidate : candidate # Absent)

ExtractHtml(c, page) ==
    LET blocks == HtmlContainers(c, page)
    IN  ExtractFrom(c, [i \in DOMAIN blocks |-> blocks[i].elements])
ExtractText(c, body) == ExtractFrom(c, TextContainers(c, body))
ExtractFeed(c, feed) == ExtractFrom(c, FeedContainers(c, feed))
=============================================================================
