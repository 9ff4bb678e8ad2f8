------------------------------ MODULE Collector ------------------------------
(***************************************************************************)
(* A collector: the configuration it is made from, and the candidates it   *)
(* makes of an artifact (internal/adapters/collectors).  The engines       *)
(* differ in how a value is located and agree on all that comes after.     *)
(*                                                                         *)
(* A text is a member of a small set, "" and " " among them.  A container  *)
(* is a sequence of elements [tag, text, attr], attr Absent where there is   *)
(* no such attribute.  The texts that can be read as a date have a meaning *)
(* in Calendar: the parts that are written, what they say, and the day it  *)
(* is in UTC.                                                              *)
(***************************************************************************)
EXTENDS Integers, Sequences, FiniteSets, SequencesExt, Functions

CONSTANTS
    Absent,
    Lower,          \* text -> strings.ToLower of it
    Calendar        \* the texts that say when -> what they say

Blank == {"", " "}
Engines == {"html_selectors", "text_regex", "rss_atom"}
FeedFields == <<"title", "link", "guid", "description", "content", "pub_date", "updated",
                "category", "author">>
FeedFieldNames == ToSet(FeedFields)
DateFields == {"release_date", "publication_date"}
KnownFields == DateFields \union {"version", "normalized_version", "channel", "product_hint",
                                  "release_notes_url", "hardware_revision", "region", "deployment_mode"}
ReleaseTypes == {"firmware", "bios", "bmc_firmware", "driver", "operating_system", "embedded_os",
                 "application_software", "saas_release", "management_platform", "security_update",
                 "documentation_only", "advisory", "unknown"}

-----------------------------------------------------------------------------
(***************************************************************************)
(* Loading a configuration (config.go).  Regular expressions and selectors *)
(* are names; "bad" is one that does not compile.                          *)
(***************************************************************************)

Compiles(pattern) == pattern # "bad"

ValidProductMatch(c) == (c.product = "") # (c.family = "")

ValidFetch(c) ==
    /\ c.maxBytes >= 0 /\ c.timeout >= 0
    /\ c.conditional \in {"", "auto", "etag_only", "last_modified_only", "none"}
    /\ ~c.credentials

\* A section and what is stripped from it are of a page of HTML; a feed is never rewritten.
ValidNormalize(c) ==
    /\ c.section # "" => c.engine = "html_selectors" /\ Compiles(c.section)
    /\ c.strip # {} => c.engine = "html_selectors" /\ \A selector \in c.strip : Compiles(selector)
    /\ c.replace # "" => c.engine # "rss_atom" /\ Compiles(c.replace)

ContainerOf(c) == IF c.engine = "rss_atom" /\ c.container = "" THEN "auto" ELSE c.container
ValidContainer(c) ==
    IF c.engine = "rss_atom" THEN ContainerOf(c) \in {"auto", "item", "entry"}
    ELSE c.container # "" /\ Compiles(c.container)

\* In tenths, and with what is taken for a number that is not given.
Given(value, default) == IF value = 0 THEN default ELSE value
Confidence(c) == [base |-> Given(c.base, 9), penalty |-> Given(c.penalty, 1), floor |-> Given(c.floor, 3)]
ValidConfidence(c) ==
    /\ Confidence(c).base \in 1..10 /\ Confidence(c).penalty \in 0..10
    /\ Confidence(c).floor \in 0..Confidence(c).base

ValidSchedule(c) ==
    /\ c.every >= 0 /\ c.least >= 0
    /\ c.every > 0 => c.every >= 60
    /\ c.every > 0 /\ c.least > 0 => c.every >= c.least

ValidTransform(step, f, name) ==
    CASE step.name \in {"trim", "lowercase", "uppercase"} -> step.arg = ""
      [] step.name \in {"strip_prefix", "strip_suffix"} -> step.arg # ""
      [] step.name \in {"regex_extract", "regex_replace"} -> step.arg # "" /\ Compiles(step.arg)
      [] step.name = "map" -> f.map # Absent /\ DOMAIN f.map # {}
      [] step.name = "parse_date" -> name \in DateFields
      [] OTHER -> FALSE

\* The declared precision against what the layout writes.  A layout is the set of its parts,
\* {} for none and {"epoch"} for a Unix timestamp.
ValidDate(f, name) ==
    IF name \notin DateFields THEN f.precision = "" /\ f.layout = {}
    ELSE CASE f.precision = "unknown" -> f.layout = {}
           [] f.precision \in {"exact_day", "month_only", "year_only"} /\ f.layout = {"epoch"} -> TRUE
           [] f.precision = "exact_day" /\ f.layout # {"epoch"} -> "day" \in f.layout
           [] f.precision = "month_only" /\ f.layout # {"epoch"} ->
                "day" \notin f.layout /\ "month" \in f.layout
           [] f.precision = "year_only" /\ f.layout # {"epoch"} -> "day" \notin f.layout
           [] OTHER -> FALSE

\* What happens to a value after it was obtained, read or declared.
ValidPipeline(f, name) ==
    /\ \A i \in DOMAIN f.transform : ValidTransform(f.transform[i], f, name)
    /\ f.map # Absent => DOMAIN f.map # {}
    /\ ValidDate(f, name)

Scope == ":scope"
Selects(c, selector) ==
    /\ selector \notin Blank
    /\ selector = Scope \/ CASE c.engine = "html_selectors" -> Compiles(selector)
                             [] c.engine = "text_regex" -> selector \in c.groups
                             [] c.engine = "rss_atom" -> selector \in FeedFieldNames

\* A field states a constant or reads the page.
ValidField(c, f, name) ==
    /\ name \in KnownFields
    /\ ValidPipeline(f, name)
    /\ IF f.value # "" THEN f.selector \in Blank /\ ~f.attribute /\ f.regex = "" /\ f.multiple = ""
       ELSE /\ Selects(c, f.selector)
            /\ f.multiple \in {"", "error"} \/ (f.multiple = "first" /\ c.engine = "html_selectors")
            /\ f.attribute => c.engine = "html_selectors"
            /\ f.regex # "" => Compiles(f.regex)

ValidExtract(c) ==
    /\ ValidContainer(c)
    /\ c.releaseType \in ReleaseTypes
    /\ "version" \in DOMAIN c.fields
    /\ c.channel # "" => "channel" \notin DOMAIN c.fields
    /\ \A name \in DOMAIN c.fields : ValidField(c, c.fields[name], name)
    /\ c.excerpt # "" => Selects(c, c.excerpt)
    /\ ValidConfidence(c)

LoadConfig(c) ==
    /\ c.apiVersion = "firmscout.dev/v1alpha1" /\ c.kind = "CollectorConfig"
    /\ c.id \notin Blank /\ c.vendor \notin Blank /\ c.version >= 1
    /\ c.engine \in Engines
    /\ ValidProductMatch(c) /\ ValidFetch(c) /\ ValidNormalize(c) /\ ValidExtract(c) /\ ValidSchedule(c)

\* LoadDir and NewRegistry: every file loads and no two claim one id, or nothing starts.
NewRegistry(configs) ==
    IF (\A i \in DOMAIN configs : LoadConfig(configs[i]))
       /\ IsInjective([i \in DOMAIN configs |-> configs[i].id])
    THEN {configs[i].id : i \in DOMAIN configs} ELSE Absent

\* The collector of a source is the one it names; trimmed for the look-up and not for Supports.
CollectorFor(registry, source) == IF source.collector \in registry THEN source.collector ELSE Absent

-----------------------------------------------------------------------------
(***************************************************************************)
(* Locating a value, engine by engine.                                     *)
(***************************************************************************)

Matches(container, selector) == SelectSeq(container, LAMBDA e : e.tag = selector)
Located(text) == [text |-> text, located |-> TRUE, ambiguous |-> FALSE]
Missing == [text |-> "", located |-> FALSE, ambiguous |-> FALSE]
Ambiguous == [Missing EXCEPT !.ambiguous = TRUE]

\* The text of the whole container: nothing, the one text in it, or "whole" for several.
Whole(container) ==
    LET written == SelectSeq(container, LAMBDA e : e.text \notin Blank)
    IN  CASE written = <<>> -> "" [] Len(written) = 1 -> Head(written).text [] OTHER -> "whole"

\* html_selectors: several matches are an error unless the first was asked for.
HtmlValue(container, f) ==
    LET matches == Matches(container, f.selector)
        Read(element) == IF ~f.attribute THEN Located(element.text)
                         ELSE IF element.attr = Absent THEN Missing ELSE Located(element.attr)
    IN  CASE f.selector = Scope -> IF f.attribute THEN Missing ELSE Located(Whole(container))
          [] f.selector # Scope /\ matches = <<>> -> Missing
          [] f.selector # Scope /\ Len(matches) > 1 /\ f.multiple # "first" -> Ambiguous
          [] OTHER -> Read(Head(matches))

\* text_regex: a group that took part in the match.
TextValue(container, f) ==
    LET groups == Matches(container, f.selector)
    IN  IF f.selector = Scope THEN Located(Whole(container))
        ELSE IF groups = <<>> THEN Missing ELSE Located(Head(groups).text)

\* rss_atom: an empty text is none at all, and the whole is four of the fields.
FeedValue(container, f) ==
    LET fields == Matches(container, f.selector)
        shown == SelectSeq(container, LAMBDA e : e.tag \in {"title", "link", "pub_date", "description"})
    IN  IF f.selector = Scope THEN Located(Whole(shown))
        ELSE IF fields = <<>> \/ Head(fields).text \in Blank THEN Missing ELSE Located(Head(fields).text)

\* fieldRaw: a constant never reaches an engine.
FieldRaw(c, container, f) ==
    IF f.value # "" THEN Located(f.value)
    ELSE CASE c.engine = "html_selectors" -> HtmlValue(container, f)
           [] c.engine = "text_regex" -> TextValue(container, f)
           [] c.engine = "rss_atom" -> FeedValue(container, f)

-----------------------------------------------------------------------------
(***************************************************************************)
(* From a text to a value (pipeline.go).                                   *)
(***************************************************************************)

Unmapped == "unmapped"
ApplyMap(map, text) ==
    CASE text \in DOMAIN map -> map[text]
      [] text \notin DOMAIN map /\ text \in Blank -> ""
      [] OTHER -> Unmapped

\* A regular expression keeps the text or matches nothing, and a text has nothing to strip,
\* to replace or to put in capitals; what has gone wrong stays wrong.
ApplyStep(f, text, step) ==
    CASE text = Unmapped -> Unmapped
      [] text # Unmapped /\ step.name = "trim" -> IF text \in Blank THEN "" ELSE text
      [] text # Unmapped /\ step.name = "lowercase" -> Lower[text]
      [] text # Unmapped /\ step.name = "regex_extract" -> IF step.arg = "nothing" THEN "" ELSE text
      [] text # Unmapped /\ step.name = "map" -> ApplyMap(f.map, text)
      [] OTHER -> text

\* The regex first, the steps in order, and the map at the end unless it was a step.
ApplyPipeline(f, raw) ==
    LET matched == IF f.regex = "nothing" THEN "" ELSE raw
        stepped == FoldLeft(LAMBDA text, step : ApplyStep(f, text, step), matched, f.transform)
        mapped == \E i \in DOMAIN f.transform : f.transform[i].name = "map"
    IN  IF f.map = Absent \/ mapped \/ stepped = Unmapped THEN stepped ELSE ApplyMap(f.map, stepped)

UnknownDate == [precision |-> "unknown", year |-> 0, month |-> 0, day |-> 0]

\* The constructors of domain.PartialDate.
NewDate(precision, year, month, day) ==
    IF year < 1970 \/ year > 2200 THEN UnknownDate
    ELSE [precision |-> precision, year |-> year,
          month |-> IF precision = "year_only" THEN 1 ELSE month,
          day |-> IF precision = "exact_day" THEN day ELSE 1]

\* Mutation: the instant is moved to UTC before its day is read.
ParseDateInUTC(text, layout, precision) ==
    IF text \in DOMAIN Calendar /\ Calendar[text].parts = layout
    THEN NewDate(precision, Calendar[text].utc.year, Calendar[text].utc.month, Calendar[text].utc.day)
    ELSE UnknownDate

\* The calendar the source wrote, and UTC for an instant that has none.  A part that the
\* layout lacks is what time.Parse makes of it: year 0, January, the first.
ParseDate(text, layout, precision) ==
    LET year == IF layout = {} THEN {"year"} ELSE layout
        when == Calendar[text]
    IN  IF text \notin DOMAIN Calendar \/ (layout = {} /\ precision # "year_only") THEN UnknownDate
        ELSE IF when.parts # year THEN UnknownDate
        ELSE IF layout = {"epoch"} THEN NewDate(precision, when.utc.year, when.utc.month, when.utc.day)
        ELSE NewDate(precision, when.year, when.month, when.day)

\* A date that cannot be read is unknown, and counts as a missing optional field.
ResolveDate(c, container, name) ==
    IF name \notin DOMAIN c.fields \/ c.fields[name].precision = "unknown"
    THEN [date |-> UnknownDate, missed |-> FALSE]
    ELSE LET f == c.fields[name]
             raw == FieldRaw(c, container, f)
             text == ApplyPipeline(f, raw.text)
             date == IF raw.ambiguous \/ ~raw.located \/ text \in Blank \union {Unmapped}
                     THEN UnknownDate ELSE ParseDate(text, f.layout, f.precision)
         IN  [date |-> date, missed |-> date = UnknownDate]

\* What becomes of one declared field: a value, nothing, or the end of the candidate.
Resolve(c, container, name) ==
    LET f == c.fields[name]
        raw == FieldRaw(c, container, f)
        text == ApplyPipeline(f, raw.text)
    IN  IF name \notin DOMAIN c.fields THEN [is |-> "undeclared", text |-> ""]
        ELSE IF raw.ambiguous \/ text = Unmapped THEN [is |-> "skipped", text |-> ""]
        ELSE IF raw.located /\ text \notin Blank THEN [is |-> "value", text |-> text]
        ELSE IF name = "version" \/ f.required THEN [is |-> "skipped", text |-> ""]
        ELSE [is |-> "missed", text |-> ""]

FirstNonEmpty(a, b) == IF a \notin Blank THEN a ELSE b

\* One container, one candidate or none, and the fields that there was a warning about (the
\* code stops at the first that ends the candidate).  Region is one of four such fields.
BuildCandidate(c, container) ==
    LET got == [name \in KnownFields \ DateFields |-> Resolve(c, container, name)]
        dates == [name \in DateFields |-> ResolveDate(c, container, name)]
        missed == {name \in DOMAIN got : got[name].is = "missed"}
                  \union {name \in DateFields : dates[name].missed}
        lowered == Confidence(c).base - Cardinality(missed) * Confidence(c).penalty
        hint == FirstNonEmpty(got["product_hint"].text, FirstNonEmpty(c.product, c.family))
    IN  IF \E name \in DOMAIN got : got[name].is = "skipped"
        THEN [candidate |-> Absent, warned |-> {name \in DOMAIN got : got[name].is = "skipped"}]
        ELSE [candidate |->
                [version |-> got["version"].text,
                 normalized |-> FirstNonEmpty(got["normalized_version"].text, Lower[got["version"].text]),
                 channel |-> IF got["channel"].is = "undeclared" THEN c.channel ELSE got["channel"].text,
                 hint |-> hint, region |-> FirstNonEmpty(got["region"].text, c.region),
                 notes |-> got["release_notes_url"].text, released |-> dates["release_date"].date,
                 confidence |-> IF lowered < Confidence(c).floor THEN Confidence(c).floor ELSE lowered],
              warned |-> missed]
=============================================================================
