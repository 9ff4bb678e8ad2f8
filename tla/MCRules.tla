------------------------------ MODULE MCRules ------------------------------
(***************************************************************************)
(* The questions that Rules is asked: small files, paths, histories, URLs, *)
(* configurations and documents, all combinations of each.                 *)
(***************************************************************************)
EXTENDS Rules, TLC

CONSTANTS private, public, private6, public6

MCV4Hosts == {private, public}
MCV6Hosts == {private6, public6}
MCDeniedHosts == {private, private6}
MCUnchangedFactor == [num |-> 27, den |-> 20]
MCFailureFactor == [num |-> 2, den |-> 1]
MCJitter == [num |-> 1, den |-> 20]

\* Lines that speak to agents, and rules of which the longest are equally long.
Agent(name) == [field |-> "user-agent", value |-> name]
Disallow(pattern) == [field |-> "disallow", value |-> pattern]
Lines == {Agent(<<"f">>), Agent(<<"f", "b">>), Agent(<<Star>>), Disallow(<<"/">>), Disallow(<<>>),
          Disallow(<<"/", Star, "a", Dollar>>), [field |-> "allow", value |-> <<"/", "a">>]}
Files == {<<Agent(<<"b">>)>> \o f : f \in SeqOf(Lines, 3)} \union [1..4 -> Lines]
Paths == {<<"/">> \o p : p \in SeqOf({"/", "a"}, 3)}
RobotsQuestions ==
    [kind : {"robots"}, lines : Files, token : {<<"f", "b", "x">>},
     path : {<<"/", "a">>, <<"/", "a", "/", "a">>, <<"/">>}]
PatternQuestions ==
    [kind : {"pattern"}, pattern : SeqOf({"/", "a", Star, Dollar}, 4), path : Paths]

MCHistories ==
    [configured : {0, 4, 672}, retryAfter : {0, 5000},
     outcome : {"unchanged", "changed", "unavailable", "rate_limited"},
     health : {"active", "broken", "authentication_required"}, recentlyChanged : BOOLEAN,
     unchanged : {0, 3, 24}, failures : {0, 2, 17, 30}, endOfLife : BOOLEAN,
     critical : BOOLEAN, popular : BOOLEAN, freshness : {0, 8}]
ScheduleQuestions == [kind : {"schedule"}, in : MCHistories]

MCGuards ==
    [allowedPorts : {{80, 443}, {}},
     exempt : {{}, {<<[form |-> "plain", host |-> private], 80>>, <<[form |-> "name", host |-> "dotless"], 443>>}},
     allowPrivate : BOOLEAN]
GuardQuestions ==
    [kind : {"guard"}, guard : MCGuards,
     url : [scheme : {"http", "https", "ftp"}, userinfo : BOOLEAN, host : Address \union Name,
            port : {0, 80, 8080}]]

-----------------------------------------------------------------------------
Says(parts, year, month, day, utcDay) ==
    [parts |-> parts, year |-> year, month |-> month, day |-> day, utc |-> utcDay]
On(year, month, day) == [year |-> year, month |-> month, day |-> day]
MCCalendar ==
    ("12 Aug 2026 -0700" :> Says({"day", "month", "year"}, 2026, 8, 12, On(2026, 8, 13)))
    @@ ("Aug 2026 +0200" :> Says({"month", "year"}, 2026, 8, 1, On(2026, 7, 31)))
    @@ ("12 Aug" :> Says({"day", "month"}, 0, 8, 12, On(0, 8, 12)))
    @@ ("2026" :> Says({"year"}, 2026, 1, 1, On(2026, 1, 1)))
    @@ ("1786579200" :> Says({"epoch"}, 2026, 8, 13, On(2026, 8, 13)))

Texts == {"", " ", "whole", "unmapped", "1", "2", "Stable", "Nightly", "stable", "n", "m", "RC",
          "soon", "product", "const"} \union DOMAIN MCCalendar
MCLower == [t \in Texts |-> CASE t = "Stable" -> "stable" [] t = "Nightly" -> "n" [] OTHER -> t]

Reads(selector) ==
    [value |-> "", selector |-> selector, attribute |-> FALSE, regex |-> "", multiple |-> "",
     map |-> Absent, transform |-> <<>>, layout |-> {}, precision |-> "", required |-> FALSE]
Labels == ("Stable" :> "stable") @@ ("Nightly" :> "n")
Badge == [Reads("badge") EXCEPT !.map = Labels]
Config ==
    [apiVersion |-> "firmscout.dev/v1alpha1", kind |-> "CollectorConfig", id |-> "c",
     vendor |-> "v", version |-> 1, engine |-> "html_selectors", product |-> "product", family |-> "",
     maxBytes |-> 0, timeout |-> 0, conditional |-> "", credentials |-> FALSE, section |-> "",
     strip |-> {}, replace |-> "", container |-> "entry", groups |-> {"v", "badge", "date"},
     releaseType |-> "firmware", fields |-> ("version" :> Reads("v")) @@ ("channel" :> Badge),
     channel |-> "", region |-> "", excerpt |-> "", base |-> 9, penalty |-> 1, floor |-> 3,
     every |-> 0, least |-> 0]
Element(tag, text) == [tag |-> tag, text |-> text, attr |-> Absent]

\* Fields that might load, and documents of every engine in which there is all that can be.
TriedFields ==
    [value : {"", "const"}, selector : {"", "v", "badge", Scope, "title", "other", "bad"},
     attribute : {FALSE}, regex : {"", "bad"}, multiple : {"", "error", "first", "last"},
     map : {Absent, Labels},
     transform : {<<>>, <<[name |-> "trim", arg |-> ""]>>, <<[name |-> "map", arg |-> ""]>>},
     layout : {{}}, precision : {""}, required : BOOLEAN]
Filled(tags) == {[i \in of |-> Element(tags[i], "Stable")] : of \in {1..n : n \in DOMAIN tags}}
LoadQuestions ==
    UNION {[kind : {"load"}, name : {"channel"}, containers : {Filled(tags)},
            config : {[Config EXCEPT !.engine = engine, !.container = IF engine = "rss_atom" THEN "" ELSE @,
                                     !.fields = ("channel" :> f) @@ ("version" :> [Reads("title") EXCEPT !.selector = of])]
                        : f \in TriedFields}]
            : <<engine, of, tags>> \in {<<"html_selectors", "v", <<"v", "badge", "title", "other">>>>,
                                        <<"text_regex", "v", <<"v", "badge">>>>,
                                        <<"rss_atom", "title", <<"title", "link">>>>}}

-----------------------------------------------------------------------------
Items ==
    [title : {"1", " "}, link : {"n"}, guid : {"", "m"}, description : {"", "soon"}, content : {"", "soon"},
     published : {"", "2026"}, updated : {"", "RC"}, category : {"", "Stable", "RC"},
     others : {<<>>, <<[href |-> "m", rel |-> "self", text |-> ""], [href |-> "2", rel |-> "enclosure", text |-> ""]>>}]
FeedConfigs ==
    {[Config EXCEPT !.engine = "rss_atom", !.container = container, !.maxBytes = bound,
        !.fields = ("version" :> Reads("title")) @@ ("channel" :> [Badge EXCEPT !.selector = "category"])
            @@ ("release_notes_url" :> Reads("link")) @@ ("product_hint" :> Reads(hint))
            @@ ("region" :> [Reads(place) EXCEPT !.required = TRUE])
            @@ ("release_date" :> [Reads("pub_date") EXCEPT !.precision = "year_only"])]
        : container \in {"auto"}, bound \in {0, 1}, hint \in {"guid", "description"},
          place \in {"content", Scope}}
FeedQuestions ==
    {[kind |-> "feed", config |-> c, feed |-> [root |-> "rss", entries |-> <<AsItem(i)>>],
      asEntries |-> <<AsEntry(i)>>] : c \in FeedConfigs, i \in Items}
    \union
    {[kind |-> "feed", config |-> c, feed |-> [root |-> "rss", entries |-> <<AsItem(i), AsItem(j)>>],
      asEntries |-> <<AsEntry(i), AsEntry(j)>>]
        : c \in FeedConfigs, <<i, j>> \in {s \in Items \X Items : s[1].title = "1" /\ s[1].link = s[2].guid}}

\* Of two selectors, one matches more of a page.
Selectors == {"page", "list"}
Entry(v, badges, date) ==
    [container |-> TRUE, sections |-> [s \in Selectors |-> 1],
     elements |-> <<Element("v", v)>> \o [i \in DOMAIN badges |-> Element("badge", badges[i])]
                    \o <<Element("date", date)>>]
DateField(layout, precision) == [Reads("date") EXCEPT !.layout = layout, !.precision = precision]
PageQuestions ==
    {[kind |-> "page", page |-> <<Entry("1", badges, date)>>,
      config |-> [Config EXCEPT !.engine = IF Len(badges) > 1 THEN @ ELSE engine, !.fields =
            ("version" :> Reads("v")) @@ ("channel" :> [Badge EXCEPT !.multiple = multiple])
            @@ ("release_date" :> DateField(layout, precision))]]
        : badges \in SeqOf({"", "Stable", "Nightly", "RC"}, 2), multiple \in {"", "first"},
          engine \in {"html_selectors", "text_regex"}, date \in DOMAIN MCCalendar \union {"soon"},
          layout \in {MCCalendar[t].parts : t \in DOMAIN MCCalendar} \union {{}},
          precision \in {"exact_day", "month_only", "year_only", "unknown"}}

Marked(of, words) ==
    [of EXCEPT !.elements = <<Element("v", words[1]), Element("badge", words[2]), Element("script", words[3])>>]
Blocks == [container : BOOLEAN, sections : {s \in [Selectors -> 0..2] : s["list"] < 2}, elements : {<<>>}]
Same == <<"1", "Stable", "n">>
Words == {Same, <<"2", "Stable", "n">>, <<"1", "Nightly", "n">>, <<"1", "Stable", "m">>}
Settings == [section : Selectors \union {""}, strip : {{}, {"badge"}}]
ChangeQuestions ==
    {[kind |-> "change", before |-> <<Marked(a, Same), Marked(b, Same)>>,
      after |-> <<Marked(a, x), Marked(b, y)>>, source |-> source,
      config |-> [Config EXCEPT !.section = own.section, !.strip = own.strip]]
        : a \in Blocks, b \in {block \in Blocks : block.container}, x \in Words,
          y \in {Same, <<"2", "Nightly", "n">>}, source \in Settings, own \in Settings}

MCQuestions ==
    RobotsQuestions \union PatternQuestions \union ScheduleQuestions \union GuardQuestions
    \union LoadQuestions \union FeedQuestions \union PageQuestions \union ChangeQuestions
=============================================================================
