------------------------------- MODULE Rules -------------------------------
(***************************************************************************)
(* The decisions that are computed and not kept: what robots.txt says,     *)
(* when a source is checked next, where the fetcher may connect to, what a *)
(* configuration is worth, what is read of a document and whether a change *)
(* of it is seen.  Each is asked one question and gives one answer, which  *)
(* the properties compare with what it ought to be, said another way.      *)
(***************************************************************************)
EXTENDS Robots, Schedule, Guard, Documents

CONSTANT Questions

Kinds == {"robots", "pattern", "schedule", "guard", "load", "feed", "page", "change"}
\* A schedule is asked of a history whose durations are numbers.
ASSUME RulesAssumption ==
    \A q \in Questions :
        /\ q.kind \in Kinds
        /\ q.kind = "schedule" => {q.in.configured, q.in.retryAfter, q.in.freshness} \subseteq Int

VARIABLES question, answer
rulesVars == <<question, answer>>

RulesInit == question \in Questions /\ answer = Absent

Asked(kind) == question.kind = kind /\ answer = Absent /\ UNCHANGED question

AskRobots == Asked("robots") /\ answer' = PolicyOf(question.lines, question.token, question.path)
AskPattern == Asked("pattern") /\ answer' = RobotsPathMatch(question.pattern, question.path)
AskSchedule == Asked("schedule") /\ answer' \in NextWaits(question.in)
AskGuard ==
    /\ Asked("guard")
    /\ answer' = [accepted |-> ValidateURL(question.guard, question.url),
                  reached |-> Reaches(question.guard, question.url)]
AskLoad ==
    /\ Asked("load")
    /\ answer' = IF NewRegistry(<<question.config>>) = Absent THEN [loaded |-> FALSE]
                 ELSE [loaded |-> TRUE,
                       read |-> {Resolve(question.config, container, question.name).is
                                    : container \in question.containers}]
AskFeed == Asked("feed") /\ answer' = ExtractFeed(question.config, question.feed)
AskPage ==
    /\ Asked("page")
    /\ LET matches == [i \in DOMAIN question.page |-> question.page[i].elements]
       IN  answer' = CASE ~LoadConfig(question.config) -> <<>>
                       [] LoadConfig(question.config) /\ question.config.engine = "text_regex" ->
                            ExtractText(question.config, matches)
                       [] OTHER -> ExtractHtml(question.config, question.page)
\* The hash is made with the settings of the source's row, the candidates with the collector's.
Seen(page) ==
    [hash |-> Normalize(TRUE, page, question.source.section, question.source.strip),
     candidates |-> ExtractHtml(question.config, page)]
AskChange == Asked("change") /\ answer' = [before |-> Seen(question.before), after |-> Seen(question.after)]

RulesNext ==
    \/ AskRobots \/ AskPattern \/ AskSchedule \/ AskGuard
    \/ AskLoad \/ AskFeed \/ AskPage \/ AskChange

RulesSpec == RulesInit /\ [][RulesNext]_rulesVars

AnswerTo(kind) == question.kind = kind /\ answer # Absent

-----------------------------------------------------------------------------
(***************************************************************************)
(* robots.txt, said line by line and place by place.                       *)
(***************************************************************************)

\* Whether the pattern from its i-th letter on matches the path from its j-th on.
MatchesFrom(pattern, path) ==
    LET matches[i \in 1..(Len(pattern) + 1), j \in 1..(Len(path) + 1)] ==
            IF i > Len(pattern) THEN TRUE
            ELSE IF pattern[i] = Star THEN \E k \in j..(Len(path) + 1) : matches[i + 1, k]
            ELSE IF pattern[i] = Dollar /\ i = Len(pattern) THEN j = Len(path) + 1
            ELSE j <= Len(path) /\ pattern[i] = path[j] /\ matches[i + 1, j + 1]
    IN  pattern # <<>> /\ matches[1, 1]

Agents(lines) == {i \in DOMAIN lines : lines[i].field = "user-agent"}
RuleLines(lines) == {i \in DOMAIN lines : lines[i].field \in {"allow", "disallow", "crawl-delay"}}

\* An agent line governs a rule unless another agent line stands between a rule and it.
Governs(lines, agent, rule) ==
    /\ agent < rule
    /\ \A other \in Agents(lines) :
        agent < other /\ other < rule => ~\E r \in RuleLines(lines) : agent < r /\ r < other

\* The agent lines that speak to the token: all of the longest name, or else all of "*".
Speaking(lines, token) ==
    LET named == {i \in Agents(lines) : lines[i].value \notin {<<>>, <<Star>>} /\ IsPrefix(lines[i].value, token)}
        stars == {i \in Agents(lines) : lines[i].value = <<Star>>}
    IN  IF named # {} THEN {i \in named : \A j \in named : Len(lines[j].value) <= Len(lines[i].value)}
        ELSE stars

\* They stand in one group: no rule comes between them.
Together(lines, agents) ==
    \A i, j \in agents : ~\E r \in RuleLines(lines) : i < r /\ r < j

Binding(lines, token, field, path) ==
    {r \in RuleLines(lines) :
        /\ lines[r].field = field
        /\ \E agent \in Speaking(lines, token) : Governs(lines, agent, r)
        /\ MatchesFrom(lines[r].value, path)}

\* No Disallow that governs the agent matches the path with a longer pattern than every Allow.
SaidToAllow(lines, token, path) ==
    \A d \in Binding(lines, token, "disallow", path) :
        \E a \in Binding(lines, token, "allow", path) : Len(lines[a].value) >= Len(lines[d].value)

\* RobotsSaysSo: a file read line by line, group after group, and matched segment by
\* segment, allows a path exactly when the lines that govern the agent do.  The exception is
\* a file that speaks to the agent in several groups, of which the code reads the first
\* (parseRobots, selectGroup, allows, robotsPathMatch).
RobotsSaysSo ==
    /\ AnswerTo("pattern") => answer = MatchesFrom(question.pattern, question.path)
    /\ AnswerTo("robots") /\ Together(question.lines, Speaking(question.lines, question.token)) =>
        answer.allows = SaidToAllow(question.lines, question.token, question.path)

\* Documented, and not so: groups of one agent are combined, as section 2.2.1 of RFC 9309 has
\* it, which the comment on selectGroup cites for what it does (robots.go:326).
GroupsAddUp ==
    AnswerTo("robots") => answer.allows = SaidToAllow(question.lines, question.token, question.path)

-----------------------------------------------------------------------------
(***************************************************************************)
(* Schedules and addresses.                                                *)
(***************************************************************************)

\* What was promised for a product, in the order of the promises.
Promise(in) ==
    Greatest(MinInterval,
        IF in.freshness > 0 THEN in.freshness
        ELSE IF in.popular THEN PopularFloor
        ELSE IF in.critical THEN Base(in) ELSE MaxInterval)

\* CommitmentsHold: failures, silence and end of life stretch the interval, and whatever they
\* stretch it to, the next check comes between the least and the greatest interval, and no
\* later than was promised unless a rule returned before the promises, jitter and all: it is
\* the jittered time that is stored (NextInterval, finalize; applyOutcome).
CommitmentsHold ==
    AnswerTo("schedule") =>
        /\ MinInterval <= answer /\ answer <= Jittered(MaxInterval)
        /\ ~Final(Rule(question.in)) => answer <= Jittered(Promise(question.in))

\* Documented, and not so: a paid freshness is never exceeded but for a Retry-After
\* (scheduling.go:72 and :87-92).  Jitter is added behind it, and two more rules return
\* before it.
FreshnessIsKept ==
    AnswerTo("schedule") /\ question.in.retryAfter = 0 /\ question.in.freshness >= MinInterval =>
        answer <= question.in.freshness

\* Documented, and not so: the exponent is bounded so that the multiplication cannot overflow
\* (scheduling.go:193), and so failures never bring a check forward.
FailuresNeverHasten ==
    AnswerTo("schedule") /\ Rule(question.in) = "failing" /\ Promise(question.in) = MaxInterval =>
        answer >= Clamped(Base(question.in))

\* GuardHolds: nothing in a denied range is connected to however its address is spelt and
\* whatever a name resolves to, unless the operator allows private ranges or exempts it as an
\* address; and a literal address is judged alike before the request and at the connection
\* (ValidateURL, CheckAddr).
GuardHolds ==
    AnswerTo("guard") =>
        LET url == question.url
            guard == question.guard
        IN  /\ \A a \in answer.reached : a.host \in DeniedHosts =>
                guard.allowPrivate \/ Exempt(guard, a, PortOf(url))
            /\ Literal(url.host) /\ url.scheme \in {"http", "https"} /\ ~url.userinfo =>
                (answer.accepted <=> answer.reached # {})

-----------------------------------------------------------------------------
(***************************************************************************)
(* Collectors.                                                             *)
(***************************************************************************)

\* LoadedReads: a configuration that loads has no field that is read of a document and that
\* nothing in any document could fill: what is refused when it loads is what no engine can
\* locate (validateField).
LoadedReads ==
    AnswerTo("load") /\ answer.loaded /\ question.config.fields[question.name].value = "" =>
        "value" \in answer.read

\* An item, written as each dialect writes it.
NoEntry == [title |-> "", links |-> <<>>, guid |-> "", id |-> "", description |-> "",
            summary |-> "", content |-> "", encoded |-> "", pubDate |-> "", published |-> "",
            updated |-> "", category |-> [term |-> "", text |-> ""],
            author |-> [name |-> "", text |-> ""]]
AsItem(i) ==
    [NoEntry EXCEPT !.title = i.title, !.links = <<[href |-> "", rel |-> "", text |-> i.link]>>,
        !.guid = i.guid, !.description = i.description, !.encoded = i.content,
        !.pubDate = i.published, !.category.text = i.category]
AsEntry(i) ==
    [NoEntry EXCEPT !.title = i.title,
        !.links = i.others \o <<[href |-> i.link, rel |-> "alternate", text |-> ""]>>,
        !.id = i.guid, !.summary = i.description, !.content = i.content,
        !.published = i.published, !.updated = i.updated, !.category.term = i.category]

\* DialectsAgree: one item makes the same candidate whether it is written in RSS or in Atom,
\* links to the feed itself and to attachments, and a later update, notwithstanding
\* (fieldText, linkText, categoryText, authorText).
DialectsAgree ==
    AnswerTo("feed") =>
        answer = ExtractFeed(question.config, [question.feed EXCEPT !.root = "feed",
                                                                    !.entries = question.asEntries])

Elements(tag) ==
    LET matching(block) == {i \in DOMAIN block.elements : block.elements[i].tag = tag}
    IN  UNION {{[of |-> b, text |-> question.page[b].elements[i].text] : i \in matching(question.page[b])}
                    : b \in DOMAIN question.page}

\* NothingIsGuessed: a channel is what the configuration says a label means that the page
\* has, and of several labels only one it was told to take (applyMap, FieldSpec.Multiple).
NothingIsGuessed ==
    AnswerTo("page") =>
        LET f == question.config.fields["channel"]
            labels == {e \in Elements("badge") : e.text \notin Blank}
        IN  \A i \in DOMAIN answer : answer[i].channel \notin Blank =>
                /\ \E e \in labels : e.text \in DOMAIN f.map /\ answer[i].channel = f.map[e.text]
                /\ f.multiple = "first" \/ Cardinality(labels) <= 1

\* DatesAreWritten: a date never says more, or other, than the source wrote: its year, month
\* and day are those of a text on the page, in the zone it was written in (parseDate).
DatesAreWritten ==
    AnswerTo("page") =>
        \A i \in DOMAIN answer :
            LET date == answer[i].released
            IN  date # UnknownDate =>
                    \E e \in Elements("date") :
                        LET says == Calendar[e.text]
                        IN  /\ e.text \in DOMAIN Calendar
                            /\ {"year", "epoch"} \intersect says.parts # {} /\ date.year = says.year
                            /\ date.precision \in {"exact_day", "month_only"} =>
                                {"month", "epoch"} \intersect says.parts # {} /\ date.month = says.month
                            /\ date.precision = "exact_day" =>
                                {"day", "epoch"} \intersect says.parts # {} /\ date.day = says.day

\* ExtractionIsFaithful: a configuration that loads reads something, and what is read of a page
\* is what the page says (validateField, buildCandidate).
ExtractionIsFaithful == LoadedReads /\ NothingIsGuessed /\ DatesAreWritten

\* What the hash of a source leaves out, its collector leaves out or does not ask for.
Covers(source, config) ==
    /\ source.section \in {"", config.section}
    /\ \A tag \in (DefaultStripped \union source.strip) \ config.strip :
            \A f \in DOMAIN config.fields : config.fields[f].selector # tag

ReadsAnother == AnswerTo("change") /\ answer.before.candidates # answer.after.candidates

\* ChangeIsSeen: when words of a page are replaced so that a collector would read something
\* else of it, the hash is another one too, as long as the row of the source, with which the
\* hash is made, leaves out no more than the configuration of its collector, which nothing
\* compares (Normalize, and containers of html_selectors; checksource.go:134-135).
ChangeIsSeen ==
    ReadsAnother /\ Covers(question.source, question.config) =>
        answer.before.hash # answer.after.hash

\* Documented, and not so: the section that is hashed is the section that is read
\* (html_selectors.go:123-126, config.go:147-152), and so a change is never missed.
EveryChangeIsSeen == ReadsAnother => answer.before.hash # answer.after.hash
=============================================================================
