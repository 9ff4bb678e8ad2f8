------------------------------- MODULE Robots -------------------------------
(***************************************************************************)
(* robots.txt as the fetcher reads it (internal/adapters/fetch/robots.go): *)
(* which group of a file applies to an agent, and what it allows.          *)
(*                                                                         *)
(* A name is a sequence of letters.  A line of a file is a record of a     *)
(* field and a value; a delay that does not parse is below zero.  Lines    *)
(* without a colon and unknown fields are of the field "other".            *)
(***************************************************************************)
EXTENDS Integers, Sequences, SequencesExt

Star == "*"
Dollar == "$"

-----------------------------------------------------------------------------
(***************************************************************************)
(* parseRobots.                                                            *)
(***************************************************************************)

NoGroup == [agents |-> <<>>, rules |-> <<>>, delay |-> 0]

\* What is read so far: the groups, and whether a rule came after the last user-agent line.
NothingRead == [groups |-> <<>>, sawRule |-> FALSE]

LastGroupAs(groups, group) == [groups EXCEPT ![Len(groups)] = group]

\* Consecutive user-agent lines share a group; one that follows a rule starts the next.
UserAgentLine(read, agent) ==
    LET groups == IF read.groups = <<>> \/ read.sawRule
                  THEN Append(read.groups, NoGroup) ELSE read.groups
        named == [Last(groups) EXCEPT !.agents = IF agent = <<>> THEN @ ELSE Append(@, agent)]
    IN  [groups |-> LastGroupAs(groups, named), sawRule |-> FALSE]

\* A rule outside any group is dropped, and so is an empty one, which ends the agents.
RuleLine(read, allow, pattern) ==
    LET ruled == [Last(read.groups) EXCEPT !.rules =
            IF pattern = <<>> THEN @ ELSE Append(@, [allow |-> allow, pattern |-> pattern])]
    IN  [groups |-> LastGroupAs(read.groups, ruled), sawRule |-> TRUE]

DelayLine(read, delay) ==
    LET delayed == [Last(read.groups) EXCEPT !.delay = IF delay < 0 THEN @ ELSE delay]
    IN  [groups |-> LastGroupAs(read.groups, delayed), sawRule |-> TRUE]

\* Mutation: every user-agent line starts a group of its own.
ReadLineAgentsApart(read, line) ==
    CASE line.field = "user-agent" ->
            UserAgentLine([read EXCEPT !.sawRule = TRUE], line.value)
      [] line.field \in {"allow", "disallow"} /\ read.groups # <<>> ->
            RuleLine(read, line.field = "allow", line.value)
      [] line.field = "crawl-delay" /\ read.groups # <<>> -> DelayLine(read, line.value)
      [] OTHER -> read

ReadLine(read, line) ==
    CASE line.field = "user-agent" -> UserAgentLine(read, line.value)
      [] line.field \in {"allow", "disallow"} /\ read.groups # <<>> ->
            RuleLine(read, line.field = "allow", line.value)
      [] line.field = "crawl-delay" /\ read.groups # <<>> -> DelayLine(read, line.value)
      [] OTHER -> read

ParseRobots(lines) == FoldLeft(ReadLine, NothingRead, lines).groups

-----------------------------------------------------------------------------
(***************************************************************************)
(* selectGroup, allows and robotsPathMatch.                                *)
(***************************************************************************)

\* The agents of a file that name the product token, as <<group, agent>> of indexes.
Naming(groups, token) ==
    {at \in UNION {{g} \X DOMAIN groups[g].agents : g \in DOMAIN groups} :
        LET agent == groups[at[1]].agents[at[2]]
        IN  agent # <<Star>> /\ token # <<>> /\ IsPrefix(agent, token)}

Wildcards(groups) == {g \in DOMAIN groups : Contains(groups[g].agents, <<Star>>)}

FirstOf(indexes) == CHOOSE i \in indexes : \A j \in indexes : i <= j

\* The longest agent decides, the first of equal length, and "*" only if there is none.
SelectGroup(groups, token) ==
    LET Length(at) == Len(groups[at[1]].agents[at[2]])
        named == Naming(groups, token)
        longest == {at \in named : \A other \in named : Length(other) <= Length(at)}
    IN  CASE named # {} -> groups[FirstOf({at[1] : at \in longest})]
          [] named = {} /\ Wildcards(groups) # {} -> groups[FirstOf(Wildcards(groups))]
          [] OTHER -> NoGroup

\* strings.Split(pattern, "*").
Segments(pattern) ==
    LET Cut(done, letter) ==
            IF letter = Star THEN Append(done, <<>>)
            ELSE [done EXCEPT ![Len(done)] = Append(@, letter)]
    IN  FoldLeft(Cut, <<<<>>>>, pattern)

\* The places of the path after the cursor where a segment may begin.
Places(segment, path, cursor) ==
    {i \in cursor..(Len(path) - Len(segment)) :
        SubSeq(path, i + 1, i + Len(segment)) = segment}

Lost == -1

\* One segment of the greedy walk: the cursor behind it, or Lost.
Walk(segments, anchored, path, cursor, n) ==
    LET segment == segments[n]
        places == Places(segment, path, cursor)
        Behind(i) == i + Len(segment)
    IN  CASE cursor = Lost -> Lost
          [] cursor # Lost /\ segment = <<>> -> cursor
          [] cursor # Lost /\ segment # <<>> /\ n = 1 ->
                IF 0 \in places THEN Behind(0) ELSE Lost
          [] cursor # Lost /\ segment # <<>> /\ n > 1 /\ anchored /\ n = Len(segments) ->
                IF Len(path) - Len(segment) \in places THEN Len(path) ELSE Lost
          [] OTHER -> IF places = {} THEN Lost ELSE Behind(FirstOf(places))

\* The cursor before the first segment and behind each.
Cursors(segments, anchored, path) ==
    LET cursor[n \in 0..Len(segments)] ==
            IF n = 0 THEN 0 ELSE Walk(segments, anchored, path, cursor[n - 1], n)
    IN  cursor

\* An anchored pattern ends with the path, or with a star before its "$", which leaves an
\* empty segment behind the last star.
SegmentsMatch(segments, anchored, path) ==
    LET last == Len(segments)
        cursor == Cursors(segments, anchored, path)[last]
    IN  /\ cursor # Lost
        /\ anchored /\ cursor # Len(path) => last > 1 /\ segments[last] = <<>>

RobotsPathMatch(pattern, path) ==
    LET anchored == pattern # <<>> /\ Last(pattern) = Dollar
        body == IF anchored THEN Front(pattern) ELSE pattern
    IN  pattern # <<>> /\ SegmentsMatch(Segments(body), anchored, path)

\* The longest matching pattern decides, and a tie goes to Allow.
Allows(group, path) ==
    LET matching(allow) == {i \in DOMAIN group.rules :
            group.rules[i].allow = allow /\ RobotsPathMatch(group.rules[i].pattern, path)}
    IN  \A i \in matching(FALSE) : \E j \in matching(TRUE) :
            Len(group.rules[j].pattern) >= Len(group.rules[i].pattern)

\* What a file says to an agent about a path; a file of no group allows everything.
PolicyOf(lines, token, path) ==
    LET group == SelectGroup(ParseRobots(lines), token)
    IN  [allows |-> Allows(group, path), delay |-> group.delay]
=============================================================================
