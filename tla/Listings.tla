------------------------------ MODULE Listings ------------------------------
(***************************************************************************)
(* Reading the catalogue page by page while it changes: a product's        *)
(* release history under the window of the caller's plan, the directory of *)
(* vendors, and the queue of decisions that reviewers work through         *)
(* (internal/application/queries.go, review_queries.go, entitlements.go,   *)
(* internal/adapters/httpapi/handlers.go and the List statements of        *)
(* internal/adapters/postgres).                                            *)
(*                                                                         *)
(* Time is counted in half days, two instants to a day of UTC, so that a   *)
(* boundary may fall inside a day.  The calendar has DaysPerMonth days to  *)
(* every month; what AddDate does at the end of a short month is left out. *)
(* A page is a set of rows; in which order an answer shows them is left    *)
(* out, except that the cursor is not made of the row shown last.          *)
(***************************************************************************)
EXTENDS Integers, CatalogueRows

CONSTANTS
    Product,        \* the one whose history is read
    Slugs,          \* vendors there could be, as numbers in slug order
    Items,          \* review items, numbers in the order of their ids
    Created,        \* item -> when it was created
    Priorities,     \* the scores ScoreReview may give an item
    Scenes,         \* what is in the tables at first, and what may still come
    Plans, Channels, Asked,     \* what callers send: plan, channel or "", limit
    DefaultPage, MaxPage,
    DaysPerMonth, MonthsPerYear, WindowMonths,
    Start, Finish,  \* the instants the clock moves between
    MaxWalks, MaxRetargets

\* What a cursor holds of the last row of a page: its place in the order of the listing.
Lists == {"history", "vendors", "queue"}
Places(list) == CASE list = "history" -> [seen : Nat, id : Nat]
                  [] list = "vendors" -> Nat
                  [] list = "queue" -> [priority : Nat, created : Nat, id : Nat]

ASSUME ListingsAssumption ==
    /\ DefaultPage \in Nat \ {0} /\ MaxPage \in Nat \ {0} /\ DefaultPage <= MaxPage
    /\ DaysPerMonth \in Nat \ {0} /\ MonthsPerYear \in Nat \ {0} /\ WindowMonths \in Nat
    /\ Slugs \subseteq Nat /\ Items \subseteq Nat /\ Priorities \subseteq Nat /\ Asked \subseteq Int
    /\ \A i \in Items : Created[i] \in Nat
    /\ Start \in Nat /\ None \notin Int /\ \A list \in Lists : None \notin Places(list)
    /\ \A r \in Rels : Dated(r) => Fact[r].precision \in {"exact_day", "month_only", "year_only"}
    /\ \A scene \in Scenes :
        /\ scene.releases \subseteq Rels /\ IsFiniteSet(scene.releases)
        /\ scene.vendors \subseteq Slugs /\ scene.added \subseteq Slugs
        /\ scene.items \subseteq Items

VARIABLES
    now,
    catalogue,         \* the releases, as in CatalogueRows
    coming,     \* releases and vendors that may still be added
    vendors,    \* slugs of the vendors
    queue,      \* open item -> its priority_score
    walk,       \* one client's way through one listing
    answer,     \* the last page of a history, or None
    walks, retargets

listingsVars == <<now, catalogue, coming, vendors, queue, walk, answer, walks, retargets>>

NoWalk == [list |-> "none", at |-> "idle", plan |-> "", channel |-> "", limit |-> 1,
           cursor |-> None, seen |-> {}, twice |-> {}, there |-> {}, moved |-> {}, latest |-> None]

ListingsInit ==
    /\ now = Start
    /\ \E scene \in Scenes :
        /\ catalogue = [Empty EXCEPT !.releases = scene.releases,
                              !.flagged = {<<r, Product>> : r \in {First(scene.releases)} \ {None}}]
        /\ coming = [releases |-> scene.published, vendors |-> scene.added]
        /\ vendors = scene.vendors
        /\ queue \in [scene.items -> Priorities]
    /\ walk = NoWalk /\ answer = None /\ walks = 0 /\ retargets = 0

-----------------------------------------------------------------------------
(* Dates of three precisions, and the window of a plan.                    *)

DayOf(instant) == (instant \div 2) + 1
AddMonths(day, n) == day + n * DaysPerMonth

\* domain.PartialDate.PeriodEnd
PeriodEnd(r) ==
    CASE Fact[r].precision = "exact_day" -> Fact[r].date
      [] Fact[r].precision = "month_only" -> AddMonths(Fact[r].date, 1) - 1
      [] Fact[r].precision = "year_only" -> AddMonths(Fact[r].date, MonthsPerYear) - 1

Windowed(plan) == plan \notin {"professional", "enterprise", "internal"}
\* None where the plan has the whole archive.
HistoryWindow(plan) == IF Windowed(plan) THEN now - 2 * WindowMonths * DaysPerMonth ELSE None

WithinObserved(r, since) == since = None \/ Fact[r].seen >= since
\* The CASE of ListForProduct.
Within(r, since) ==
    \/ since = None
    \/ IF Dated(r) THEN PeriodEnd(r) >= DayOf(since) ELSE Fact[r].seen >= since

LatestOutsideWindow(latest, since) ==
    since # None /\ latest # None /\ Dated(latest) /\ PeriodEnd(latest) < DayOf(since)

-----------------------------------------------------------------------------
(* Keyset pages: the rows behind the cursor, in order, and the next cursor *)
(* when the page is full.                                                  *)

ClampLimit(asked) == IF asked <= 0 THEN DefaultPage ELSE IF asked > MaxPage THEN MaxPage ELSE asked

\* ORDER BY first_observed_at DESC, id DESC
Observed(k, l) == k.seen > l.seen \/ (k.seen = l.seen /\ k.id > l.id)
\* ORDER BY priority_score DESC, created_at, id
Sooner(k, l) ==
    \/ k.priority > l.priority
    \/ k.priority = l.priority /\ k.created < l.created
    \/ k.priority = l.priority /\ k.created = l.created /\ k.id < l.id

\* The place of a row in its listing, and which of two places comes first.
RowPlace(list, x) ==
    CASE list = "history" -> [seen |-> Fact[x].seen, id |-> x]
      [] list = "vendors" -> x
      [] list = "queue" -> [priority |-> queue[x], created |-> Created[x], id |-> x]
Ahead(list, k, l) ==
    CASE list = "history" -> Observed(k, l)
      [] list = "vendors" -> k < l
      [] list = "queue" -> Sooner(k, l)

Visible(list) == CASE list = "history" -> Mapped(catalogue, Product)
                   [] list = "vendors" -> vendors
                   [] list = "queue" -> DOMAIN queue
Behind(list, cursor) == {x \in Visible(list) : cursor = None \/ Ahead(list, cursor, RowPlace(list, x))}

\* The foremost of the rows, as many as the limit has room for.
Pages(list, rows, limit) ==
    {shown \in SUBSET rows :
        /\ \A x \in shown, y \in rows \ shown : Ahead(list, RowPlace(list, x), RowPlace(list, y))
        /\ IF Cardinality(rows) <= limit THEN shown = rows ELSE Cardinality(shown) = limit}

\* The row that the next cursor is made of.  A history is sorted once more for the answer,
\* after its cursor was made.
LastOfSorted(list, shown) ==
    {x \in shown : \A y \in shown \ {x} : IF list = "history" THEN LatestOrdering(y, x)
                                        ELSE Ahead(list, RowPlace(list, y), RowPlace(list, x))}
LastOf(list, shown) == {x \in shown : \A y \in shown \ {x} : Ahead(list, RowPlace(list, y), RowPlace(list, x))}

\* What the handler keeps of a page afterwards.
FilterReleases(shown, channel) == {r \in shown : channel = "" \/ Fact[r].channel = channel}

-----------------------------------------------------------------------------
(* The client.                                                             *)

\* The first request of a walk.  A slug of no product is a 404 and no walk.
BeginWalk(list, plan, channel, asked) ==
    /\ walk.at = "idle" /\ walks < MaxWalks
    /\ list # "history" => (plan = "" /\ channel = "")
    /\ walk' = [NoWalk EXCEPT !.list = list, !.at = "request", !.plan = plan, !.channel = channel,
                              !.limit = ClampLimit(asked), !.there = Visible(list)]
    /\ walks' = walks + 1 /\ answer' = None
    /\ UNCHANGED <<now, catalogue, coming, vendors, queue, retargets>>

\* lookupProduct: the summary is read before the page.
LookupProduct ==
    /\ walk.list = "history" /\ walk.at = "request"
    /\ walk' = [walk EXCEPT !.at = "list", !.latest = SummaryRow(catalogue, Product).latest]
    /\ UNCHANGED <<now, catalogue, coming, vendors, queue, answer, walks, retargets>>

\* One page is served; the client follows the cursor until there is none.
Turn(shown) ==
    LET full == Cardinality(shown) = walk.limit
        cursors == IF full THEN {RowPlace(walk.list, x) : x \in LastOf(walk.list, shown)} ELSE {None}
    IN  \E cursor \in cursors :
            walk' = [walk EXCEPT !.seen = @ \union shown, !.cursor = cursor,
                                 !.twice = @ \union (shown \intersect walk.seen),
                                 !.at = IF full THEN "request" ELSE "idle"]

ListReleases ==
    LET since == HistoryWindow(walk.plan)
        rows == {r \in Behind("history", walk.cursor) : Within(r, since)}
    IN  /\ walk.list = "history" /\ walk.at = "list"
        /\ \E shown \in Pages("history", rows, walk.limit) :
            /\ Turn(shown)
            /\ answer' = [releases |-> FilterReleases(shown, walk.channel), since |-> since,
                          outside |-> LatestOutsideWindow(walk.latest, since), latest |-> walk.latest]
        /\ UNCHANGED <<now, catalogue, coming, vendors, queue, walks, retargets>>

\* The other two listings have no window.
List(list) ==
    /\ walk.list = list /\ walk.at = "request"
    /\ \E shown \in Pages(list, Behind(list, walk.cursor), walk.limit) : Turn(shown)
    /\ UNCHANGED <<now, catalogue, coming, vendors, queue, answer, walks, retargets>>
ListVendors == List("vendors")
ListReviewItems == List("queue")

-----------------------------------------------------------------------------
(* What goes on meanwhile.                                                 *)

Tick ==
    /\ now < Finish /\ now' = now + 1
    /\ UNCHANGED <<catalogue, coming, vendors, queue, walk, answer, walks, retargets>>

\* PublishRelease commits.  The observation may be older than releases that are there.
Publish(r) ==
    /\ r \in coming.releases \ catalogue.releases
    /\ LET previous == LatestForProduct(catalogue, Product, Fact[r].channel)
           kept == {m \in catalogue.flagged : KeyOf(m[1], m[2]) # KeyOf(r, Product)}
       IN  catalogue' = [catalogue EXCEPT !.releases = @ \union {r},
                            !.flagged = IF BecomesLatest(r, previous) THEN kept \union {<<r, Product>>} ELSE @]
    /\ UNCHANGED <<now, coming, vendors, queue, walk, answer, walks, retargets>>

AddVendor(s) ==
    /\ s \in coming.vendors \ vendors /\ vendors' = vendors \union {s}
    /\ UNCHANGED <<now, catalogue, coming, queue, walk, answer, walks, retargets>>

\* ReviewRepo.Retarget gives an open item another score.
Retarget(i, priority) ==
    /\ i \in DOMAIN queue /\ priority # queue[i] /\ retargets < MaxRetargets
    /\ queue' = [queue EXCEPT ![i] = priority]
    /\ retargets' = retargets + 1
    /\ walk' = [walk EXCEPT !.moved = IF walk.list = "queue" THEN @ \union {i} ELSE @]
    /\ UNCHANGED <<now, catalogue, coming, vendors, answer, walks>>

\* A reviewer decides an item, or the pipeline closes it.
Resolve(i) ==
    /\ i \in DOMAIN queue
    /\ queue' = [j \in DOMAIN queue \ {i} |-> queue[j]]
    /\ walk' = [walk EXCEPT !.moved = IF walk.list = "queue" THEN @ \union {i} ELSE @]
    /\ UNCHANGED <<now, catalogue, coming, vendors, answer, walks, retargets>>

ListingsNext ==
    \/ \E list \in Lists, plan \in Plans \union {""}, channel \in Channels \union {""}, asked \in Asked :
        BeginWalk(list, plan, channel, asked)
    \/ LookupProduct \/ ListReleases \/ ListVendors \/ ListReviewItems
    \/ Tick
    \/ \E r \in Rels : Publish(r)
    \/ \E s \in Slugs : AddVendor(s)
    \/ \E i \in Items : Resolve(i) \/ \E priority \in Priorities : Retarget(i, priority)

ListingsSpec == ListingsInit /\ [][ListingsNext]_listingsVars /\ WF_listingsVars(LookupProduct \/ ListReleases \/ ListVendors \/ ListReviewItems)

-----------------------------------------------------------------------------
(* Properties.                                                             *)

ListingsTypeOK ==
    /\ now \in Nat
    /\ catalogue.releases \subseteq Rels /\ vendors \subseteq Slugs
    /\ DOMAIN queue \subseteq Items /\ \A i \in DOMAIN queue : queue[i] \in Priorities
    /\ walk.list \in Lists \union {"none"} /\ walk.at \in {"idle", "request", "list"}
    /\ walk.limit \in 1..MaxPage /\ walk.latest \in Rels \union {None}
    /\ walk.cursor # None => walk.list \in Lists /\ walk.cursor \in Places(walk.list)

\* Every day the vendor's date can mean.
Denoted(r) == Fact[r].date .. PeriodEnd(r)
Entitled(r, since) ==
    \/ since = None
    \/ IF Dated(r) THEN \E d \in Denoted(r) : d >= DayOf(since) ELSE Fact[r].seen >= since

\* A windowed page holds nothing that on every reading of its date lies before the window.
PageIsEntitled ==
    answer # None => \A r \in answer.releases : Entitled(r, answer.since)

\* latestOutsideWindow is never claimed of a release that the window holds, so no page of
\* the same answer can list the release it says cannot appear.
FlagAgreesWithPage ==
    answer # None /\ answer.outside =>
        ~Entitled(answer.latest, answer.since) /\ answer.latest \notin answer.releases

\* What an anonymous page holds, and what it says of what it withholds, is of one window.
WindowIsKept == PageIsEntitled /\ FlagAgreesWithPage

Finished == walk.list # "none" /\ walk.at = "idle"
Expected == {x \in walk.there \ walk.moved :
                walk.list = "history" => Entitled(x, HistoryWindow(walk.plan))}
\* A client that follows the cursors to the end has been shown everything that was there
\* when it began and kept its place, and nothing twice, whatever came in meanwhile.
WalkIsComplete ==
    /\ walk.twice \subseteq walk.moved
    /\ Finished => Expected \subseteq walk.seen

\* A client that follows the cursors gets to the end, whatever comes in between two pages,
\* and has then been shown everything once.
WalkDelivers == walk.at # "idle" ~> walk.at = "idle" /\ WalkIsComplete

=============================================================================
