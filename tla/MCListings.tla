----------------------------- MODULE MCListings -----------------------------
(* The instances of Listings that TLC checks. *)
EXTENDS Listings, Sequences

\* A release of the product, observed at an instant, dated at a precision or not at all.
Release(date, precision, seen, channel) ==
    [date |-> date, precision |-> precision, seen |-> seen, channel |-> channel,
     products |-> {"p"}, kind |-> "firmware", recommended |-> FALSE, source |-> "feed"]

\* Months of two days, years of two months, a window of one year: it opens on day 3 at
\* first, in the evening of that day after a tick, and on day 4 after two.
Facts == <<Release(1, "year_only", 1, "stable"), Release(3, "exact_day", 3, "stable"),
           Release(1, "month_only", 7, "stable"), Release(0, "unknown", 6, "testing")>>
WhenCreated == <<2, 1, 2>>
Nothing == [releases |-> {}, published |-> {}, vendors |-> {}, added |-> {}, items |-> {}]
OneListing == {[Nothing EXCEPT !.releases = {1, 2}, !.published = Rels],
               [Nothing EXCEPT !.releases = {2, 4}, !.published = Rels],
               [Nothing EXCEPT !.vendors = {2, 4}, !.added = Slugs],
               [Nothing EXCEPT !.items = Items]}
=============================================================================
