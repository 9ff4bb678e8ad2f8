----------------------------- MODULE MCGateway -----------------------------
(* The instance of Gateway that TLC checks. *)
EXTENDS Gateway

CONSTANTS k1, k2

\* Anonymous callers are not metered.  The meter and the cache share no state, so each has
\* deployments of its own: as many requests as it takes to exceed the quota by all that may
\* be under way and one, with the server's ids and with one id that is used again; two keys
\* that use the same id, one of them revoked; a month that ends; the caches.
Billing == [edge |-> None, metered |-> TRUE, quota |-> 1, callers |-> {k1}, fickle |-> {},
            ids |-> {None}, load |-> 5, months |-> 1]

SomeDeployments ==
    {Billing,
     [Billing EXCEPT !.quota = 2, !.ids = Chosen, !.load = 6],
     [Billing EXCEPT !.callers = {k1, k2}, !.fickle = {k1}, !.ids = Chosen, !.load = 3],
     [Billing EXCEPT !.ids = Ids, !.load = 2, !.months = 2]}
    \union {[Billing EXCEPT !.edge = e, !.metered = FALSE, !.callers = {k1, None},
                            !.fickle = {k1}, !.load = 3] : e \in Edge}
=============================================================================
