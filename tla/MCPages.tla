------------------------------ MODULE MCPages ------------------------------
(* The instances of Pages that TLC checks. *)
EXTENDS Pages, TLC

CONSTANTS u1, u2
UnitSymmetry == Permutations(Units)

Observed(products, channel, date, seen, recommended) ==
    [products |-> products, channel |-> channel, date |-> date, seen |-> seen,
     kind |-> "firmware", recommended |-> recommended, source |-> "feed"]

\* Two releases of one channel, the later found first; and what other installations exported:
\* one of another channel, one for two products, one for a product that is not registered here.
Facts ==
    1 :> Observed({"p"}, "stable", 2, 1, FALSE)
    @@ 2 :> Observed({"p"}, "stable", 1, 2, TRUE)
    @@ 3 :> Observed({"p"}, "", 0, 3, FALSE)
    @@ 4 :> Observed({"p", "q"}, "stable", 3, 4, FALSE)
    @@ 5 :> Observed({"elsewhere"}, "stable", 1, 5, FALSE)
AsLatest(r) == [id |-> r, withdrawn |-> FALSE, flags |-> Fact[r].products]
SomeFiles == {{AsLatest(3)}, {AsLatest(4)}, {AsLatest(4), AsLatest(5)}}
=============================================================================
