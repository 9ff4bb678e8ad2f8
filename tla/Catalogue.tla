----------------------------- MODULE Catalogue -----------------------------
(***************************************************************************)
(* What the ingestion pipeline promises to whoever reads the catalogue of  *)
(* one product and channel: releases are only ever added, each candidate   *)
(* becomes at most one, and the one marked as the latest is the newest by  *)
(* release date and then by when it was first observed.  Two exceptions    *)
(* are named, for a pipeline that reads before it writes: candidates that  *)
(* were contended for, and releases that were shelved blindly.             *)
(***************************************************************************)
EXTENDS Naturals, FiniteSets

CONSTANTS Cands, DateOf, None

VARIABLES
    seen,       \* when a candidate was first observed, 0 while it was not
    shelf,      \* release rows of a candidate
    newest,     \* the candidate whose release is marked as the latest
    contended,  \* candidates shelved while somebody else was at work on them
    blind       \* candidates shelved by somebody who had not seen the latest release

catalogueVars == <<seen, shelf, newest, contended, blind>>

Newer(c, d) == DateOf[c] > DateOf[d] \/ (DateOf[c] = DateOf[d] /\ seen[c] > seen[d])

CatalogueInit ==
    /\ seen = [c \in Cands |-> 0]
    /\ shelf = [c \in Cands |-> 0]
    /\ newest = None
    /\ contended = {} /\ blind = {}

\* Candidates of one extraction are observed at the same instant, after all others.
Observe(new) ==
    /\ \A c \in new : seen[c] = 0
    /\ \E instant \in 1..Cardinality(Cands) :
        /\ \A d \in Cands : seen[d] < instant
        /\ seen' = [c \in Cands |-> IF c \in new THEN instant ELSE seen[c]]
    /\ UNCHANGED <<shelf, newest, contended, blind>>

\* A second row only for what was contended for by then; the mark goes to the newer of
\* the release and the latest, but for a blind one, which may take it or leave it.
Shelve(c) ==
    /\ seen[c] > 0
    /\ shelf[c] > 0 => c \in contended
    /\ shelf' = [shelf EXCEPT ![c] = @ + 1]
    /\ contended' \in {contended, contended \union {c}}
    /\ \/ /\ newest' = IF newest = None \/ Newer(c, newest) THEN c ELSE newest
          /\ blind' = blind
       \/ /\ newest' \in {newest, c}
          /\ blind' = blind \union {c}
    /\ UNCHANGED seen

CatalogueNext ==
    \/ \E new \in SUBSET Cands : Observe(new)
    \/ \E c \in Cands : Shelve(c)

CatalogueSpec == CatalogueInit /\ [][CatalogueNext]_catalogueVars
=============================================================================
