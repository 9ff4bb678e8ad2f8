--------------------------- MODULE RegistryFiles ---------------------------
(***************************************************************************)
(* What the loader of the Git-managed registry makes of a file             *)
(* (internal/adapters/registry/yaml.go with the validation rules of        *)
(* internal/domain/catalog.go and source.go).                              *)
(*                                                                         *)
(* A raw document is a record of its kind's fields; a field that the file  *)
(* omits is Omitted.  A parsed document has the same shape with every      *)
(* default filled in.                                                      *)
(***************************************************************************)
EXTENDS Naturals, Sequences

CONSTANTS
    Omitted,
    Slugs        \* the names that ValidSlug accepts

OrDefault(v, default) == IF v = Omitted THEN default ELSE v
SlugOrOmitted == Slugs \union {Omitted}

Rejected == [kind |-> "rejected"]
Accept(ok, doc) == IF ok THEN doc ELSE Rejected

RobotsStatuses == {"allowed", "disallowed", "unknown", "not_applicable"}
TermsStatuses == {"pending", "approved", "restricted", "prohibited"}
OfficialClasses == {"official_manufacturer", "authorized_portal"}
Classes == OfficialClasses \union {"vendor_repository", "trusted_community", "unknown_third_party"}

ParseVendor(d) == Accept(d.slug \in Slugs /\ d.name # Omitted, d)

ParseCategory(d) ==
    Accept(d.slug \in Slugs /\ d.name # Omitted /\ d.parent \in SlugOrOmitted, d)

\* A family is not validated before the sync reaches it.
ParseFamily(d) == Accept(d.vendor # Omitted, d)

\* An alias that normalises to nothing is refused, an edge must have the shape of one; what
\* either names is the sync's business.
ParseProduct(d) ==
    Accept(/\ d.vendor # Omitted /\ d.slug \in Slugs /\ d.name # Omitted
           /\ \A i \in DOMAIN d.aliases : d.aliases[i].normal # Omitted
           /\ \A i \in DOMAIN d.runs : d.runs[i] \in Slugs,
           d)

SourceFields == {"kind", "slug", "vendor", "product", "family", "class", "official", "robots",
                 "terms", "enabled", "health"}
ParseSourceWillingly(d) ==
    LET s == [d EXCEPT !.robots = OrDefault(@, "allowed"),
                       !.terms = OrDefault(@, "pending"),
                       !.class = OrDefault(@, "unknown_third_party"),
                       !.enabled = OrDefault(@, FALSE),
                       !.health = OrDefault(@, "discovered")]
    IN  Accept(/\ s.vendor # Omitted /\ s.slug \in Slugs
               /\ s.robots \in RobotsStatuses /\ s.terms \in TermsStatuses
               /\ s.class \in Classes
               /\ s.official => s.class \in OfficialClasses
               /\ s.product = Omitted \/ s.family = Omitted,
               s)

\* What a file does not say of robots or terms reads as not known and not reviewed.
ParseSource(d) ==
    LET s == [d EXCEPT !.robots = OrDefault(@, "unknown"),
                       !.terms = OrDefault(@, "pending"),
                       !.class = OrDefault(@, "unknown_third_party"),
                       !.enabled = OrDefault(@, FALSE),
                       !.health = OrDefault(@, "discovered")]
    IN  Accept(/\ s.vendor # Omitted /\ s.slug \in Slugs
               /\ s.robots \in RobotsStatuses /\ s.terms \in TermsStatuses
               /\ s.class \in Classes
               /\ s.official => s.class \in OfficialClasses
               /\ s.product = Omitted \/ s.family = Omitted,
               s)

ParseDocument(d) ==
    CASE d.kind = "vendor" -> ParseVendor(d)
      [] d.kind = "category" -> ParseCategory(d)
      [] d.kind = "family" -> ParseFamily(d)
      [] d.kind = "product" -> ParseProduct(d)
      [] d.kind = "source" -> ParseSource(d)
      [] OTHER -> Rejected

\* Load: the documents of every file in the order of the paths; one that cannot be read, or
\* a file without any, and the sync has not written a thing.  A document is known by its
\* place: the file and which of its documents it is.
Loads(files) ==
    \A i \in DOMAIN files :
        /\ files[i] # <<>>
        /\ \A j \in DOMAIN files[i] : ParseDocument(files[i][j]) # Rejected
Places(files) == UNION {{i} \X DOMAIN files[i] : i \in DOMAIN files}
Load(files) == [at \in Places(files) |-> ParseDocument(files[at[1]][at[2]])]
Earlier(at, other) == at[1] < other[1] \/ (at[1] = other[1] /\ at[2] < other[2])

PermitsCollection(s) ==
    /\ s.robots \in {"allowed", "not_applicable"}
    /\ s.terms \in {"approved", "restricted"}
=============================================================================
