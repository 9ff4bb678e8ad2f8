------------------------------ MODULE Registry ------------------------------
(***************************************************************************)
(* `firmscout registry sync` (internal/application/registry.go) over the   *)
(* registry tables (internal/adapters/postgres: vendor_repo.go,            *)
(* category_repo.go, product_repo.go) and the summary of each product.     *)
(*                                                                         *)
(* A sync walks the documents once per pass, one transaction per document; *)
(* it may stop between any two of them, and the next one starts over from  *)
(* whatever the checkout has become.  Publications refresh summaries in    *)
(* the meantime.  A row is identified by its slug, since an id is minted   *)
(* once for each.                                                          *)
(***************************************************************************)
EXTENDS Functions, RegistryFiles

CONSTANTS
    Checkouts,  \* what the checkout may hold: sequences of files of raw documents
    MaxSyncs

\* A raw document of a source is a record of all that one may say.
ASSUME RegistryAssumption ==
    /\ MaxSyncs \in Nat /\ Omitted \notin Slugs
    /\ \A files \in Checkouts : \A at \in Places(files) :
          LET d == files[at[1]][at[2]] IN d.kind = "source" => SourceFields \subseteq DOMAIN d

VARIABLES
    checkout,   \* the files, one of Checkouts
    vendors,    \* slug -> name
    categories, \* slug -> the slug of the parent, or Omitted
    families,   \* the set of <<vendor, slug>>
    products,   \* slug -> its row with its category memberships
    aliases,    \* slug of a product -> normalised alias -> the spelling that is kept
    edges,      \* slug of a product -> the products it runs
    sources,    \* <<vendor, slug>> -> its row
    summaries,  \* slug of a product -> its row of product_summaries
    docs,       \* the documents that the last sync loaded, by their place
    todo,       \* the visits that the sync under way has still to make
    outcome,    \* how the last sync ended
    syncs

tables == <<vendors, categories, families, products, aliases, edges, sources>>
vars == <<checkout, tables, summaries, docs, todo, outcome, syncs>>

PassesEdgesWithProducts ==
    << <<"vendors">>, <<"categories">>, <<"parents">>, <<"families">>,
       <<"products", "aliases", "edges">>, <<"sources">>, <<"summaries">> >>
PassesSummariesFirst ==
    << <<"vendors">>, <<"categories">>, <<"parents">>, <<"families">>,
       <<"products", "aliases">>, <<"summaries">>, <<"edges">>, <<"sources">> >>
\* The passes; products and their aliases are one, two transactions for each document.
Passes == << <<"vendors">>, <<"categories">>, <<"parents">>, <<"families">>,
             <<"products", "aliases">>, <<"edges">>, <<"sources">>, <<"summaries">> >>
PassesOf == [vendor |-> {"vendors"}, category |-> {"categories", "parents"},
             family |-> {"families"}, source |-> {"sources"},
             product |-> {"products", "aliases", "edges", "summaries"}]

\* A visit is one step of one pass at one document; each pass walks all documents in order.
Visits(loaded) ==
    UNION {[pass : {n}, at : DOMAIN loaded, step : DOMAIN Passes[n]] : n \in DOMAIN Passes}
Schedule(loaded) ==
    {v \in Visits(loaded) : Passes[v.pass][v.step] \in PassesOf[loaded[v.at].kind]}
Before(v, w) ==
    \/ v.pass < w.pass
    \/ v.pass = w.pass /\ Earlier(v.at, w.at)
    \/ v.pass = w.pass /\ v.at = w.at /\ v.step < w.step
\* The visit that comes next, if there is one.
Due == {v \in todo : \A w \in todo \ {v} : Before(v, w)}

Init ==
    /\ checkout \in Checkouts
    /\ vendors = <<>> /\ categories = <<>> /\ families = {} /\ products = <<>>
    /\ aliases = <<>> /\ edges = <<>> /\ sources = <<>> /\ summaries = <<>>
    /\ docs = <<>> /\ todo = {}
    /\ outcome = "none" /\ syncs = 0

\* ON CONFLICT DO UPDATE
Put(table, key, row) ==
    [k \in DOMAIN table \union {key} |-> IF k = key THEN row ELSE table[k]]

\* resolveVendor and resolveProduct remember what they found; a slug that has a row keeps it.
KnownVendor(v) == v \in DOMAIN vendors
KnownProduct(p) == p \in DOMAIN products
KnownFamily(v, f) == <<v, f>> \in families

-----------------------------------------------------------------------------
(* What the tables say of a product: RefreshProductSummary.                *)

SummaryOf(p) ==
    LET row == products[p]
    IN  [vendor |-> vendors[row.vendor], name |-> row.name, family |-> row.family,
         categories |-> row.categories, aliases |-> Range(aliases[p]),
         runs |-> {[slug |-> q, name |-> products[q].name] : q \in edges[p]}]

-----------------------------------------------------------------------------
(* The passes.                                                             *)

At(name, v) == Passes[v.pass][v.step] = name
Doc(v) == docs[v.at]
Key(d) == <<d.vendor, d.slug>>

Advance(v) ==
    /\ todo' = todo \ {v}
    /\ outcome' = IF todo' = {} THEN "ok" ELSE outcome
    /\ UNCHANGED <<checkout, docs, syncs>>

End(how) ==
    /\ todo' = {} /\ outcome' = how
    /\ UNCHANGED <<checkout, tables, summaries, docs, syncs>>

UpsertVendor(v) ==
    /\ At("vendors", v)
    /\ vendors' = Put(vendors, Doc(v).slug, Doc(v).name)
    /\ UNCHANGED <<categories, families, products, aliases, edges, sources, summaries>>
    /\ Advance(v)

PutCategory(slug, parent) == categories' = Put(categories, slug, parent)

\* The parent is cleared here and comes back in the second pass.
UpsertCategory(v) ==
    /\ At("categories", v)
    /\ PutCategory(Doc(v).slug, Omitted)
    /\ UNCHANGED <<vendors, families, products, aliases, edges, sources, summaries>>
    /\ Advance(v)

Parented(d) == d.parent = Omitted \/ (d.parent # d.slug /\ d.parent \in DOMAIN categories)
LinkParent(v) ==
    /\ At("parents", v)
    /\ Parented(Doc(v))
    /\ IF Doc(v).parent = Omitted THEN UNCHANGED categories ELSE PutCategory(Doc(v).slug, Doc(v).parent)
    /\ UNCHANGED <<vendors, families, products, aliases, edges, sources, summaries>>
    /\ Advance(v)

ValidFamily(d) == d.slug \in Slugs /\ d.name # Omitted
FamilyResolves(d) == KnownVendor(d.vendor) /\ ValidFamily(d)
PutFamily(v, f) == families' = families \union {<<v, f>>}
UpsertFamily(v) ==
    /\ At("families", v)
    /\ FamilyResolves(Doc(v))
    /\ PutFamily(Doc(v).vendor, Doc(v).slug)
    /\ UNCHANGED <<vendors, categories, products, aliases, edges, sources, summaries>>
    /\ Advance(v)

\* replaceCategories, in the transaction that writes the row
CategoriesKnown(slugs) == slugs \subseteq DOMAIN categories
ProductResolves(d) ==
    /\ KnownVendor(d.vendor)
    /\ d.family # Omitted => KnownFamily(d.vendor, d.family)
    /\ CategoriesKnown(d.categories)
\* No row of another table refers to a product that is new.
PutProduct(p, row) ==
    /\ products' = Put(products, p, row)
    /\ aliases' = IF p \in DOMAIN aliases THEN aliases ELSE Put(aliases, p, <<>>)
    /\ edges' = IF p \in DOMAIN edges THEN edges ELSE Put(edges, p, {})
UpsertProduct(v) ==
    /\ At("products", v)
    /\ ProductResolves(Doc(v))
    /\ PutProduct(Doc(v).slug, [vendor |-> Doc(v).vendor, family |-> Doc(v).family, name |-> Doc(v).name,
                             categories |-> Doc(v).categories])
    /\ UNCHANGED <<vendors, categories, families, sources, summaries>>
    /\ Advance(v)

\* Of spellings that normalise alike the first is kept.
FirstSpellings(spellings) ==
    [n \in {spellings[i].normal : i \in DOMAIN spellings} |->
        LET alike == {i \in DOMAIN spellings : spellings[i].normal = n}
        IN  spellings[CHOOSE i \in alike : \A j \in alike : i <= j].alias]
PutAliases(p, rows) == aliases' = Put(aliases, p, rows)
ReplaceAliases(v) ==
    /\ At("aliases", v)
    /\ PutAliases(Doc(v).slug, FirstSpellings(Doc(v).aliases))
    /\ UNCHANGED <<vendors, categories, families, products, edges, sources, summaries>>
    /\ Advance(v)

\* An edge to the product itself is invalid; one written twice breaks a unique key.
EdgesResolve(d) ==
    /\ \A q \in Range(d.runs) : KnownProduct(q) /\ q # d.slug
    /\ IsInjective(d.runs)
PutEdges(p, targets) == edges' = Put(edges, p, targets)
ReplaceRelationships(v) ==
    /\ At("edges", v)
    /\ EdgesResolve(Doc(v))
    /\ PutEdges(Doc(v).slug, Range(Doc(v).runs))
    /\ UNCHANGED <<vendors, categories, families, products, aliases, sources, summaries>>
    /\ Advance(v)

SourceResolves(d) ==
    /\ KnownVendor(d.vendor)
    /\ d.product # Omitted => KnownProduct(d.product)
\* The family's slug is written where the column wants an id of a family, and there is none
\* of that name.
Storable(d) == d.family = Omitted
\* A health that the running system has moved on from is kept.
UpsertSource(v) ==
    /\ At("sources", v)
    /\ SourceResolves(Doc(v)) /\ Storable(Doc(v))
    /\ sources' = Put(sources, Key(Doc(v)),
           [product |-> Doc(v).product, enabled |-> Doc(v).enabled, robots |-> Doc(v).robots,
            terms |-> Doc(v).terms,
            health |-> IF Key(Doc(v)) \in DOMAIN sources /\ sources[Key(Doc(v))].health # "discovered"
                       THEN sources[Key(Doc(v))].health ELSE Doc(v).health])
    /\ UNCHANGED <<vendors, categories, families, products, aliases, edges, summaries>>
    /\ Advance(v)

\* The code walks the ids it has written in the order of the ids; the order of the documents
\* stands for it, since a refresh reads no other summary.
RefreshSummary(v) ==
    /\ At("summaries", v)
    /\ summaries' = Put(summaries, Doc(v).slug, SummaryOf(Doc(v).slug))
    /\ UNCHANGED tables
    /\ Advance(v)

-----------------------------------------------------------------------------
(* The run around the passes.                                              *)

Refused(v) ==
    \/ At("parents", v) /\ ~Parented(Doc(v))
    \/ At("families", v) /\ ~FamilyResolves(Doc(v))
    \/ At("products", v) /\ ~ProductResolves(Doc(v))
    \/ At("edges", v) /\ ~EdgesResolve(Doc(v))
    \/ At("sources", v) /\ ~SourceResolves(Doc(v))
Refuse(v) == Refused(v) /\ End("refused")

\* The driver's answer, not the sync's.
ForeignKey(v) ==
    At("sources", v) /\ SourceResolves(Doc(v)) /\ ~Storable(Doc(v)) /\ End("foreign key")

\* A call fails or the process dies.
Stop == todo # {} /\ End("stopped")

Start ==
    /\ todo = {} /\ syncs < MaxSyncs
    /\ syncs' = syncs + 1
    /\ docs' = IF Loads(checkout) THEN Load(checkout) ELSE <<>>
    /\ todo' = Schedule(docs')
    /\ outcome' = IF ~Loads(checkout) THEN "unreadable"
                  ELSE IF todo' = {} THEN "ok" ELSE "none"
    /\ UNCHANGED <<checkout, tables, summaries>>

\* A pull changes the files; a sync under way has read its documents.
Pull ==
    /\ syncs < MaxSyncs
    /\ checkout' \in Checkouts \ {checkout}
    /\ UNCHANGED <<tables, summaries, docs, todo, outcome, syncs>>

\* A publication refreshes the summary of its product.
Publish ==
    /\ \E p \in DOMAIN products : summaries' = Put(summaries, p, SummaryOf(p))
    /\ UNCHANGED <<checkout, tables, docs, todo, outcome, syncs>>

Step(v) ==
    \/ UpsertVendor(v) \/ UpsertCategory(v) \/ LinkParent(v) \/ UpsertFamily(v)
    \/ UpsertProduct(v) \/ ReplaceAliases(v) \/ ReplaceRelationships(v) \/ UpsertSource(v)
    \/ RefreshSummary(v)
Next == Start \/ (\E v \in Due : Step(v) \/ Refuse(v) \/ ForeignKey(v)) \/ Stop \/ Pull \/ Publish

Spec == Init /\ [][Next]_vars

-----------------------------------------------------------------------------
(* Properties.                                                             *)

Documents(kind) == {at \in DOMAIN docs : docs[at].kind = kind}
Of(kind) == {docs[at] : at \in Documents(kind)}
Declared(kind) == {d.slug : d \in Of(kind)}

\* Nothing keeps two documents of one kind from having one name: the later of them counts.
Name(d) == IF d.kind \in {"family", "source"} THEN Key(d) ELSE d.slug
Lasts(at, among) ==
    \A other \in among : Name(docs[other]) = Name(docs[at]) => ~Earlier(at, other)
Lasting(kind) == {docs[at] : at \in {at \in Documents(kind) : Lasts(at, Documents(kind))}}
Linking == {at \in Documents("category") : docs[at].parent # Omitted}

TypeOK ==
    /\ checkout \in Checkouts
    /\ \A p \in DOMAIN products : /\ products[p].vendor \in DOMAIN vendors
                                  /\ products[p].categories \subseteq DOMAIN categories
    /\ DOMAIN aliases = DOMAIN products /\ DOMAIN edges = DOMAIN products
    /\ \A p \in DOMAIN edges : edges[p] \subseteq DOMAIN products \ {p}
    /\ DOMAIN summaries \subseteq DOMAIN products
    /\ \A k \in DOMAIN sources : k[1] \in DOMAIN vendors
    /\ todo \subseteq Schedule(docs)
    /\ outcome \in {"none", "ok", "refused", "foreign key", "stopped", "unreadable"}
    /\ syncs \in 0..MaxSyncs

\* A sync that ends well has made the tables say what its documents say, and nothing that
\* an earlier version of them said, whatever was stopped, retracted or refreshed before it:
\* an alias, an edge, a category or a parent that left the file has left the catalogue, and
\* every product is served under what the tables now say of it.
SyncedMeansDeclared ==
    outcome = "ok" =>
        /\ \A d \in Lasting("vendor") : vendors[d.slug] = d.name
        /\ \A at \in Linking : Lasts(at, Linking) => categories[docs[at].slug] = docs[at].parent
        /\ \A slug \in Declared("category") \ {docs[at].slug : at \in Linking} :
              categories[slug] = Omitted
        /\ \A d \in Of("family") : Key(d) \in families
        /\ \A d \in Lasting("product") :
              /\ products[d.slug] = [vendor |-> d.vendor, family |-> d.family, name |-> d.name,
                                     categories |-> d.categories]
              /\ DOMAIN aliases[d.slug] = {d.aliases[i].normal : i \in DOMAIN d.aliases}
              /\ edges[d.slug] = Range(d.runs)
              /\ d.slug \in DOMAIN summaries /\ summaries[d.slug] = SummaryOf(d.slug)
        /\ \A d \in Lasting("source") :
              /\ sources[Key(d)].product = d.product
              /\ sources[Key(d)].enabled = d.enabled
              /\ sources[Key(d)].robots = d.robots /\ sources[Key(d)].terms = d.terms

\* Something that neither the documents nor the catalogue has.
Dangles ==
    LET vs == Declared("vendor") \union DOMAIN vendors
        cs == Declared("category") \union DOMAIN categories
        fs == {Key(d) : d \in Of("family")} \union families
        ps == Declared("product") \union DOMAIN products
    IN  \/ \E d \in Of("category") : d.parent \notin {Omitted} \union (cs \ {d.slug})
        \/ \E d \in Of("family") : d.vendor \notin vs \/ ~ValidFamily(d)
        \/ \E d \in Of("product") :
              \/ d.vendor \notin vs \/ ~(d.categories \subseteq cs)
              \/ d.family # Omitted /\ <<d.vendor, d.family>> \notin fs
              \/ ~(Range(d.runs) \subseteq ps \ {d.slug}) \/ ~IsInjective(d.runs)
        \/ \E d \in Of("source") : \/ d.vendor \notin vs
                                   \/ d.product # Omitted /\ d.product \notin ps

\* The order of the files never decides whether a sync succeeds: one is refused only for
\* something that neither its documents nor the catalogue has, wherever it is declared.
RefusedOnlyForADangle == outcome = "refused" => Dangles

\* The sync is additive: what no document of it mentions stays as it is, and no row goes.
Spares(table, later, names) ==
    \A k \in DOMAIN table : k \in DOMAIN later /\ (k \notin names => later[k] = table[k])
LeavesTheRestAlone ==
    /\ Spares(vendors, vendors', Declared("vendor"))
    /\ Spares(categories, categories', Declared("category"))
    /\ families \subseteq families'
    /\ Spares(products, products', Declared("product"))
    /\ Spares(aliases, aliases', Declared("product"))
    /\ Spares(edges, edges', Declared("product"))
    /\ Spares(sources, sources', {Key(d) : d \in Of("source")})

\* A sync writes what its documents declare, all of it, and nothing else.
SyncWritesWhatIsDeclared == [][SyncedMeansDeclared' /\ LeavesTheRestAlone]_vars

\* A source that may be collected is one whose file said so, of robots and of terms: what a
\* file leaves out never permits anything (yaml.go).
OmissionNeverPermits ==
    \A k \in DOMAIN sources : PermitsCollection(sources[k]) =>
        \E files \in Checkouts : \E i \in DOMAIN files : \E j \in DOMAIN files[i] :
            LET d == files[i][j]
            IN  d.kind = "source" /\ Key(d) = k /\ Omitted \notin {d.robots, d.terms}

=============================================================================
