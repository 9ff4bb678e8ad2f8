----------------------------- MODULE MCRegistry -----------------------------
(* The instances of Registry that TLC checks. *)
EXTENDS Registry, SequencesExt

Vendor(name) == [kind |-> "vendor", slug |-> "acme", name |-> name]
Category(slug, parent) == [kind |-> "category", slug |-> slug, name |-> "n", parent |-> parent]
Family(name) == [kind |-> "family", slug |-> "fam", vendor |-> "acme", name |-> name]
Product(slug, name, family, cats, alts, runs) ==
    [kind |-> "product", slug |-> slug, vendor |-> "acme", name |-> name, family |-> family,
     categories |-> cats, aliases |-> alts, runs |-> runs]
Source(slug, family, robots, terms) ==
    [kind |-> "source", slug |-> slug, vendor |-> "acme", family |-> family,
     product |-> IF family = Omitted THEN "os" ELSE Omitted, class |-> "official_manufacturer",
     official |-> TRUE, robots |-> robots, terms |-> terms, enabled |-> TRUE,
     health |-> Omitted]

Device(alts, runs) == Product("box", "n", "fam", {"leaf"}, alts, runs)
System(name) == Product("os", name, Omitted, {}, <<>>, <<>>)
Two == <<[alias |-> "BOX-1", normal |-> "box 1"], [alias |-> "box 1", normal |-> "box 1"]>>

\* One checkout whole, with a child category, a device and a source each before what it
\* names; the same the other way round; and what becomes of it.
Whole == << <<Category("leaf", "root"), Category("root", Omitted)>>, <<Family("n")>>,
            <<Device(Two, <<"os">>)>>, <<Source("feed", Omitted, "allowed", "approved")>>,
            <<System("n")>>, <<Vendor("n")>> >>
Retracted == << <<Category("leaf", Omitted), Category("root", Omitted)>>, <<Family("n")>>,
                <<Product("box", "n", Omitted, {}, <<>>, <<>>)>>, <<System("new")>>,
                <<Source("feed", Omitted, "allowed", Omitted)>>,
                <<Source("beta", Omitted, Omitted, "approved")>>, <<Vendor("new")>> >>
SomeCheckouts == {Whole, Reverse(Whole), Retracted,
    << <<System("n")>> >>,                                       \* on its own
    << <<Vendor("n"), Device(<<>>, <<"box">>)>> >>,              \* runs itself, or no family
    << <<Vendor("n"), System("n")>>, <<Family(Omitted)>> >>,     \* bad where nobody looked
    << <<Category("root", "leaf")>> >>, << <<Vendor("n")>>, <<>> >>,
    \* two documents of one name, and what only the first of them says
    << <<Vendor("n"), Vendor("new"), System("n")>>,
       <<Category("root", Omitted), Category("leaf", "root"), Category("leaf", Omitted)>>,
       <<Device(<<>>, <<"os">>), Product("box", "n", Omitted, {}, Two, <<>>)>>, <<Family("n")>> >>,
    \* a source for a family, which the schema of a source allows
    << <<Vendor("n")>>, <<Family("n")>>, <<Source("feed", "fam", "allowed", "approved")>> >>}
=============================================================================
