------------------------------ MODULE MCFetch ------------------------------
(***************************************************************************)
(* The instance of Fetcher that TLC checks: what three files of Robots say *)
(* to the fetcher's agent about the registered page.                       *)
(***************************************************************************)
EXTENDS Fetcher, Robots

Agent == <<"f", "s">>
Page == <<"/", "p">>
Line(field, value) == [field |-> field, value |-> value]
Anyone == Line("user-agent", <<Star>>)

\* Nothing but rules for others; everyone barred but from "/q"; ours slowed down.
Files == {
    <<Line("user-agent", <<"g">>), Line("disallow", <<"/">>)>>,
    <<Anyone, Line("user-agent", <<"f">>), Line("disallow", <<"/">>),
      Line("allow", <<"/", "q">>)>>,
    <<Anyone, Line("disallow", <<"/">>), Line("user-agent", Agent),
      Line("crawl-delay", 1)>>}

HostPolicies == {PolicyOf(file, Agent, Page) : file \in Files}
=============================================================================
