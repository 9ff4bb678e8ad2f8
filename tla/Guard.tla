-------------------------------- MODULE Guard --------------------------------
(***************************************************************************)
(* Where the fetcher may connect to (internal/adapters/fetch/ssrf.go): what *)
(* is refused of a URL, before a request is made and at each redirect, and *)
(* what is refused of an address, when the connection is about to be made. *)
(*                                                                         *)
(* An address is a host of IPv4 or IPv6 in one of several forms; the forms *)
(* other than "plain" are IPv6 addresses that wrap a host of IPv4.  A name *)
(* stands for every name of its kind; "numeric" are the spellings of an    *)
(* address that only a resolver understands.                               *)
(***************************************************************************)
EXTENDS Integers, FiniteSets

CONSTANTS
    V4Hosts, V6Hosts,   \* hosts of IPv4 and IPv6
    DeniedHosts         \* those in a denied range

ASSUME GuardAssumption == DeniedHosts \subseteq V4Hosts \union V6Hosts

Wrappers == {"mapped", "nat64", "local_nat64", "6to4"}
Address == [form : {"plain"}, host : V4Hosts \union V6Hosts] \union [form : Wrappers, host : V4Hosts]
Name == [form : {"name"}, host : {"public", "numeric", "dotless", "denied_suffix", "empty"}]
Literal(host) == host.form # "name"

\* A guard: the options NewGuard was given.  No allowed ports means any.
DefaultGuard == [allowedPorts |-> {80, 443}, exempt |-> {}, allowPrivate |-> FALSE]

\* Mutation: only the address itself, not what it wraps.
UnwrapNothing(address) == IF address.form = "plain" THEN {address.host} ELSE {}
\* The host to check an address for: its own, or the IPv4 host that it wraps (what wraps a
\* host is in no denied range itself).
UnwrapAddress(address) == {address.host}

CheckIP(guard, address) ==
    guard.allowPrivate \/ UnwrapAddress(address) \intersect DeniedHosts = {}

PortAllowed(guard, port) == guard.allowedPorts = {} \/ port \in guard.allowedPorts

\* The destination is exempt as it is written, a name or an address, and a port.
Exempt(guard, host, port) == <<host, port>> \in guard.exempt

\* net.Dialer.Control: the address is always a literal one.
CheckAddr(guard, network, address, port) ==
    /\ network \in {"tcp", "tcp4", "tcp6"}
    /\ \/ Exempt(guard, address, port)
       \/ CheckIP(guard, address) /\ PortAllowed(guard, port)

CheckHostname(guard, name) == guard.allowPrivate \/ name.host \in {"public", "numeric"}

PortOf(url) == IF url.port # 0 THEN url.port ELSE IF url.scheme = "https" THEN 443 ELSE 80

\* A literal host is held to the rules of addresses, any other to those of names.
ValidateURL(guard, url) ==
    /\ url.scheme \in {"http", "https"} /\ ~url.userinfo
    /\ \/ Exempt(guard, url.host, PortOf(url))
       \/ /\ IF Literal(url.host) THEN CheckIP(guard, url.host)
             ELSE CheckHostname(guard, url.host)
          /\ PortAllowed(guard, PortOf(url))

\* The addresses that the dialer may be given for a host.
Resolved(host) == IF Literal(host) THEN {host} ELSE Address

\* The addresses that a request for the URL may be sent to.
Reaches(guard, url) ==
    IF ValidateURL(guard, url)
    THEN {a \in Resolved(url.host) : CheckAddr(guard, "tcp", a, PortOf(url))} ELSE {}
=============================================================================
