--------------------------- MODULE MCScopesAndEvents ---------------------------
(* Two components that compute with address blocks and share no state: the
   identity of scopes and services, and the enrichment of events.  A behaviour
   is one of either; the other stays where it began.  There are eight addresses. *)
EXTENDS ScopeIdentity, EventEnrichment

VARIABLE part  \* that moves

parts == <<part, scopeVars, vars>>

At(i) == <<i \div 4, (i \div 2) % 2, i % 2>>

-----------------------------------------------------------------------------
(* Scopes.                                                                 *)

MCHostNames == {"host"}

Address(i, six)      == [kind |-> "address", ip |-> At(i), mapped |-> six]
BlockOf(i, len, six) == [kind |-> "block", ip |-> At(i), length |-> len, mapped |-> six]
Name(upper, dot)     == [kind |-> "name", name |-> "host", upper |-> upper, dot |-> dot]

\* Spellings of one address, of a block of four and of a pair, of the
\* name, and a block that does not parse; alone and two together.
MCTargetLists ==
    {{Address(1, FALSE)}, {Address(1, TRUE)}, {Address(2, FALSE)},
     {BlockOf(0, 1, FALSE)}, {BlockOf(3, 1, FALSE)}, {BlockOf(3, 2, FALSE)},
     {BlockOf(3, 2, TRUE)}, {BlockOf(0, 4, FALSE)},
     {Name(FALSE, FALSE)}, {Name(TRUE, FALSE)}, {Name(TRUE, TRUE)},
     {Address(1, TRUE), Name(TRUE, TRUE)}, {Address(1, FALSE), Name(FALSE, FALSE)},
     {Address(1, FALSE), Address(1, TRUE), BlockOf(3, 2, FALSE)}}

\* One port, the same twice, a range that overlaps it, and the mistakes.
MCPortTexts == {<< <<1>> >>, << <<1>>, <<1>> >>, << <<1, 2>>, <<2>> >>,
                << <<0, 1>> >>, << <<2, 1>> >>, << <<3>> >>}

Everything   == Addresses \X (1 .. 2) \X {"tcp", "udp"}
MCListenings == {Everything, {e \in Everything : e[1] = At(1) \/ e[3] = "udp"}}

\* The resolver answers in full or not at all.
MCResolutions == [n \in MCHostNames |-> {{At(1), At(2)}, {}}]

-----------------------------------------------------------------------------
(* Events.                                                                 *)

Rule(i, len, tier, team) == [ip |-> At(i), length |-> len, criticality |-> tier, owner |-> team]

\* Rule files with nested, equal and missing rules, and one that does not parse.
MCRuleFiles ==
    {<< >>,
     <<Rule(0, 0, "low", ""), Rule(1, 3, "Tier-0", "secops"), Rule(0, 2, "tier-1", "infra")>>,
     <<Rule(2, 2, "tier-1", "infra"), Rule(3, 2, "tier-0", "secops"), Rule(0, 3, "", "infra")>>,
     <<Rule(1, 2, "tier-0", "secops"), Rule(1, 4, "tier-0", "secops")>>}

Report(banner, subject, tls, verified) ==
    [target |-> "web.example", banner |-> banner, subject |-> subject,
     tls |-> tls, verified |-> verified]

\* A plain service, one with each kind of TLS, and one with another certificate.
MCObservations ==
    {Report("x", "", "", FALSE),
     Report("x", "cert", "TLS 1.3", TRUE),
     Report("x", "cert", "TLS 1.3", FALSE),
     Report("x", "cert", "TLS 1.0", TRUE),
     Report("y", "cert", "TLS 1.0", FALSE)}

-----------------------------------------------------------------------------
\* The services whose events are watched are on the addresses 1, 3 and 4.
MCInit ==
    /\ part \in {"scopes", "events"}
    /\ ScopeInit /\ Init
    /\ part = "events" => listening = Everything
    /\ part = "scopes" => port = 23 /\ rules = << >>
    /\ ip \in IF part = "scopes" THEN {At(0)} ELSE {At(1), At(3), At(4)}

MCScopes == part = "scopes" /\ ScopeNext /\ UNCHANGED <<part, vars>>
MCEvents == part = "events" /\ Next      /\ UNCHANGED <<part, scopeVars>>

MCNext == MCScopes \/ MCEvents

MCSpec == MCInit /\ [][MCNext]_parts

\* Both components keep their shape: normalised scopes, loaded rules, records.
ScopesAndEventsTypeOK == ScopeTypeOK /\ TypeOK
=============================================================================
