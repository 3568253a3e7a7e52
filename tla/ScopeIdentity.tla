----------------------------- MODULE ScopeIdentity -----------------------------
(***************************************************************************)
(* What a scan is compared with, and what it probes: the identity of a     *)
(* scope (internal/scanner/scope.go) and of a service (service_identity.go)*)
(* composed with the reading of ports and targets (internal/utils/         *)
(* parser.go), over a series of scans that share one database.             *)
(*                                                                         *)
(* The two sides read the same text on their own.  The identity normalises *)
(* a target with net/netip and never asks the resolver; the scanner        *)
(* expands a block or looks a name up each time.  A scan is one step here: *)
(* LifecycleStore and ScanRuntime take it apart.  The digests are          *)
(* injective, so that an identity is the record that is hashed.            *)
(***************************************************************************)
EXTENDS AddressBlocks, Sequences, FiniteSetsExt

CONSTANTS HostNames,   \* of targets, in lower case and without the final dot
          Resolutions, \* the answers a lookup of each name may have
          MaxPort,     \* 65535
          TargetLists, \* sets of targets, as they are spelled
          PortTexts,   \* port specifications: sequences of parts, see below
          Listenings,  \* the services that answer
          MaxScans     \* bound: scans in a behaviour

ASSUME ResolutionsAssumption == Resolutions \in [HostNames -> SUBSET SUBSET Addresses]
ASSUME MaxPortAssumption     == MaxPort \in Nat \ {0}
ASSUME MaxScansAssumption    == MaxScans \in Nat

(***************************************************************************)
(* A target as it is spelled: an address and a block may be written as     *)
(* IPv4 or as IPv4 in IPv6, a name in any case and with a final dot.  A    *)
(* prefix length beyond the address makes a target that does not parse; of *)
(* length 0 the expansion does not end, and it is not modelled.            *)
(***************************************************************************)
SpelledAddresses == [kind : {"address"}, ip : Addresses, mapped : BOOLEAN]
SpelledBlocks    == [kind : {"block"}, ip : Addresses, length : 1 .. Bits + 1, mapped : BOOLEAN]
SpelledNames     == [kind : {"name"}, name : HostNames, upper : BOOLEAN, dot : BOOLEAN]
Spelled          == SpelledAddresses \cup SpelledBlocks \cup SpelledNames

ASSUME TargetListsAssumption == TargetLists \subseteq SUBSET Spelled
ASSUME PortTextsAssumption   == PortTexts \subseteq Seq(Seq(Nat) \ {<< >>}) \ {<< >>}

Malformed(target) == target.kind = "block" /\ target.length > Bits

\* A part of a port specification is one port or the two ends of a range.
PortsParse(text) ==
    \A i \in DOMAIN text :
        /\ text[i][1] <= text[i][Len(text[i])]
        /\ \A j \in DOMAIN text[i] : text[i][j] \in 1 .. MaxPort

\* The list of ports of a text that parses, as the pairs of a part and a port it
\* names: part by part and rising within one, with a port in each part it is in.
ParsePortRange(text) ==
    {mention \in (DOMAIN text) \X (1 .. MaxPort) :
        LET part == text[mention[1]] IN part[1] <= mention[2] /\ mention[2] <= part[Len(part)]}

PortsOf(mentions) == {mention[2] : mention \in mentions}

-----------------------------------------------------------------------------
\* Mutation: the host bits of a block stay.
normalizeScopeTarget_KeepsHostBits(target) ==
    CASE target.kind = "address" -> [target EXCEPT !.mapped = FALSE]
      [] target.kind = "name"    -> [target EXCEPT !.upper = FALSE, !.dot = FALSE]
      [] OTHER                   -> target

\* An address is unmapped, a block only masked; other text, a target that
\* does not parse included, is put in lower case and loses a final dot.
normalizeScopeTarget(target) ==
    CASE target.kind = "block" /\ ~Malformed(target)
                                 -> [target EXCEPT !.ip = Mask(@, target.length)]
      [] target.kind = "address" -> [target EXCEPT !.mapped = FALSE]
      [] target.kind = "name"    -> [target EXCEPT !.upper = FALSE, !.dot = FALSE]
      [] OTHER                   -> target

\* Sorted and without repetitions: sets.
canonicalTargets(targets) == {normalizeScopeTarget(t) : t \in targets}

\* Mutation: the ports are sorted, not deduplicated.
canonicalPorts_KeepsRepetitions(mentions) ==
    LET upto(m) == {n \in mentions : n[2] < m[2] \/ (n[2] = m[2] /\ n[1] <= m[1])} IN
    [i \in 1 .. Cardinality(mentions) |->
        (CHOOSE m \in mentions : Cardinality(upto(m)) = i)[2]]

\* The i-th of a set of ports is the one up to which there are i.
Ascending(ports) ==
    [i \in 1 .. Cardinality(ports) |->
        CHOOSE p \in ports : Cardinality({q \in ports : q <= p}) = i]

canonicalPorts(mentions) == Ascending(PortsOf(mentions))

\* Mutation: the digest is of all ports in one list.
ID_OneList(targets, tcp, udp) ==
    [targets |-> canonicalTargets(targets), tcp |-> canonicalPorts(tcp \cup udp), udp |-> << >>]

ID(targets, tcp, udp) ==
    [targets |-> canonicalTargets(targets), tcp |-> canonicalPorts(tcp),
     udp |-> canonicalPorts(udp)]

\* A service's key; the addresses of jobs are already unmapped.
Key(scope, ip, port, protocol) ==
    [scope |-> scope, ip |-> ip, port |-> port, protocol |-> protocol]

-----------------------------------------------------------------------------
VARIABLES listening, \* the services that answer, as <<address, port, protocol>>
          committed,  \* the database: the keys of committed services
          scans,     \* scans so far
          last       \* the last scan that completed; << >> before there is one

scopeVars == <<listening, committed, scans, last>>

CanonicalTargets ==
    [kind : {"address"}, ip : Addresses, mapped : {FALSE}]
        \cup {t \in SpelledBlocks : Malformed(t) \/ t.ip = Mask(t.ip, t.length)}
        \cup [kind : {"name"}, name : HostNames, upper : {FALSE}, dot : {FALSE}]

ScopeTypeOK ==
    /\ listening \in Listenings
    /\ \A key \in committed :
          /\ key.scope.targets \subseteq CanonicalTargets
          /\ \A ports \in {key.scope.tcp, key.scope.udp} :
                \A i, j \in DOMAIN ports : ports[i] \in 1 .. MaxPort /\ (i < j => ports[i] < ports[j])
          /\ key.ip \in Addresses /\ key.port \in 1 .. MaxPort
          /\ key.protocol \in {"tcp", "udp"}
    /\ scans \in 0 .. MaxScans

ScopeInit ==
    /\ listening \in Listenings
    /\ committed = {}
    /\ scans = 0
    /\ last = << >>

\* Services come and go between scans.
NetworkChange ==
    /\ listening' \in Listenings
    /\ UNCHANGED <<committed, scans, last>>

-----------------------------------------------------------------------------
\* An address and those that follow it, once round all of them.
Increments(ip) ==
    LET walk[k \in 0 .. Value(Ones) + 1] == IF k = 0 THEN ip ELSE incIP(walk[k - 1])
    IN  walk

\* The addresses a loop that begins with the first of a block has taken before
\* the increment leaves the block.
BlockWalk(network, length) ==
    LET walk  == Increments(network)
        turns == Min({k \in 1 .. Value(Ones) + 1 : Mask(walk[k], length) # network})
    IN  [k \in 1 .. turns |-> walk[k - 1]]

\* Mutation: a block of two loses its addresses too.
expandCIDR_Strict(ip, length) ==
    LET ips == BlockWalk(Mask(ip, length), length) IN
    IF Len(ips) >= 2 THEN SubSeq(ips, 2, Len(ips) - 1) ELSE ips

\* The first and the last address of more than two are not scanned.
expandCIDR(ip, length) ==
    LET ips == BlockWalk(Mask(ip, length), length) IN
    IF Len(ips) > 2 THEN SubSeq(ips, 2, Len(ips) - 1) ELSE ips

\* The addresses a line of the spool is turned into.
StreamTargets(target, answers) ==
    CASE Malformed(target)       -> {}
      [] target.kind = "address" -> {target.ip}
      [] target.kind = "name"    -> answers[target.name]
      [] OTHER                   -> Range(expandCIDR(target.ip, target.length))

\* A target that does not parse or resolve leaves the scan incomplete.
StreamFails(target, answers) ==
    Malformed(target) \/ (target.kind = "name" /\ answers[target.name] = {})

Probed(targets, tcp, udp, answers) ==
    LET ips == UNION {StreamTargets(t, answers) : t \in targets} IN
    (ips \X PortsOf(tcp) \X {"tcp"}) \cup (ips \X PortsOf(udp) \X {"udp"})

\* What the text of a target says, without the identity's normalisation.
Meaning(target) ==
    [names |-> IF target.kind = "name" THEN {target.name} ELSE {},
     ips   |-> CASE target.kind = "name"    -> {}
                 [] target.kind = "address" -> {target.ip}
                 [] OTHER                   -> Block(target.ip, target.length),
     form  |-> IF target.kind = "block" THEN <<"block", target.mapped, target.length>>
               ELSE <<target.kind>>]

CompleteScan(targets, tcp, udp, answers) ==
    LET id     == ID(targets, tcp, udp)
        probed == Probed(targets, tcp, udp, answers)
        found  == {Key(id, e[1], e[2], e[3]) : e \in probed \cap listening}
        before == {key \in committed : key.scope = id}
    IN
    /\ scans < MaxScans
    /\ scans' = scans + 1
    /\ IF \E t \in targets : StreamFails(t, answers)
       THEN UNCHANGED <<committed, last>>
       ELSE /\ committed' = (committed \ before) \cup found
            /\ last' = [meaning   |-> <<{Meaning(t) : t \in targets}, PortsOf(tcp), PortsOf(udp)>>,
                        listening |-> listening,
                        probed    |-> probed,
                        opened    |-> found \ before,
                        closed    |-> before \ found]
    /\ UNCHANGED listening

\* A run: a port specification that does not parse ends it before this; the
\* UDP ports may be left out.
RunScan ==
    \E targets \in TargetLists, tcp \in PortTexts, udp \in PortTexts \cup {<< >>},
       answers \in [HostNames -> UNION {Resolutions[n] : n \in HostNames}] :
        /\ \A n \in HostNames : answers[n] \in Resolutions[n]
        /\ PortsParse(tcp) /\ PortsParse(udp)
        /\ CompleteScan(targets, ParsePortRange(tcp), ParsePortRange(udp), answers)

\* The resolver answers for a name in full or not at all, and so alike.
NamesAreStable ==
    \A n \in HostNames : \A answer, other \in Resolutions[n] \ {{}} : answer = other

ScopeNext == NetworkChange \/ RunScan

ScopeSpec == ScopeInit /\ [][ScopeNext]_scopeVars

-----------------------------------------------------------------------------
\* The addresses that a block is for: the network's and the broadcast address
\* of more than two are not among them.
Usable(block) ==
    IF Cardinality(block) <= 2 THEN block
    ELSE {a \in block : /\ \E b \in block : Value(b) < Value(a)
                        /\ \E b \in block : Value(a) < Value(b)}

Hosts(said) == IF said.form[1] = "block" THEN Usable(said.ips) ELSE said.ips

\* A scan that completed has probed what its targets say: of every block the
\* usable addresses and no others, from whichever address of it the block was
\* spelled and through every carry of the increment; beyond them only what a
\* name resolved to (DEVLOG.md:130: nothing may seem to disappear because it
\* was never scanned).
ScopeIsProbed ==
    last # << >> =>
        LET hosts == UNION {Hosts(said) : said \in last.meaning[1]}
            ips   == {e[1] : e \in last.probed}
        IN  /\ hosts \subseteq ips
            /\ ips = hosts \/ \E said \in last.meaning[1] : said.names # {}

\* A service is reported closed only by a scan that probed it.  DEVLOG.md:130
\* warns of services that "disappear simply because they were never scanned":
\* two scans of one identity have to probe the same services.
ClosedWasProbed ==
    last # << >> =>
        \A key \in last.closed : <<key.ip, key.port, key.protocol>> \in last.probed

\* Spelling a scope in another way, in other case, order or form, or with the
\* address of another host of a block, does not make it another scope: a scan
\* that says the same as the one before, of services that have not changed,
\* reports nothing opened and nothing closed (EVENT_SCHEMA.md:65).
UnchangedNetworkIsSilent ==
    [][(/\ last # << >> /\ last' # last
        /\ last'.meaning = last.meaning /\ last'.listening = last.listening)
            => last'.opened = {} /\ last'.closed = {}]_scopeVars
=============================================================================
