---------------------------- MODULE EventEnrichment ----------------------------
(***************************************************************************)
(* What a lifecycle event says of one service, from run to run: the asset  *)
(* rules (internal/enrichment), the risk policy, and the way of an         *)
(* observation through the stored record into the event (cmd/tcprecon/     *)
(* runtime_observation.go, internal/scanner/lifecycle_emitter.go).         *)
(* A run is one step: ScanRuntime takes it apart.                          *)
(***************************************************************************)
EXTENDS AddressBlocks, Sequences, RiskPolicy

CONSTANTS Ports,        \* of the service
          RuleFiles,    \* sequences of rules that a rules file may hold
          Observations, \* what a probe may report of the service
          Absent        \* the probe of a service that is not open

Unassigned == "unassigned"

Default == [criticality |-> Unassigned, owner |-> Unassigned]

ASSUME ObservationsAssumption == Absent \notin Observations

\* A prefix of Bits + 1 is one that does not parse.
RuleType == [ip : Addresses, length : 0 .. Bits + 1, criticality : STRING, owner : STRING]

ASSUME RuleFilesAssumption == RuleFiles \subseteq Seq(RuleType)

-----------------------------------------------------------------------------
(* Asset rules.                                                            *)

\* One prefix that does not parse fails the file, and the program.
RulesParse(file) == \A i \in DOMAIN file : file[i].length <= Bits

Assigned(value) == IF value = "" THEN Unassigned ELSE value

LoadRulesFromJSON(file) ==
    [i \in DOMAIN file |->
        [file[i] EXCEPT !.criticality = Assigned(@), !.owner = Assigned(@)]]

\* The orders a sort may leave the elements of S in.
Orders(S) == {q \in [S -> S] : \A i \in S : \E j \in S : q[j] = i}

\* Mutation: the shortest prefix comes first.
NewMatcher_ShortestFirst(rules) ==
    {[i \in DOMAIN rules |-> rules[p[i]]] : p \in
        {q \in Orders(DOMAIN rules) :
            \A i, j \in DOMAIN rules : i < j => rules[q[i]].length <= rules[q[j]].length}}

\* The rules by falling prefix length.  The sort is not stable: rules of one
\* length come in any order.
NewMatcher(rules) ==
    {[i \in DOMAIN rules |-> rules[p[i]]] : p \in
        {q \in Orders(DOMAIN rules) :
            \A i, j \in DOMAIN rules : i < j => rules[q[i]].length >= rules[q[j]].length}}

\* The first rule whose prefix holds the address.
Match(matcher, ip) ==
    LET hits == {i \in DOMAIN matcher : InBlock(matcher[i].ip, matcher[i].length, ip)} IN
    IF hits = {} THEN Default
    ELSE LET first == CHOOSE i \in hits : \A j \in hits : i <= j
         IN  [criticality |-> matcher[first].criticality, owner |-> matcher[first].owner]

-----------------------------------------------------------------------------
(* Records, results and events.                                            *)

\* What the persister copies of a result: not its target's name, its TLS
\* version and whether its certificate verified.
ServiceObservation(observation) ==
    [status |-> "open", banner |-> observation.banner, subject |-> observation.subject]

\* A stored record as a result again.
serviceRecordToScanResult(record, port) ==
    [target |-> "", port |-> port, state |-> record.status, banner |-> record.banner,
     subject |-> record.subject, tls |-> NoTLS, verified |-> FALSE]

NoRecord == [status |-> "none"]
NoEvent  == [type |-> "none"]

\* What two open records are compared by.
hashScanResult(record) == <<record.status, record.banner, record.subject>>

\* The type of the event of a change, by its two records.
EventType(prior, current) ==
    IF current.status = "open"
    THEN IF prior.status = "none" THEN "service.opened"
         ELSE IF prior.status = "closed" THEN "service.reopened"
         ELSE IF hashScanResult(prior) # hashScanResult(current) THEN "service.changed"
         ELSE "none"
    ELSE IF prior.status = "open" THEN "service.closed"
    ELSE "none"

-----------------------------------------------------------------------------
VARIABLES ip, port,  \* of the service
          rules,     \* the rules of the last run, as loaded
          seen,      \* what its probe reported
          baseline,  \* the record it left
          written,   \* the event it wrote, or none
          standing   \* the last event written at all: what a reader goes by

vars == <<ip, port, rules, seen, baseline, written, standing>>

Contexts == {Default} \cup
    UNION {{[criticality |-> Assigned(file[i].criticality), owner |-> Assigned(file[i].owner)] :
                i \in DOMAIN file} : file \in RuleFiles}

Records == [status : {"open", "closed"}, banner : {o.banner : o \in Observations},
            subject : {o.subject : o \in Observations}]

Events ==
    [type : {"service.opened", "service.changed", "service.reopened", "service.closed"},
     hostname : {""} \cup {o.target : o \in Observations},
     context : Contexts,
     score : 0 .. 100, severity : Severities,
     reasons : SUBSET {"exposed_datastore", "exposed_remote_admin", "cleartext_protocol",
                       "deprecated_tls", "untrusted_cert",
                       "critical_asset_tier0", "high_asset_tier1"}]

TypeOK ==
    /\ ip \in Addresses /\ port \in Ports
    /\ rules \in {LoadRulesFromJSON(file) : file \in RuleFiles}
    /\ seen \in Observations \cup {Absent}
    /\ baseline \in Records \cup {NoRecord}
    /\ written \in Events \cup {NoEvent} /\ standing \in Events \cup {NoEvent}

Init ==
    /\ ip \in Addresses /\ port \in Ports
    /\ rules \in {LoadRulesFromJSON(file) : file \in {f \in RuleFiles : RulesParse(f)}}
    /\ seen = Absent /\ baseline = NoRecord
    /\ written = NoEvent /\ standing = NoEvent

\* The event of a change; both records are of the same service.
Event(prior, current, matcher) ==
    LET type    == EventType(prior, current)
        subject == serviceRecordToScanResult(IF current.status = "none" THEN prior ELSE current, port)
        context == Match(matcher, ip)
        risk    == EvaluateRisk(type, subject, context.criticality)
    IN  [type |-> type, hostname |-> subject.target, context |-> context,
         score |-> risk.score, severity |-> risk.severity, reasons |-> risk.reasons]

\* A successful run: what it observed of the service replaces the baseline,
\* and a service it did not observe is closed there.
Run(file, observation) ==
    /\ RulesParse(file)
    /\ rules' = LoadRulesFromJSON(file)
    /\ seen' = observation
    /\ LET current == IF observation = Absent THEN NoRecord
                      ELSE ServiceObservation(observation)
       IN
       /\ baseline' = IF current.status = "open" THEN current
                      ELSE IF baseline.status = "none" THEN NoRecord
                      ELSE [baseline EXCEPT !.status = "closed"]
       /\ IF EventType(baseline, current) = "none"
          THEN written' = NoEvent /\ UNCHANGED standing
          ELSE \E matcher \in NewMatcher(rules') :
                  /\ written' = Event(baseline, current, matcher)
                  /\ standing' = written'
    /\ UNCHANGED <<ip, port>>

Next == \E file \in RuleFiles, observation \in Observations \cup {Absent} : Run(file, observation)

Spec == Init /\ [][Next]_vars

-----------------------------------------------------------------------------
\* An event's context is that of a rule that holds the address and than which
\* no rule that holds it is longer, whatever the order of the rules in the
\* file; unassigned if there is none (ARCHITECTURE.md:347).
MostSpecificContext ==
    written # NoEvent =>
        LET covering == {i \in DOMAIN rules : InBlock(rules[i].ip, rules[i].length, ip)} IN
        IF covering = {} THEN written.context = Default
        ELSE \E i \in covering :
                /\ written.context = [criticality |-> rules[i].criticality, owner |-> rules[i].owner]
                /\ \A j \in covering : rules[j].length <= rules[i].length

\* The points of a set of reasons (policy.go:24-68), as an event adds them up.
ScoreOf(reasons) ==
    Bounded(Points("exposed_datastore" \in reasons, 40) + Points("exposed_remote_admin" \in reasons, 35)
                + Points("cleartext_protocol" \in reasons, 15)
                + Points("deprecated_tls" \in reasons, 30) + Points("untrusted_cert" \in reasons, 20)
                + Points("critical_asset_tier0" \in reasons, 20) + Points("high_asset_tier1" \in reasons, 10))

\* The risk an event gives fits an open service: the reasons of its port and
\* of the event's asset, none beside them but of TLS, and the score and the
\* severity these reasons make.
FitsOpenService(event) ==
    LET exposure == Reasons([port |-> port, tls |-> NoTLS, verified |-> FALSE],
                            event.context.criticality)
    IN  /\ exposure \subseteq event.reasons
        /\ event.reasons \ exposure \subseteq {"deprecated_tls", "untrusted_cert"}
        /\ event.score = ScoreOf(event.reasons)
        /\ event.severity = Severity(event.score)

\* A reader who keeps the last event of a service has its state, and a risk
\* that fits it: none once it is closed, and what its port and the event's
\* asset make of it while it is open, after it has been closed and reopened
\* too.  What its TLS makes of it is the subject of RiskOfWhatWasObserved.
StandingEventFollowsState ==
    /\ standing.type = "none" <=> baseline.status = "none"
    /\ standing.type # "none" =>
          /\ standing.type = "service.closed" <=> baseline.status = "closed"
          /\ standing.type = "service.closed" =>
                standing.score = 0 /\ standing.severity = "informational" /\ standing.reasons = {}
          /\ standing.type # "service.closed" => FitsOpenService(standing)

\* The risk of what was observed in a run.
RiskOf(observation, context) ==
    EvaluateRisk("service.changed",
                 [port |-> port, tls |-> observation.tls, verified |-> observation.verified],
                 context.criticality)

\* What the event of a run says of the risk is what the policy says of the
\* service as the run observed it, its TLS included (ARCHITECTURE.md:356).
RiskOfWhatWasObserved ==
    written # NoEvent /\ seen # Absent => written.reasons = RiskOf(seen, written.context).reasons
=============================================================================
