------------------------ MODULE ScopesAndEventsProofs ------------------------
(***************************************************************************)
(* Proofs about the components that compute with address blocks, for any   *)
(* addresses: what an event says (EventEnrichment), and what a scan is     *)
(* compared with (ScopeIdentity).  They share no state.                    *)
(***************************************************************************)
EXTENDS MCScopesAndEvents, AddressBlocksProofs

\* The score of ARCHITECTURE.md:355 lies between 0 and 100 whatever adds up,
\* and a closed service has none (policy.go:15-22 and 71-73).
THEOREM ScoreIsBounded ==
    ASSUME NEW type, NEW r, NEW criticality
    PROVE  /\ EvaluateRisk(type, r, criticality).score \in Nat
           /\ EvaluateRisk(type, r, criticality).score <= 100
           /\ type = "service.closed" => EvaluateRisk(type, r, criticality).score = 0
<1> DEFINE raw == RawScore(r, criticality)
<1>1. raw \in Nat
  BY DEF RawScore, Points
<1> HIDE DEF raw
<1>2. Bounded(raw) \in Nat /\ Bounded(raw) <= 100
  BY <1>1 DEF Bounded
<1>3. CASE type = "service.closed"
  BY <1>3 DEF EvaluateRisk
<1>4. CASE type # "service.closed"
  BY <1>2, <1>4 DEF EvaluateRisk, raw
<1> QED BY <1>3, <1>4

-----------------------------------------------------------------------------
(* The policy is monotone.                                                 *)

\* The asset's share of the score follows the rank of its tier.
LEMMA TierPoints ==
    ASSUME NEW c, NEW d, TierRank(c) <= TierRank(d)
    PROVE  Points(Tier0(c), 20) + Points(Tier1(c), 10)
               <= Points(Tier0(d), 20) + Points(Tier1(d), 10)
<1>1. ~(Tier0(c) /\ Tier1(c)) /\ ~(Tier0(d) /\ Tier1(d))
  BY DEF Tier0, Tier1
<1> QED BY <1>1 DEF TierRank, Points

\* The points of a worse exposure are no fewer, before they are cut off.
LEMMA RawScoreIsMonotone ==
    ASSUME NEW r, NEW c, NEW s, NEW d, NoBetter(r, c, s, d)
    PROVE  /\ RawScore(r, c) \in Nat /\ RawScore(s, d) \in Nat
           /\ RawScore(r, c) <= RawScore(s, d)
<1> DEFINE port1 == Points(r.port \in Datastores, 40) + Points(r.port \in RemoteAdmin, 35)
                        + Points(r.port \in Cleartext, 15)
           port2 == Points(s.port \in Datastores, 40) + Points(s.port \in RemoteAdmin, 35)
                        + Points(s.port \in Cleartext, 15)
           tls1  == Points(DeprecatedTLS(r), 30)
           tls2  == Points(DeprecatedTLS(s), 30)
           cert1 == Points(UntrustedCert(r), 20)
           cert2 == Points(UntrustedCert(s), 20)
           tier1 == Points(Tier0(c), 20) + Points(Tier1(c), 10)
           tier2 == Points(Tier0(d), 20) + Points(Tier1(d), 10)
<1>1. tier1 \in Nat /\ tier2 \in Nat /\ tier1 <= tier2
  <2>1. tier1 \in Nat /\ tier2 \in Nat
    BY DEF Points
  <2> QED BY <2>1, TierPoints DEF NoBetter
<1>2. tls1 \in Nat /\ tls2 \in Nat /\ tls1 <= tls2
  BY DEF NoBetter, Points
<1>3. cert1 \in Nat /\ cert2 \in Nat /\ cert1 <= cert2
  BY DEF NoBetter, Points
<1>4. port1 \in Nat /\ port1 = port2
  BY DEF NoBetter, Points
<1>5. /\ RawScore(r, c) = port1 + tls1 + cert1 + tier1
      /\ RawScore(s, d) = port2 + tls2 + cert2 + tier2
  BY DEF RawScore, Points
<1> HIDE DEF port1, port2, tls1, tls2, cert1, cert2, tier1, tier2
<1> QED BY <1>1, <1>2, <1>3, <1>4, <1>5

\* A higher score has no lower severity.
LEMMA RankIsMonotone ==
    ASSUME NEW m \in Nat, NEW n \in Nat, m <= n
    PROVE  Rank(Severity(m)) <= Rank(Severity(n))
BY DEF Rank, Severity

\* A service that is exposed in every way another one on the same port is, on
\* an asset that matters no less, gets no lower score and no lower severity,
\* where points add up beyond the bound too (policy.go:24-87).
THEOREM RiskIsMonotone ==
    ASSUME NEW r, NEW c, NEW s, NEW d, NoBetter(r, c, s, d)
    PROVE  /\ EvaluateRisk("service.changed", r, c).score
                  <= EvaluateRisk("service.changed", s, d).score
           /\ Rank(EvaluateRisk("service.changed", r, c).severity)
                  <= Rank(EvaluateRisk("service.changed", s, d).severity)
<1> DEFINE before == RawScore(r, c)
           after  == RawScore(s, d)
<1>1. before \in Nat /\ after \in Nat /\ before <= after
  BY RawScoreIsMonotone
<1>2. /\ EvaluateRisk("service.changed", r, c).score = Bounded(before)
      /\ EvaluateRisk("service.changed", s, d).score = Bounded(after)
      /\ EvaluateRisk("service.changed", r, c).severity = Severity(Bounded(before))
      /\ EvaluateRisk("service.changed", s, d).severity = Severity(Bounded(after))
  BY DEF EvaluateRisk
<1> HIDE DEF before, after
<1>3. Bounded(before) \in Nat /\ Bounded(after) \in Nat /\ Bounded(before) <= Bounded(after)
  BY <1>1 DEF Bounded
<1>4. Rank(Severity(Bounded(before))) <= Rank(Severity(Bounded(after)))
  BY <1>3, RankIsMonotone
<1> QED BY <1>2, <1>3, <1>4

-----------------------------------------------------------------------------
(* The last event of a service stands for its state.                       *)

\* The records a run leaves.
RecordShape == baseline \in Records \cup {NoRecord}

IInv == RecordShape /\ StandingEventFollowsState

\* An observation is recorded as open.
LEMMA ObservedRecord ==
    ASSUME NEW observation \in Observations
    PROVE  /\ ServiceObservation(observation) \in Records
           /\ ServiceObservation(observation).status = "open"
BY DEF ServiceObservation, Records

\* The score of the policy is what its reasons add up to.
LEMMA ScoreIsOfReasons ==
    ASSUME NEW r, NEW criticality
    PROVE  Bounded(RawScore(r, criticality)) = ScoreOf(Reasons(r, criticality))
<1> DEFINE reasons == Reasons(r, criticality)
<1>1. /\ "exposed_datastore" \in reasons <=> r.port \in Datastores
      /\ "exposed_remote_admin" \in reasons <=> r.port \in RemoteAdmin
      /\ "cleartext_protocol" \in reasons <=> r.port \in Cleartext
      /\ "deprecated_tls" \in reasons <=> DeprecatedTLS(r)
      /\ "untrusted_cert" \in reasons <=> UntrustedCert(r)
      /\ "critical_asset_tier0" \in reasons <=> Tier0(criticality)
      /\ "high_asset_tier1" \in reasons <=> Tier1(criticality)
  BY DEF Reasons
<1> HIDE DEF reasons
<1>2. RawScore(r, criticality) =
          Points("exposed_datastore" \in reasons, 40) + Points("exposed_remote_admin" \in reasons, 35)
              + Points("cleartext_protocol" \in reasons, 15)
              + Points("deprecated_tls" \in reasons, 30) + Points("untrusted_cert" \in reasons, 20)
              + Points("critical_asset_tier0" \in reasons, 20)
              + Points("high_asset_tier1" \in reasons, 10)
  BY <1>1 DEF RawScore, Points
<1>3. ScoreOf(reasons) = Bounded(RawScore(r, criticality))
  BY <1>2 DEF ScoreOf
<1> QED BY <1>3 DEF reasons

\* The facts of an event by its type.
LEMMA EventFacts ==
    ASSUME NEW prior, NEW current, NEW matcher
    PROVE  LET e == Event(prior, current, matcher) IN
           /\ e.type = EventType(prior, current)
           /\ e.type = "service.closed" =>
                 e.score = 0 /\ e.severity = "informational" /\ e.reasons = {}
           /\ e.type # "service.closed" => FitsOpenService(e)
<1> DEFINE type    == EventType(prior, current)
           subject == serviceRecordToScanResult(
                          IF current.status = "none" THEN prior ELSE current, port)
           context == Match(matcher, ip)
           risk    == EvaluateRisk(type, subject, context.criticality)
           e       == Event(prior, current, matcher)
           plain   == [port |-> port, tls |-> NoTLS, verified |-> FALSE]
<1>1. /\ e.type = type /\ e.context = context /\ e.score = risk.score
      /\ e.severity = risk.severity /\ e.reasons = risk.reasons
  BY DEF Event
<1>2. subject.port = plain.port /\ subject.tls = plain.tls /\ subject.verified = plain.verified
  BY DEF serviceRecordToScanResult
<1> HIDE DEF subject, e, plain, type, context
<1>3. Reasons(subject, context.criticality) = Reasons(plain, context.criticality)
  BY <1>2 DEF Reasons, DeprecatedTLS, UntrustedCert
<1>4. type = "service.closed" =>
         risk.score = 0 /\ risk.severity = "informational" /\ risk.reasons = {}
  BY DEF EvaluateRisk
<1>5. type # "service.closed" =>
         /\ risk.reasons = Reasons(subject, context.criticality)
         /\ risk.score = ScoreOf(risk.reasons)
         /\ risk.severity = Severity(risk.score)
  BY ScoreIsOfReasons DEF EvaluateRisk
<1>6. type # "service.closed" =>
         /\ e.reasons = Reasons(plain, e.context.criticality)
         /\ e.score = ScoreOf(e.reasons)
         /\ e.severity = Severity(e.score)
  BY <1>1, <1>3, <1>5
<1>7. type # "service.closed" => FitsOpenService(e)
  BY <1>6 DEF FitsOpenService, plain
<1> QED BY <1>1, <1>4, <1>7 DEF e, type

\* What the type of an event says of the records before and after.
LEMMA TypeFollowsStatus ==
    ASSUME NEW prior, NEW current,
           prior.status \in {"none", "open", "closed"}, current.status \in {"none", "open"}
    PROVE  LET type == EventType(prior, current) IN
           /\ type = "none" => (prior.status = "open" <=> current.status = "open")
           /\ type = "service.closed" => prior.status = "open" /\ current.status = "none"
           /\ type \notin {"none", "service.closed"} => current.status = "open"
BY DEF EventType

\* A run leaves the last event, the record and the state of a service in agreement.
LEMMA RunKeepsIInv ==
    ASSUME IInv, NEW file \in RuleFiles, NEW observation \in Observations \cup {Absent},
           Run(file, observation)
    PROVE  IInv'
<1> DEFINE current == IF observation = Absent THEN NoRecord ELSE ServiceObservation(observation)
           type    == EventType(baseline, current)
<1>1. current \in Records \cup {NoRecord} /\ current.status \in {"none", "open"}
  BY ObservedRecord DEF NoRecord
<1>2. /\ baseline' = IF current.status = "open" THEN current
                     ELSE IF baseline.status = "none" THEN NoRecord
                     ELSE [baseline EXCEPT !.status = "closed"]
      /\ IF type = "none" THEN standing' = standing
         ELSE \E matcher \in NewMatcher(rules') : standing' = Event(baseline, current, matcher)
      /\ port' = port
  BY DEF Run
<1>3. baseline \in Records \cup {NoRecord} /\ baseline.status \in {"none", "open", "closed"}
  BY DEF IInv, RecordShape, Records, NoRecord
<1> HIDE DEF current, type
<1>4. RecordShape'
  <2>1. CASE current.status = "open"
    <3>1. current \in Records
      BY <1>1, <2>1 DEF NoRecord
    <3> QED BY <1>2, <2>1, <3>1 DEF RecordShape
  <2>2. CASE current.status # "open" /\ baseline.status = "none"
    BY <1>2, <2>2 DEF RecordShape
  <2>3. CASE current.status # "open" /\ baseline.status # "none"
    <3>1. baseline \in Records
      BY <1>3, <2>3 DEF NoRecord
    <3>2. [baseline EXCEPT !.status = "closed"] \in Records
      BY <3>1 DEF Records
    <3> QED BY <1>2, <2>3, <3>2 DEF RecordShape
  <2> QED BY <2>1, <2>2, <2>3
<1>5. /\ current.status = "open" => baseline'.status = "open"
      /\ current.status = "none" /\ baseline.status = "none" => baseline'.status = "none"
      /\ current.status = "none" /\ baseline.status # "none" => baseline'.status = "closed"
  BY <1>2, <1>3 DEF NoRecord, Records
<1>6. CASE type = "none"
  <2>1. standing' = standing /\ port' = port /\ baseline'.status = baseline.status
    BY <1>2, <1>3, <1>5, <1>6, <1>1, TypeFollowsStatus DEF type
  <2> QED BY <1>4, <2>1 DEF IInv, StandingEventFollowsState, FitsOpenService
<1>7. CASE type # "none"
  <2>1. PICK matcher \in NewMatcher(rules') : standing' = Event(baseline, current, matcher)
    BY <1>2, <1>7
  <2>2. /\ standing'.type = type
        /\ standing'.type = "service.closed" =>
              standing'.score = 0 /\ standing'.severity = "informational" /\ standing'.reasons = {}
        /\ standing'.type # "service.closed" => FitsOpenService(standing')
    BY <2>1, EventFacts DEF type
  <2>4. FitsOpenService(standing)' <=> FitsOpenService(standing')
    BY <1>2 DEF FitsOpenService
  <2>3. /\ baseline'.status # "none"
        /\ type = "service.closed" <=> baseline'.status = "closed"
    BY <1>1, <1>3, <1>5, <1>7, TypeFollowsStatus DEF type
  <2> QED BY <1>2, <1>4, <1>7, <2>2, <2>3, <2>4 DEF IInv, StandingEventFollowsState
<1> QED BY <1>6, <1>7

\* A reader of the last event of a service knows whether the service is open
\* and has a risk that fits that: none if it is closed; if it is open, the
\* reasons of its port and asset and no others but of TLS, and the score and
\* severity they make (policy.go:24-87) - however runs, observations and rules
\* files follow one another.
THEOREM StandingEventTheorem == Spec => []StandingEventFollowsState
<1>1. Init => IInv
  BY DEF Init, IInv, RecordShape, StandingEventFollowsState, NoRecord, NoEvent
<1>2. IInv /\ [Next]_vars => IInv'
  <2> SUFFICES ASSUME IInv, [Next]_vars PROVE IInv'
    OBVIOUS
  <2>1. CASE Next
    BY <2>1, RunKeepsIInv DEF Next
  <2>2. CASE UNCHANGED vars
    BY <2>2 DEF vars, IInv, RecordShape, StandingEventFollowsState, FitsOpenService
  <2> QED BY <2>1, <2>2
<1> QED BY <1>1, <1>2, PTL DEF Spec, IInv

-----------------------------------------------------------------------------
(* The asset an event names.                                               *)

\* The rules of a file as they are loaded.
LEMMA LoadedRules ==
    ASSUME NEW file \in RuleFiles
    PROVE  LET loaded == LoadRulesFromJSON(file) IN
           /\ DOMAIN loaded \subseteq Nat
           /\ \A i \in DOMAIN loaded : loaded[i].length \in Nat
<1>1. file \in Seq(RuleType)
  BY RuleFilesAssumption
<1>2. DOMAIN file = 1 .. Len(file) /\ \A i \in DOMAIN file : file[i] \in RuleType
  BY <1>1
<1>3. ASSUME NEW rule \in RuleType, NEW tier, NEW team
      PROVE  /\ [rule EXCEPT !.criticality = tier, !.owner = team].length = rule.length
             /\ rule.length \in Nat
  <2>1. Bits \in Nat
    BY OctetsAssumption, WidthAssumption DEF Bits
  <2> QED BY <2>1 DEF RuleType
<1> DEFINE loaded == LoadRulesFromJSON(file)
<1>4. DOMAIN loaded = DOMAIN file
  BY DEF LoadRulesFromJSON
<1>5. \A i \in DOMAIN file : loaded[i].length = file[i].length /\ file[i].length \in Nat
  BY <1>2, <1>3 DEF LoadRulesFromJSON
<1> HIDE DEF loaded
<1>6. Len(file) \in Nat
  BY <1>1
<1>7. DOMAIN loaded \subseteq Nat /\ \A i \in DOMAIN loaded : loaded[i].length \in Nat
  BY <1>2, <1>4, <1>5, <1>6
<1> QED BY <1>7 DEF loaded

\* The first match in any order the sort may leave the rules in is a match
\* than which none is longer.
LEMMA MatchIsMostSpecific ==
    ASSUME NEW loaded, DOMAIN loaded \subseteq Nat,
           \A i \in DOMAIN loaded : loaded[i].length \in Nat,
           NEW matcher \in NewMatcher(loaded), NEW address
    PROVE  LET covering == {i \in DOMAIN loaded : InBlock(loaded[i].ip, loaded[i].length, address)} IN
           IF covering = {} THEN Match(matcher, address) = Default
           ELSE \E i \in covering :
                   /\ Match(matcher, address) = [criticality |-> loaded[i].criticality,
                                                 owner |-> loaded[i].owner]
                   /\ \A j \in covering : loaded[j].length <= loaded[i].length
<1> DEFINE Holds(rule) == InBlock(rule.ip, rule.length, address)
           covering == {i \in DOMAIN loaded : Holds(loaded[i])}
           hits     == {i \in DOMAIN matcher : Holds(matcher[i])}
           first    == CHOOSE i \in hits : \A j \in hits : i <= j
<1>1. PICK q \in Orders(DOMAIN loaded) :
          /\ matcher = [i \in DOMAIN loaded |-> loaded[q[i]]]
          /\ \A i, j \in DOMAIN loaded : i < j => loaded[q[i]].length >= loaded[q[j]].length
  BY DEF NewMatcher
<1>2. /\ \A i \in DOMAIN loaded : q[i] \in DOMAIN loaded
      /\ \A i \in DOMAIN loaded : \E j \in DOMAIN loaded : q[j] = i
  BY DEF Orders
<1>3. DOMAIN matcher = DOMAIN loaded /\ \A i \in DOMAIN loaded : matcher[i] = loaded[q[i]]
  BY <1>1
<1>4. hits = {i \in DOMAIN loaded : q[i] \in covering}
  BY <1>2, <1>3
<1> HIDE DEF Holds
<1>5. CASE covering = {}
  <2>1. hits = {}
    BY <1>4, <1>5
  <2> QED BY <1>5, <2>1 DEF Match, Holds
<1>6. CASE covering # {}
  <2>1. hits # {} /\ hits \subseteq Nat
    BY <1>2, <1>4, <1>6
  <2>2. first \in hits /\ \A j \in hits : first <= j
    <3> HIDE DEF hits
    <3> QED BY <2>1, Least
  <2>3. Match(matcher, address) = [criticality |-> matcher[first].criticality, owner |-> matcher[first].owner]
    BY <2>1 DEF Match, Holds
  <2>4. q[first] \in covering /\ first \in DOMAIN loaded /\ matcher[first] = loaded[q[first]]
    BY <1>3, <1>4, <2>2
  <2>5. ASSUME NEW j \in covering
        PROVE  loaded[j].length <= loaded[q[first]].length
    <3>1. PICK k \in DOMAIN loaded : q[k] = j
      BY <1>2
    <3>2. first <= k /\ k \in Nat /\ first \in Nat
      BY <1>4, <2>1, <2>2, <3>1
    <3>3. CASE k = first
      BY <2>4, <3>1, <3>3
    <3>4. CASE first < k
      BY <1>1, <1>2, <2>4, <3>1, <3>4
    <3> QED BY <3>2, <3>3, <3>4
  <2> QED BY <1>6, <2>3, <2>4, <2>5 DEF Holds
<1> QED BY <1>5, <1>6

\* Whatever the order of the rules in the file and the order an unstable sort
\* leaves them in, the event of a service names the asset of a most specific
\* rule for its address (matcher.go, ARCHITECTURE.md:347).
THEOREM ContextIsMostSpecific == Spec => []MostSpecificContext
<1>1. Init => MostSpecificContext
  BY DEF Init, MostSpecificContext
<1>2. MostSpecificContext /\ [Next]_vars => MostSpecificContext'
  <2> SUFFICES ASSUME MostSpecificContext, [Next]_vars PROVE MostSpecificContext'
    OBVIOUS
  <2>1. CASE UNCHANGED vars
    BY <2>1 DEF vars, MostSpecificContext
  <2>2. ASSUME NEW file \in RuleFiles, NEW observation \in Observations \cup {Absent},
               Run(file, observation), written' # NoEvent
        PROVE  MostSpecificContext'
    <3>1. rules' = LoadRulesFromJSON(file) /\ ip' = ip
      BY <2>2 DEF Run
    <3>2. PICK matcher \in NewMatcher(rules') : \E prior, current : written' = Event(prior, current, matcher)
      BY <2>2 DEF Run
    <3>3. written'.context = Match(matcher, ip')
      BY <3>1, <3>2 DEF Event
    <3>4. DOMAIN rules' \subseteq Nat /\ \A i \in DOMAIN rules' : rules'[i].length \in Nat
      BY <3>1, LoadedRules
    <3> QED BY <3>2, <3>3, <3>4, MatchIsMostSpecific DEF MostSpecificContext
  <2>3. CASE Next
    BY <2>2, <2>3 DEF Next, MostSpecificContext
  <2> QED BY <2>1, <2>3
<1> QED BY <1>1, <1>2, PTL DEF Spec

-----------------------------------------------------------------------------
(* What a block is expanded into.                                          *)

\* Increments end with the first address after the last one: until then the
\* numbers rise.
LEMMA IncrementsAre ==
    ASSUME NEW a \in Addresses
    PROVE  /\ \A k \in 0 .. Value(Ones) + 1 : Increments(a)[k] \in Addresses
           /\ Increments(a)[0] = a
           /\ \A k \in 1 .. Value(Ones) + 1 : Increments(a)[k] = incIP(Increments(a)[k - 1])
<1> DEFINE all  == Value(Ones) + 1
           next == [e \in (1 .. all) \X Addresses |-> incIP(e[2])]
<1>0. all \in Nat
  BY OnesAreLast, ValueOrder
<1>1. next \in [(1 .. all) \X Addresses -> Addresses]
  BY Increment
<1>2. \A k \in 1 .. all, b \in Addresses : next[<<k, b>>] = incIP(b)
  OBVIOUS
<1> HIDE DEF next
<1>3. PICK f : Reaches(all, f, Addresses, a, next)
  <2> HIDE DEF all
  <2> QED BY <1>0, <1>1, StepByStep
<1>4. /\ f \in [0 .. all -> Addresses] /\ f[0] = a
      /\ \A k \in 1 .. all : f[k] = incIP(f[k - 1])
  <2> HIDE DEF all
  <2>1. ASSUME NEW k \in 1 .. all PROVE f[k] = incIP(f[k - 1])
    <3>1. f[k] = next[<<k, f[k - 1]>>] /\ k - 1 \in 0 .. all
      BY <1>0, <1>3 DEF Reaches
    <3>2. f[k - 1] \in Addresses
      BY <1>3, <3>1 DEF Reaches
    <3> QED BY <1>2, <3>1, <3>2
  <2> QED BY <1>3, <2>1 DEF Reaches
<1>5. f = [k \in 0 .. all |-> IF k = 0 THEN a ELSE incIP(f[k - 1])]
  <2> HIDE DEF all
  <2>1. \A k \in 0 .. all : k = 0 \/ k \in 1 .. all
    BY <1>0
  <2>2. \A k \in 0 .. all : f[k] = IF k = 0 THEN a ELSE incIP(f[k - 1])
    BY <1>4, <2>1
  <2> QED BY <1>4, <2>2
<1>6. Increments(a) = [k \in 0 .. all |-> IF k = 0 THEN a ELSE incIP(Increments(a)[k - 1])]
  BY <1>5, Zenon DEF Increments
<1> HIDE DEF all
<1>7. Increments(a)[0] = a /\ \A k \in 1 .. all : Increments(a)[k] = incIP(Increments(a)[k - 1])
  BY <1>0, <1>6
<1>8. Follows(all, Increments(a), Addresses, a, next)
  BY <1>2, <1>7 DEF Follows
<1>9. \A k \in 0 .. all : Increments(a)[k] = f[k]
  BY <1>0, <1>3, <1>8, OneSequence
<1> QED BY <1>4, <1>7, <1>9 DEF all

\* Increments add up as long as they do not pass the last address.
LEMMA IncrementsRise ==
    ASSUME NEW a \in Addresses, NEW d \in Nat, Value(a) + d <= Value(Ones)
    PROVE  \A k \in 0 .. d : Value(Increments(a)[k]) = Value(a) + k
<1> DEFINE Off == {k \in 0 .. d : Value(Increments(a)[k]) # Value(a) + k}
<1>1. SUFFICES ASSUME Off # {} PROVE FALSE
  OBVIOUS
<1>2. PICK n \in Off : \A m \in Off : n <= m
  <2>1. Off \subseteq Nat
    OBVIOUS
  <2> HIDE DEF Off
  <2> QED BY <1>1, <2>1, Least
<1>3. n # 0
  BY IncrementsAre, ValueOrder
<1>4. n \in 1 .. d /\ n - 1 \in 0 .. d /\ n - 1 \notin Off
  <2>1. n \in 0 .. d
    OBVIOUS
  <2> HIDE DEF Off
  <2> QED BY <1>2, <1>3, <2>1
<1> DEFINE b == Increments(a)[n - 1]
<1>5. Value(b) = Value(a) + (n - 1)
  BY <1>4
<1>6. /\ Value(a) \in Nat /\ Value(Ones) \in Nat
      /\ n \in 1 .. Value(Ones) + 1 /\ n - 1 \in 0 .. Value(Ones) + 1
  BY <1>4, OnesAreLast, ValueOrder
<1>7. b \in Addresses /\ Increments(a)[n] = incIP(b)
  BY <1>6, IncrementsAre
<1> HIDE DEF b
<1>8. b # Ones
  BY <1>4, <1>5, <1>6
<1>9. Value(Increments(a)[n]) = Value(b) + 1
  BY <1>7, <1>8, Increment
<1> QED BY <1>4, <1>5, <1>6, <1>9

\* The loop takes the addresses of the block, each once and in their order.
LEMMA BlockWalkIs ==
    ASSUME NEW a \in Addresses, NEW length \in 1 .. Bits
    PROVE  LET network == Mask(a, length) IN
           \E d \in Nat :
              /\ BlockWalk(network, length) \in [1 .. d + 1 -> Block(a, length)]
              /\ \A k \in 1 .. d + 1 :
                    Value(BlockWalk(network, length)[k]) = Value(network) + (k - 1)
              /\ \A b \in Block(a, length) :
                    Value(b) - Value(network) \in 0 .. d
              /\ \E b \in Block(a, length) : Value(b) - Value(network) = d
<1> DEFINE network == Mask(a, length)
           block   == Block(a, length)
           walk    == Increments(network)
<1>0. length \in Nat /\ length > 0
  BY OctetsAssumption, WidthAssumption DEF Bits
<1>1. network \in Addresses /\ network \in block /\ \A b \in block : b \in Addresses
  BY <1>0, MaskIs, BlockIs DEF Block
<1>2. Value(Ones) \in Nat /\ \A b \in block : Value(b) \in Nat /\ Value(b) <= Value(Ones)
  BY <1>1, OnesAreLast, ValueOrder
<1>3. PICK top \in block : \A b \in block : Value(b) <= Value(top)
  <2> DEFINE below == {Value(Ones) - Value(b) : b \in block}
  <2> HIDE DEF block
  <2>1. below \subseteq Nat /\ below # {}
    BY <1>1, <1>2
  <2>2. PICK n \in below : \A m \in below : n <= m
    <3> HIDE DEF below
    <3> QED BY <2>1, Least
  <2>3. PICK top \in block : n = Value(Ones) - Value(top)
    OBVIOUS
  <2>4. ASSUME NEW b \in block PROVE Value(b) <= Value(top)
    <3>1. Value(Ones) - Value(top) <= Value(Ones) - Value(b)
      BY <2>2, <2>3
    <3> QED BY <1>2, <3>1
  <2> QED BY <2>4
<1> DEFINE d == Value(top) - Value(network)
<1>4. /\ \A b \in block : Value(network) <= Value(b)
      /\ \A b \in Addresses : b \in block <=> Mask(b, length) = network
      /\ \A b \in Addresses, c \in block :
            Value(network) <= Value(b) /\ Value(b) <= Value(c) => b \in block
  BY <1>0, BlockIs
<1> HIDE DEF network, block
<1>5. Value(network) \in Nat /\ d \in Nat /\ Value(network) + d = Value(top)
  BY <1>1, <1>2, <1>3, <1>4
<1>6. d + 1 \in 1 .. Value(Ones) + 1
  BY <1>2, <1>3, <1>5
<1> HIDE DEF d
<1>7. ASSUME NEW k \in 0 .. d
      PROVE  walk[k] \in block /\ Value(walk[k]) = Value(network) + k
  <2>1. Value(walk[k]) = Value(network) + k
    BY <1>1, <1>2, <1>3, <1>5, IncrementsRise
  <2>2. k \in 0 .. Value(Ones) + 1
    BY <1>2, <1>5, <1>6
  <2>3. walk[k] \in Addresses
    BY <1>1, <2>2, IncrementsAre
  <2>4. Value(network) <= Value(walk[k]) /\ Value(walk[k]) <= Value(top)
    BY <1>5, <2>1
  <2> QED BY <1>3, <1>4, <2>1, <2>3, <2>4
<1>8. Mask(walk[d + 1], length) # network
  <2>1. walk[d] = top
    <3>1. walk[d] \in block /\ Value(walk[d]) = Value(top)
      BY <1>5, <1>7
    <3> QED BY <1>1, <1>3, <3>1, ValueOrder
  <2>2. walk[d + 1] = incIP(top) /\ walk[d + 1] \in Addresses
    <3>1. (d + 1) - 1 = d /\ d + 1 \in 0 .. Value(Ones) + 1
      BY <1>2, <1>5, <1>6
    <3> QED BY <1>1, <1>6, <2>1, <3>1, IncrementsAre
  <2>3. CASE top = Ones
    <3>1. Mask(Ones, length) = network
      BY <1>1, <1>3, <1>4, <2>3
    <3> QED BY <1>0, <2>2, <2>3, <3>1, OnesAreLast, BlocksEnd
  <2>4. CASE top # Ones
    <3>1. Value(walk[d + 1]) = Value(top) + 1
      BY <1>1, <1>3, <2>2, <2>4, Increment
    <3>2. walk[d + 1] \notin block
      BY <1>2, <1>3, <3>1
    <3> QED BY <1>4, <2>2, <3>2
  <2> QED BY <2>3, <2>4
<1> DEFINE out == {k \in 1 .. Value(Ones) + 1 : Mask(walk[k], length) # network}
<1>9. d + 1 \in out /\ \A k \in out : d + 1 <= k
  <2>1. ASSUME NEW k \in out PROVE d + 1 <= k
    <3>1. SUFFICES ASSUME k < d + 1 PROVE FALSE
      BY <1>2, <1>5
    <3>2. k \in 0 .. d
      BY <1>2, <1>5, <3>1
    <3>3. Mask(walk[k], length) = network
      BY <1>1, <1>4, <1>7, <3>2
    <3> QED BY <3>3
  <2> QED BY <1>6, <1>8, <2>1
<1>10. Min(out) = d + 1
  <2>1. \A k \in out : (\A m \in out : k <= m) => k = d + 1
    <3>1. \A k \in out : k \in Nat
      BY <1>2
    <3> HIDE DEF out
    <3> QED BY <1>5, <1>9, <3>1
  <2> HIDE DEF out
  <2> QED BY <1>9, <2>1 DEF Min
<1>11. BlockWalk(network, length) = [k \in 1 .. d + 1 |-> walk[k - 1]]
  BY <1>10 DEF BlockWalk
<1>12. \A k \in 1 .. d + 1 : /\ BlockWalk(network, length)[k] \in block
                             /\ Value(BlockWalk(network, length)[k]) = Value(network) + (k - 1)
  <2>1. \A k \in 1 .. d + 1 : k - 1 \in 0 .. d
    BY <1>5
  <2> HIDE DEF walk
  <2> QED BY <1>7, <1>11, <2>1
<1>13. BlockWalk(network, length) \in [1 .. d + 1 -> block]
  <2> HIDE DEF walk
  <2>1. \A k \in 1 .. d + 1 : walk[k - 1] \in block
    BY <1>11, <1>12
  <2> QED BY <1>11, <2>1
<1>14. \A b \in block : Value(b) - Value(network) \in 0 .. d
  BY <1>2, <1>3, <1>4, <1>5
<1>15. Value(top) - Value(network) = d
  BY <1>5
<1> QED BY <1>3, <1>5, <1>12, <1>13, <1>14, <1>15 DEF network, block

\* What is left of a block are its usable addresses: without the first and the
\* last one of more than two (parser.go:127-142).
LEMMA ExpandsUsable ==
    ASSUME NEW a \in Addresses, NEW length \in 1 .. Bits
    PROVE  Range(expandCIDR(a, length)) = Usable(Block(a, length))
<1> DEFINE block == Block(a, length)
           first == Value(Mask(a, length))
           walk  == BlockWalk(Mask(a, length), length)
<1>1. PICK d \in Nat :
          /\ walk \in [1 .. d + 1 -> block]
          /\ \A k \in 1 .. d + 1 : Value(walk[k]) = first + (k - 1)
          /\ \A b \in block : Value(b) - first \in 0 .. d
          /\ \E b \in block : Value(b) - first = d
  BY BlockWalkIs
<1>2. /\ first \in Nat /\ Mask(a, length) \in block
      /\ \A b \in block : b \in Addresses /\ Value(b) \in Nat
  <2>1. length \in Nat
    OBVIOUS
  <2> QED BY <2>1, MaskIs, BlockIs, ValueOrder DEF Block
<1>3. expandCIDR(a, length) = IF Len(walk) > 2 THEN SubSeq(walk, 2, Len(walk) - 1) ELSE walk
  BY DEF expandCIDR
<1> HIDE DEF block, first, walk
<1>4. \A b \in block : \E k \in 1 .. d + 1 : walk[k] = b /\ k = Value(b) - first + 1
  <2> SUFFICES ASSUME NEW b \in block
               PROVE  walk[Value(b) - first + 1] = b /\ Value(b) - first + 1 \in 1 .. d + 1
    OBVIOUS
  <2>1. Value(b) - first + 1 \in 1 .. d + 1
    <3>1. Value(b) - first \in 0 .. d
      BY <1>1
    <3> QED BY <1>2, <3>1
  <2>2. /\ walk[Value(b) - first + 1] \in block
        /\ Value(walk[Value(b) - first + 1]) = first + (Value(b) - first)
    <3>1. PICK k \in 1 .. d + 1 : k = Value(b) - first + 1
      BY <2>1
    <3>2. walk[k] \in block /\ Value(walk[k]) = first + (k - 1)
      BY <1>1
    <3>3. k - 1 = Value(b) - first
      BY <1>2, <3>1
    <3> QED BY <3>1, <3>2, <3>3
  <2>3. first + (Value(b) - first) = Value(b)
    BY <1>2
  <2>4. walk[Value(b) - first + 1] \in Addresses /\ b \in Addresses
    BY <1>2, <2>2
  <2> QED BY <2>1, <2>2, <2>3, <2>4, ValueOrder
<1>5. Range(walk) = block
  BY <1>1, <1>4 DEF Range
<1>6. Cardinality(block) = d + 1
  <2>1. \A k, m \in 1 .. d + 1 : walk[k] = walk[m] => k = m
    BY <1>1, <1>2
  <2>2. walk \in Bijection(1 .. d + 1, block)
    BY <1>1, <1>4, <2>1 DEF Bijection, Injection, Surjection, IsInjective
  <2>3. ExistsBijection(1 .. d + 1, block)
    BY <2>2 DEF ExistsBijection
  <2> QED BY <2>3, FS_CountingElements
<1>7. walk \in Seq(block) /\ Len(walk) = d + 1
  BY <1>1
<1>8. CASE d + 1 <= 2
  BY <1>3, <1>5, <1>6, <1>7, <1>8 DEF Usable, block
<1>9. CASE d + 1 > 2
  <2> DEFINE inner == SubSeq(walk, 2, d)
  <2>1. DOMAIN inner = 1 .. d - 1 /\ \A i \in 1 .. d - 1 : inner[i] = walk[i + 1]
    BY <1>7, <1>9
  <2>2. expandCIDR(a, length) = inner
    BY <1>3, <1>7, <1>9
  <2> HIDE DEF inner
  <2>3. \A b \in block : b \in Usable(block) <=> Value(b) - first \in 1 .. d - 1
    <3>1. Usable(block) = {b \in block : /\ \E c \in block : Value(c) < Value(b)
                                         /\ \E c \in block : Value(b) < Value(c)}
      BY <1>6, <1>9 DEF Usable
    <3>2. ASSUME NEW b \in block
          PROVE  (\E c \in block : Value(c) < Value(b)) <=> first < Value(b)
      <4>1. ASSUME NEW c \in block, Value(c) < Value(b) PROVE first < Value(b)
        <5>1. Value(c) - first \in 0 .. d
          BY <1>1
        <5>2. Value(c) \in Nat /\ Value(b) \in Nat /\ first \in Nat
          BY <1>2
        <5> QED BY <4>1, <5>1, <5>2
      <4>2. Value(Mask(a, length)) = first
        BY DEF first
      <4> QED BY <1>2, <4>1, <4>2
    <3>3. ASSUME NEW b \in block
          PROVE  (\E c \in block : Value(b) < Value(c)) <=> Value(b) < first + d
      <4>1. ASSUME NEW c \in block, Value(b) < Value(c) PROVE Value(b) < first + d
        <5>1. Value(c) - first \in 0 .. d
          BY <1>1
        <5>2. Value(c) \in Nat /\ Value(b) \in Nat /\ first \in Nat
          BY <1>2
        <5> QED BY <4>1, <5>1, <5>2
      <4>2. PICK c \in block : Value(c) = first + d
        BY <1>1, <1>2
      <4> QED BY <1>2, <4>1, <4>2
    <3>4. ASSUME NEW b \in block
          PROVE  Value(b) - first \in 1 .. d - 1 <=> first < Value(b) /\ Value(b) < first + d
      BY <1>2
    <3> QED BY <3>1, <3>2, <3>3, <3>4
  <2>4. Usable(block) \subseteq block
    BY DEF Usable
  <2>5. ASSUME NEW b \in Usable(block)
        PROVE  \E i \in 1 .. d - 1 : inner[i] = b
    <3>1. Value(b) - first \in 1 .. d - 1 /\ b \in block
      BY <2>3, <2>4
    <3>2. PICK k \in 1 .. d + 1 : walk[k] = b /\ k = Value(b) - first + 1
      BY <1>4, <3>1
    <3>3. k - 1 \in 1 .. d - 1 /\ (k - 1) + 1 = k
      BY <1>2, <3>1, <3>2
    <3> QED BY <2>1, <3>2, <3>3
  <2>6. ASSUME NEW i \in 1 .. d - 1
        PROVE  inner[i] \in Usable(block)
    <3>1. i + 1 \in 1 .. d + 1 /\ (i + 1) - 1 = i
      OBVIOUS
    <3>2. inner[i] \in block /\ Value(inner[i]) = first + i
      BY <1>1, <2>1, <3>1
    <3> QED BY <1>2, <2>3, <3>2
  <2>7. Range(inner) = Usable(block)
    BY <2>1, <2>5, <2>6 DEF Range
  <2> QED BY <2>2, <2>7 DEF block
<1> QED BY <1>8, <1>9

-----------------------------------------------------------------------------
(* The identity of a scope: scans that share one probe the same services.  *)

\* The list of a set of ports has all of them and nothing else, in their order.
LEMMA AscendingLists ==
    ASSUME NEW ports, ports \subseteq 1 .. MaxPort
    PROVE  /\ Range(Ascending(ports)) = ports
           /\ \A i, j \in DOMAIN Ascending(ports) :
                 /\ Ascending(ports)[i] \in ports
                 /\ i < j => Ascending(ports)[i] < Ascending(ports)[j]
<1> DEFINE upto(p) == {q \in ports : q <= p}
           n       == Cardinality(ports)
           rank    == [p \in ports |-> Cardinality(upto(p))]
<1>1. IsFiniteSet(ports) /\ n \in Nat
  <2>1. IsFiniteSet(1 .. MaxPort)
    BY MaxPortAssumption, FS_Interval
  <2>2. IsFiniteSet(ports)
    BY <2>1, FS_Subset
  <2> QED BY <2>2, FS_CardinalityType
<1>2. \A p \in ports : /\ upto(p) \subseteq ports /\ IsFiniteSet(upto(p))
                       /\ Cardinality(upto(p)) \in 1 .. n
  <2> SUFFICES ASSUME NEW p \in ports
               PROVE  IsFiniteSet(upto(p)) /\ Cardinality(upto(p)) \in 1 .. n
    OBVIOUS
  <2>1. upto(p) \in SUBSET ports /\ p \in upto(p)
    BY MaxPortAssumption
  <2> HIDE DEF upto
  <2>2. IsFiniteSet(upto(p)) /\ Cardinality(upto(p)) <= n
    BY <1>1, <2>1, FS_Subset
  <2>3. Cardinality(upto(p)) \in Nat /\ Cardinality(upto(p)) # 0
    BY <2>1, <2>2, FS_CardinalityType, FS_EmptySet
  <2> QED BY <1>1, <2>2, <2>3
<1>3. ASSUME NEW p \in ports, NEW q \in ports, p < q
      PROVE  Cardinality(upto(p)) # Cardinality(upto(q))
  <2>0. \A r \in ports : r \in Nat
    BY MaxPortAssumption
  <2>1. upto(p) \in SUBSET upto(q) /\ q \in upto(q) /\ q \notin upto(p)
    <3>1. \A r \in ports : r <= p => r <= q
      BY <1>3, <2>0
    <3>2. q <= q /\ ~(q <= p)
      BY <1>3, <2>0
    <3> QED BY <3>1, <3>2
  <2>2. IsFiniteSet(upto(q))
    BY <1>2
  <2> HIDE DEF upto
  <2> QED BY <2>1, <2>2, FS_Subset
<1>4. \A p, q \in ports : Cardinality(upto(p)) = Cardinality(upto(q)) => p = q
  <2> SUFFICES ASSUME NEW p \in ports, NEW q \in ports, p # q
               PROVE  Cardinality(upto(p)) # Cardinality(upto(q))
    OBVIOUS
  <2>1. p < q \/ q < p
    BY MaxPortAssumption
  <2> HIDE DEF upto
  <2> QED BY <1>3, <2>1
<1>5. \A i \in 1 .. n : \E p \in ports : Cardinality(upto(p)) = i
  <2> HIDE DEF upto
  <2>1. rank \in Injection(ports, 1 .. n)
    BY <1>2, <1>4 DEF Injection, IsInjective
  <2>2. IsFiniteSet(1 .. n) /\ Cardinality(1 .. n) = n
    BY <1>1, FS_Interval
  <2> HIDE DEF rank, n
  <2>3. rank \in Surjection(ports, 1 .. n)
    BY <2>1, <2>2, FS_Injection DEF n
  <2> QED BY <2>3 DEF Surjection, rank
<1>6. \A i \in 1 .. n : /\ Ascending(ports)[i] \in ports
                        /\ Cardinality(upto(Ascending(ports)[i])) = i
  BY <1>5 DEF Ascending
<1>7. DOMAIN Ascending(ports) = 1 .. n
  BY DEF Ascending
<1>8. \A p \in ports : \E i \in 1 .. n : Ascending(ports)[i] = p
  <2> SUFFICES ASSUME NEW p \in ports
               PROVE  Ascending(ports)[Cardinality(upto(p))] = p
    BY <1>2
  <2> HIDE DEF upto, n
  <2> QED BY <1>2, <1>4, <1>6
<1>9. ASSUME NEW i \in 1 .. n, NEW j \in 1 .. n, i < j
      PROVE  Ascending(ports)[i] < Ascending(ports)[j]
  <2> DEFINE p == Ascending(ports)[i]
             q == Ascending(ports)[j]
  <2>1. p \in ports /\ q \in ports /\ Cardinality(upto(p)) = i /\ Cardinality(upto(q)) = j
    BY <1>6
  <2>0. \A r \in ports : r \in Nat
    BY MaxPortAssumption
  <2>2. p \in Nat /\ q \in Nat
    <3> HIDE DEF p, q, upto
    <3> QED BY <2>0, <2>1
  <2>3. SUFFICES ASSUME q <= p PROVE FALSE
    BY <2>2
  <2> HIDE DEF p, q
  <2>4. \A r \in ports : r <= q => r <= p
    BY <2>0, <2>2, <2>3
  <2>5. upto(q) \in SUBSET upto(p) /\ IsFiniteSet(upto(p))
    BY <1>2, <2>1, <2>4
  <2>6. Cardinality(upto(q)) <= Cardinality(upto(p))
    <3> HIDE DEF upto
    <3> QED BY <2>5, FS_Subset
  <2>7. j <= i
    <3> HIDE DEF upto
    <3> QED BY <2>1, <2>6
  <2>8. i \in Nat /\ j \in Nat
    BY <1>1
  <2> QED BY <1>9, <2>7, <2>8
<1>10. Range(Ascending(ports)) = ports
  BY <1>6, <1>7, <1>8 DEF Range
<1> HIDE DEF n
<1> QED BY <1>6, <1>7, <1>9, <1>10

\* A list of ports, as ParsePortRange gives it.
Mentions == SUBSET (Nat \X (1 .. MaxPort))

\* Two texts of ports are one in canonical form exactly if they name the same ports.
LEMMA SamePorts ==
    ASSUME NEW a \in Mentions, NEW b \in Mentions
    PROVE  canonicalPorts(a) = canonicalPorts(b) <=> PortsOf(a) = PortsOf(b)
<1>1. PortsOf(a) \subseteq 1 .. MaxPort /\ PortsOf(b) \subseteq 1 .. MaxPort
  BY DEF Mentions, PortsOf
<1> QED BY <1>1, AscendingLists DEF canonicalPorts

\* The answers for which a scan of these targets completes.
Complete(targets, answers) ==
    /\ \A n \in HostNames : answers[n] \in Resolutions[n]
    /\ \A t \in targets : ~StreamFails(t, answers)

\* Two spellings with one normal form are expanded alike.
LEMMA SameTarget ==
    ASSUME NamesAreStable, NEW s \in Spelled, NEW t \in Spelled,
           NEW a, NEW b, Complete({s}, a), Complete({t}, b),
           normalizeScopeTarget(s) = normalizeScopeTarget(t)
    PROVE  StreamTargets(s, a) = StreamTargets(t, b)
<1>1. ~Malformed(s) /\ ~Malformed(t)
  BY DEF Complete, StreamFails
<1>2. ASSUME NEW u \in Spelled, ~Malformed(u)
      PROVE  LET normal == normalizeScopeTarget(u) IN
             /\ normal.kind = u.kind /\ u.kind \in {"address", "block", "name"}
             /\ u.kind = "address" => normal.ip = u.ip
             /\ u.kind = "name" => normal.name = u.name /\ u.name \in HostNames
             /\ u.kind = "block" => normal.ip = Mask(u.ip, u.length) /\ normal.length = u.length
  <2>1. CASE u \in SpelledAddresses
    <3>1. normalizeScopeTarget(u) = [u EXCEPT !.mapped = FALSE] /\ u.kind = "address"
      BY <2>1 DEF normalizeScopeTarget, SpelledAddresses
    <3> QED BY <2>1, <3>1 DEF SpelledAddresses
  <2>2. CASE u \in SpelledBlocks
    <3>1. normalizeScopeTarget(u) = [u EXCEPT !.ip = Mask(@, u.length)] /\ u.kind = "block"
      BY <1>2, <2>2 DEF normalizeScopeTarget, SpelledBlocks
    <3> QED BY <2>2, <3>1 DEF SpelledBlocks
  <2>3. CASE u \in SpelledNames
    <3>1. normalizeScopeTarget(u) = [u EXCEPT !.upper = FALSE, !.dot = FALSE] /\ u.kind = "name"
      BY <2>3 DEF normalizeScopeTarget, SpelledNames
    <3> QED BY <2>3, <3>1 DEF SpelledNames
  <2> QED BY <2>1, <2>2, <2>3 DEF Spelled
<1>3. CASE s.kind = "address"
  <2>1. t.kind = "address" /\ s.ip = t.ip
    BY <1>1, <1>2, <1>3
  <2> QED BY <1>1, <1>3, <2>1 DEF StreamTargets
<1>4. CASE s.kind = "name"
  <2>1. t.kind = "name" /\ s.name = t.name /\ s.name \in HostNames
    BY <1>1, <1>2, <1>4
  <2>2. /\ a[s.name] \in Resolutions[s.name] \ {{}}
        /\ b[s.name] \in Resolutions[s.name] \ {{}}
    BY <1>4, <2>1 DEF Complete, StreamFails
  <2>3. a[s.name] = b[t.name]
    BY <2>1, <2>2 DEF NamesAreStable
  <2> QED BY <1>1, <1>4, <2>1, <2>3 DEF StreamTargets
<1>5. CASE s.kind = "block"
  <2>1. t.kind = "block" /\ Mask(s.ip, s.length) = Mask(t.ip, t.length) /\ s.length = t.length
    BY <1>1, <1>2, <1>5
  <2>2. expandCIDR(s.ip, s.length) = expandCIDR(t.ip, t.length)
    BY <2>1 DEF expandCIDR
  <2>3. /\ StreamTargets(s, a) = Range(expandCIDR(s.ip, s.length))
        /\ StreamTargets(t, b) = Range(expandCIDR(t.ip, t.length))
    BY <1>1, <1>5, <2>1 DEF StreamTargets
  <2> QED BY <2>2, <2>3
<1> QED BY <1>1, <1>2, <1>3, <1>4, <1>5

\* A scan of this identity that completes probes these services.
ProbedAs(id, probed) ==
    \E targets \in TargetLists, tcp \in Mentions, udp \in Mentions : \E answers :
        /\ Complete(targets, answers)
        /\ id = ID(targets, tcp, udp)
        /\ probed = Probed(targets, tcp, udp, answers)

\* Lists of targets with one canonical form are expanded alike.
LEMMA SameTargets ==
    ASSUME NamesAreStable, NEW S \in TargetLists, NEW T \in TargetLists,
           NEW a, NEW b, Complete(S, a), Complete(T, b),
           canonicalTargets(S) = canonicalTargets(T)
    PROVE  UNION {StreamTargets(t, a) : t \in S} \subseteq UNION {StreamTargets(t, b) : t \in T}
<1> SUFFICES ASSUME NEW s \in S
             PROVE  \E t \in T : StreamTargets(s, a) = StreamTargets(t, b)
  OBVIOUS
<1>1. PICK t \in T : normalizeScopeTarget(s) = normalizeScopeTarget(t)
  BY DEF canonicalTargets
<1>2. s \in Spelled /\ t \in Spelled
  BY TargetListsAssumption
<1>3. Complete({s}, a) /\ Complete({t}, b)
  BY DEF Complete
<1> QED BY <1>1, <1>2, <1>3, SameTarget

\* Complete scans of one identity probe the same services.
LEMMA OneIdentityOneProbe ==
    ASSUME NamesAreStable, NEW id, NEW p, NEW q, ProbedAs(id, p), ProbedAs(id, q)
    PROVE  p = q
<1>0. ASSUME NEW r, ProbedAs(id, r)
      PROVE  \E targets, tcp, udp, answers :
                 /\ targets \in TargetLists /\ tcp \in Mentions /\ udp \in Mentions
                 /\ Complete(targets, answers) /\ id = ID(targets, tcp, udp)
                 /\ r = Probed(targets, tcp, udp, answers)
  BY <1>0 DEF ProbedAs
<1>1. PICK S, tcp, udp, a :
          /\ S \in TargetLists /\ tcp \in Mentions /\ udp \in Mentions
          /\ Complete(S, a) /\ id = ID(S, tcp, udp) /\ p = Probed(S, tcp, udp, a)
  BY <1>0
<1>2. PICK T, tcp2, udp2, b :
          /\ T \in TargetLists /\ tcp2 \in Mentions /\ udp2 \in Mentions
          /\ Complete(T, b) /\ id = ID(T, tcp2, udp2) /\ q = Probed(T, tcp2, udp2, b)
  BY <1>0
<1>3. /\ canonicalTargets(S) = canonicalTargets(T)
      /\ canonicalPorts(tcp) = canonicalPorts(tcp2)
      /\ canonicalPorts(udp) = canonicalPorts(udp2)
  BY <1>1, <1>2 DEF ID
<1>4. PortsOf(tcp) = PortsOf(tcp2) /\ PortsOf(udp) = PortsOf(udp2)
  BY <1>1, <1>2, <1>3, SamePorts
<1>5. UNION {StreamTargets(t, a) : t \in S} = UNION {StreamTargets(t, b) : t \in T}
  BY <1>1, <1>2, <1>3, SameTargets
<1> QED BY <1>1, <1>2, <1>4, <1>5 DEF Probed

\* What a step of a scan does to the database.
Scanned(id, probed, targets, tcp, udp) ==
    LET found  == {Key(id, e[1], e[2], e[3]) : e \in probed \cap listening}
        before == {key \in committed : key.scope = id}
    IN
    /\ ProbedAs(id, probed)
    /\ targets \in TargetLists /\ tcp \in Mentions /\ udp \in Mentions
    /\ \A t \in targets : ~Malformed(t)
    /\ id = ID(targets, tcp, udp)
    /\ PortsOf(tcp) # {}
    /\ \E answers : Complete(targets, answers) /\ probed = Probed(targets, tcp, udp, answers)
    /\ committed' = (committed \ before) \cup found
    /\ last' = [meaning   |-> <<{Meaning(t) : t \in targets}, PortsOf(tcp), PortsOf(udp)>>,
                listening |-> listening,
                probed    |-> probed,
                opened    |-> found \ before,
                closed    |-> before \ found]

\* What is parsed of a text of ports are mentions.
LEMMA ParsedMentions ==
    ASSUME NEW text \in Seq(Seq(Nat))
    PROVE  ParsePortRange(text) \in Mentions
<1>1. DOMAIN text \subseteq Nat
  OBVIOUS
<1>2. ParsePortRange(text) \subseteq (DOMAIN text) \X (1 .. MaxPort)
  BY DEF ParsePortRange
<1>3. \A m \in (DOMAIN text) \X (1 .. MaxPort) : m \in Nat \X (1 .. MaxPort)
  BY <1>1
<1>4. ParsePortRange(text) \subseteq Nat \X (1 .. MaxPort)
  BY <1>2, <1>3, Zenon
<1> QED BY <1>4 DEF Mentions

\* A specification that parses names a port.
LEMMA PortsAreNamed ==
    ASSUME NEW text \in PortTexts, PortsParse(text)
    PROVE  PortsOf(ParsePortRange(text)) # {}
<1> DEFINE list == text[1]
<1>1. text \in Seq(Seq(Nat) \ {<< >>}) /\ text # << >>
  BY PortTextsAssumption
<1>2. 1 \in DOMAIN text /\ list \in Seq(Nat) /\ list # << >>
  BY <1>1
<1> HIDE DEF list
<1>3. 1 \in DOMAIN list /\ list[1] \in Nat
  BY <1>2
<1>4. list[1] \in 1 .. MaxPort /\ list[1] <= list[Len(list)]
  BY <1>2, <1>3 DEF PortsParse, list
<1>5. <<1, list[1]>> \in ParsePortRange(text)
  <2>1. <<1, list[1]>> \in (DOMAIN text) \X (1 .. MaxPort)
    BY <1>2, <1>4
  <2>2. list[1] <= list[1]
    BY <1>3
  <2> QED BY <1>4, <2>1, <2>2 DEF ParsePortRange, list
<1> QED BY <1>5 DEF PortsOf

\* Only a complete scan changes what is committed.
LEMMA ScopeSteps ==
    ASSUME [ScopeNext]_scopeVars
    PROVE  \/ UNCHANGED <<committed, last>>
           \/ \E id, probed, targets, tcp, udp : Scanned(id, probed, targets, tcp, udp)
<1>1. CASE UNCHANGED scopeVars \/ NetworkChange
  BY <1>1 DEF scopeVars, NetworkChange
<1>2. CASE RunScan
  <2>1. PICK targets \in TargetLists, tcpText \in PortTexts, udpText \in PortTexts \cup {<< >>},
             answers \in [HostNames -> UNION {Resolutions[n] : n \in HostNames}] :
            /\ \A n \in HostNames : answers[n] \in Resolutions[n]
            /\ PortsParse(tcpText) /\ PortsParse(udpText)
            /\ CompleteScan(targets, ParsePortRange(tcpText), ParsePortRange(udpText), answers)
    BY <1>2 DEF RunScan
  <2> DEFINE tcp == ParsePortRange(tcpText)
             udp == ParsePortRange(udpText)
             id  == ID(targets, tcp, udp)
             probed == Probed(targets, tcp, udp, answers)
  <2>2. CASE \E t \in targets : StreamFails(t, answers)
    BY <2>1, <2>2 DEF CompleteScan
  <2>3. CASE ~ \E t \in targets : StreamFails(t, answers)
    <3>1. Complete(targets, answers) /\ \A t \in targets : ~Malformed(t)
      BY <2>1, <2>3 DEF Complete, StreamFails
    <3>2. tcp \in Mentions /\ udp \in Mentions
      <4>0. << >> \in Seq(Seq(Nat))
        OBVIOUS
      <4>1. tcpText \in Seq(Seq(Nat)) /\ udpText \in Seq(Seq(Nat))
        <5>1. \A text \in PortTexts : text \in Seq(Seq(Nat))
          BY PortTextsAssumption
        <5> QED BY <4>0, <5>1, Zenon
      <4>2. ParsePortRange(tcpText) \in Mentions
        BY <4>1, ParsedMentions, Zenon
      <4>3. ParsePortRange(udpText) \in Mentions
        BY <4>1, ParsedMentions, Zenon
      <4> QED BY <4>2, <4>3
    <3>3. ProbedAs(id, probed)
      BY <2>1, <3>1, <3>2 DEF ProbedAs
    <3>4. PortsOf(tcp) # {}
      BY <2>1, PortsAreNamed
    <3>5. \E a : Complete(targets, a) /\ probed = Probed(targets, tcp, udp, a)
      BY <3>1
    <3>6. Scanned(id, probed, targets, tcp, udp)
      <4> HIDE DEF tcp, udp
      <4> QED BY <2>1, <2>3, <3>1, <3>2, <3>3, <3>4, <3>5 DEF CompleteScan, Scanned, tcp, udp
    <3> QED BY <3>6
  <2> QED BY <2>2, <2>3
<1> QED BY <1>1, <1>2 DEF ScopeNext

\* Whatever is committed under an identity was probed by its scans.
KeysWereProbed ==
    \A key \in committed :
        \E probed : ProbedAs(key.scope, probed) /\ <<key.ip, key.port, key.protocol>> \in probed

\* The key of a probed service gives back what was probed.
LEMMA ProbedServices ==
    ASSUME NEW id, NEW probed, ProbedAs(id, probed), NEW e \in probed
    PROVE  /\ e = <<e[1], e[2], e[3]>>
           /\ Key(id, e[1], e[2], e[3]).scope = id
           /\ LET key == Key(id, e[1], e[2], e[3])
              IN  <<key.ip, key.port, key.protocol>> = e
<1>1. PICK ips, tcp, udp :
          probed = (ips \X tcp \X {"tcp"}) \cup (ips \X udp \X {"udp"})
  BY DEF ProbedAs, Probed
<1>2. e = <<e[1], e[2], e[3]>>
  BY <1>1
<1> QED BY <1>2 DEF Key

\* Every key in the database was probed by a scan of its scope.
LEMMA KeysWereProbedInvariant == ScopeSpec => []KeysWereProbed
<1>1. ScopeInit => KeysWereProbed
  BY DEF ScopeInit, KeysWereProbed
<1>2. KeysWereProbed /\ [ScopeNext]_scopeVars => KeysWereProbed'
  <2> SUFFICES ASSUME KeysWereProbed, [ScopeNext]_scopeVars, NEW key \in committed'
               PROVE  \E probed : /\ ProbedAs(key.scope, probed)
                                  /\ <<key.ip, key.port, key.protocol>> \in probed
    BY DEF KeysWereProbed, ProbedAs
  <2>1. CASE key \in committed
    BY <2>1 DEF KeysWereProbed
  <2>2. CASE key \notin committed
    <3>1. PICK id, probed, targets, tcp, udp : Scanned(id, probed, targets, tcp, udp)
      BY <2>2, ScopeSteps
    <3>2. PICK e \in probed : key = Key(id, e[1], e[2], e[3])
      BY <2>2, <3>1 DEF Scanned
    <3>3. ProbedAs(id, probed)
      BY <3>1 DEF Scanned
    <3>4. key.scope = id /\ <<key.ip, key.port, key.protocol>> = e
      BY <3>2, <3>3, ProbedServices
    <3> QED BY <3>2, <3>3, <3>4
  <2> QED BY <2>1, <2>2
<1> QED BY <1>1, <1>2, PTL DEF ScopeSpec

\* Two scans compare only if they probed the same services: while every name
\* resolves alike, a promotion closes nothing its scan did not probe (scope.go,
\* DEVLOG.md:130).
THEOREM ClosedMeansProbed == NamesAreStable => (ScopeSpec => []ClosedWasProbed)
<1> SUFFICES ASSUME NamesAreStable PROVE ScopeSpec => []ClosedWasProbed
  OBVIOUS
<1>1. ScopeInit => ClosedWasProbed
  BY DEF ScopeInit, ClosedWasProbed
<1>2. ClosedWasProbed /\ KeysWereProbed /\ [ScopeNext]_scopeVars => ClosedWasProbed'
  <2> SUFFICES ASSUME ClosedWasProbed, KeysWereProbed, [ScopeNext]_scopeVars
               PROVE  ClosedWasProbed'
    OBVIOUS
  <2>1. CASE UNCHANGED <<committed, last>>
    BY <2>1 DEF ClosedWasProbed
  <2>2. ASSUME NEW id, NEW probed, NEW targets, NEW tcp, NEW udp,
               Scanned(id, probed, targets, tcp, udp)
        PROVE  ClosedWasProbed'
    <3>1. last'.probed = probed /\ ProbedAs(id, probed)
      BY <2>2 DEF Scanned
    <3>2. last'.closed \subseteq {key \in committed : key.scope = id}
      BY <2>2 DEF Scanned
    <3>3. ASSUME NEW key \in last'.closed
          PROVE  <<key.ip, key.port, key.protocol>> \in probed
      <4>1. PICK before : /\ ProbedAs(id, before)
                          /\ <<key.ip, key.port, key.protocol>> \in before
        BY <3>2, <3>3 DEF KeysWereProbed
      <4> QED BY <3>1, <4>1, OneIdentityOneProbe
    <3> QED BY <3>1, <3>3 DEF ClosedWasProbed
  <2> QED BY <2>1, <2>2, ScopeSteps
<1> QED BY <1>1, <1>2, KeysWereProbedInvariant, PTL DEF ScopeSpec

-----------------------------------------------------------------------------
(* Scans that say the same are scans of one scope.                         *)

\* Spellings that mean the same have one normal form.
LEMMA MeaningIsIdentity ==
    ASSUME NEW s \in Spelled, NEW t \in Spelled, ~Malformed(s), ~Malformed(t),
           Meaning(s) = Meaning(t)
    PROVE  normalizeScopeTarget(s) = normalizeScopeTarget(t)
<1>0. Meaning(s).form = Meaning(t).form /\ Meaning(s).names = Meaning(t).names
      /\ Meaning(s).ips = Meaning(t).ips
  OBVIOUS
<1>1. ASSUME NEW u \in Spelled
      PROVE  \/ u \in SpelledAddresses /\ u.kind = "address"
                /\ Meaning(u).form = <<"address">> /\ Meaning(u).ips = {u.ip}
             \/ u \in SpelledBlocks /\ u.kind = "block"
                /\ Meaning(u).form = <<"block", u.mapped, u.length>>
                /\ Meaning(u).ips = Block(u.ip, u.length)
             \/ u \in SpelledNames /\ u.kind = "name"
                /\ Meaning(u).form = <<"name">> /\ Meaning(u).names = {u.name}
  <2>1. CASE u \in SpelledAddresses
    <3>1. u.kind = "address"
      BY <2>1 DEF SpelledAddresses
    <3> QED BY <2>1, <3>1 DEF Meaning
  <2>2. CASE u \in SpelledBlocks
    <3>1. u.kind = "block"
      BY <2>2 DEF SpelledBlocks
    <3> QED BY <2>2, <3>1 DEF Meaning
  <2>3. CASE u \in SpelledNames
    <3>1. u.kind = "name"
      BY <2>3 DEF SpelledNames
    <3> QED BY <2>3, <3>1 DEF Meaning
  <2> QED BY <2>1, <2>2, <2>3 DEF Spelled
<1>2. CASE s.kind = "address" /\ t.kind = "address"
  <2>1. s \in SpelledAddresses /\ t \in SpelledAddresses /\ s.ip = t.ip
    BY <1>0, <1>1, <1>2
  <2>2. [s EXCEPT !.mapped = FALSE] = [t EXCEPT !.mapped = FALSE]
    BY <2>1 DEF SpelledAddresses
  <2>3. /\ normalizeScopeTarget(s) = [s EXCEPT !.mapped = FALSE]
        /\ normalizeScopeTarget(t) = [t EXCEPT !.mapped = FALSE]
    BY <1>2 DEF normalizeScopeTarget
  <2> QED BY <2>2, <2>3
<1>3. CASE s.kind = "name" /\ t.kind = "name"
  <2>1. s \in SpelledNames /\ t \in SpelledNames /\ s.name = t.name
    BY <1>0, <1>1, <1>3
  <2>2. [s EXCEPT !.upper = FALSE, !.dot = FALSE] = [t EXCEPT !.upper = FALSE, !.dot = FALSE]
    BY <2>1 DEF SpelledNames
  <2>3. /\ normalizeScopeTarget(s) = [s EXCEPT !.upper = FALSE, !.dot = FALSE]
        /\ normalizeScopeTarget(t) = [t EXCEPT !.upper = FALSE, !.dot = FALSE]
    BY <1>3 DEF normalizeScopeTarget
  <2> QED BY <2>2, <2>3
<1>4. CASE s.kind = "block" /\ t.kind = "block"
  <2>1. /\ s \in SpelledBlocks /\ t \in SpelledBlocks
        /\ s.mapped = t.mapped /\ s.length = t.length
        /\ Block(s.ip, s.length) = Block(t.ip, t.length)
    BY <1>0, <1>1, <1>4
  <2>2. s.ip \in Block(s.ip, s.length)
    BY <2>1 DEF Block, InBlock, SpelledBlocks
  <2>3. Mask(s.ip, s.length) = Mask(t.ip, t.length)
    BY <2>1, <2>2 DEF Block, InBlock
  <2>4. [s EXCEPT !.ip = Mask(@, s.length)] = [t EXCEPT !.ip = Mask(@, t.length)]
    BY <2>1, <2>3 DEF SpelledBlocks
  <2>5. /\ normalizeScopeTarget(s) = [s EXCEPT !.ip = Mask(@, s.length)]
        /\ normalizeScopeTarget(t) = [t EXCEPT !.ip = Mask(@, t.length)]
    BY <1>4 DEF normalizeScopeTarget
  <2> QED BY <2>4, <2>5
<1>5. /\ <<"address">> # <<"name">>
      /\ \A m, l : <<"block", m, l>> # <<"name">> /\ <<"block", m, l>> # <<"address">>
  OBVIOUS
<1>6. s.kind = t.kind
  BY <1>0, <1>1, <1>5
<1> QED BY <1>1, <1>2, <1>3, <1>4, <1>6

\* Lists that mean the same have one canonical form.
LEMMA SameMeaning ==
    ASSUME NEW S \in TargetLists, NEW T \in TargetLists,
           \A t \in S \cup T : ~Malformed(t),
           {Meaning(t) : t \in S} = {Meaning(t) : t \in T}
    PROVE  canonicalTargets(S) \subseteq canonicalTargets(T)
<1> SUFFICES ASSUME NEW s \in S
             PROVE  \E t \in T : normalizeScopeTarget(s) = normalizeScopeTarget(t)
  BY DEF canonicalTargets
<1>1. PICK t \in T : Meaning(s) = Meaning(t)
  OBVIOUS
<1>2. s \in Spelled /\ t \in Spelled
  BY TargetListsAssumption
<1> QED BY <1>1, <1>2, MeaningIsIdentity

\* The keys of the services among these that a scan has found.
Found(id, services) == {Key(id, e[1], e[2], e[3]) : e \in services}

\* The last scan was of these targets and ports, and the database has of its
\* scope what it found.
LastScan(targets, tcp, udp) ==
    LET id == ID(targets, tcp, udp) IN
    /\ \A t \in targets : ~Malformed(t)
    /\ ProbedAs(id, last.probed)
    /\ last.meaning = <<{Meaning(t) : t \in targets}, PortsOf(tcp), PortsOf(udp)>>
    /\ {key \in committed : key.scope = id} = Found(id, last.probed \cap last.listening)

LastIsCommitted ==
    last # << >> =>
        \E targets \in TargetLists, tcp \in Mentions, udp \in Mentions :
            LastScan(targets, tcp, udp)

\* What the last scan of a scope found is committed for it.
LEMMA LastIsCommittedInvariant == ScopeSpec => []LastIsCommitted
<1>1. ScopeInit => LastIsCommitted
  BY DEF ScopeInit, LastIsCommitted
<1>2. LastIsCommitted /\ [ScopeNext]_scopeVars => LastIsCommitted'
  <2> SUFFICES ASSUME LastIsCommitted, [ScopeNext]_scopeVars PROVE LastIsCommitted'
    OBVIOUS
  <2>1. CASE UNCHANGED <<committed, last>>
    <3>1. \A targets, tcp, udp : LastScan(targets, tcp, udp) => LastScan(targets, tcp, udp)'
      BY <2>1 DEF LastScan
    <3> QED BY <2>1, <3>1 DEF LastIsCommitted
  <2>2. ASSUME NEW id, NEW probed, NEW targets, NEW tcp, NEW udp,
               Scanned(id, probed, targets, tcp, udp)
        PROVE  LastIsCommitted'
    <3> DEFINE found  == Found(id, probed \cap listening)
               before == {key \in committed : key.scope = id}
    <3>1. /\ ProbedAs(id, probed) /\ id = ID(targets, tcp, udp)
          /\ targets \in TargetLists /\ tcp \in Mentions /\ udp \in Mentions
          /\ \A t \in targets : ~Malformed(t)
          /\ committed' = (committed \ before) \cup found
          /\ last'.probed = probed /\ last'.listening = listening
          /\ last'.meaning = <<{Meaning(t) : t \in targets}, PortsOf(tcp), PortsOf(udp)>>
      BY <2>2 DEF Scanned, Found
    <3>2. \A key \in found : key.scope = id
      BY DEF Found, Key
    <3> HIDE DEF found
    <3>3. {key \in committed' : key.scope = id} = found
      BY <3>1, <3>2
    <3>4. ProbedAs(id, last'.probed)
      BY <3>1
    <3>5. {key \in committed' : key.scope = id} = Found(id, last'.probed \cap last'.listening)
      BY <3>1, <3>3 DEF found
    <3>6. LastScan(targets, tcp, udp)'
      BY <3>1, <3>4, <3>5 DEF LastScan
    <3> QED BY <3>1, <3>6 DEF LastIsCommitted
  <2> QED BY <2>1, <2>2, ScopeSteps
<1> QED BY <1>1, <1>2, PTL DEF ScopeSpec

\* However a scope is spelled the second time, a scan of it over services that
\* have not changed opens nothing and closes nothing, while every name resolves
\* alike (scope.go:28, EVENT_SCHEMA.md:65).
THEOREM RespellingIsSilent == NamesAreStable => (ScopeSpec => UnchangedNetworkIsSilent)
<1> SUFFICES ASSUME NamesAreStable PROVE ScopeSpec => UnchangedNetworkIsSilent
  OBVIOUS
<1>1. ASSUME LastIsCommitted, [ScopeNext]_scopeVars,
             last # << >>, last' # last,
             last'.meaning = last.meaning, last'.listening = last.listening
      PROVE  last'.opened = {} /\ last'.closed = {}
  <2>1. PICK id, probed, targets, tcp, udp : Scanned(id, probed, targets, tcp, udp)
    BY <1>1, ScopeSteps
  <2>2. PICK S \in TargetLists, a \in Mentions, b \in Mentions : LastScan(S, a, b)
    BY <1>1 DEF LastIsCommitted
  <2> USE DEF LastScan
  <2>3. /\ targets \in TargetLists /\ tcp \in Mentions /\ udp \in Mentions
        /\ \A t \in targets : ~Malformed(t)
        /\ id = ID(targets, tcp, udp) /\ ProbedAs(id, probed)
        /\ last'.meaning = <<{Meaning(t) : t \in targets}, PortsOf(tcp), PortsOf(udp)>>
        /\ last'.listening = listening
        /\ last'.opened = Found(id, probed \cap listening) \ {key \in committed : key.scope = id}
        /\ last'.closed = {key \in committed : key.scope = id} \ Found(id, probed \cap listening)
    BY <2>1 DEF Scanned, Found
  <2>4. /\ {Meaning(t) : t \in targets} = {Meaning(t) : t \in S}
        /\ PortsOf(tcp) = PortsOf(a) /\ PortsOf(udp) = PortsOf(b)
    BY <1>1, <2>2, <2>3
  <2>5. canonicalTargets(targets) = canonicalTargets(S)
    <3>1. \A t \in targets \cup S : ~Malformed(t)
      BY <2>2, <2>3
    <3>2. canonicalTargets(targets) \subseteq canonicalTargets(S)
      BY <2>3, <2>4, <3>1, SameMeaning
    <3>3. canonicalTargets(S) \subseteq canonicalTargets(targets)
      BY <2>3, <2>4, <3>1, SameMeaning
    <3> QED BY <3>2, <3>3
  <2>6. id = ID(S, a, b)
    BY <2>2, <2>3, <2>4, <2>5 DEF ID, canonicalPorts
  <2>7. probed = last.probed
    BY <2>2, <2>3, <2>6, OneIdentityOneProbe
  <2> QED BY <1>1, <2>2, <2>3, <2>6, <2>7
<1> QED BY <1>1, LastIsCommittedInvariant, PTL DEF ScopeSpec, UnchangedNetworkIsSilent
-----------------------------------------------------------------------------
(* A scan probes what its targets say.                                     *)

\* A target is expanded into the hosts it means, or is a name.
LEMMA TargetIsProbed ==
    ASSUME NEW t \in Spelled, ~Malformed(t), NEW answers
    PROVE  /\ Hosts(Meaning(t)) \subseteq StreamTargets(t, answers)
           /\ Hosts(Meaning(t)) = StreamTargets(t, answers) \/ Meaning(t).names # {}
<1>1. CASE t \in SpelledAddresses
  <2>1. t.kind = "address"
    BY <1>1 DEF SpelledAddresses
  <2>2. Meaning(t).form = <<"address">> /\ Meaning(t).ips = {t.ip}
    BY <2>1 DEF Meaning
  <2>3. Hosts(Meaning(t)) = {t.ip}
    <3>1. <<"address">>[1] # "block"
      OBVIOUS
    <3> QED BY <2>2, <3>1 DEF Hosts
  <2>4. StreamTargets(t, answers) = {t.ip}
    BY <2>1 DEF StreamTargets, Malformed
  <2> QED BY <2>3, <2>4
<1>2. CASE t \in SpelledNames
  <2>1. t.kind = "name"
    BY <1>2 DEF SpelledNames
  <2>2. Meaning(t).form = <<"name">> /\ Meaning(t).ips = {} /\ Meaning(t).names = {t.name}
    BY <2>1 DEF Meaning
  <2>3. Hosts(Meaning(t)) = {}
    <3>1. <<"name">>[1] # "block"
      OBVIOUS
    <3> QED BY <2>2, <3>1 DEF Hosts
  <2> QED BY <2>2, <2>3
<1>3. CASE t \in SpelledBlocks
  <2>1. t.kind = "block" /\ t.ip \in Addresses /\ t.length \in 1 .. Bits + 1
    BY <1>3 DEF SpelledBlocks
  <2>2. t.length \in 1 .. Bits
    <3>1. Bits \in Nat
      BY OctetsAssumption, WidthAssumption DEF Bits
    <3> QED BY <2>1, <3>1 DEF Malformed
  <2>3. /\ Meaning(t).form = <<"block", t.mapped, t.length>>
        /\ Meaning(t).ips = Block(t.ip, t.length)
    BY <2>1 DEF Meaning
  <2>4. Hosts(Meaning(t)) = Usable(Block(t.ip, t.length))
    <3>1. <<"block", t.mapped, t.length>>[1] = "block"
      OBVIOUS
    <3> QED BY <2>3, <3>1 DEF Hosts
  <2>5. StreamTargets(t, answers) = Range(expandCIDR(t.ip, t.length))
    BY <2>1 DEF StreamTargets
  <2> QED BY <2>1, <2>2, <2>4, <2>5, ExpandsUsable
<1> QED BY <1>1, <1>2, <1>3 DEF Spelled

\* Whatever address of a block it is spelled with, however its masked octets
\* lie and its increments carry, a completed scan has probed the usable
\* addresses of every block and no others (parser.go:127-152, DEVLOG.md:130).
THEOREM ScopeIsProbedTheorem == ScopeSpec => []ScopeIsProbed
<1>1. ScopeInit => ScopeIsProbed
  BY DEF ScopeInit, ScopeIsProbed
<1>2. ScopeIsProbed /\ [ScopeNext]_scopeVars => ScopeIsProbed'
  <2> SUFFICES ASSUME ScopeIsProbed, [ScopeNext]_scopeVars PROVE ScopeIsProbed'
    OBVIOUS
  <2>1. CASE UNCHANGED <<committed, last>>
    BY <2>1 DEF ScopeIsProbed
  <2>2. ASSUME NEW id, NEW probed, NEW targets, NEW tcp, NEW udp,
               Scanned(id, probed, targets, tcp, udp)
        PROVE  ScopeIsProbed'
    <3>1. PICK answers : probed = Probed(targets, tcp, udp, answers)
      BY <2>2 DEF Scanned
    <3>2. /\ targets \in TargetLists /\ \A t \in targets : ~Malformed(t)
          /\ PortsOf(tcp) # {}
          /\ last'.meaning[1] = {Meaning(t) : t \in targets}
          /\ last'.probed = probed
      BY <2>2 DEF Scanned
    <3> DEFINE ips   == UNION {StreamTargets(t, answers) : t \in targets}
               hosts == UNION {Hosts(said) : said \in last'.meaning[1]}
    <3>3. {e[1] : e \in last'.probed} = ips
      <4> HIDE DEF ips
      <4>1. probed = (ips \X PortsOf(tcp) \X {"tcp"}) \cup (ips \X PortsOf(udp) \X {"udp"})
        BY <3>1 DEF Probed, ips
      <4>2. PICK p : p \in PortsOf(tcp)
        BY <3>2
      <4>3. \A i \in ips : <<i, p, "tcp">> \in probed /\ <<i, p, "tcp">>[1] = i
        BY <4>1, <4>2
      <4>4. \A e \in probed : e[1] \in ips
        BY <4>1
      <4> QED BY <3>2, <4>3, <4>4
    <3>4. \A t \in targets : t \in Spelled /\ ~Malformed(t)
      BY <3>2, TargetListsAssumption
    <3>5. hosts \subseteq ips
      BY <3>2, <3>4, TargetIsProbed
    <3>6. ips = hosts \/ \E said \in last'.meaning[1] : said.names # {}
      <4>1. SUFFICES ASSUME \A t \in targets : Meaning(t).names = {} PROVE ips \subseteq hosts
        BY <3>2, <3>5
      <4>2. \A t \in targets : Hosts(Meaning(t)) = StreamTargets(t, answers)
        BY <3>4, <4>1, TargetIsProbed
      <4> QED BY <3>2, <4>2
    <3> HIDE DEF ips, hosts
    <3> QED BY <3>3, <3>5, <3>6 DEF ScopeIsProbed, hosts
  <2> QED BY <2>1, <2>2, ScopeSteps
<1> QED BY <1>1, <1>2, PTL DEF ScopeSpec

-----------------------------------------------------------------------------
(* What the two components keep.                                           *)

\* Normal forms are targets of the shape that scopes keep.
LEMMA NormalTargets ==
    ASSUME NEW t \in Spelled
    PROVE  normalizeScopeTarget(t) \in CanonicalTargets
<1>1. CASE t \in SpelledAddresses
  <2>1. normalizeScopeTarget(t) = [t EXCEPT !.mapped = FALSE]
    BY <1>1 DEF normalizeScopeTarget, SpelledAddresses
  <2>2. [t EXCEPT !.mapped = FALSE] \in [kind : {"address"}, ip : Addresses, mapped : {FALSE}]
    BY <1>1 DEF SpelledAddresses
  <2> QED BY <2>1, <2>2 DEF CanonicalTargets
<1>2. CASE t \in SpelledNames
  <2>1. normalizeScopeTarget(t) = [t EXCEPT !.upper = FALSE, !.dot = FALSE]
    BY <1>2 DEF normalizeScopeTarget, SpelledNames
  <2>2. [t EXCEPT !.upper = FALSE, !.dot = FALSE]
            \in [kind : {"name"}, name : HostNames, upper : {FALSE}, dot : {FALSE}]
    BY <1>2 DEF SpelledNames
  <2> QED BY <2>1, <2>2 DEF CanonicalTargets
<1>3. CASE t \in SpelledBlocks /\ Malformed(t)
  <2>1. normalizeScopeTarget(t) = t
    BY <1>3 DEF normalizeScopeTarget, SpelledBlocks
  <2> QED BY <1>3, <2>1 DEF CanonicalTargets
<1>4. CASE t \in SpelledBlocks /\ ~Malformed(t)
  <2> DEFINE u == [t EXCEPT !.ip = Mask(t.ip, t.length)]
  <2>1. t.kind = "block" /\ t.ip \in Addresses /\ t.length \in 1 .. Bits + 1
    BY <1>4 DEF SpelledBlocks
  <2>2. t.length \in Nat
    BY <2>1
  <2>3. /\ Mask(t.ip, t.length) \in Addresses
        /\ Mask(Mask(t.ip, t.length), t.length) = Mask(t.ip, t.length)
    BY <2>1, <2>2, MaskIs
  <2>4. u \in SpelledBlocks /\ u.ip = Mask(t.ip, t.length) /\ u.length = t.length
    BY <1>4, <2>1, <2>3 DEF SpelledBlocks
  <2>5. normalizeScopeTarget(t) = u
    BY <1>4, <2>1 DEF normalizeScopeTarget
  <2>6. u.ip = Mask(u.ip, u.length)
    <3> HIDE DEF u
    <3> QED BY <2>3, <2>4
  <2> HIDE DEF u
  <2> QED BY <2>4, <2>5, <2>6 DEF CanonicalTargets
<1> QED BY <1>1, <1>2, <1>3, <1>4 DEF Spelled

\* Targets are expanded into addresses.
LEMMA TargetsAreAddresses ==
    ASSUME NEW t \in Spelled, NEW answers, \A n \in HostNames : answers[n] \in Resolutions[n]
    PROVE  StreamTargets(t, answers) \subseteq Addresses
<1>1. CASE Malformed(t)
  <2>1. t.kind = "block"
    BY <1>1 DEF Malformed
  <2>2. StreamTargets(t, answers) = {}
    BY <1>1, <2>1, Zenon DEF StreamTargets
  <2> QED BY <2>2
<1>2. CASE ~Malformed(t) /\ t \in SpelledAddresses
  <2>1. StreamTargets(t, answers) = {t.ip} /\ t.ip \in Addresses
    BY <1>2 DEF StreamTargets, SpelledAddresses
  <2> QED BY <2>1
<1>3. CASE ~Malformed(t) /\ t \in SpelledNames
  <2>1. StreamTargets(t, answers) = answers[t.name] /\ t.name \in HostNames
    BY <1>3 DEF StreamTargets, SpelledNames
  <2>2. Resolutions[t.name] \in SUBSET SUBSET Addresses
    BY <2>1, ResolutionsAssumption
  <2> QED BY <2>1, <2>2
<1>4. CASE ~Malformed(t) /\ t \in SpelledBlocks
  <2>1. t.kind = "block" /\ t.ip \in Addresses /\ t.length \in 1 .. Bits + 1
    BY <1>4 DEF SpelledBlocks
  <2>2. t.length \in 1 .. Bits
    <3>1. Bits \in Nat
      BY OctetsAssumption, WidthAssumption DEF Bits
    <3> QED BY <1>4, <2>1, <3>1 DEF Malformed
  <2>3. StreamTargets(t, answers) = Range(expandCIDR(t.ip, t.length))
    BY <1>4, <2>1 DEF StreamTargets
  <2>4. StreamTargets(t, answers) = Usable(Block(t.ip, t.length))
    BY <2>1, <2>2, <2>3, ExpandsUsable
  <2> QED BY <2>4 DEF Usable, Block
<1> QED BY <1>1, <1>2, <1>3, <1>4 DEF Spelled

\* The keys of a database of scans.
KeyOK(key) ==
    /\ key.scope.targets \subseteq CanonicalTargets
    /\ \A list \in {key.scope.tcp, key.scope.udp} :
          \A i, j \in DOMAIN list : list[i] \in 1 .. MaxPort /\ (i < j => list[i] < list[j])
    /\ key.ip \in Addresses /\ key.port \in 1 .. MaxPort
    /\ key.protocol \in {"tcp", "udp"}

\* A service that was found has a key of the shape the database keeps.
LEMMA FoundKeys ==
    ASSUME NEW targets \in TargetLists, NEW tcp \in Mentions, NEW udp \in Mentions, NEW answers,
           \A n \in HostNames : answers[n] \in Resolutions[n],
           NEW e \in Probed(targets, tcp, udp, answers)
    PROVE  KeyOK(Key(ID(targets, tcp, udp), e[1], e[2], e[3]))
<1> DEFINE ips == UNION {StreamTargets(t, answers) : t \in targets}
           id  == ID(targets, tcp, udp)
           key == Key(id, e[1], e[2], e[3])
<1>1. PortsOf(tcp) \subseteq 1 .. MaxPort /\ PortsOf(udp) \subseteq 1 .. MaxPort
  BY DEF Mentions, PortsOf
<1>2. targets \subseteq Spelled
  BY TargetListsAssumption
<1>3. ips \subseteq Addresses
  BY <1>2, TargetsAreAddresses
<1>4. e[1] \in Addresses /\ e[2] \in 1 .. MaxPort /\ e[3] \in {"tcp", "udp"}
  <2>1. e \in (ips \X PortsOf(tcp) \X {"tcp"}) \cup (ips \X PortsOf(udp) \X {"udp"})
    BY DEF Probed
  <2> HIDE DEF ips
  <2> QED BY <1>1, <1>3, <2>1
<1>5. id.targets \subseteq CanonicalTargets
  BY <1>2, NormalTargets DEF ID, canonicalTargets
<1>6. \A list \in {id.tcp, id.udp} :
          \A i, j \in DOMAIN list : list[i] \in 1 .. MaxPort /\ (i < j => list[i] < list[j])
  <2>1. ASSUME NEW list \in {id.tcp, id.udp}
        PROVE  \E ports : ports \subseteq 1 .. MaxPort /\ list = Ascending(ports)
    BY <1>1, <2>1 DEF ID, canonicalPorts
  <2>2. ASSUME NEW ports, ports \subseteq 1 .. MaxPort,
               NEW i \in DOMAIN Ascending(ports), NEW j \in DOMAIN Ascending(ports)
        PROVE  /\ Ascending(ports)[i] \in 1 .. MaxPort
               /\ i < j => Ascending(ports)[i] < Ascending(ports)[j]
    BY <2>2, AscendingLists
  <2> HIDE DEF id
  <2> QED BY <2>1, <2>2
<1>7. /\ key.scope = id /\ key.ip = e[1] /\ key.port = e[2] /\ key.protocol = e[3]
  BY DEF Key
<1> HIDE DEF key, id
<1>8. KeyOK(key)
  BY <1>4, <1>5, <1>6, <1>7 DEF KeyOK
<1> QED BY <1>8 DEF key, id

\* A database of scans has the keys of normalised scopes, with their ports
\* rising, and of addresses and ports that a scan can reach (scope.go:28-86,
\* service_identity.go:59-92).
THEOREM ScopeTypes == ScopeSpec => []ScopeTypeOK
<1> DEFINE Rest == listening \in Listenings /\ scans \in 0 .. MaxScans
<1>1. ScopeInit => ScopeTypeOK
  BY MaxScansAssumption DEF ScopeInit, ScopeTypeOK
<1>2. ScopeTypeOK /\ [ScopeNext]_scopeVars => ScopeTypeOK'
  <2> SUFFICES ASSUME ScopeTypeOK, [ScopeNext]_scopeVars PROVE ScopeTypeOK'
    OBVIOUS
  <2>1. \A key \in committed : KeyOK(key)
    BY DEF ScopeTypeOK, KeyOK
  <2>2. listening' \in Listenings /\ scans' \in 0 .. MaxScans
    <3>0. Rest
      BY DEF ScopeTypeOK
    <3>1. CASE UNCHANGED scopeVars
      BY <3>0, <3>1 DEF scopeVars
    <3>2. CASE NetworkChange
      BY <3>0, <3>2 DEF NetworkChange
    <3>3. CASE RunScan
      <4>1. scans < MaxScans /\ scans' = scans + 1 /\ listening' = listening
        BY <3>3 DEF RunScan, CompleteScan
      <4> QED BY <3>0, <4>1, MaxScansAssumption
    <3> QED BY <3>1, <3>2, <3>3 DEF ScopeNext
  <2>3. \A key \in committed' : KeyOK(key)
    <3>1. CASE UNCHANGED <<committed, last>>
      BY <2>1, <3>1
    <3>2. ASSUME NEW id, NEW probed, NEW targets, NEW tcp, NEW udp,
                 Scanned(id, probed, targets, tcp, udp)
          PROVE  \A key \in committed' : KeyOK(key)
      <4>1. PICK answers : Complete(targets, answers) /\ probed = Probed(targets, tcp, udp, answers)
        BY <3>2 DEF Scanned
      <4>2. /\ targets \in TargetLists /\ tcp \in Mentions /\ udp \in Mentions
            /\ id = ID(targets, tcp, udp)
            /\ committed' \subseteq committed \cup {Key(id, e[1], e[2], e[3]) : e \in probed}
        BY <3>2 DEF Scanned
      <4>3. \A e \in probed : KeyOK(Key(id, e[1], e[2], e[3]))
        BY <4>1, <4>2, FoundKeys DEF Complete
      <4> QED BY <2>1, <4>2, <4>3
    <3> QED BY <3>1, <3>2, ScopeSteps
  <2> QED BY <2>2, <2>3 DEF ScopeTypeOK, KeyOK
<1> QED BY <1>1, <1>2, PTL DEF ScopeSpec

\* A match gives the context of a rule of the file, or none.
LEMMA LoadedContext ==
    ASSUME NEW file \in RuleFiles, NEW matcher \in NewMatcher(LoadRulesFromJSON(file)), NEW address
    PROVE  Match(matcher, address) \in Contexts
<1> DEFINE loaded == LoadRulesFromJSON(file)
<1>1. /\ DOMAIN loaded \subseteq Nat
      /\ \A i \in DOMAIN loaded : loaded[i].length \in Nat
  BY LoadedRules
<1>2. DOMAIN loaded = DOMAIN file
  BY DEF LoadRulesFromJSON
<1>3. ASSUME NEW i \in DOMAIN file
      PROVE  /\ loaded[i].criticality = Assigned(file[i].criticality)
             /\ loaded[i].owner = Assigned(file[i].owner)
  <2>1. file[i] \in RuleType
    BY RuleFilesAssumption
  <2>2. loaded[i] = [file[i] EXCEPT !.criticality = Assigned(file[i].criticality),
                                    !.owner = Assigned(file[i].owner)]
    BY DEF LoadRulesFromJSON
  <2> QED BY <2>1, <2>2 DEF RuleType
<1> HIDE DEF loaded
<1>4. \/ Match(matcher, address) = Default
      \/ \E i \in DOMAIN loaded :
            Match(matcher, address) = [criticality |-> loaded[i].criticality,
                                       owner |-> loaded[i].owner]
  BY <1>1, MatchIsMostSpecific DEF loaded
<1>5. ASSUME NEW i \in DOMAIN file
      PROVE  [criticality |-> Assigned(file[i].criticality), owner |-> Assigned(file[i].owner)]
                 \in Contexts
  BY DEF Contexts
<1>6. Default \in Contexts
  BY DEF Contexts
<1> QED BY <1>2, <1>3, <1>4, <1>5, <1>6

\* What is emitted of a change is an event.
LEMMA EventShape ==
    ASSUME NEW prior, NEW current, EventType(prior, current) # "none",
           NEW file \in RuleFiles, NEW matcher \in NewMatcher(LoadRulesFromJSON(file))
    PROVE  Event(prior, current, matcher) \in Events
<1> DEFINE type    == EventType(prior, current)
           subject == serviceRecordToScanResult(
                          IF current.status = "none" THEN prior ELSE current, port)
           context == Match(matcher, ip)
           risk    == EvaluateRisk(type, subject, context.criticality)
<1>1. Event(prior, current, matcher) =
          [type |-> type, hostname |-> "", context |-> context,
           score |-> risk.score, severity |-> risk.severity, reasons |-> risk.reasons]
  <2>1. subject.target = ""
    BY DEF serviceRecordToScanResult
  <2> QED BY <2>1 DEF Event
<1>2. type \in {"service.opened", "service.changed", "service.reopened", "service.closed"}
  BY DEF EventType
<1>3. context \in Contexts
  BY LoadedContext
<1> HIDE DEF type, subject, context
<1>4. risk.score \in 0 .. 100
  BY ScoreIsBounded
<1>5. risk.severity \in Severities
  BY DEF EvaluateRisk, Severity, Severities
<1>6. risk.reasons \in SUBSET {"exposed_datastore", "exposed_remote_admin", "cleartext_protocol",
                               "deprecated_tls", "untrusted_cert",
                               "critical_asset_tier0", "high_asset_tier1"}
  BY DEF EvaluateRisk, Reasons
<1>7. ASSUME NEW y \in {"service.opened", "service.changed",
                        "service.reopened", "service.closed"},
             NEW c \in Contexts, NEW n \in 0 .. 100, NEW s \in Severities,
             NEW r \in SUBSET {"exposed_datastore", "exposed_remote_admin",
                              "cleartext_protocol", "deprecated_tls", "untrusted_cert",
                              "critical_asset_tier0", "high_asset_tier1"}
      PROVE  [type |-> y, hostname |-> "", context |-> c,
              score |-> n, severity |-> s, reasons |-> r] \in Events
  BY DEF Events
<1> HIDE DEF risk
<1>8. [type |-> type, hostname |-> "", context |-> context, score |-> risk.score,
       severity |-> risk.severity, reasons |-> risk.reasons] \in Events
  BY <1>2, <1>3, <1>4, <1>5, <1>6, <1>7
<1> QED BY <1>1, <1>8

\* Every event is of a context that a rules file gives or of none, of a score,
\* a severity and reasons of the policy, and every record is one of an
\* observation (EVENT_SCHEMA.md, policy.go:24-87).
THEOREM EventTypes == Spec => []TypeOK
<1>1. Init => TypeOK
  BY DEF Init, TypeOK
<1>2. TypeOK /\ [Next]_vars => TypeOK'
  <2> SUFFICES ASSUME TypeOK, [Next]_vars PROVE TypeOK'
    OBVIOUS
  <2>1. CASE UNCHANGED vars
    BY <2>1 DEF vars, TypeOK
  <2>2. ASSUME NEW file \in RuleFiles, NEW observation \in Observations \cup {Absent},
               Run(file, observation)
        PROVE  TypeOK'
    <3> DEFINE current == IF observation = Absent THEN NoRecord ELSE ServiceObservation(observation)
    <3>1. /\ rules' = LoadRulesFromJSON(file) /\ seen' = observation
          /\ ip' = ip /\ port' = port
          /\ baseline' = IF current.status = "open" THEN current
                         ELSE IF baseline.status = "none" THEN NoRecord
                         ELSE [baseline EXCEPT !.status = "closed"]
          /\ IF EventType(baseline, current) = "none"
             THEN written' = NoEvent /\ standing' = standing
             ELSE \E matcher \in NewMatcher(rules') :
                     /\ written' = Event(baseline, current, matcher)
                     /\ standing' = written'
      BY <2>2 DEF Run
    <3>2. current \in Records \cup {NoRecord}
      BY ObservedRecord
    <3> HIDE DEF current
    <3>3. baseline' \in Records \cup {NoRecord}
      <4>1. CASE current.status = "open" \/ baseline.status = "none"
        BY <3>1, <3>2, <4>1
      <4>2. CASE current.status # "open" /\ baseline.status # "none"
        <5>1. baseline \in Records
          BY <4>2 DEF TypeOK, NoRecord
        <5>2. [baseline EXCEPT !.status = "closed"] \in Records
          BY <5>1 DEF Records
        <5> QED BY <3>1, <4>2, <5>2
      <4> QED BY <4>1, <4>2
    <3>4. written' \in Events \cup {NoEvent} /\ standing' \in Events \cup {NoEvent}
      <4>1. CASE EventType(baseline, current) = "none"
        BY <3>1, <4>1 DEF TypeOK
      <4>2. CASE EventType(baseline, current) # "none"
        BY <3>1, <4>2, EventShape
      <4> QED BY <4>1, <4>2
    <3>5. ip' \in Addresses /\ port' \in Ports /\ seen' \in Observations \cup {Absent}
      BY <3>1 DEF TypeOK
    <3>6. rules' \in {LoadRulesFromJSON(f) : f \in RuleFiles}
      BY <3>1
    <3> QED BY <3>3, <3>4, <3>5, <3>6 DEF TypeOK
  <2> QED BY <2>1, <2>2 DEF Next
<1> QED BY <1>1, <1>2, PTL DEF Spec

\* The two components are one system that shares nothing: of whichever part
\* moves, both keep their shape.
THEOREM ScopesAndEventsTypes == MCSpec => []ScopesAndEventsTypeOK
<1>1. MCSpec => ScopeSpec
  <2>1. MCInit => ScopeInit
    BY DEF MCInit
  <2>2. [MCNext]_parts => [ScopeNext]_scopeVars
    BY DEF MCNext, MCScopes, MCEvents, parts
  <2> QED BY <2>1, <2>2, PTL DEF MCSpec, ScopeSpec
<1>2. MCSpec => Spec
  <2>1. MCInit => Init
    BY DEF MCInit
  <2>2. [MCNext]_parts => [Next]_vars
    BY DEF MCNext, MCScopes, MCEvents, parts
  <2> QED BY <2>1, <2>2, PTL DEF MCSpec, Spec
<1> QED BY <1>1, <1>2, ScopeTypes, EventTypes, PTL DEF ScopesAndEventsTypeOK
=============================================================================
