------------------------ MODULE LifecycleStoreProofs ------------------------
(***************************************************************************)
(* Proofs, for every set of scopes, scans, services and observations, of   *)
(* the properties of LifecycleStore that TLC checks on small instances.    *)
(***************************************************************************)
EXTENDS LifecycleStore, TLAPS

-----------------------------------------------------------------------------
(* Records and maps of records.                                            *)

\* What a probe observes is recorded as open.
LEMMA ObservationGivesOpenRecord ==
    ASSUME NEW o \in Observations
    PROVE  serviceRecordFromObservation(o) \in OpenRecords
BY ObservationShape
   DEF serviceRecordFromObservation, canonicalObservationStrings, OpenRecords, Records

\* A scan that has saved nothing loads.
LEMMA NoRecordsIsCurrent == NoRecords \in CurrentMaps
BY DEF NoRecords, CurrentMaps

\* Closing a record changes its status and nothing else.
LEMMA ClosingKeepsRecord ==
    ASSUME NEW r \in Records
    PROVE  /\ [r EXCEPT !.status = "closed"] \in Records \ OpenRecords
           /\ [r EXCEPT !.status = "closed"].status = "closed"
           /\ r.status = "closed" => [r EXCEPT !.status = "closed"] = r
           /\ r.status # "closed" => r \in OpenRecords
BY DEF Records, OpenRecords

\* What a promotion commits can be loaded by the next one.
LEMMA NextBaselineLoads ==
    ASSUME NEW b \in LoadedMaps, NEW cur \in CurrentMaps
    PROVE  nextBaseline(b, cur) \in LoadedMaps
<1> SUFFICES ASSUME NEW s \in Services
             PROVE  nextBaseline(b, cur)[s] \in Records \cup {Absent}
  BY DEF nextBaseline, LoadedMaps
<1>1. cur[s] \in OpenRecords \cup {Absent} /\ b[s] \in Records \cup {Absent}
  BY DEF LoadedMaps, CurrentMaps
<1>2. b[s] # Absent => [b[s] EXCEPT !.status = "closed"] \in Records
  BY <1>1, ClosingKeepsRecord
<1> QED
  BY <1>1, <1>2 DEF nextBaseline, OpenRecords

\* Records that compare equal and are both open are the same record.
LEMMA EqualOpenRecords ==
    ASSUME NEW p \in OpenRecords, NEW q \in OpenRecords, serviceComparisonEqual(p, q)
    PROVE  p = q
BY DEF serviceComparisonEqual, OpenRecords, Records

-----------------------------------------------------------------------------
(* Changes and the next baseline agree.                                    *)

\* The result of a change is the next baseline's record of its service, and it
\* differs from the old one.
LEMMA ChangeGivesNext ==
    ASSUME NEW b \in LoadedMaps, NEW cur \in CurrentMaps,
           NEW c \in reconcileServiceRecords(b, cur)
    PROVE  /\ c.service \in Services
           /\ ChangeResult(c) = nextBaseline(b, cur)[c.service]
           /\ nextBaseline(b, cur)[c.service] # b[c.service]
<1>1. CASE \E s \in Services : /\ cur[s] # Absent
                              /\ b[s] = Absent
                              /\ c = Change("opened", s, Absent, cur[s])
  BY <1>1, RecordSentinels DEF Change, ChangeResult, nextBaseline, CurrentMaps
<1>2. CASE \E s \in Services : /\ cur[s] # Absent
                              /\ b[s] # Absent /\ b[s].status = "closed"
                              /\ c = Change("reopened", s, b[s], cur[s])
  BY <1>2, RecordSentinels
     DEF Change, ChangeResult, nextBaseline, CurrentMaps, OpenRecords
<1>3. CASE \E s \in Services : /\ cur[s] # Absent
                              /\ b[s] # Absent /\ b[s].status # "closed"
                              /\ ~serviceComparisonEqual(b[s], cur[s])
                              /\ c = Change("changed", s, b[s], cur[s])
  BY <1>3 DEF Change, ChangeResult, nextBaseline, CurrentMaps, serviceComparisonEqual
<1>4. CASE \E s \in Services : /\ cur[s] = Absent
                              /\ b[s] # Absent /\ b[s].status # "closed"
                              /\ c = Change("closed", s, b[s], Absent)
  <2>1. PICK s \in Services : /\ cur[s] = Absent
                             /\ b[s] # Absent /\ b[s].status # "closed"
                             /\ c = Change("closed", s, b[s], Absent)
    BY <1>4
  <2>2. b[s] \in Records
    BY <2>1 DEF LoadedMaps
  <2>3. [b[s] EXCEPT !.status = "closed"].status = "closed"
    BY <2>2, ClosingKeepsRecord
  <2> QED
    BY <2>1, <2>3 DEF Change, ChangeResult, nextBaseline
<1> QED
  BY <1>1, <1>2, <1>3, <1>4
     DEF reconcileServiceRecords, observedChanges, unobservedChanges

\* A service without a change keeps its record.
LEMMA NoChangeKeepsRecord ==
    ASSUME NEW b \in LoadedMaps, NEW cur \in CurrentMaps, NEW s \in Services,
           \A c \in reconcileServiceRecords(b, cur) : c.service # s
    PROVE  nextBaseline(b, cur)[s] = b[s]
<1> DEFINE C == reconcileServiceRecords(b, cur)
<1>1. /\ Change("opened", s, Absent, cur[s]) \notin C
      /\ Change("reopened", s, b[s], cur[s]) \notin C
      /\ Change("changed", s, b[s], cur[s]) \notin C
      /\ Change("closed", s, b[s], Absent) \notin C
  BY DEF Change
<1>2. cur[s] # Absent =>
          /\ b[s] # Absent
          /\ b[s].status # "closed"
          /\ serviceComparisonEqual(b[s], cur[s])
  BY <1>1 DEF reconcileServiceRecords, observedChanges
<1>3. cur[s] = Absent /\ b[s] # Absent => b[s].status = "closed"
  BY <1>1 DEF reconcileServiceRecords, unobservedChanges
<1>4. CASE cur[s] # Absent
  <2>1. b[s] \in OpenRecords /\ cur[s] \in OpenRecords
    BY <1>2, <1>4 DEF LoadedMaps, CurrentMaps, OpenRecords, Records
  <2> QED
    BY <1>2, <1>4, <2>1, EqualOpenRecords DEF nextBaseline
<1>5. CASE cur[s] = Absent /\ b[s] # Absent
  <2>1. b[s] \in Records
    BY <1>5 DEF LoadedMaps
  <2> QED
    BY <1>3, <1>5, <2>1, ClosingKeepsRecord DEF nextBaseline
<1>6. CASE cur[s] = Absent /\ b[s] = Absent
  BY <1>6 DEF nextBaseline
<1> QED
  BY <1>4, <1>5, <1>6

\* Reconciliation is complete and sound: applying the changes it reports to
\* the old baseline gives the baseline a promotion writes, and it reports none
\* exactly when that baseline is the old one.
THEOREM ReconciliationIsExact ==
    ASSUME NEW b \in LoadedMaps, NEW cur \in CurrentMaps
    PROVE  /\ ApplyChanges(b, reconcileServiceRecords(b, cur)) = nextBaseline(b, cur)
           /\ reconcileServiceRecords(b, cur) = {} <=> nextBaseline(b, cur) = b
<1> DEFINE C == reconcileServiceRecords(b, cur)
           N == nextBaseline(b, cur)
<1>1. ASSUME NEW s \in Services
      PROVE  ApplyChanges(b, C)[s] = N[s]
  <2>1. CASE \E c \in C : c.service = s
    <3> DEFINE d == CHOOSE c \in C : c.service = s
    <3>1. d \in C /\ d.service = s
      BY <2>1
    <3>2. ChangeResult(d) = N[s]
      BY <3>1, ChangeGivesNext
    <3> QED
      BY <2>1, <3>2 DEF ApplyChanges
  <2>2. CASE \A c \in C : c.service # s
    BY <2>2, NoChangeKeepsRecord DEF ApplyChanges
  <2> QED
    BY <2>1, <2>2
<1>2. ApplyChanges(b, C) = N
  BY <1>1 DEF ApplyChanges, nextBaseline
<1>3. ASSUME C = {} PROVE N = b
  <2>1. \A s \in Services : N[s] = b[s]
    BY <1>3, NoChangeKeepsRecord
  <2> QED
    BY <2>1 DEF nextBaseline, LoadedMaps
<1>4. ASSUME N = b PROVE C = {}
  BY <1>4, ChangeGivesNext
<1> QED
  BY <1>2, <1>3, <1>4

-----------------------------------------------------------------------------
(* The database as a whole.                                                *)

\* The buckets of state_layout.go keep their shape whatever its clients call:
\* the records of a current scan are open and a stored baseline is a map of
\* records, damaged ones included (TypeOK, inductive as it stands).
THEOREM TypeInvariant == Spec => []TypeOK
<1>1. Init => TypeOK
  BY NoRecordsIsCurrent DEF Init, TypeOK, StoredMaps, SchemaStates, NoRecords
<1>2. TypeOK /\ [Next]_vars => TypeOK'
  <2> SUFFICES ASSUME TypeOK, [Next]_vars
               PROVE  TypeOK'
    OBVIOUS
  <2>1. CASE UNCHANGED vars
    BY <2>1 DEF TypeOK, vars
  <2>2. CASE InitializeStateSchema
    BY <2>2 DEF InitializeStateSchema, TypeOK, SchemaStates
  <2>3. ASSUME NEW sc \in Scopes, NEW id \in ScanIDs, EnsureCurrentScan(sc, id)
        PROVE  TypeOK'
    BY <2>3, NoRecordsIsCurrent DEF EnsureCurrentScan, TypeOK
  <2>4. ASSUME NEW sc \in Scopes, NEW id \in ScanIDs, CreateCurrentScanExclusive(sc, id)
        PROVE  TypeOK'
    BY <2>4, NoRecordsIsCurrent DEF CreateCurrentScanExclusive, TypeOK
  <2>5. ASSUME NEW sc \in Scopes, NEW id \in ScanIDs, NEW s \in Services,
               NEW o \in Observations, SaveCurrentService(sc, id, s, o)
        PROVE  TypeOK'
    <3> DEFINE base == IF scans[sc][id] = NoScan THEN NoRecords ELSE scans[sc][id]
    <3>1. base \in CurrentMaps
      BY NoRecordsIsCurrent DEF TypeOK
    <3>2. [base EXCEPT ![s] = serviceRecordFromObservation(o)] \in CurrentMaps
      BY <3>1, ObservationGivesOpenRecord DEF CurrentMaps
    <3> HIDE DEF base
    <3>3. scans' = [scans EXCEPT ![sc][id] =
                       [base EXCEPT ![s] = serviceRecordFromObservation(o)]]
      BY <2>5 DEF SaveCurrentService, base
    <3> QED
      BY <2>5, <3>2, <3>3 DEF SaveCurrentService, TypeOK
  <2>6. ASSUME NEW sc \in Scopes, NEW id \in ScanIDs, NEW c \in ScanCompletions,
               PromoteCurrentScan(sc, id, c)
        PROVE  TypeOK'
    <3>1. baseline[sc] \in LoadedMaps /\ scans[sc][id] \in CurrentMaps
      BY <2>6 DEF PromoteCurrentScan, loadReconciliationStateOK, loadServiceRecordsOK,
                  TypeOK, StoredMaps, LoadedMaps
    <3>2. nextBaseline(baseline[sc], scans[sc][id]) \in StoredMaps
      BY <3>1, NextBaselineLoads DEF LoadedMaps, StoredMaps
    <3> QED
      BY <2>6, <3>2 DEF PromoteCurrentScan, TypeOK
  <2>7. ASSUME NEW sc \in Scopes, NEW id \in ScanIDs, discardCurrentScan(sc, id)
        PROVE  TypeOK'
    BY <2>7 DEF discardCurrentScan, TypeOK
  <2> QED
    BY <2>1, <2>2, <2>3, <2>4, <2>5, <2>6, <2>7 DEF Next, FinalizeCurrentScan
<1> QED
  BY <1>1, <1>2, PTL DEF Spec

\* A database that is not at schema version 1 holds no lifecycle state, however
\* its clients call it: StateNeedsSchema, for every instance.
THEOREM SchemaComesFirst == Spec => []StateNeedsSchema
<1>1. Init => StateNeedsSchema
  BY DEF Init, StateNeedsSchema
<1>2. StateNeedsSchema /\ [Next]_vars => StateNeedsSchema'
  <2> SUFFICES ASSUME StateNeedsSchema, [Next]_vars, schema' # "v1"
               PROVE  UNCHANGED <<baseline, committed, scans>> /\ schema # "v1"
    BY DEF StateNeedsSchema
  <2>1. CASE UNCHANGED vars
    BY <2>1 DEF vars
  <2>2. CASE InitializeStateSchema
    BY <2>2 DEF InitializeStateSchema
  <2>3. CASE \E sc \in Scopes, id \in ScanIDs :
               \/ EnsureCurrentScan(sc, id)
               \/ CreateCurrentScanExclusive(sc, id)
               \/ \E s \in Services, o \in Observations : SaveCurrentService(sc, id, s, o)
               \/ \E c \in ScanCompletions : FinalizeCurrentScan(sc, id, c)
    BY <2>3 DEF EnsureCurrentScan, CreateCurrentScanExclusive, SaveCurrentService,
                FinalizeCurrentScan, PromoteCurrentScan, discardCurrentScan,
                loadReconciliationStateOK, validateStateSchema
  <2> QED
    BY <2>1, <2>2, <2>3 DEF Next
<1> QED
  BY <1>1, <1>2, PTL DEF Spec

\* The only steps that change a baseline are promotions, and a promotion finds
\* maps that load.
LEMMA BaselineSteps ==
    ASSUME TypeOK, [Next]_vars
    PROVE  \/ baseline' = baseline
           \/ \E sc \in Scopes, id \in ScanIDs, c \in ScanCompletions :
                 PromoteCurrentScan(sc, id, c)
BY DEF Next, InitializeStateSchema, EnsureCurrentScan, CreateCurrentScanExclusive,
       SaveCurrentService, FinalizeCurrentScan, discardCurrentScan, vars

\* A promotion happens only if baseline and scan load, and replaces one by the other.
LEMMA PromotionLoads ==
    ASSUME TypeOK, NEW sc \in Scopes, NEW id \in ScanIDs, NEW c \in ScanCompletions,
           PromoteCurrentScan(sc, id, c)
    PROVE  /\ baseline[sc] \in LoadedMaps
           /\ scans[sc][id] \in CurrentMaps
           /\ baseline' = [baseline EXCEPT ![sc] = nextBaseline(baseline[sc], scans[sc][id])]
           /\ scans' = [scans EXCEPT ![sc][id] = NoScan]
           /\ baseline \in [Scopes -> StoredMaps]
           /\ scans \in [Scopes -> [ScanIDs -> CurrentMaps \cup {NoScan}]]
BY DEF PromoteCurrentScan, loadReconciliationStateOK, loadServiceRecordsOK,
       TypeOK, StoredMaps, LoadedMaps

\* The changes returned by a promotion reproduce the baseline it wrote
\* (ChangesExplainBaseline): no change of the stored state is silent, and no
\* reported change is without effect.
THEOREM ChangesExplain == Spec => ChangesExplainBaseline
<1>1. TypeOK /\ [Next]_vars =>
        [\A sc \in Scopes, id \in ScanIDs :
            PromotionStep(sc, id) =>
              /\ baseline'[sc] = ApplyChanges(baseline[sc], ReconcileScope(sc, id))
              /\ ReconcileScope(sc, id) = {} <=> baseline'[sc] = baseline[sc]]_vars
  <2> SUFFICES ASSUME TypeOK, NEW sc \in Scopes, NEW id \in ScanIDs,
                      NEW c \in ScanCompletions, PromoteCurrentScan(sc, id, c)
               PROVE  /\ baseline'[sc] = ApplyChanges(baseline[sc], ReconcileScope(sc, id))
                      /\ ReconcileScope(sc, id) = {} <=> baseline'[sc] = baseline[sc]
    BY DEF PromotionStep
  <2>1. baseline[sc] \in LoadedMaps /\ scans[sc][id] \in CurrentMaps
    BY PromotionLoads
  <2>2. baseline'[sc] = nextBaseline(baseline[sc], scans[sc][id])
    BY PromotionLoads
  <2> QED
    BY <2>1, <2>2, ReconciliationIsExact DEF ReconcileScope
<1> QED
  BY <1>1, TypeInvariant, PTL DEF Spec, ChangesExplainBaseline

\* A baseline with a record that does not validate is never overwritten
\* (DamagedBaselineIsFrozen): promotion reads all of it or fails.
THEOREM DamagedIsFrozen == Spec => DamagedBaselineIsFrozen
<1>1. TypeOK /\ [Next]_vars =>
        [\A sc \in Scopes :
            ~loadServiceRecordsOK(baseline[sc]) => baseline'[sc] = baseline[sc]]_vars
  <2> SUFFICES ASSUME TypeOK, [Next]_vars, NEW sc \in Scopes,
                      ~loadServiceRecordsOK(baseline[sc])
               PROVE  baseline'[sc] = baseline[sc]
    OBVIOUS
  <2>1. CASE baseline' = baseline
    BY <2>1
  <2>2. ASSUME NEW d \in Scopes, NEW id \in ScanIDs, NEW c \in ScanCompletions,
               PromoteCurrentScan(d, id, c)
        PROVE  baseline'[sc] = baseline[sc]
    <3>1. d # sc
      BY <2>2 DEF PromoteCurrentScan, loadReconciliationStateOK
    <3> QED
      BY <2>2, <3>1, PromotionLoads
  <2> QED
    BY <2>1, <2>2, BaselineSteps
<1> QED
  BY <1>1, TypeInvariant, PTL DEF Spec, DamagedBaselineIsFrozen

\* A baseline changes only by consuming one scan of its own scope, whole and in
\* one transaction (PromotionConsumesItsScan).
THEOREM PromotionConsumes == Spec => PromotionConsumesItsScan
<1>1. TypeOK /\ [Next]_vars =>
        [\A sc \in Scopes :
            baseline'[sc] # baseline[sc] => \E id \in ScanIDs : PromotedFrom(sc, id)]_vars
  <2> SUFFICES ASSUME TypeOK, [Next]_vars, NEW sc \in Scopes,
                      baseline'[sc] # baseline[sc]
               PROVE  \E id \in ScanIDs : PromotedFrom(sc, id)
    OBVIOUS
  <2>1. PICK d \in Scopes, id \in ScanIDs, c \in ScanCompletions :
           PromoteCurrentScan(d, id, c)
    BY BaselineSteps
  <2>2. d = sc
    BY <2>1, PromotionLoads
  <2>3. /\ baseline[sc] \in LoadedMaps /\ scans[sc][id] \in CurrentMaps
        /\ baseline' = [baseline EXCEPT ![sc] = nextBaseline(baseline[sc], scans[sc][id])]
        /\ scans' = [scans EXCEPT ![sc][id] = NoScan]
        /\ baseline \in [Scopes -> StoredMaps]
        /\ scans \in [Scopes -> [ScanIDs -> CurrentMaps \cup {NoScan}]]
    BY <2>1, <2>2, PromotionLoads
  <2>4. ASSUME NEW s \in Services
        PROVE  IF scans[sc][id][s] # Absent
               THEN baseline'[sc][s] = scans[sc][id][s]
               ELSE baseline'[sc][s] # Absent => baseline'[sc][s].status = "closed"
    <3>1. baseline'[sc][s] = nextBaseline(baseline[sc], scans[sc][id])[s]
      BY <2>3
    <3>2. baseline[sc][s] # Absent =>
             [baseline[sc][s] EXCEPT !.status = "closed"].status = "closed"
      BY <2>3, ClosingKeepsRecord DEF LoadedMaps
    <3> QED
      BY <3>1, <3>2 DEF nextBaseline
  <2>5. scans[sc][id] # NoScan
    BY <2>3, NoScanIsNoMap
  <2> QED
    BY <2>3, <2>4, <2>5 DEF PromotedFrom
<1> QED
  BY <1>1, TypeInvariant, PTL DEF Spec, PromotionConsumesItsScan

-----------------------------------------------------------------------------
(* The store implements the ledger.                                        *)

\* Whatever a scan observed, the next baseline is one move of the life cycle
\* of every service.
LEMMA PromotionMoves ==
    ASSUME NEW b \in LoadedMaps, NEW cur \in CurrentMaps, NEW s \in Services
    PROVE  Ledger!Moves(b[s], nextBaseline(b, cur)[s])
<1>1. b[s] \in Records \cup {Absent} /\ cur[s] \in OpenRecords \cup {Absent}
  BY DEF LoadedMaps, CurrentMaps
<1>2. CASE cur[s] # Absent
  BY <1>1, <1>2
     DEF nextBaseline, Ledger!Moves, Ledger!Opened, Ledger!Changed, Ledger!Reopened,
         Ledger!OpenRecords, Ledger!Records, OpenRecords, Records
<1>3. CASE cur[s] = Absent /\ b[s] # Absent
  <2>1. nextBaseline(b, cur)[s] = [b[s] EXCEPT !.status = "closed"]
    BY <1>3 DEF nextBaseline
  <2>2. b[s] \in Records
    BY <1>1, <1>3
  <2>3. CASE b[s].status = "closed"
    BY <2>1, <2>2, <2>3, ClosingKeepsRecord DEF Ledger!Moves
  <2>4. CASE b[s].status # "closed"
    <3>1. b[s] \in Ledger!OpenRecords
      BY <2>2, <2>4, ClosingKeepsRecord
         DEF OpenRecords, Records, Ledger!OpenRecords, Ledger!Records
    <3> QED
      BY <2>1, <3>1 DEF Ledger!Moves, Ledger!Closed
  <2> QED
    BY <2>3, <2>4
<1>4. CASE cur[s] = Absent /\ b[s] = Absent
  BY <1>4 DEF nextBaseline, Ledger!Moves
<1> QED
  BY <1>2, <1>3, <1>4

\* Every committed baseline follows the life cycle of its services and moves
\* alone (ImplementsLedger): initial states map to initial states, a promotion
\* maps to a commit of its scope, every other operation to a stutter.
THEOREM StoreImplementsLedger == Spec => ImplementsLedger
<1>1. Init => Ledger!Init
  BY DEF Init, Ledger!Init
<1>2. TypeOK /\ [Next]_vars => [Ledger!Next]_baseline
  <2> SUFFICES ASSUME TypeOK, [Next]_vars
               PROVE  baseline' = baseline \/ Ledger!Next
    OBVIOUS
  <2>1. ASSUME NEW sc \in Scopes, NEW id \in ScanIDs, NEW c \in ScanCompletions,
               PromoteCurrentScan(sc, id, c)
        PROVE  Ledger!Commit(sc)
    <3>1. /\ baseline[sc] \in LoadedMaps /\ scans[sc][id] \in CurrentMaps
          /\ baseline' = [baseline EXCEPT ![sc] = nextBaseline(baseline[sc], scans[sc][id])]
          /\ baseline \in [Scopes -> StoredMaps]
      BY <2>1, PromotionLoads
    <3>2. \A s \in Services : baseline[sc][s] # Invalid
      BY <2>1 DEF PromoteCurrentScan, loadReconciliationStateOK, loadServiceRecordsOK
    <3>3. \A s \in Services : Ledger!Moves(baseline[sc][s], baseline'[sc][s])
      BY <3>1, PromotionMoves
    <3>4. \A other \in Scopes \ {sc} : baseline'[other] = baseline[other]
      BY <3>1
    <3> QED
      BY <3>2, <3>3, <3>4 DEF Ledger!Commit
  <2> QED
    BY <2>1, BaselineSteps DEF Ledger!Next
<1> QED
  BY <1>1, <1>2, TypeInvariant, PTL DEF Spec, ImplementsLedger, Ledger!Spec
=============================================================================
