-------------------------- MODULE ScanRuntimeProofs --------------------------
(***************************************************************************)
(* Proofs, for any number of runs over one database and whatever they      *)
(* scan, of the safety properties of ScanRuntime, and that a run uses the  *)
(* database as a client of LifecycleStore, so that the theorems about the  *)
(* store hold of the program.                                              *)
(***************************************************************************)
EXTENDS ScanRuntime, LifecycleStoreProofs

-----------------------------------------------------------------------------
(* The control of a run: its step, the file lock, the spool, its scan ID.  *)

ScanIsReserved ==
    \A r \in Runs : pc[r] \in {"scanning", "finalizing"} => scanID[r] \in ScanIDs

RunControl ==
    /\ lock \in Runs \cup {NoRun}
    /\ pc \in [Runs -> Steps]
    /\ spool \in [Runs -> {"none", "open", "closed", "leaked"}]
    /\ scanID \in [Runs -> ScanIDs \cup {NoID}]
    /\ completion \in [Runs -> ScanCompletions]
    /\ ResourcesAreHeldAndReleased
    /\ ScanIsReserved

\* The completions the runtime names are completions.
LEMMA NamedCompletions ==
    /\ Completed \in ScanCompletions /\ Successful(Completed)
    /\ Failed("cancelled") \in ScanCompletions /\ ~Successful(Failed("cancelled"))
BY DEF Failed, Completed, Successful, ScanCompletions, ScanStatuses

\* A failure of the state makes any completion a failure, and nothing else changes one.
LEMMA FoldedCompletion ==
    ASSUME NEW c \in ScanCompletions, NEW stateFailed \in BOOLEAN
    PROVE  /\ finalizeScanCompletion(c, stateFailed) \in ScanCompletions
           /\ ~stateFailed => finalizeScanCompletion(c, stateFailed) = c
           /\ stateFailed => ~Successful(finalizeScanCompletion(c, stateFailed))
BY DEF finalizeScanCompletion, Failed, Successful, ScanCompletions, ScanStatuses

\* However a scan ends, it ends with a completion.
LEMMA EndsAreCompletions ==
    ASSUME NEW r \in Runs
    PROVE  ScannerEnds(r) \subseteq ScanCompletions
BY RuntimeAssumption, NamedCompletions DEF ScannerEnds

\* No run works on the database without its lock, and every way out of a run
\* gives up what it holds: RunControl is inductive.
LEMMA RunControlInvariant == RSpec => []RunControl
<1>1. RInit => RunControl
  BY RuntimeAssumption, NamedCompletions
     DEF RInit, RunControl, ResourcesAreHeldAndReleased, ScanIsReserved, Steps, Holding
<1>2. RunControl /\ [RNext]_rvars => RunControl'
  <2> SUFFICES ASSUME RunControl, [RNext]_rvars
               PROVE  RunControl'
    OBVIOUS
  <2> USE DEF RunControl, ResourcesAreHeldAndReleased, ScanIsReserved, Steps, Holding,
              Goto, scanVars, endVars
  <2> USE RuntimeAssumption
  <2>1. CASE UNCHANGED rvars
    BY <2>1 DEF rvars
  <2>2. ASSUME NEW r \in Runs, pc[r] \in {"start", "opening", "schema", "reserving"},
               FailStartup(r)
        PROVE  RunControl'
    BY <2>2 DEF FailStartup
  <2>3. ASSUME NEW r \in Runs, PrepareTargets(r)
        PROVE  RunControl'
    BY <2>2, <2>3 DEF PrepareTargets
  <2>4. ASSUME NEW r \in Runs, OpenState(r)
        PROVE  RunControl'
    BY <2>2, <2>4 DEF OpenState
  <2>5. ASSUME NEW r \in Runs, CheckSchema(r)
        PROVE  RunControl'
    BY <2>2, <2>5 DEF CheckSchema
  <2>6. ASSUME NEW r \in Runs, ReserveScan(r)
        PROVE  RunControl'
    BY <2>2, <2>6 DEF ReserveScan
  <2>7. ASSUME NEW r \in Runs, NEW j \in Jobs, NEW o \in Replies[j], CollectResult(r, j, o)
        PROVE  RunControl'
    BY <2>7 DEF CollectResult
  <2>8. ASSUME NEW r \in Runs, NEW j \in Jobs, ProbeSilent(r, j)
        PROVE  RunControl'
    BY <2>8 DEF ProbeSilent
  <2>9. ASSUME NEW r \in Runs, EndOfScan(r)
        PROVE  RunControl'
    <3>1. PICK ended \in ScannerEnds(r) :
             completion' = [completion EXCEPT ![r] = finalizeScanCompletion(ended, saveErr[r])]
      BY <2>9 DEF EndOfScan
    <3>2. finalizeScanCompletion(ended, saveErr[r]) \in ScanCompletions
      BY EndsAreCompletions
         DEF finalizeScanCompletion, Failed, ScanCompletions, ScanStatuses
    <3> QED
      BY <2>9, <3>1, <3>2 DEF EndOfScan
  <2>10. ASSUME NEW r \in Runs, FinalizeScan(r)
         PROVE  RunControl'
    <3>1. PICK stateFailed \in BOOLEAN :
             completion' = [completion EXCEPT ![r] = finalizeScanCompletion(@, stateFailed)]
      BY <2>10 DEF FinalizeScan, Successful
    <3>2. finalizeScanCompletion(completion[r], stateFailed) \in ScanCompletions
      BY FoldedCompletion
    <3> QED
      BY <2>10, <3>1, <3>2 DEF FinalizeScan
  <2>11. ASSUME NEW r \in Runs, EmitChange(r)
         PROVE  RunControl'
    BY <2>11 DEF EmitChange
  <2>12. ASSUME NEW r \in Runs, EmitFails(r)
         PROVE  RunControl'
    BY <2>12 DEF EmitFails, NextChange
  <2>13. ASSUME NEW r \in Runs, EmitDone(r)
         PROVE  RunControl'
    BY <2>13 DEF EmitDone
  <2>14. ASSUME NEW r \in Runs, CloseState(r)
         PROVE  RunControl'
    BY <2>14 DEF CloseState
  <2>15. ASSUME NEW r \in Runs, Signal(r)
         PROVE  RunControl'
    BY <2>15 DEF Signal
  <2>16. ASSUME NEW r \in Runs, Kill(r)
         PROVE  RunControl'
    BY <2>16 DEF Kill, Alive
  <2> QED
    BY <2>1, <2>3, <2>4, <2>5, <2>6, <2>7, <2>8, <2>9, <2>10, <2>11, <2>12, <2>13,
       <2>14, <2>15, <2>16 DEF RNext, Step, AllEnded
<1> QED
  BY <1>1, <1>2, PTL DEF RSpec

\* One process at a time works on the database, and a process that ended holds
\* nothing but what a kill leaves behind: ResourcesAreHeldAndReleased, for any
\* number of runs.
THEOREM OneRunHoldsTheDatabase == RSpec => []ResourcesAreHeldAndReleased
<1>1. RunControl => ResourcesAreHeldAndReleased
  BY DEF RunControl
<1> QED
  BY <1>1, RunControlInvariant, PTL

-----------------------------------------------------------------------------
(* A run is a client of the store.                                         *)

\* A step of a run is an operation of the store or leaves it alone.
LEMMA RuntimeStepIsStoreStep ==
    ASSUME RunControl, [RNext]_rvars
    PROVE  [Next]_vars
<1> USE DEF store, vars
<1>1. CASE UNCHANGED rvars
  BY <1>1 DEF rvars
<1>2. ASSUME NEW r \in Runs,
             \/ FailStartup(r) \/ PrepareTargets(r) \/ OpenState(r)
             \/ EndOfScan(r) \/ EmitChange(r) \/ EmitFails(r) \/ EmitDone(r)
             \/ CloseState(r) \/ Signal(r) \/ Kill(r)
      PROVE  UNCHANGED vars
  BY <1>2 DEF FailStartup, PrepareTargets, OpenState, EndOfScan, EmitChange, EmitFails,
              EmitDone, CloseState, Signal, Kill
<1>3. ASSUME NEW r \in Runs, CheckSchema(r)
      PROVE  [Next]_vars
  BY <1>2, <1>3 DEF CheckSchema, Next
<1>4. ASSUME NEW r \in Runs, ReserveScan(r)
      PROVE  [Next]_vars
  BY <1>2, <1>4, RuntimeAssumption DEF ReserveScan, Next
<1>5. ASSUME NEW r \in Runs, NEW j \in Jobs, NEW o \in Replies[j], CollectResult(r, j, o)
      PROVE  [Next]_vars
  <2>1. ScopeOf[r] \in Scopes /\ ServiceOf[j] \in Services /\ o \in Observations
    BY RuntimeAssumption
  <2>2. scanID[r] \in ScanIDs
    BY <1>5 DEF CollectResult, RunControl, ScanIsReserved
  <2> QED
    BY <1>5, <2>1, <2>2 DEF CollectResult, Next
<1>6. ASSUME NEW r \in Runs, NEW j \in Jobs, ProbeSilent(r, j)
      PROVE  UNCHANGED vars
  BY <1>6 DEF ProbeSilent
<1>7. ASSUME NEW r \in Runs, FinalizeScan(r)
      PROVE  [Next]_vars
  <2>1. ScopeOf[r] \in Scopes
    BY RuntimeAssumption
  <2>2. scanID[r] \in ScanIDs /\ completion[r] \in ScanCompletions
    BY <1>7 DEF FinalizeScan, RunControl, ScanIsReserved
  <2> QED
    BY <1>7, <2>1, <2>2 DEF FinalizeScan, Next
<1> QED
  BY <1>1, <1>2, <1>3, <1>4, <1>5, <1>6, <1>7 DEF RNext, Step, AllEnded, rvars

\* Every step of every run is an operation of the store or leaves it alone, and
\* a run calls them with scan IDs it has reserved.
THEOREM RuntimeUsesTheStore == RSpec => Spec
<1>1. RInit => Init
  BY DEF RInit
<1>2. RunControl /\ [RNext]_rvars => [Next]_vars
  BY RuntimeStepIsStoreStep
<1> QED
  BY <1>1, <1>2, RunControlInvariant, PTL DEF RSpec, Spec

\* The baselines any number of runs commit follow the life cycle of ServiceLedger
\* (ImplementsLedger): the program keeps the promise of its database.
THEOREM RuntimeImplementsLedger == RSpec => ImplementsLedger
BY RuntimeUsesTheStore, StoreImplementsLedger, PTL

\* The store's maps are typed and its schema comes first, in any run.
LEMMA StoreInvariants == RSpec => [](TypeOK /\ StateNeedsSchema)
BY RuntimeUsesTheStore, TypeInvariant, SchemaComesFirst, PTL

-----------------------------------------------------------------------------
(* What a run scanned.                                                     *)

Replied == {"pending", "answered", "refused", "timeout"}

Starting == {"start", "opening", "schema", "reserving"}

ScanRecord ==
    /\ reply \in [Runs -> [Jobs -> Replied]]
    /\ saveErr \in [Runs -> BOOLEAN]
    /\ \A r \in Runs : pc[r] \in Starting => \A j \in Jobs : reply[r][j] = "pending"
    /\ ReservationIsOwn

\* Only the run that holds the lock writes, so no other run is scanning.
LEMMA WriterIsAlone ==
    ASSUME RunControl, NEW r \in Runs, pc[r] \in Holding, NEW q \in Runs, pc[q] \in Holding
    PROVE  q = r
BY DEF RunControl, ResourcesAreHeldAndReleased

\* A saved observation is in the bucket of its scan, with those before.
LEMMA SavingIsObserved ==
    ASSUME TypeOK, NEW sc \in Scopes, NEW id \in ScanIDs, NEW s \in Services,
           NEW o \in Observations, SaveCurrentService(sc, id, s, o), scans[sc][id] # NoScan
    PROVE  /\ scans'[sc][id] # NoScan
           /\ Observed(sc, id)' = Observed(sc, id) \cup {s}
<1> DEFINE rec == serviceRecordFromObservation(o)
<1>1. rec \in OpenRecords
  BY ObservationGivesOpenRecord
<1> HIDE DEF rec
<1>2. scans[sc][id] \in CurrentMaps
  BY DEF TypeOK
<1>3. scans'[sc][id] = [scans[sc][id] EXCEPT ![s] = rec]
  BY DEF SaveCurrentService, TypeOK, rec
<1>4. scans'[sc][id] \in CurrentMaps /\ scans'[sc][id][s] # Absent
  BY <1>1, <1>2, <1>3, RecordSentinels DEF CurrentMaps, OpenRecords
<1> QED
  BY <1>2, <1>3, <1>4, NoScanIsNoMap DEF Observed, CurrentMaps

\* A result that comes in is in the run's bucket, or the failure to save it is
\* remembered.
LEMMA ResultIsRecorded ==
    ASSUME TypeOK, ScanRecord, NEW r \in Runs, NEW j \in Jobs, NEW o \in Replies[j],
           CollectResult(r, j, o)
    PROVE  /\ scans'[ScopeOf[r]][scanID'[r]] # NoScan
           /\ Observed(ScopeOf[r], scanID[r])' \subseteq Answered(r)'
           /\ ~saveErr'[r] => Answered(r)' \subseteq Observed(ScopeOf[r], scanID[r])'
<1>1. PICK sc \in Scopes : sc = ScopeOf[r]
  BY RuntimeAssumption
<1>2. o \in Observations /\ ServiceOf[j] \in Services
  BY RuntimeAssumption
<1>3. PICK id \in ScanIDs : id = scanID[r]
  BY DEF CollectResult, ScanRecord, ReservationIsOwn
<1>4. scanID' = scanID
  BY DEF CollectResult
<1>5. /\ scans[sc][id] # NoScan
      /\ Observed(sc, id) \subseteq Answered(r)
      /\ ~saveErr[r] => Answered(r) \subseteq Observed(sc, id)
  BY <1>1, <1>3 DEF CollectResult, ScanRecord, ReservationIsOwn
<1>6. Answered(r)' = Answered(r) \cup {ServiceOf[j]}
  BY DEF CollectResult, ScanRecord, Replied, Answered
<1>7. /\ scans'[sc][id] # NoScan
      /\ Observed(sc, id)' \subseteq Answered(r)'
      /\ ~saveErr'[r] => Answered(r)' \subseteq Observed(sc, id)'
  <2>1. CASE SaveCurrentService(sc, id, ServiceOf[j], o) /\ UNCHANGED saveErr
    <3>1. /\ scans'[sc][id] # NoScan
          /\ Observed(sc, id)' = Observed(sc, id) \cup {ServiceOf[j]}
      BY <1>2, <1>5, <2>1, SavingIsObserved
    <3> QED
      BY <1>5, <1>6, <2>1, <3>1
  <2>2. CASE saveErr'[r] /\ scans' = scans
    <3>1. Observed(sc, id)' = Observed(sc, id)
      BY <2>2 DEF Observed
    <3> QED
      BY <1>5, <1>6, <2>2, <3>1
  <2>3. saveErr \in [Runs -> BOOLEAN]
    BY DEF ScanRecord
  <2> QED
    BY <1>1, <1>3, <2>1, <2>2, <2>3 DEF CollectResult, store
<1>8. Observed(ScopeOf[r], scanID[r])' = Observed(sc, id)'
  BY <1>1, <1>3, <1>4
<1> QED
  BY <1>1, <1>3, <1>4, <1>7, <1>8

\* A reservation is not shared: the bucket of a run that scans holds what this
\* run observed.  ScanRecord is inductive, given the lock and the store's types.
LEMMA ScanRecordStep ==
    ASSUME RunControl, TypeOK, ScanRecord, [RNext]_rvars
    PROVE  ScanRecord'
<1> USE RuntimeAssumption DEF ScanRecord, ReservationIsOwn, Observed, Answered, Starting,
                              Goto, store, scanVars, endVars
<1> DEFINE Quiet(r) ==
        /\ UNCHANGED <<scans, reply, saveErr, scanID>>
        /\ \A q \in Runs \ {r} : pc'[q] = pc[q]
        /\ pc'[r] \in Starting => pc[r] \in Starting
        /\ pc'[r] \in {"scanning", "finalizing"} => pc[r] \in {"scanning", "finalizing"}
<1>1. CASE UNCHANGED rvars
  BY <1>1 DEF rvars
<1>2. ASSUME NEW r \in Runs, Quiet(r)
      PROVE  ScanRecord'
  <2>1. \A q \in Runs : /\ pc'[q] \in Starting => pc[q] \in Starting
                        /\ pc'[q] \in {"scanning", "finalizing"} =>
                              pc[q] \in {"scanning", "finalizing"}
    BY <1>2
  <2>2. UNCHANGED <<scans, reply, saveErr, scanID>>
    BY <1>2
  <2> HIDE DEF Starting, Quiet
  <2> QED
    BY <2>1, <2>2
<1>3. ASSUME NEW r \in Runs, FailStartup(r)
      PROVE  Quiet(r)
  BY <1>3 DEF FailStartup, RunControl
<1>4. ASSUME NEW r \in Runs,
             \/ PrepareTargets(r) \/ OpenState(r) \/ CheckSchema(r)
             \/ EndOfScan(r) \/ EmitChange(r) \/ EmitFails(r) \/ EmitDone(r)
             \/ CloseState(r) \/ Signal(r) \/ Kill(r)
      PROVE  Quiet(r)
  BY <1>3, <1>4 DEF PrepareTargets, OpenState, CheckSchema, InitializeStateSchema,
                    EndOfScan, EmitChange, EmitFails, NextChange, EmitDone, CloseState,
                    Signal, Kill, RunControl
<1>5. ASSUME NEW r \in Runs, ReserveScan(r)
      PROVE  ScanRecord'
  <2>1. CASE FailStartup(r)
    BY <1>2, <1>3, <2>1
  <2>2. CASE UNCHANGED <<store, pc, scanID, scanVars>>
    BY <2>2
  <2>3. ASSUME NEW id \in ScanIDs, CreateCurrentScanExclusive(ScopeOf[r], id),
               scanID' = [scanID EXCEPT ![r] = id], Goto(r, "scanning"),
               UNCHANGED scanVars, pc[r] = "reserving"
        PROVE  ScanRecord'
    <3>1. \A q \in Runs \ {r} : pc'[q] \notin {"scanning", "finalizing"}
      BY <2>3, WriterIsAlone DEF Holding, RunControl
    <3>2. scans'[ScopeOf[r]][id] = NoRecords
      BY <2>3 DEF CreateCurrentScanExclusive, TypeOK
    <3>3. scanID'[r] = id /\ pc' = [pc EXCEPT ![r] = "scanning"]
      BY <2>3 DEF RunControl
    <3>4. \A j \in Jobs : reply'[r][j] = "pending"
      BY <2>3
    <3>5. scans'[ScopeOf[r]][scanID'[r]] = NoRecords /\ NoRecords # NoScan
      BY <3>2, <3>3, NoRecordsIsCurrent, NoScanIsNoMap
    <3>6. Observed(ScopeOf[r], scanID[r])' = {} /\ Answered(r)' = {}
      BY <3>4, <3>5 DEF NoRecords
    <3>7. /\ UNCHANGED <<reply, saveErr>>
          /\ \A q \in Runs : pc'[q] \in Starting => pc[q] \in Starting
      BY <2>3, <3>3 DEF RunControl
    <3> HIDE DEF Observed, Answered, Starting
    <3> QED
      BY <2>3, <3>1, <3>3, <3>5, <3>6, <3>7
  <2> QED
    BY <1>5, <2>1, <2>2, <2>3 DEF ReserveScan
<1>6. ASSUME NEW r \in Runs, NEW j \in Jobs, NEW o \in Replies[j], CollectResult(r, j, o)
      PROVE  ScanRecord'
  <2>1. /\ scans'[ScopeOf[r]][scanID'[r]] # NoScan
        /\ Observed(ScopeOf[r], scanID[r])' \subseteq Answered(r)'
        /\ ~saveErr'[r] => Answered(r)' \subseteq Observed(ScopeOf[r], scanID[r])'
    BY <1>6, ResultIsRecorded
  <2>2. \A q \in Runs \ {r} : pc'[q] \notin {"scanning", "finalizing"}
    BY <1>6, WriterIsAlone DEF CollectResult, Holding
  <2>3. \A q \in Runs \ {r} : reply'[q] = reply[q]
    BY <1>6 DEF CollectResult
  <2>4. reply' \in [Runs -> [Jobs -> Replied]] /\ saveErr' \in [Runs -> BOOLEAN]
    BY <1>6 DEF CollectResult, Replied
  <2>5. pc' = pc /\ pc[r] = "scanning" /\ scanID'[r] \in ScanIDs
    BY <1>6 DEF CollectResult
  <2>6. \A q \in Runs : pc'[q] \in Starting => \A k \in Jobs : reply'[q][k] = "pending"
    BY <2>3, <2>5
  <2>7. ReservationIsOwn'
    <3> HIDE DEF Observed, Answered
    <3> QED BY <2>1, <2>2, <2>5
  <2> HIDE DEF Starting, ReservationIsOwn
  <2> QED
    BY <2>4, <2>6, <2>7
<1>7. ASSUME NEW r \in Runs, NEW j \in Jobs, ProbeSilent(r, j)
      PROVE  ScanRecord'
  <2>1. Answered(r)' = Answered(r) /\ reply' \in [Runs -> [Jobs -> Replied]]
    BY <1>7 DEF ProbeSilent, Replied
  <2>2. \A q \in Runs \ {r} : Answered(q)' = Answered(q) /\ reply'[q] = reply[q]
    BY <1>7 DEF ProbeSilent
  <2>3. pc[r] \notin Starting /\ UNCHANGED <<scans, saveErr, scanID, pc>>
    BY <1>7 DEF ProbeSilent
  <2> HIDE DEF Answered
  <2> QED
    BY <2>1, <2>2, <2>3
<1>8. ASSUME NEW r \in Runs, FinalizeScan(r)
      PROVE  ScanRecord'
  <2>1. \A q \in Runs : pc'[q] \notin {"scanning", "finalizing"}
    BY <1>8, WriterIsAlone DEF FinalizeScan, Holding, RunControl
  <2> QED
    BY <1>8, <2>1 DEF FinalizeScan, RunControl
<1> QED
  BY <1>1, <1>2, <1>4, <1>5, <1>6, <1>7, <1>8 DEF RNext, Step, AllEnded, rvars

\* The bucket of a scanning run holds what answered, at every step.
LEMMA ScanRecordInvariant == RSpec => []ScanRecord
<1>1. RInit => ScanRecord
  BY DEF RInit, ScanRecord, ReservationIsOwn, Starting, Replied
<1>2. RunControl /\ TypeOK /\ ScanRecord /\ [RNext]_rvars => ScanRecord'
  BY ScanRecordStep
<1> QED
  BY <1>1, <1>2, RunControlInvariant, StoreInvariants, PTL DEF RSpec

\* While a run scans, the bucket it reserved is there and holds what this run
\* observed, all of it unless saving failed (ReservationIsOwn), whatever the
\* other runs do.
THEOREM ReservationsAreOwn == RSpec => []ReservationIsOwn
<1>1. ScanRecord => ReservationIsOwn
  BY DEF ScanRecord
<1> QED
  BY <1>1, ScanRecordInvariant, PTL

-----------------------------------------------------------------------------
(* How a run ends.                                                         *)

Complete(r) == ~saveErr[r] /\ \A j \in Jobs : reply[r][j] # "pending"

Promoted(r) == Complete(r) /\ Successful(completion[r]) /\ ScopeOf[r] \in committed

\* A completion that is still a success is one of a complete scan, and a run
\* with no error to report has promoted it.
RunOutcome ==
    /\ failed \in [Runs -> BOOLEAN]
    /\ exitCode \in [Runs -> 0 .. 2]
    /\ \A r \in Runs :
          /\ pc[r] = "finalizing" /\ Successful(completion[r]) => Complete(r)
          /\ pc[r] \in {"emitting", "closing"} /\ ~failed[r] => Promoted(r)
          /\ exitCode[r] = 0 => pc[r] = "exited" /\ Promoted(r)

\* A promotion that was committed stays committed.
LEMMA CommittedGrows ==
    ASSUME RunControl, [RNext]_rvars
    PROVE  committed \subseteq committed'
<1>1. [Next]_vars
  BY RuntimeStepIsStoreStep
<1> QED
  BY <1>1 DEF Next, vars, InitializeStateSchema, EnsureCurrentScan,
              CreateCurrentScanExclusive, SaveCurrentService, FinalizeCurrentScan,
              PromoteCurrentScan, discardCurrentScan

\* What a run has reached is not taken back: its probes and its completion stay
\* as they are once it has finalized its scan.
LEMMA RunOutcomeStep ==
    ASSUME RunControl, ScanRecord, RunOutcome, [RNext]_rvars
    PROVE  RunOutcome'
<1> USE RuntimeAssumption DEF RunOutcome, Goto, scanVars, endVars
<1> DEFINE Same(q) ==
        /\ completion'[q] = completion[q] /\ reply'[q] = reply[q] /\ saveErr'[q] = saveErr[q]
        /\ failed'[q] = failed[q] /\ exitCode'[q] = exitCode[q]
<1> DEFINE Typed == failed' \in [Runs -> BOOLEAN] /\ exitCode' \in [Runs -> 0 .. 2]
<1> DEFINE Ends(q) ==
        /\ pc'[q] = "finalizing" /\ Successful(completion'[q]) => Complete(q)'
        /\ pc'[q] \in {"emitting", "closing"} /\ ~failed'[q] => Promoted(q)'
        /\ exitCode'[q] = 0 => pc'[q] = "exited" /\ Promoted(q)'
<1>1. ASSUME NEW q \in Runs, Same(q), pc'[q] = pc[q]
      PROVE  Ends(q)
  BY <1>1, CommittedGrows DEF Complete, Promoted
<1>2. CASE UNCHANGED rvars
  BY <1>1, <1>2 DEF rvars
<1>3. ASSUME NEW r \in Runs, Typed, Ends(r), \A q \in Runs \ {r} : Same(q) /\ pc'[q] = pc[q]
      PROVE  RunOutcome'
  <2>1. \A q \in Runs : Ends(q)
    BY <1>1, <1>3
  <2> QED
    BY <1>3, <2>1
<1>4. ASSUME NEW r \in Runs, pc[r] \in Starting, FailStartup(r)
      PROVE  RunOutcome'
  BY <1>3, <1>4 DEF FailStartup, RunControl, Starting
<1>5. ASSUME NEW r \in Runs,
             \/ PrepareTargets(r) \/ OpenState(r) \/ CheckSchema(r) \/ ReserveScan(r)
      PROVE  RunOutcome'
  BY <1>3, <1>4, <1>5 DEF PrepareTargets, OpenState, CheckSchema, ReserveScan,
                          RunControl, Starting
<1>6. ASSUME NEW r \in Runs, NEW j \in Jobs, NEW o \in Replies[j],
             CollectResult(r, j, o)
      PROVE  RunOutcome'
  BY <1>3, <1>6 DEF CollectResult, RunControl, ScanRecord
<1>7. ASSUME NEW r \in Runs, NEW j \in Jobs, ProbeSilent(r, j)
      PROVE  RunOutcome'
  BY <1>3, <1>7 DEF ProbeSilent, RunControl, ScanRecord
<1>8. ASSUME NEW r \in Runs, EndOfScan(r)
      PROVE  RunOutcome'
  <2>1. PICK ended \in ScannerEnds(r) :
           completion' = [completion EXCEPT ![r] = finalizeScanCompletion(ended, saveErr[r])]
    BY <1>8 DEF EndOfScan
  <2>2. saveErr[r] \in BOOLEAN /\ ended \in ScanCompletions
    BY EndsAreCompletions DEF ScanRecord
  <2>3. ~Successful(Failed("cancelled"))
    BY NamedCompletions
  <2>4. Successful(completion'[r]) => ~saveErr[r] /\ Successful(ended)
    BY <2>1, <2>2, FoldedCompletion DEF RunControl
  <2>5. Successful(ended) => \A j \in Jobs : reply[r][j] # "pending"
    BY <2>3 DEF ScannerEnds
  <2>6. Ends(r)
    BY <1>8, <2>4, <2>5 DEF EndOfScan, RunControl, Complete
  <2> QED
    BY <1>3, <1>8, <2>1, <2>6 DEF EndOfScan, RunControl
<1>9. ASSUME NEW r \in Runs, FinalizeScan(r)
      PROVE  RunOutcome'
  <2>1. PICK stateFailed \in BOOLEAN :
           /\ completion' = [completion EXCEPT ![r] = finalizeScanCompletion(@, stateFailed)]
           /\ ~stateFailed => /\ FinalizeCurrentScan(ScopeOf[r], scanID[r], completion[r])
                              /\ Successful(completion[r])
    BY <1>9 DEF FinalizeScan, Successful
  <2>2. completion[r] \in ScanCompletions /\ completion'[r] \in ScanCompletions
    BY <2>1, FoldedCompletion DEF RunControl
  <2>3. Successful(completion'[r]) <=> ~completion'[r].failed
    BY <1>9, <2>1, <2>2 DEF RunControl, finalizeScanCompletion, Failed, Successful
  <2>4. ~completion'[r].failed => Promoted(r)'
    BY <1>9, <2>1, <2>2, <2>3, FoldedCompletion
       DEF FinalizeScan, RunControl, Complete, Promoted, FinalizeCurrentScan,
           PromoteCurrentScan
  <2> QED
    BY <1>3, <1>9, <2>1, <2>2, <2>4 DEF FinalizeScan, RunControl, ScanCompletions
<1>10. ASSUME NEW r \in Runs, EmitChange(r) \/ EmitFails(r) \/ EmitDone(r)
       PROVE  RunOutcome'
  <2>1. Promoted(r) <=> Promoted(r)'
    BY <1>10 DEF EmitChange, EmitFails, EmitDone, Promoted, Complete, store
  <2> QED
    BY <1>3, <1>10, <2>1 DEF EmitChange, EmitFails, NextChange, EmitDone, RunControl
<1>11. ASSUME NEW r \in Runs, CloseState(r)
       PROVE  RunOutcome'
  <2>1. Promoted(r) <=> Promoted(r)'
    BY <1>11 DEF CloseState, Promoted, Complete, store
  <2> QED
    BY <1>3, <1>11, <2>1 DEF CloseState, RunControl
<1>12. ASSUME NEW r \in Runs, Signal(r) \/ Kill(r)
       PROVE  RunOutcome'
  BY <1>1, <1>3, <1>12 DEF Signal, Kill, Alive, RunControl
<1> QED
  BY <1>2, <1>5, <1>6, <1>7, <1>8, <1>9, <1>10, <1>11, <1>12
     DEF RNext, Step, AllEnded, rvars

\* A run without an error after finalizing is promoted, at every step.
LEMMA RunOutcomeInvariant == RSpec => []RunOutcome
<1>1. RInit => RunOutcome
  BY DEF RInit, RunOutcome
<1>2. RunControl /\ ScanRecord /\ RunOutcome /\ [RNext]_rvars => RunOutcome'
  BY RunOutcomeStep
<1> QED
  BY <1>1, <1>2, RunControlInvariant, ScanRecordInvariant, PTL DEF RSpec

\* Exit code 0 means that the scan was complete and its baseline is committed:
\* ExitZeroMeansPromoted, for any number of runs and jobs and any scan outcomes.
THEOREM ExitZeroIsPromoted == RSpec => []ExitZeroMeansPromoted
<1>1. RunOutcome => ExitZeroMeansPromoted
  BY DEF RunOutcome, Promoted, Complete, ExitZeroMeansPromoted
<1> QED
  BY <1>1, RunOutcomeInvariant, PTL

\* The open services of the next baseline are those of the scan.
LEMMA NextBaselineOpens ==
    ASSUME NEW b \in LoadedMaps, NEW cur \in CurrentMaps
    PROVE  OpenIn(nextBaseline(b, cur)) = {s \in Services : cur[s] # Absent}
<1> SUFFICES ASSUME NEW s \in Services
             PROVE  nextBaseline(b, cur)[s] \in OpenRecords <=> cur[s] # Absent
  BY DEF OpenIn
<1>1. cur[s] \in OpenRecords \cup {Absent} /\ b[s] \in Records \cup {Absent}
  BY DEF CurrentMaps, LoadedMaps
<1>2. CASE cur[s] # Absent
  BY <1>1, <1>2 DEF nextBaseline
<1>3. CASE cur[s] = Absent /\ b[s] # Absent
  BY <1>1, <1>3, ClosingKeepsRecord DEF nextBaseline
<1>4. CASE cur[s] = Absent /\ b[s] = Absent
  BY <1>4, RecordSentinels DEF nextBaseline, OpenRecords
<1> QED
  BY <1>2, <1>3, <1>4

\* A baseline changes only when a run of its scope finalizes a complete scan,
\* and its open services are then those that answered that run, none lost and
\* none left over from another run: PromotionObservedEverything, for any number
\* of runs.
THEOREM PromotionsAreComplete == RSpec => PromotionObservedEverything
<1>1. RunControl /\ TypeOK /\ ScanRecord /\ RunOutcome /\ [RNext]_rvars =>
        [\A sc \in Scopes :
            baseline'[sc] # baseline[sc] =>
              \E r \in Runs :
                  /\ pc[r] = "finalizing" /\ ScopeOf[r] = sc
                  /\ Successful(completion[r]) /\ ~saveErr[r]
                  /\ \A j \in Jobs : reply[r][j] # "pending"
                  /\ OpenIn(baseline'[sc]) = Answered(r)]_rvars
  <2> SUFFICES ASSUME RunControl, TypeOK, ScanRecord, RunOutcome, RNext,
                      NEW sc \in Scopes, baseline'[sc] # baseline[sc]
               PROVE  \E r \in Runs :
                          /\ pc[r] = "finalizing" /\ ScopeOf[r] = sc
                          /\ Successful(completion[r]) /\ ~saveErr[r]
                          /\ \A j \in Jobs : reply[r][j] # "pending"
                          /\ OpenIn(baseline'[sc]) = Answered(r)
    BY DEF rvars, store
  <2>1. PICK r \in Runs : FinalizeScan(r)
    <3>1. PICK r \in Runs : Step(r) \/ Signal(r) \/ Kill(r)
      BY DEF RNext, AllEnded, rvars, store
    <3>2. CASE Signal(r) \/ Kill(r)
      BY <3>2 DEF Signal, Kill, store
    <3>3. CASE PrepareTargets(r) \/ OpenState(r) \/ CheckSchema(r)
      BY <3>3 DEF PrepareTargets, OpenState, CheckSchema, FailStartup, InitializeStateSchema, store
    <3>4. CASE ReserveScan(r)
      BY <3>4 DEF ReserveScan, CreateCurrentScanExclusive, FailStartup, store
    <3>5. CASE \E j \in Jobs : \E o \in Replies[j] : CollectResult(r, j, o)
      BY <3>5 DEF CollectResult, SaveCurrentService, store
    <3>6. CASE (\E j \in Jobs : ProbeSilent(r, j)) \/ EndOfScan(r)
      BY <3>6 DEF ProbeSilent, EndOfScan, store
    <3>7. CASE EmitChange(r) \/ EmitFails(r) \/ EmitDone(r) \/ CloseState(r)
      BY <3>7 DEF EmitChange, EmitFails, EmitDone, CloseState, store
    <3> QED BY <3>1, <3>2, <3>3, <3>4, <3>5, <3>6, <3>7 DEF Step
  <2>2. /\ pc[r] = "finalizing" /\ Successful(completion[r])
        /\ PromoteCurrentScan(ScopeOf[r], scanID[r], completion[r])
    <3>1. /\ pc[r] = "finalizing"
          /\ PromoteCurrentScan(ScopeOf[r], scanID[r], completion[r])
      BY <2>1 DEF FinalizeScan, FinalizeCurrentScan, discardCurrentScan, store
    <3> QED
      BY <3>1 DEF PromoteCurrentScan
  <2>3. /\ ScopeOf[r] \in Scopes /\ scanID[r] \in ScanIDs
        /\ completion[r] \in ScanCompletions
    BY <2>2, RuntimeAssumption DEF RunControl, ScanIsReserved
  <2>4. /\ baseline[ScopeOf[r]] \in LoadedMaps
        /\ scans[ScopeOf[r]][scanID[r]] \in CurrentMaps
        /\ baseline' = [baseline EXCEPT ![ScopeOf[r]] =
                nextBaseline(baseline[ScopeOf[r]], scans[ScopeOf[r]][scanID[r]])]
    BY <2>2, <2>3, PromotionLoads
  <2>5. Complete(r)
    BY <2>2 DEF RunOutcome
  <2>6. ScopeOf[r] = sc
    BY <2>3, <2>4
  <2>7. OpenIn(baseline'[sc]) = Observed(ScopeOf[r], scanID[r])
    <3>1. baseline'[sc] = nextBaseline(baseline[ScopeOf[r]], scans[ScopeOf[r]][scanID[r]])
      BY <2>4, <2>6 DEF TypeOK
    <3> QED
      BY <2>4, <3>1, NextBaselineOpens DEF Observed
  <2>8. Observed(ScopeOf[r], scanID[r]) = Answered(r)
    BY <2>2, <2>5 DEF ScanRecord, ReservationIsOwn, Complete
  <2> QED
    BY <2>2, <2>5, <2>6, <2>7, <2>8 DEF Complete
<1> QED
  BY <1>1, RunControlInvariant, StoreInvariants, ScanRecordInvariant, RunOutcomeInvariant,
     PTL DEF RSpec, PromotionObservedEverything

-----------------------------------------------------------------------------
(* The events a run writes.                                                *)

ChangeKinds == {"opened", "changed", "closed", "reopened"}

\* A change as a run carries it from its promotion to the event stream.
Changes == [kind     : ChangeKinds,
            service  : Services,
            previous : Records \cup {Absent},
            current  : OpenRecords \cup {Absent}]

\* The records of a change are those its kind announces.
ProperChange(c) ==
    \/ c.kind = "opened"   /\ c.previous = Absent /\ c.current \in OpenRecords
    \/ c.kind = "reopened" /\ c.previous \in Records \ OpenRecords /\ c.current \in OpenRecords
    \/ c.kind = "changed"  /\ c.previous \in OpenRecords /\ c.current \in OpenRecords
    \/ c.kind = "closed"   /\ c.previous \in OpenRecords /\ c.current = Absent

OneChangePerService(C) == \A c, d \in C : c.service = d.service => c = d

\* Reconciliation reports a service once, from what the baseline holds of it.
LEMMA ReconciledChanges ==
    ASSUME NEW b \in LoadedMaps, NEW cur \in CurrentMaps
    PROVE  /\ OneChangePerService(reconcileServiceRecords(b, cur))
           /\ \A c \in reconcileServiceRecords(b, cur) :
                 c \in Changes /\ ProperChange(c) /\ c.previous = b[c.service]
<1> DEFINE Opens(s)   == cur[s] # Absent /\ b[s] = Absent
           Reopens(s) == cur[s] # Absent /\ b[s] # Absent /\ b[s].status = "closed"
           Differs(s) == /\ cur[s] # Absent /\ b[s] # Absent /\ b[s].status # "closed"
                         /\ ~serviceComparisonEqual(b[s], cur[s])
           Closes(s)  == cur[s] = Absent /\ b[s] # Absent /\ b[s].status # "closed"
           Made(c, s) == \/ Opens(s)   /\ c = Change("opened", s, Absent, cur[s])
                         \/ Reopens(s) /\ c = Change("reopened", s, b[s], cur[s])
                         \/ Differs(s) /\ c = Change("changed", s, b[s], cur[s])
                         \/ Closes(s)  /\ c = Change("closed", s, b[s], Absent)
<1>1. ASSUME NEW c \in reconcileServiceRecords(b, cur)
      PROVE  \E s \in Services : Made(c, s)
  BY DEF reconcileServiceRecords, observedChanges, unobservedChanges
<1>2. ASSUME NEW c, NEW s \in Services, Made(c, s)
      PROVE  c.service = s
  BY <1>2 DEF Change
<1>3. ASSUME NEW c, NEW d, NEW s \in Services, Made(c, s), Made(d, s)
      PROVE  c = d
  <2> HIDE DEF Change
  <2> QED
    BY <1>3
<1>4. ASSUME NEW c, NEW s \in Services, Made(c, s)
      PROVE  c \in Changes /\ ProperChange(c) /\ c.previous = b[c.service]
  <2>1. cur[s] \in OpenRecords \cup {Absent} /\ b[s] \in Records \cup {Absent}
    BY DEF LoadedMaps, CurrentMaps
  <2>2. b[s] # Absent => (b[s] \in OpenRecords <=> b[s].status # "closed")
    BY <2>1 DEF Records, OpenRecords
  <2>3. OpenRecords \subseteq Records
    BY DEF OpenRecords
  <2> HIDE DEF Records, OpenRecords
  <2> QED
    BY <1>4, <2>1, <2>2, <2>3 DEF Change, Changes, ChangeKinds, ProperChange
<1> HIDE DEF Made
<1>5. OneChangePerService(reconcileServiceRecords(b, cur))
  BY <1>1, <1>2, <1>3 DEF OneChangePerService
<1> QED
  BY <1>1, <1>4, <1>5

\* A change without an event has a result that reads as its previous record, and
\* the reader of an event knows the change's result: the event type the emitter
\* works out of the two records agrees with the change's kind.
LEMMA ReadEventTells ==
    ASSUME NEW c \in Changes, ProperChange(c),
           NEW known \in Records \cup {Absent, Invalid}
    PROVE  /\ Told(known) = Told(c.previous) =>
                  Told(ReadEvent(known, c)) = Told(ChangeResult(c))
           /\ ReadEvent(known, c) \in Records \cup {Absent, Invalid}
<1> USE RecordSentinels
<1>1. OpenRecords \subseteq Records /\ Absent \notin OpenRecords
  BY DEF OpenRecords
<1>2. CASE c.kind = "opened" /\ c.previous = Absent /\ c.current \in OpenRecords
  <2>1. EventOf(c) = "service.opened"
    BY <1>1, <1>2 DEF EventOf, mapDeltaToLifecycleEvent
  <2> QED
    BY <1>1, <1>2, <2>1 DEF ReadEvent, ChangeResult
<1>3. CASE /\ c.kind = "reopened"
           /\ c.previous \in Records \ OpenRecords /\ c.current \in OpenRecords
  <2>1. EventOf(c) = "service.reopened"
    BY <1>1, <1>3 DEF EventOf, mapDeltaToLifecycleEvent
  <2> QED
    BY <1>1, <1>3, <2>1 DEF ReadEvent, ChangeResult
<1>4. CASE c.kind = "changed" /\ c.previous \in OpenRecords /\ c.current \in OpenRecords
  <2>1. CASE hashScanResult(c.previous) = hashScanResult(c.current)
    <3>1. EventOf(c) = "none"
      BY <1>1, <1>4, <2>1 DEF EventOf, mapDeltaToLifecycleEvent
    <3>2. Told(c.previous) = Told(c.current)
      BY <1>1, <1>4, <2>1 DEF Told, hashScanResult
    <3> QED
      BY <1>4, <3>1, <3>2 DEF ReadEvent, ChangeResult
  <2>2. CASE hashScanResult(c.previous) # hashScanResult(c.current)
    <3>1. EventOf(c) = "service.changed"
      BY <1>1, <1>4, <2>2 DEF EventOf, mapDeltaToLifecycleEvent
    <3> QED
      BY <1>1, <1>4, <3>1 DEF ReadEvent, ChangeResult
  <2> QED
    BY <2>1, <2>2
<1>5. CASE c.kind = "closed" /\ c.previous \in OpenRecords /\ c.current = Absent
  <2>1. EventOf(c) = "service.closed"
    BY <1>1, <1>5 DEF EventOf, mapDeltaToLifecycleEvent
  <2> QED
    BY <1>1, <1>5, <2>1, ClosingKeepsRecord DEF ReadEvent, ChangeResult
<1> QED
  BY <1>2, <1>3, <1>4, <1>5 DEF ProperChange

\* What a run still has to write starts from what the reader knows and ends at
\* the committed baseline; of a service nobody has anything to write about, the
\* reader knows what is committed.
Unreported(sc, s) == \E r \in Runs : \E c \in changes[r] : ScopeOf[r] = sc /\ c.service = s

EventStream ==
    /\ changes \in [Runs -> SUBSET Changes]
    /\ consumer \in [Scopes -> StoredMaps]
    /\ lost \subseteq Scopes
    /\ \A r \in Runs :
          /\ changes[r] # {} => pc[r] = "emitting"
          /\ OneChangePerService(changes[r])
          /\ \A c \in changes[r] :
                /\ ProperChange(c)
                /\ ChangeResult(c) = baseline[ScopeOf[r]][c.service]
                /\ ScopeOf[r] \notin lost =>
                      Told(consumer[ScopeOf[r]][c.service]) = Told(c.previous)
    /\ \A sc \in Scopes \ lost, s \in Services :
          Unreported(sc, s) \/ Told(consumer[sc][s]) = Told(baseline[sc][s])

\* While a run holds the database no other has changes to write.
LEMMA OthersAreSilent ==
    ASSUME RunControl, EventStream, NEW r \in Runs, pc[r] \in Holding
    PROVE  \A q \in Runs \ {r} : changes[q] = {}
BY WriterIsAlone DEF EventStream, Holding

\* Only a promotion changes the baseline of a run.
LEMMA BaselineStays ==
    ASSUME NEW r \in Runs,
           \/ FailStartup(r) \/ PrepareTargets(r) \/ OpenState(r) \/ CheckSchema(r)
           \/ ReserveScan(r)
           \/ \E j \in Jobs : \E o \in Replies[j] : CollectResult(r, j, o)
           \/ \E j \in Jobs : ProbeSilent(r, j)
           \/ EndOfScan(r) \/ EmitChange(r) \/ EmitFails(r) \/ EmitDone(r)
           \/ CloseState(r) \/ Signal(r) \/ Kill(r)
    PROVE  UNCHANGED baseline
BY DEF store, FailStartup, PrepareTargets, OpenState, CheckSchema, InitializeStateSchema,
       ReserveScan, CreateCurrentScanExclusive, CollectResult, SaveCurrentService,
       ProbeSilent, EndOfScan, EmitChange, EmitFails, EmitDone, CloseState, Signal, Kill

\* A promotion finds everything reported, and what it leaves to report is what
\* it changed.
LEMMA FinalizeStream ==
    ASSUME RunControl, TypeOK, EventStream, NEW r \in Runs, FinalizeScan(r)
    PROVE  EventStream'
<1> USE DEF Goto
<1>1. PICK sc \in Scopes : sc = ScopeOf[r]
  BY RuntimeAssumption
<1>2. pc[r] = "finalizing" /\ scanID[r] \in ScanIDs
  BY DEF FinalizeScan, RunControl, ScanIsReserved
<1>3. \A q \in Runs : changes[q] = {}
  BY <1>2, OthersAreSilent DEF EventStream, Holding
<1>4. \A d \in Scopes \ lost, s \in Services : Told(consumer[d][s]) = Told(baseline[d][s])
  BY <1>3 DEF EventStream, Unreported
<1>5. /\ pc' = [pc EXCEPT ![r] = "emitting"] /\ UNCHANGED <<consumer, lost>>
      /\ pc \in [Runs -> Steps]
  BY DEF FinalizeScan, RunControl
<1>6. CASE changes'[r] = {} /\ UNCHANGED baseline /\ changes' \in [Runs -> SUBSET Changes]
           /\ \A q \in Runs \ {r} : changes'[q] = changes[q]
  <2>1. \A q \in Runs : changes'[q] = {}
    BY <1>3, <1>6
  <2> QED
    BY <1>4, <1>5, <1>6, <2>1 DEF EventStream, OneChangePerService, Unreported
<1>7. CASE /\ PromoteCurrentScan(sc, scanID[r], completion[r])
           /\ changes' = [changes EXCEPT ![r] = ReconcileScope(sc, scanID[r])]
  <2> DEFINE b   == baseline[sc]
             cur == scans[sc][scanID[r]]
             C   == reconcileServiceRecords(b, cur)
  <2>1. completion[r] \in ScanCompletions
    BY DEF RunControl
  <2>2. /\ b \in LoadedMaps /\ cur \in CurrentMaps /\ baseline \in [Scopes -> StoredMaps]
        /\ baseline' = [baseline EXCEPT ![sc] = nextBaseline(b, cur)]
    BY <1>1, <1>2, <1>7, <2>1, PromotionLoads
  <2>3. /\ OneChangePerService(C)
        /\ \A c \in C : c \in Changes /\ ProperChange(c) /\ c.previous = b[c.service]
    BY <2>2, ReconciledChanges
  <2>4. changes' = [changes EXCEPT ![r] = C]
    BY <1>7 DEF ReconcileScope
  <2>5. \A c \in C : /\ c.service \in Services
                     /\ ChangeResult(c) = nextBaseline(b, cur)[c.service]
    BY <2>2, ChangeGivesNext
  <2>6. ASSUME NEW s \in Services, \A c \in C : c.service # s
        PROVE  nextBaseline(b, cur)[s] = b[s]
    BY <2>2, <2>6, NoChangeKeepsRecord
  <2> HIDE DEF b, cur, C
  <2>7. baseline'[sc] = nextBaseline(b, cur) /\ \A d \in Scopes \ {sc} : baseline'[d] = baseline[d]
    BY <2>2
  <2>8. changes'[r] = C /\ changes' \in [Runs -> SUBSET Changes]
        /\ \A q \in Runs \ {r} : changes'[q] = {}
    BY <1>3, <2>3, <2>4 DEF EventStream
  <2>9. \A c \in C : sc \notin lost => Told(consumer[sc][c.service]) = Told(c.previous)
    BY <1>4, <2>3, <2>5 DEF b
  <2>10. ASSUME NEW d \in Scopes \ lost, NEW s \in Services,
                Told(consumer[d][s]) # Told(baseline'[d][s])
         PROVE  Unreported(d, s)'
    <3>1. d = sc /\ nextBaseline(b, cur)[s] # b[s]
      BY <1>4, <2>7, <2>10 DEF b
    <3>2. PICK c \in C : c.service = s
      BY <2>6, <3>1
    <3> QED
      BY <1>1, <2>8, <3>1, <3>2 DEF Unreported
  <2>11. /\ OneChangePerService(changes'[r])
         /\ \A q \in Runs \ {r} : OneChangePerService(changes'[q])
    BY <2>3, <2>8 DEF OneChangePerService
  <2>12. \A q \in Runs :
           /\ changes'[q] # {} => pc'[q] = "emitting"
           /\ OneChangePerService(changes'[q])
           /\ \A c \in changes'[q] :
                 /\ ProperChange(c)
                 /\ ChangeResult(c) = baseline'[ScopeOf[q]][c.service]
                 /\ ScopeOf[q] \notin lost =>
                       Told(consumer[ScopeOf[q]][c.service]) = Told(c.previous)
    BY <1>1, <1>5, <2>3, <2>5, <2>7, <2>8, <2>9, <2>11
  <2> QED
    BY <1>5, <2>8, <2>10, <2>12 DEF EventStream
<1>8. \/ /\ FinalizeCurrentScan(sc, scanID[r], completion[r])
         /\ changes' = [changes EXCEPT ![r] =
                IF Successful(completion[r]) THEN ReconcileScope(sc, scanID[r]) ELSE {}]
      \/ UNCHANGED <<store, changes>>
  BY <1>1 DEF FinalizeScan
<1>9. CASE UNCHANGED <<store, changes>>
  BY <1>3, <1>6, <1>9 DEF store, EventStream
<1>10. CASE /\ ~Successful(completion[r]) /\ discardCurrentScan(sc, scanID[r])
            /\ changes' = [changes EXCEPT ![r] = {}]
  BY <1>6, <1>10 DEF discardCurrentScan, EventStream
<1> QED
  BY <1>7, <1>8, <1>9, <1>10 DEF FinalizeCurrentScan, PromoteCurrentScan

\* Writing an event takes the reader of its service to the committed record.
LEMMA EmitStream ==
    ASSUME RunControl, TypeOK, EventStream, NEW r \in Runs, EmitChange(r)
    PROVE  EventStream'
<1>1. PICK sc \in Scopes : sc = ScopeOf[r]
  BY RuntimeAssumption
<1>2. PICK c \in changes[r] :
         /\ pc[r] = "emitting"
         /\ consumer' = [consumer EXCEPT ![ScopeOf[r]][c.service] = ReadEvent(@, c)]
         /\ changes' = [changes EXCEPT ![r] = @ \ {c}]
  BY DEF EmitChange, NextChange
<1>3. UNCHANGED <<baseline, pc, lost>>
  BY DEF EmitChange, store
<1>4. \A q \in Runs \ {r} : changes[q] = {}
  BY <1>2, OthersAreSilent DEF Holding
<1>5. /\ c \in Changes /\ c.service \in Services /\ ProperChange(c)
      /\ ChangeResult(c) = baseline[sc][c.service]
      /\ sc \notin lost => Told(consumer[sc][c.service]) = Told(c.previous)
      /\ \A d \in changes[r] : d # c => d.service # c.service
  BY <1>1, <1>2 DEF EventStream, Changes, OneChangePerService
<1>6. consumer[sc] \in StoredMaps
  BY DEF EventStream
<1>7. consumer[sc][c.service] \in Records \cup {Absent, Invalid}
  BY <1>5, <1>6 DEF StoredMaps
<1> DEFINE known == ReadEvent(consumer[sc][c.service], c)
<1>8. /\ sc \notin lost => Told(known) = Told(baseline[sc][c.service])
      /\ known \in Records \cup {Absent, Invalid}
  BY <1>5, <1>7, ReadEventTells
<1> HIDE DEF known
<1>9. consumer' = [consumer EXCEPT ![sc] = [consumer[sc] EXCEPT ![c.service] = known]]
  BY <1>1, <1>2 DEF EventStream, known
<1>10. [consumer[sc] EXCEPT ![c.service] = known] \in StoredMaps
  BY <1>6, <1>8 DEF StoredMaps
<1>11. /\ consumer' \in [Scopes -> StoredMaps]
       /\ consumer'[sc][c.service] = known
       /\ \A d \in Scopes, s \in Services :
             <<d, s>> # <<sc, c.service>> => consumer'[d][s] = consumer[d][s]
  BY <1>1, <1>5, <1>6, <1>9, <1>10 DEF EventStream, StoredMaps
<1>12. /\ changes' \in [Runs -> SUBSET Changes]
       /\ changes'[r] = changes[r] \ {c}
       /\ \A q \in Runs \ {r} : changes'[q] = {}
  BY <1>2, <1>4 DEF EventStream
<1>13. \A q \in Runs :
          /\ changes'[q] # {} => pc'[q] = "emitting"
          /\ OneChangePerService(changes'[q])
          /\ \A d \in changes'[q] :
                /\ ProperChange(d)
                /\ ChangeResult(d) = baseline[ScopeOf[q]][d.service]
                /\ ScopeOf[q] \notin lost =>
                      Told(consumer'[ScopeOf[q]][d.service]) = Told(d.previous)
  <2>1. ASSUME NEW d \in changes'[r]
        PROVE  /\ ProperChange(d)
               /\ ChangeResult(d) = baseline[sc][d.service]
               /\ sc \notin lost => Told(consumer'[sc][d.service]) = Told(d.previous)
    <3>1. d \in changes[r] /\ d.service \in Services /\ d.service # c.service
      BY <1>5, <1>12 DEF EventStream, Changes
    <3> QED
      BY <1>1, <1>11, <3>1 DEF EventStream
  <2>2. OneChangePerService(changes'[r]) /\ \A q \in Runs \ {r} : OneChangePerService(changes'[q])
    BY <1>12 DEF EventStream, OneChangePerService
  <2> QED
    BY <1>1, <1>2, <1>3, <1>12, <2>1, <2>2
<1>14. ASSUME NEW d \in Scopes \ lost, NEW s \in Services, ~Unreported(d, s)'
       PROVE  Told(consumer'[d][s]) = Told(baseline[d][s])
  <2>1. CASE d = sc /\ s = c.service
    BY <1>8, <1>11, <1>14, <2>1
  <2>2. CASE <<d, s>> # <<sc, c.service>>
    <3>1. ~Unreported(d, s)
      BY <1>1, <1>4, <1>12, <1>14, <2>2 DEF Unreported
    <3> QED
      BY <1>11, <1>14, <2>2, <3>1 DEF EventStream
  <2> QED
    BY <2>1, <2>2
<1> QED
  BY <1>3, <1>11, <1>12, <1>13, <1>14 DEF EventStream

\* A run that stops before its last event leaves its scope behind, marked lost.
LEMMA StoppedStream ==
    ASSUME RunControl, EventStream, NEW r \in Runs, pc[r] \notin {"exited", "killed"},
           changes' = [changes EXCEPT ![r] = {}],
           lost' = IF changes[r] = {} THEN lost ELSE lost \cup {ScopeOf[r]},
           \A q \in Runs \ {r} : pc'[q] = pc[q],
           UNCHANGED <<baseline, consumer>>
    PROVE  EventStream'
<1>1. /\ changes' \in [Runs -> SUBSET Changes] /\ lost' \subseteq Scopes /\ lost \subseteq lost'
      /\ changes'[r] = {} /\ \A q \in Runs \ {r} : changes'[q] = changes[q]
  <2>1. changes \in [Runs -> SUBSET Changes] /\ lost \subseteq Scopes /\ ScopeOf[r] \in Scopes
    BY RuntimeAssumption, Zenon DEF EventStream
  <2>2. lost' \subseteq Scopes /\ lost \subseteq lost'
    BY <2>1
  <2>3. /\ changes' \in [Runs -> SUBSET Changes] /\ changes'[r] = {}
        /\ \A q \in Runs \ {r} : changes'[q] = changes[q]
    BY <2>1
  <2> QED BY <2>2, <2>3
<1>2. \A d \in Scopes \ lost', s \in Services : Unreported(d, s) => Unreported(d, s)'
  BY <1>1 DEF Unreported
<1>3. ASSUME NEW q \in Runs
      PROVE  /\ changes'[q] # {} => pc'[q] = "emitting"
             /\ OneChangePerService(changes'[q])
             /\ \A c \in changes'[q] :
                   /\ ProperChange(c)
                   /\ ChangeResult(c) = baseline[ScopeOf[q]][c.service]
                   /\ ScopeOf[q] \notin lost' =>
                         Told(consumer[ScopeOf[q]][c.service]) = Told(c.previous)
  <2>1. CASE q = r
    <3>1. changes'[q] = {}
      BY <1>1, <2>1
    <3> QED BY <3>1 DEF OneChangePerService
  <2>2. CASE q # r
    <3>1. changes'[q] = changes[q] /\ pc'[q] = pc[q] /\ lost \subseteq lost'
      BY <1>1, <2>2
    <3>2. /\ changes[q] # {} => pc[q] = "emitting"
          /\ OneChangePerService(changes[q])
          /\ \A c \in changes[q] :
                /\ ProperChange(c)
                /\ ChangeResult(c) = baseline[ScopeOf[q]][c.service]
                /\ ScopeOf[q] \notin lost =>
                      Told(consumer[ScopeOf[q]][c.service]) = Told(c.previous)
      BY Zenon DEF EventStream
    <3> QED BY <3>1, <3>2
  <2> QED BY <2>1, <2>2
<1>4. \A d \in Scopes \ lost', s \in Services :
          Unreported(d, s)' \/ Told(consumer[d][s]) = Told(baseline[d][s])
  BY <1>1, <1>2 DEF EventStream
<1>5. consumer \in [Scopes -> StoredMaps]
  BY DEF EventStream
<1> QED
  BY <1>1, <1>3, <1>4, <1>5 DEF EventStream

\* No step makes what a reader knows drift from the baseline.
LEMMA EventStreamStep ==
    ASSUME RunControl, TypeOK, EventStream, [RNext]_rvars
    PROVE  EventStream'
<1> USE DEF Goto, scanVars, endVars
<1>1. CASE UNCHANGED <<changes, consumer, lost, baseline>>
           /\ \A r \in Runs : changes[r] # {} => pc'[r] = pc[r]
  <2>1. \A d \in Scopes, s \in Services : Unreported(d, s) <=> Unreported(d, s)'
    BY <1>1 DEF Unreported
  <2> QED
    BY <1>1, <2>1 DEF EventStream
<1>2. CASE UNCHANGED rvars
  BY <1>1, <1>2 DEF rvars, store
<1>3. ASSUME NEW r \in Runs, FailStartup(r), pc[r] \in Starting
      PROVE  EventStream'
  <2>1. changes[r] = {}
    BY <1>3 DEF EventStream, Starting
  <2> QED
    BY <1>1, <1>3, <2>1, BaselineStays DEF FailStartup, RunControl
<1>4. ASSUME NEW r \in Runs,
             \/ PrepareTargets(r) \/ OpenState(r) \/ CheckSchema(r) \/ ReserveScan(r)
      PROVE  EventStream'
  <2>1. pc[r] \in Starting
    BY <1>4 DEF PrepareTargets, OpenState, CheckSchema, ReserveScan, Starting
  <2>2. changes[r] = {}
    BY <2>1 DEF EventStream, Starting
  <2>3. UNCHANGED baseline
    BY <1>4, BaselineStays
  <2> QED
    BY <1>1, <1>3, <1>4, <2>1, <2>2, <2>3
       DEF PrepareTargets, OpenState, CheckSchema, ReserveScan, RunControl
<1>5. ASSUME NEW r \in Runs,
             \/ \E j \in Jobs : \E o \in Replies[j] : CollectResult(r, j, o)
             \/ \E j \in Jobs : ProbeSilent(r, j)
             \/ Signal(r)
      PROVE  EventStream'
  <2>1. UNCHANGED baseline
    BY <1>5, BaselineStays
  <2> QED
    BY <1>1, <1>5, <2>1 DEF CollectResult, ProbeSilent, Signal
<1>6. ASSUME NEW r \in Runs, EndOfScan(r) \/ EmitDone(r) \/ CloseState(r)
      PROVE  EventStream'
  <2>1. changes[r] = {}
    BY <1>6 DEF EventStream, EndOfScan, EmitDone, CloseState
  <2>2. UNCHANGED baseline
    BY <1>6, BaselineStays
  <2> QED
    BY <1>1, <1>6, <2>1, <2>2 DEF EndOfScan, EmitDone, CloseState, RunControl
<1>7. ASSUME NEW r \in Runs, FinalizeScan(r)
      PROVE  EventStream'
  BY <1>7, FinalizeStream
<1>8. ASSUME NEW r \in Runs, EmitChange(r)
      PROVE  EventStream'
  BY <1>8, EmitStream
<1>9. ASSUME NEW r \in Runs, EmitFails(r) \/ Kill(r)
      PROVE  EventStream'
  <2>1. UNCHANGED baseline
    BY <1>9, BaselineStays
  <2>2. /\ changes' = [changes EXCEPT ![r] = {}]
        /\ lost' = IF changes[r] = {} THEN lost ELSE lost \cup {ScopeOf[r]}
        /\ \A q \in Runs \ {r} : pc'[q] = pc[q]
        /\ pc[r] \notin {"exited", "killed"} /\ UNCHANGED consumer
    BY <1>9 DEF EmitFails, NextChange, Kill, Alive, RunControl
  <2> QED
    BY <2>1, <2>2, StoppedStream
<1> QED
  BY <1>2, <1>4, <1>5, <1>6, <1>7, <1>8, <1>9 DEF RNext, Step, AllEnded, rvars

\* What a reader knows and the changes that wait make up the baseline.
LEMMA EventStreamInvariant == RSpec => []EventStream
<1>1. RInit => EventStream
  <2> SUFFICES ASSUME RInit PROVE EventStream
    OBVIOUS
  <2>1. baseline \in [Scopes -> StoredMaps]
    BY NoRecordsIsCurrent DEF RInit, Init, StoredMaps
  <2>2. changes = [r \in Runs |-> {}] /\ consumer = baseline /\ lost = {}
    BY DEF RInit
  <2> QED
    BY <2>1, <2>2 DEF EventStream, OneChangePerService
<1>2. RunControl /\ TypeOK /\ EventStream /\ [RNext]_rvars => EventStream'
  BY EventStreamStep
<1> QED
  BY <1>1, <1>2, RunControlInvariant, StoreInvariants, PTL DEF RSpec

\* Whatever the interleaving of runs, signals and kills, the reader of the
\* events, brought up to date with what is still to be written, has the
\* committed baseline but for the hints (ConsumerFollowsBaseline): no other
\* promoted change is swallowed, doubled or reported against the wrong record.
THEOREM EventsTellTheBaseline == RSpec => []ConsumerFollowsBaseline
<1>1. EventStream => ConsumerFollowsBaseline
  <2> SUFFICES ASSUME EventStream, NEW sc \in Scopes \ lost, NEW s \in Services
               PROVE  LET pending == UNION {changes[r] : r \in {r \in Runs : ScopeOf[r] = sc}}
                          known   == ApplyChanges(consumer[sc], pending)
                      IN  Told(known[s]) = Told(baseline[sc][s])
    BY DEF ConsumerFollowsBaseline
  <2> DEFINE pending == UNION {changes[r] : r \in {r \in Runs : ScopeOf[r] = sc}}
             known   == ApplyChanges(consumer[sc], pending)
  <2>1. CASE \E c \in pending : c.service = s
    <3> DEFINE d == CHOOSE c \in pending : c.service = s
    <3>1. d \in pending /\ d.service = s
      BY <2>1
    <3>2. ChangeResult(d) = baseline[sc][s]
      BY <3>1 DEF EventStream
    <3>3. known[s] = ChangeResult(d)
      BY <2>1 DEF ApplyChanges
    <3> QED
      BY <3>2, <3>3
  <2>2. CASE ~\E c \in pending : c.service = s
    <3>1. ~Unreported(sc, s)
      BY <2>2 DEF Unreported
    <3>2. known[s] = consumer[sc][s]
      BY <2>2 DEF ApplyChanges
    <3> QED
      BY <3>1, <3>2 DEF EventStream
  <2> QED
    BY <2>1, <2>2
<1> QED
  BY <1>1, EventStreamInvariant, PTL

-----------------------------------------------------------------------------
(* The types of a run.                                                     *)

Counters ==
    /\ cancelled \in [Runs -> BOOLEAN]
    /\ attempts \in [Runs -> 0 .. runtimeScanReservationAttempts - 1]
    /\ openPorts \in [Runs -> Nat]

\* Reservation attempts and scan IDs stay within their bounds.
LEMMA CountersInvariant == RSpec => []Counters
<1>1. RInit => Counters
  BY DEF RInit, Counters, runtimeScanReservationAttempts
<1>2. Counters /\ [RNext]_rvars => Counters'
  <2> SUFFICES ASSUME Counters, [RNext]_rvars PROVE Counters'
    OBVIOUS
  <2> USE DEF Counters, scanVars, endVars, runtimeScanReservationAttempts
  <2>1. ASSUME NEW r \in Runs, FailStartup(r)
        PROVE  Counters'
    BY <2>1 DEF FailStartup
  <2>2. ASSUME NEW r \in Runs, ReserveScan(r)
        PROVE  Counters'
    BY <2>1, <2>2 DEF ReserveScan
  <2>3. ASSUME NEW r \in Runs,
               \/ PrepareTargets(r) \/ OpenState(r) \/ CheckSchema(r)
               \/ EndOfScan(r) \/ FinalizeScan(r) \/ EmitChange(r) \/ EmitFails(r)
               \/ EmitDone(r) \/ CloseState(r) \/ Signal(r) \/ Kill(r)
        PROVE  Counters'
    BY <2>1, <2>3 DEF PrepareTargets, OpenState, CheckSchema, EndOfScan, FinalizeScan,
                      EmitChange, EmitFails, EmitDone, CloseState, Signal, Kill
  <2>4. ASSUME NEW r \in Runs, NEW j \in Jobs,
               ProbeSilent(r, j) \/ \E o \in Replies[j] : CollectResult(r, j, o)
        PROVE  Counters'
    BY <2>4 DEF ProbeSilent, CollectResult
  <2>5. CASE UNCHANGED rvars
    BY <2>5 DEF rvars
  <2> QED
    BY <2>2, <2>3, <2>4, <2>5 DEF RNext, Step, AllEnded
<1> QED
  BY <1>1, <1>2, PTL DEF RSpec

\* The variables of the runs keep their types, reservations stay below the
\* attempts the code allows, and the pending changes are changes of services:
\* RTypeOK, from the invariants above.
THEOREM RuntimeTypes == RSpec => []RTypeOK
<1>1. /\ TypeOK /\ RunControl /\ ScanRecord /\ RunOutcome /\ EventStream /\ Counters
      => RTypeOK
  <2> SUFFICES ASSUME TypeOK, RunControl, ScanRecord, RunOutcome, EventStream, Counters
               PROVE  RTypeOK
    OBVIOUS
  <2>1. \A r \in Runs : \A c \in changes[r] :
           c.kind \in {"opened", "changed", "closed", "reopened"} /\ c.service \in Services
    BY DEF EventStream, Changes, ChangeKinds
  <2> QED
    BY <2>1 DEF RTypeOK, RunControl, ScanRecord, Replied, RunOutcome, EventStream, Counters
<1> QED
  BY <1>1, StoreInvariants, RunControlInvariant, ScanRecordInvariant, RunOutcomeInvariant,
     EventStreamInvariant, CountersInvariant, PTL

-----------------------------------------------------------------------------
(* A second look at an unchanged network.                                  *)

Reported(rec, s) ==
    \E j \in Jobs : \E o \in Replies[j] :
        ServiceOf[j] = s /\ rec = serviceRecordFromObservation(o)

\* What the database holds of an open service came from a probe of it.
StoredWasReported ==
    /\ \A sc \in Scopes, s \in Services :
          baseline[sc][s] \in OpenRecords => Reported(baseline[sc][s], s)
    /\ \A sc \in Scopes, id \in ScanIDs, s \in Services :
          scans[sc][id] # NoScan /\ scans[sc][id][s] # Absent => Reported(scans[sc][id][s], s)

\* How a step of a run reaches the database.
LEMMA StoreSteps ==
    ASSUME RunControl, [RNext]_rvars
    PROVE  \/ UNCHANGED <<baseline, scans>>
           \/ \E sc \in Scopes, id \in ScanIDs :
                 \/ CreateCurrentScanExclusive(sc, id)
                 \/ discardCurrentScan(sc, id)
                 \/ \E c \in ScanCompletions : PromoteCurrentScan(sc, id, c)
                 \/ \E j \in Jobs : \E o \in Replies[j] :
                       SaveCurrentService(sc, id, ServiceOf[j], o)
<1> USE RuntimeAssumption DEF store
<1>1. CASE UNCHANGED rvars
  BY <1>1 DEF rvars
<1>2. ASSUME NEW r \in Runs,
             \/ FailStartup(r) \/ PrepareTargets(r) \/ OpenState(r) \/ CheckSchema(r)
             \/ EndOfScan(r) \/ EmitChange(r) \/ EmitFails(r) \/ EmitDone(r)
             \/ CloseState(r) \/ Signal(r) \/ Kill(r) \/ \E j \in Jobs : ProbeSilent(r, j)
      PROVE  UNCHANGED <<baseline, scans>>
  BY <1>2 DEF FailStartup, PrepareTargets, OpenState, CheckSchema, InitializeStateSchema,
              EndOfScan, EmitChange, EmitFails, EmitDone, CloseState, Signal, Kill,
              ProbeSilent
<1>3. ASSUME NEW r \in Runs, ReserveScan(r)
      PROVE  \/ UNCHANGED <<baseline, scans>>
             \/ \E sc \in Scopes, id \in ScanIDs : CreateCurrentScanExclusive(sc, id)
  BY <1>2, <1>3 DEF ReserveScan
<1>4. ASSUME NEW r \in Runs, NEW j \in Jobs, NEW o \in Replies[j], CollectResult(r, j, o)
      PROVE  \/ UNCHANGED <<baseline, scans>>
             \/ \E sc \in Scopes, id \in ScanIDs : SaveCurrentService(sc, id, ServiceOf[j], o)
  BY <1>4 DEF CollectResult, RunControl, ScanIsReserved
<1>5. ASSUME NEW r \in Runs, FinalizeScan(r)
      PROVE  \/ UNCHANGED <<baseline, scans>>
             \/ \E sc \in Scopes, id \in ScanIDs :
                   \/ discardCurrentScan(sc, id)
                   \/ \E c \in ScanCompletions : PromoteCurrentScan(sc, id, c)
  <2>1. ScopeOf[r] \in Scopes /\ scanID[r] \in ScanIDs /\ completion[r] \in ScanCompletions
    BY <1>5 DEF FinalizeScan, RunControl, ScanIsReserved
  <2> QED
    BY <1>5, <2>1 DEF FinalizeScan, FinalizeCurrentScan
<1> QED
  BY <1>1, <1>2, <1>3, <1>4, <1>5 DEF RNext, Step, AllEnded, rvars

\* No step stores an open record that no probe reported.
LEMMA StoredWasReportedStep ==
    ASSUME RunControl, TypeOK, StoredWasReported, [RNext]_rvars
    PROVE  StoredWasReported'
<1>1. CASE UNCHANGED <<baseline, scans>>
  BY <1>1 DEF StoredWasReported
<1>2. ASSUME NEW sc \in Scopes, NEW id \in ScanIDs, CreateCurrentScanExclusive(sc, id)
      PROVE  StoredWasReported'
  <2>1. /\ UNCHANGED baseline
        /\ scans' = [scans EXCEPT ![sc] = [scans[sc] EXCEPT ![id] = NoRecords]]
    BY <1>2 DEF CreateCurrentScanExclusive
  <2>2. \A s \in Services : NoRecords[s] = Absent
    BY DEF NoRecords
  <2> QED
    BY <2>1, <2>2 DEF StoredWasReported, TypeOK
<1>3. ASSUME NEW sc \in Scopes, NEW id \in ScanIDs, discardCurrentScan(sc, id)
      PROVE  StoredWasReported'
  BY <1>3 DEF discardCurrentScan, StoredWasReported, TypeOK
<1>4. ASSUME NEW sc \in Scopes, NEW id \in ScanIDs, NEW c \in ScanCompletions,
             PromoteCurrentScan(sc, id, c)
      PROVE  StoredWasReported'
  <2> DEFINE b   == baseline[sc]
             cur == scans[sc][id]
  <2>1. /\ b \in LoadedMaps /\ cur \in CurrentMaps
        /\ baseline' = [baseline EXCEPT ![sc] = nextBaseline(b, cur)]
        /\ scans' = [scans EXCEPT ![sc][id] = NoScan]
        /\ baseline \in [Scopes -> StoredMaps]
        /\ scans \in [Scopes -> [ScanIDs -> CurrentMaps \cup {NoScan}]]
    BY <1>4, PromotionLoads
  <2>2. cur # NoScan
    BY <2>1, NoScanIsNoMap
  <2>3. ASSUME NEW s \in Services, nextBaseline(b, cur)[s] \in OpenRecords
        PROVE  Reported(nextBaseline(b, cur)[s], s)
    <3>1. CASE cur[s] # Absent
      BY <2>2, <3>1 DEF nextBaseline, StoredWasReported
    <3>2. CASE cur[s] = Absent /\ b[s] # Absent
      <4>1. b[s] \in Records
        BY <2>1, <3>2 DEF LoadedMaps
      <4>2. nextBaseline(b, cur)[s] = [b[s] EXCEPT !.status = "closed"]
        BY <3>2 DEF nextBaseline
      <4>3. nextBaseline(b, cur)[s] \notin OpenRecords
        BY <4>1, <4>2, ClosingKeepsRecord
      <4> QED
        BY <2>3, <4>3
    <3>3. CASE cur[s] = Absent /\ b[s] = Absent
      BY <2>3, <3>3, RecordSentinels DEF nextBaseline, OpenRecords
    <3> QED
      BY <3>1, <3>2, <3>3
  <2> HIDE DEF b, cur
  <2>4. \A d \in Scopes, s \in Services :
           baseline'[d][s] \in OpenRecords => Reported(baseline'[d][s], s)
    BY <2>1, <2>3 DEF StoredWasReported
  <2>5. \A d \in Scopes, i \in ScanIDs : scans'[d][i] # NoScan => scans'[d][i] = scans[d][i]
    BY <2>1
  <2> QED
    BY <2>4, <2>5 DEF StoredWasReported
<1>5. ASSUME NEW sc \in Scopes, NEW id \in ScanIDs, NEW j \in Jobs, NEW o \in Replies[j],
             SaveCurrentService(sc, id, ServiceOf[j], o)
      PROVE  StoredWasReported'
  <2> DEFINE base == IF scans[sc][id] = NoScan THEN NoRecords ELSE scans[sc][id]
             next == [base EXCEPT ![ServiceOf[j]] = serviceRecordFromObservation(o)]
  <2>1. /\ UNCHANGED baseline
        /\ scans' = [scans EXCEPT ![sc] = [scans[sc] EXCEPT ![id] = next]]
    BY <1>5 DEF SaveCurrentService
  <2>2. base \in CurrentMaps
    BY NoRecordsIsCurrent DEF TypeOK
  <2>3. \A s \in Services : base[s] # Absent => Reported(base[s], s)
    BY DEF NoRecords, StoredWasReported
  <2> HIDE DEF base
  <2>4. ASSUME NEW s \in Services, next[s] # Absent
        PROVE  Reported(next[s], s)
    <3>1. CASE s = ServiceOf[j]
      <4>1. next[s] = serviceRecordFromObservation(o)
        BY <2>2, <3>1 DEF CurrentMaps
      <4> QED
        BY <3>1, <4>1 DEF Reported
    <3>2. CASE s # ServiceOf[j]
      BY <2>2, <2>3, <2>4, <3>2 DEF CurrentMaps
    <3> QED
      BY <3>1, <3>2
  <2> HIDE DEF next
  <2> QED
    BY <2>1, <2>4 DEF StoredWasReported, TypeOK
<1> QED
  BY <1>1, <1>2, <1>3, <1>4, <1>5, StoreSteps

\* Every open record came from a probe of its service.
LEMMA StoredWasReportedInvariant == RSpec => []StoredWasReported
<1>1. RInit => StoredWasReported
  <2> SUFFICES ASSUME RInit PROVE StoredWasReported
    OBVIOUS
  <2>1. Absent \notin OpenRecords /\ Invalid \notin OpenRecords
    BY RecordSentinels DEF OpenRecords
  <2>2. \A sc \in Scopes, s \in Services : baseline[sc][s] \in {Absent, Invalid}
    BY DEF RInit, Init
  <2>3. \A sc \in Scopes, id \in ScanIDs : scans[sc][id] = NoScan
    BY DEF RInit, Init
  <2> QED
    BY <2>1, <2>2, <2>3 DEF StoredWasReported
<1>2. RunControl /\ TypeOK /\ StoredWasReported /\ [RNext]_rvars => StoredWasReported'
  BY StoredWasReportedStep
<1> QED
  BY <1>1, <1>2, RunControlInvariant, StoreInvariants, PTL DEF RSpec

\* Where a service answers every probe alike, a complete scan finds the records
\* the baseline has.
LEMMA SteadyScanChangesNothing ==
    ASSUME StoredWasReported, NetworkIsSteady,
           NEW sc \in Scopes, NEW id \in ScanIDs,
           baseline[sc] \in LoadedMaps, scans[sc][id] \in CurrentMaps,
           Observed(sc, id) = {ServiceOf[j] : j \in Jobs},
           \A j \in Jobs : baseline[sc][ServiceOf[j]] \in OpenRecords
    PROVE  ReconcileScope(sc, id) = {}
<1> DEFINE b   == baseline[sc]
           cur == scans[sc][id]
<1>1. cur # NoScan
  BY NoScanIsNoMap
<1>2. ASSUME NEW s \in Services
      PROVE  nextBaseline(b, cur)[s] = b[s]
  <2>1. CASE cur[s] # Absent
    <3>1. Reported(cur[s], s)
      BY <1>1, <2>1 DEF StoredWasReported
    <3>2. s \in Observed(sc, id)
      BY <2>1 DEF Observed
    <3>3. Reported(b[s], s)
      BY <3>2 DEF StoredWasReported
    <3>4. cur[s] = b[s]
      BY <3>1, <3>3 DEF Reported, NetworkIsSteady
    <3> QED
      BY <2>1, <3>4 DEF nextBaseline
  <2>2. CASE cur[s] = Absent
    <3>1. s \notin Observed(sc, id)
      BY <2>2 DEF Observed
    <3>2. b[s] \notin OpenRecords
      BY <3>1 DEF StoredWasReported, Reported
    <3>3. CASE b[s] # Absent
      <4>1. b[s] \in Records
        BY <3>3 DEF LoadedMaps
      <4>2. [b[s] EXCEPT !.status = "closed"] = b[s]
        BY <3>2, <4>1, ClosingKeepsRecord
      <4> QED
        BY <2>2, <3>3, <4>2 DEF nextBaseline
    <3>4. CASE b[s] = Absent
      BY <2>2, <3>4 DEF nextBaseline
    <3> QED
      BY <3>3, <3>4
  <2> QED
    BY <2>1, <2>2
<1>3. nextBaseline(b, cur) = b
  BY <1>2 DEF nextBaseline, LoadedMaps
<1> QED
  BY <1>3, ReconciliationIsExact DEF ReconcileScope

\* A scan that repeats a complete one over an unchanged network reports nothing:
\* RepeatIsSilent, whatever other runs did to the database in between.
THEOREM RepeatsAreSilent == RSpec => RepeatIsSilent
<1>1. RunControl /\ TypeOK /\ ScanRecord /\ RunOutcome /\ EventStream /\
      StoredWasReported /\ [RNext]_rvars =>
        [\A r \in Runs :
          /\ NetworkIsSteady
          /\ FinalizeScan(r)
          /\ \A j \in Jobs : reply[r][j] = "answered"
          /\ \A j \in Jobs : baseline[ScopeOf[r]][ServiceOf[j]] \in OpenRecords
          => changes'[r] = {}]_rvars
  <2> SUFFICES ASSUME RunControl, TypeOK, ScanRecord, RunOutcome, EventStream,
                      StoredWasReported
               PROVE  \A r \in Runs :
                        /\ NetworkIsSteady
                        /\ FinalizeScan(r)
                        /\ \A j \in Jobs : reply[r][j] = "answered"
                        /\ \A j \in Jobs : baseline[ScopeOf[r]][ServiceOf[j]] \in OpenRecords
                        => changes'[r] = {}
    OBVIOUS
  <2> TAKE r \in Runs
  <2> HAVE /\ NetworkIsSteady
           /\ FinalizeScan(r)
           /\ \A j \in Jobs : reply[r][j] = "answered"
           /\ \A j \in Jobs : baseline[ScopeOf[r]][ServiceOf[j]] \in OpenRecords
  <2>1. /\ pc[r] = "finalizing" /\ ScopeOf[r] \in Scopes /\ scanID[r] \in ScanIDs
        /\ completion[r] \in ScanCompletions
    BY RuntimeAssumption DEF FinalizeScan, RunControl, ScanIsReserved
  <2>2. changes \in [Runs -> SUBSET Changes] /\ changes[r] = {}
    BY <2>1 DEF EventStream
  <2>3. CASE UNCHANGED changes
    BY <2>2, <2>3
  <2>4. CASE changes' = [changes EXCEPT ![r] = {}]
    BY <2>2, <2>4
  <2>5. CASE /\ PromoteCurrentScan(ScopeOf[r], scanID[r], completion[r])
             /\ changes' = [changes EXCEPT ![r] = ReconcileScope(ScopeOf[r], scanID[r])]
    <3>1. ~saveErr[r]
      BY <2>1, <2>5 DEF PromoteCurrentScan, RunOutcome, Complete
    <3>2. Observed(ScopeOf[r], scanID[r]) = Answered(r)
      BY <2>1, <3>1 DEF ScanRecord, ReservationIsOwn
    <3>3. Answered(r) = {ServiceOf[j] : j \in Jobs}
      BY DEF Answered
    <3>4. ReconcileScope(ScopeOf[r], scanID[r]) = {}
      BY <2>1, <2>5, <3>2, <3>3, PromotionLoads, SteadyScanChangesNothing
    <3> QED
      BY <2>2, <2>5, <3>4
  <2> QED
    BY <2>3, <2>4, <2>5 DEF FinalizeScan, FinalizeCurrentScan, PromoteCurrentScan
<1> QED
  BY <1>1, RunControlInvariant, StoreInvariants, ScanRecordInvariant, RunOutcomeInvariant,
     EventStreamInvariant, StoredWasReportedInvariant, PTL DEF RSpec, RepeatIsSilent
=============================================================================
