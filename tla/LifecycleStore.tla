---------------------------- MODULE LifecycleStore ----------------------------
(***************************************************************************)
(* The lifecycle state database (internal/scanner/state_*.go over bbolt).  *)
(* Per scope it holds one committed baseline and any number of temporary   *)
(* observation buckets, one per scan ID.  Every operation is one read-     *)
(* write transaction, so it is one action; an operation that returns an    *)
(* error has rolled back and is a stuttering step, and so is the failure   *)
(* of the transaction itself.  The clients are any callers of the          *)
(* exported functions, in any order and from any number of scans.          *)
(***************************************************************************)
EXTENDS ServiceReconcile, ScanCompletion

CONSTANTS Scopes,   \* scope identifiers
          ScanIDs,  \* scan identifiers, each usable in every scope
          NoScan    \* the scan bucket does not exist

ASSUME NoScanIsNoMap == NoScan \notin CurrentMaps

VARIABLES schema,    \* the state of the metadata bucket
          baseline,  \* scope -> the records of its committed baseline
          committed, \* the scopes whose baseline bucket exists
          scans      \* scope -> scan ID -> observations, or NoScan

vars == <<schema, baseline, committed, scans>>

\* "empty" is a new file, "unversioned" one with keys but no metadata or no
\* version, "invalid" one whose creation time does not parse.
SchemaStates == {"empty", "v1", "unversioned", "unsupported", "invalid"}

TypeOK ==
    /\ schema \in SchemaStates
    /\ baseline \in [Scopes -> StoredMaps]
    /\ committed \subseteq Scopes
    /\ scans \in [Scopes -> [ScanIDs -> CurrentMaps \cup {NoScan}]]

\* A database file the program is started on: new, versioned, or damaged.  A
\* versioned one may hold baseline records that no longer validate.
Init ==
    /\ schema \in SchemaStates
    /\ baseline \in [Scopes -> [Services -> {Absent, Invalid}]]
    /\ schema # "v1" => \A sc \in Scopes : baseline[sc] = NoRecords
    /\ committed = {sc \in Scopes : baseline[sc] # NoRecords}
    /\ scans = [sc \in Scopes |-> [id \in ScanIDs |-> NoScan]]

-----------------------------------------------------------------------------
validateStateSchema == schema = "v1"

InitializeStateSchema ==
    /\ schema = "empty"
    /\ schema' = "v1"
    /\ UNCHANGED <<baseline, committed, scans>>

\* The scan bucket exists after the call; what it already holds is kept.
EnsureCurrentScan(sc, id) ==
    /\ validateStateSchema
    /\ scans' = [scans EXCEPT ![sc][id] = IF @ = NoScan THEN NoRecords ELSE @]
    /\ UNCHANGED <<schema, baseline, committed>>

ErrStateScanAlreadyExists(sc, id) == scans[sc][id] # NoScan

CreateCurrentScanExclusive(sc, id) ==
    /\ validateStateSchema
    /\ ~ErrStateScanAlreadyExists(sc, id)
    /\ scans' = [scans EXCEPT ![sc][id] = NoRecords]
    /\ UNCHANGED <<schema, baseline, committed>>

\* Mutation: the schema is not validated before writing.
SaveCurrentService_AnySchema(sc, id, s, o) ==
    /\ scans' = [scans EXCEPT ![sc][id] =
                    [IF @ = NoScan THEN NoRecords ELSE @
                        EXCEPT ![s] = serviceRecordFromObservation(o)]]
    /\ UNCHANGED <<schema, baseline, committed>>

\* Saving creates the scan bucket when it is missing, also when the scan was
\* finalized before.
SaveCurrentService(sc, id, s, o) ==
    /\ validateStateSchema
    /\ scans' = [scans EXCEPT ![sc][id] =
                    [IF @ = NoScan THEN NoRecords ELSE @
                        EXCEPT ![s] = serviceRecordFromObservation(o)]]
    /\ UNCHANGED <<schema, baseline, committed>>

\* What a reconciliation reads; it fails without a current scan or when a
\* stored record is invalid.  The records of a current scan are all written by
\* SaveCurrentService and are valid.
loadReconciliationStateOK(sc, id) ==
    /\ validateStateSchema
    /\ loadServiceRecordsOK(baseline[sc])
    /\ scans[sc][id] # NoScan

\* The changes a promotion returns: those ReconcileScope would report.
ReconcileScope(sc, id) == reconcileServiceRecords(baseline[sc], scans[sc][id])

\* Mutation: a baseline that does not load counts as empty.
PromoteCurrentScan_Forgiving(sc, id, c) ==
    /\ Successful(c)
    /\ validateStateSchema /\ scans[sc][id] # NoScan
    /\ baseline' = [baseline EXCEPT ![sc] =
          nextBaseline(IF loadServiceRecordsOK(@) THEN @ ELSE NoRecords, scans[sc][id])]
    /\ committed' = committed \cup {sc}
    /\ scans' = [scans EXCEPT ![sc][id] = NoScan]
    /\ UNCHANGED schema

\* Mutation: the promoted scan is left where it was.
PromoteCurrentScan_KeepsScan(sc, id, c) ==
    /\ Successful(c)
    /\ loadReconciliationStateOK(sc, id)
    /\ baseline' = [baseline EXCEPT ![sc] = nextBaseline(@, scans[sc][id])]
    /\ committed' = committed \cup {sc}
    /\ UNCHANGED <<schema, scans>>

PromoteCurrentScan(sc, id, c) ==
    /\ Successful(c)
    /\ loadReconciliationStateOK(sc, id)
    /\ baseline' = [baseline EXCEPT ![sc] = nextBaseline(@, scans[sc][id])]
    /\ committed' = committed \cup {sc}
    /\ scans' = [scans EXCEPT ![sc][id] = NoScan]
    /\ UNCHANGED schema

\* Mutation: the bucket of all scans is deleted instead of the scan's.
discardCurrentScan_DropsParent(sc, id) ==
    /\ validateStateSchema
    /\ scans' = [scans EXCEPT ![sc] = NoScan]
    /\ UNCHANGED <<schema, baseline, committed>>

discardCurrentScan(sc, id) ==
    /\ validateStateSchema
    /\ scans' = [scans EXCEPT ![sc][id] = NoScan]
    /\ UNCHANGED <<schema, baseline, committed>>

FinalizeCurrentScan(sc, id, c) ==
    \/ PromoteCurrentScan(sc, id, c)
    \/ ~Successful(c) /\ discardCurrentScan(sc, id)

Next ==
    \/ InitializeStateSchema
    \/ \E sc \in Scopes, id \in ScanIDs :
          \/ EnsureCurrentScan(sc, id)
          \/ CreateCurrentScanExclusive(sc, id)
          \/ \E s \in Services, o \in Observations : SaveCurrentService(sc, id, s, o)
          \/ \E c \in ScanCompletions : FinalizeCurrentScan(sc, id, c)

Spec == Init /\ [][Next]_vars

-----------------------------------------------------------------------------
\* A database that is not at schema version 1 holds no lifecycle state: every
\* writer validates the schema in the transaction that writes.
StateNeedsSchema ==
    schema # "v1" =>
        \A sc \in Scopes :
            /\ baseline[sc] = NoRecords
            /\ sc \notin committed
            /\ \A id \in ScanIDs : scans[sc][id] = NoScan

\* Reading is all or nothing: a baseline with one invalid record is never
\* overwritten, in whatever order the operations of the database are called.
DamagedBaselineIsFrozen ==
    [][\A sc \in Scopes :
          ~loadServiceRecordsOK(baseline[sc]) => baseline'[sc] = baseline[sc]]_vars

\* A committed baseline changes only by consuming one scan of its own scope,
\* in the same transaction: the open services are then exactly those the scan
\* observed, with the records it observed, the bucket is gone, and the other
\* scans and scopes are as they were.
PromotedFrom(sc, id) ==
    /\ scans[sc][id] # NoScan
    /\ \A s \in Services :
          IF scans[sc][id][s] # Absent
          THEN baseline'[sc][s] = scans[sc][id][s]
          ELSE baseline'[sc][s] # Absent => baseline'[sc][s].status = "closed"
    /\ scans'[sc][id] = NoScan
    /\ \A other \in Scopes, j \in ScanIDs :
          <<other, j>> # <<sc, id>> => scans'[other][j] = scans[other][j]
    /\ \A other \in Scopes \ {sc} : baseline'[other] = baseline[other]

PromotionConsumesItsScan ==
    [][\A sc \in Scopes :
          baseline'[sc] # baseline[sc] => \E id \in ScanIDs : PromotedFrom(sc, id)]_vars

\* The changes a promotion returns tell the whole story: whoever applies them
\* to the old baseline has the new one, field by field, and a promotion that
\* returns none has left the records as they were.
PromotionStep(sc, id) ==
    \E c \in ScanCompletions : PromoteCurrentScan(sc, id, c)

ChangesExplainBaseline ==
    [][\A sc \in Scopes, id \in ScanIDs :
          PromotionStep(sc, id) =>
              /\ baseline'[sc] = ApplyChanges(baseline[sc], ReconcileScope(sc, id))
              /\ ReconcileScope(sc, id) = {} <=> baseline'[sc] = baseline[sc]]_vars

-----------------------------------------------------------------------------
\* What the store promises to a reader of baselines.
Ledger == INSTANCE ServiceLedger WITH ledger <- baseline

ImplementsLedger == Ledger!Spec
=============================================================================
