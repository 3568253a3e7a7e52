----------------------------- MODULE StateManager ------------------------------
(***************************************************************************)
(* The state manager that the lifecycle runtime replaced (internal/        *)
(* scanner/state.go), still in the package with its tests: one goroutine   *)
(* that drains the results channel, stores results in batches, one bbolt   *)
(* transaction each, and prints a delta for every service whose hash is    *)
(* new.  The first transaction that fails is the error it returns; from    *)
(* then on it only drains and counts.                                      *)
(*                                                                         *)
(* A result is its database key, the part of it that is hashed and whether *)
(* its state is OPEN.  The hash is injective.                              *)
(***************************************************************************)
EXTENDS Naturals, Sequences, FiniteSets

CONSTANTS Keys,         \* address, port and protocol of a service
          Payloads,     \* what is hashed of a result
          Open,         \* the payloads of results whose state is OPEN
          Absent,       \* no hash
          MaxBatchSize, \* 1000
          Capacity,     \* of the results channel
          MaxResults    \* bound: results the scanner sends

ASSUME AbsentIsNoPayload == Absent \notin Payloads
ASSUME OpenAssumption    == Open \subseteq Payloads
ASSUME BatchAssumption   == MaxBatchSize \in Nat \ {0}
ASSUME CapacityAssumption == Capacity \in Nat \ {0}
ASSUME MaxResultsAssumption == MaxResults \in Nat

Results == [key : Keys, payload : Payloads]

VARIABLES channel,   \* the results channel
          closed,    \* and that its senders are done
          pc,        \* "select", "flush", "emit" or "returned"
          closing,   \* the flush is the one before the return
          buffer,
          stateErr,  \* a transaction failed
          openPorts,
          db,        \* the PortStates bucket
          tx,        \* the bucket as the transaction has left it so far
          emissions, \* deltas of the batch, not printed yet
          jsonMode,
          stdout,    \* the deltas printed
          initial,   \* history: the bucket at the start
          received   \* history: the results received

managerVars == <<channel, closed, pc, closing, buffer, stateErr, openPorts, db, tx,
          emissions, jsonMode, stdout, initial, received>>

Deltas == [key : Keys, payload : Payloads, previous : {"UNKNOWN", "MUTATED"}]

Buckets == [Keys -> Payloads \cup {Absent}]

ManagerTypeOK ==
    /\ channel \in Seq(Results) /\ Len(channel) <= Capacity
    /\ closed \in BOOLEAN /\ closing \in BOOLEAN
    /\ stateErr \in BOOLEAN /\ jsonMode \in BOOLEAN
    /\ pc \in {"select", "flush", "emit", "returned"}
    /\ buffer \in Seq(Results) /\ Len(buffer) <= MaxBatchSize
    /\ pc = "select" => Len(buffer) < MaxBatchSize
    /\ openPorts \in 0 .. Len(received)
    /\ db \in Buckets /\ tx \in Buckets /\ initial \in Buckets
    /\ pc # "flush" => tx = db
    /\ pc \notin {"flush", "emit"} => emissions = << >>
    /\ emissions \in Seq(Deltas) /\ stdout \in Seq(Deltas)
    /\ received \in Seq(Results) /\ Len(received) + Len(channel) <= MaxResults

ManagerInit ==
    /\ channel = << >> /\ closed = FALSE
    /\ pc = "select" /\ closing = FALSE
    /\ buffer = << >> /\ stateErr = FALSE /\ openPorts = 0
    /\ db \in Buckets /\ tx = db
    /\ emissions = << >> /\ jsonMode \in BOOLEAN /\ stdout = << >>
    /\ initial = db /\ received = << >>

-----------------------------------------------------------------------------
\* The scanner's workers.
Send ==
    /\ ~closed /\ Len(channel) < Capacity
    /\ Len(received) + Len(channel) < MaxResults
    /\ \E r \in Results : channel' = Append(channel, r)
    /\ UNCHANGED <<closed, pc, closing, buffer, stateErr, openPorts, db, tx, emissions,
                   jsonMode, stdout, initial, received>>

CloseResults ==
    /\ ~closed
    /\ closed' = TRUE
    /\ UNCHANGED <<channel, pc, closing, buffer, stateErr, openPorts, db, tx, emissions,
                   jsonMode, stdout, initial, received>>

\* A result is counted and buffered; a full batch is flushed, or dropped
\* after a failure.
Receive ==
    /\ pc = "select" /\ channel # << >>
    /\ channel' = Tail(channel) /\ received' = Append(received, Head(channel))
    /\ openPorts' = openPorts + IF Head(channel).payload \in Open THEN 1 ELSE 0
    /\ LET added == Append(buffer, Head(channel)) IN
       IF Len(added) < MaxBatchSize
       THEN buffer' = added /\ pc' = pc
       ELSE IF stateErr
       THEN buffer' = << >> /\ pc' = pc
       ELSE buffer' = added /\ pc' = "flush"
    /\ UNCHANGED <<closed, closing, stateErr, db, tx, emissions, jsonMode, stdout, initial>>

\* Mutation: the last, partial batch is not flushed.
ReceiveClosed_SkipsLastBatch ==
    /\ pc = "select" /\ channel = << >> /\ closed
    /\ closing' = TRUE
    /\ pc' = "returned"
    /\ UNCHANGED <<channel, closed, buffer, stateErr, openPorts, db, tx, emissions, jsonMode,
                   stdout, initial, received>>

ReceiveClosed ==
    /\ pc = "select" /\ channel = << >> /\ closed
    /\ closing' = TRUE
    /\ pc' = IF stateErr \/ buffer = << >> THEN "returned" ELSE "flush"
    /\ UNCHANGED <<channel, closed, buffer, stateErr, openPorts, db, tx, emissions, jsonMode,
                   stdout, initial, received>>

\* The ticker: an empty batch is nothing to flush.
FlushTick ==
    /\ pc = "select" /\ buffer # << >>
    /\ IF stateErr THEN buffer' = << >> /\ pc' = pc ELSE pc' = "flush" /\ UNCHANGED buffer
    /\ UNCHANGED <<channel, closed, closing, stateErr, openPorts, db, tx, emissions, jsonMode,
                   stdout, initial, received>>

AfterFlush == IF closing THEN "returned" ELSE "select"

\* One result of the batch, against the bucket with what came before it.
Store ==
    /\ pc = "flush" /\ buffer # << >>
    /\ LET r == Head(buffer) IN
       IF tx[r.key] = r.payload THEN UNCHANGED <<tx, emissions>>
       ELSE /\ tx' = [tx EXCEPT ![r.key] = r.payload]
            /\ emissions' = Append(emissions,
                   [key |-> r.key, payload |-> r.payload,
                    previous |-> IF tx[r.key] = Absent THEN "UNKNOWN" ELSE "MUTATED"])
    /\ buffer' = Tail(buffer)
    /\ UNCHANGED <<channel, closed, pc, closing, stateErr, openPorts, db, jsonMode, stdout,
                   initial, received>>

FlushCommits ==
    /\ pc = "flush" /\ buffer = << >>
    /\ db' = tx
    /\ emissions' = IF jsonMode THEN emissions ELSE << >>
    /\ pc' = "emit"
    /\ UNCHANGED <<channel, closed, closing, buffer, stateErr, openPorts, tx, jsonMode, stdout,
                   initial, received>>

\* Mutation: a failure ends the manager with the channel not drained.
FlushFails_Returns ==
    /\ pc = "flush"
    /\ stateErr' = TRUE /\ buffer' = << >> /\ pc' = "returned"
    /\ tx' = db /\ emissions' = << >>
    /\ UNCHANGED <<channel, closed, closing, openPorts, db, jsonMode, stdout, initial, received>>

\* The transaction is rolled back, from anywhere in it; the batch is lost and
\* the error kept.
FlushFails ==
    /\ pc = "flush"
    /\ stateErr' = TRUE /\ buffer' = << >> /\ pc' = AfterFlush
    /\ tx' = db /\ emissions' = << >>
    /\ UNCHANGED <<channel, closed, closing, openPorts, db, jsonMode, stdout, initial, received>>

Emit ==
    /\ pc = "emit"
    /\ IF emissions = << >>
       THEN pc' = AfterFlush /\ UNCHANGED <<emissions, stdout>>
       ELSE /\ stdout' = Append(stdout, Head(emissions))
            /\ emissions' = Tail(emissions)
            /\ pc' = pc
    /\ UNCHANGED <<channel, closed, closing, buffer, stateErr, openPorts, db, tx, jsonMode,
                   initial, received>>

ManagerFinished == pc = "returned" /\ closed /\ UNCHANGED managerVars

ManagerNext ==
    \/ Send \/ CloseResults
    \/ Receive \/ ReceiveClosed \/ FlushTick
    \/ Store \/ FlushCommits \/ FlushFails \/ Emit
    \/ ManagerFinished

ManagerSpec == ManagerInit /\ [][ManagerNext]_managerVars

\* The manager's goroutine goes on; the ticker need not fire for it to.
ManagerStep == Receive \/ ReceiveClosed \/ Store \/ FlushCommits \/ FlushFails \/ Emit

ManagerFairSpec == ManagerSpec /\ WF_managerVars(ManagerStep)

-----------------------------------------------------------------------------
\* The payload of the last element for a key, else what there was before.
Latest(seq, key, before) ==
    LET at == {i \in DOMAIN seq : seq[i].key = key} IN
    IF at = {} THEN before ELSE seq[CHOOSE i \in at : \A j \in at : j <= i].payload

\* A nil error means that every result is in the bucket, and a later result
\* of a service is not overwritten by an earlier one: neither a batch that
\* filled up, nor the ticker's, nor the last is lost in silence.
NilErrorMeansPersisted ==
    pc = "returned" /\ ~stateErr =>
        \A key \in Keys : db[key] = Latest(received, key, initial[key])

\* Deltas are the history of a bucket: applied in order to what it held they give
\* what it holds, a service is UNKNOWN the first time only, and no delta repeats
\* a payload.
AreHistory(deltas, old, new) ==
    /\ \A key \in Keys : new[key] = Latest(deltas, key, old[key])
    /\ \A i \in DOMAIN deltas :
          LET d      == deltas[i]
              before == Latest(SubSeq(deltas, 1, i - 1), d.key, old[d.key])
          IN d.payload # before /\ (d.previous = "UNKNOWN" <=> before = Absent)

\* So are, of what is committed, the deltas printed and about to be printed.
DeltasAreTheHistory ==
    jsonMode => AreHistory(IF pc = "flush" THEN stdout ELSE stdout \o emissions, initial, db)

\* A later result never gives way to an earlier one, in the bucket and in what
\* is printed of it, whichever of the flushes comes first.
HistoryIsKept == NilErrorMeansPersisted /\ DeltasAreTheHistory

\* The manager returns once its senders are done and no sender waits on it
\* for ever (Phase_B_Progress_B1_B6.md:236), with every result drained and
\* counted, after a failure too (state_test.go:41).
ManagerReturns ==
    closed ~> /\ pc = "returned" /\ channel = << >>
              /\ openPorts = Cardinality({i \in DOMAIN received : received[i].payload \in Open})
=============================================================================
