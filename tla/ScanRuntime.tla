----------------------------- MODULE ScanRuntime -----------------------------
(***************************************************************************)
(* The program's executions around one state database: each run prepares   *)
(* its targets, opens the database (one process at a time holds the file   *)
(* lock), reserves a scan, persists what the scanner reports, finalizes    *)
(* the scan, writes the lifecycle events and exits                         *)
(* (cmd/tcprecon/runtime_*.go and main.go).  A run may be signalled or     *)
(* killed at any point; bbolt keeps committed transactions only.           *)
(*                                                                         *)
(* The database is LifecycleStore; the scanner is what ScannerContract     *)
(* promises: results in any order, then one completion, which is a success *)
(* only when every job was probed and nobody cancelled.  The consumer is   *)
(* whoever reads the event stream and knows of a service what it was at    *)
(* the last event about it.                                                *)
(***************************************************************************)
EXTENDS LifecycleStore, Naturals, FiniteSets

CONSTANTS Runs,      \* the executions of the program, each one process
          ScopeOf,   \* run -> the scope its targets and ports identify
          Jobs,      \* the probes a scan makes, in any scope
          ServiceOf, \* job -> the service key its result is stored under
          Replies,   \* job -> the observations an answer may carry
          Silences,  \* why a probe may go unanswered
          Outcomes,  \* how a scan that was not cut short may end
          NoRun,     \* nobody holds the database
          NoID       \* no scan reserved yet

ASSUME RuntimeAssumption ==
    /\ ScopeOf \in [Runs -> Scopes]
    /\ ServiceOf \in [Jobs -> Services]
    /\ Replies \in [Jobs -> SUBSET Observations]
    /\ Services \subseteq Nat
    /\ Outcomes \subseteq ScanCompletions
    /\ Silences \subseteq {"refused", "timeout"}
    /\ NoRun \notin Runs
    /\ NoID \notin ScanIDs

runtimeScanReservationAttempts == 4

VARIABLES lock,       \* the run that holds the database open, or NoRun
          pc,         \* run -> the step it is at
          cancelled,  \* run -> it was signalled
          spool,      \* run -> its temporary target file
          attempts,   \* run -> reservations that met an existing scan ID
          scanID,     \* run -> its reserved scan ID, or NoID
          reply,      \* run -> job -> what became of the probe
          saveErr,    \* run -> some observation could not be persisted
          completion, \* run -> the scan's completion, as the runtime has it
          failed,     \* run -> the error its exit code reports
          changes,    \* run -> changes committed but not yet written
          openPorts,  \* run -> the count in its summary
          exitCode,   \* run -> 0, 1, or 2 while it runs
          consumer,   \* scope -> what the reader of the events knows
          lost        \* scopes with events that were never written

store    == <<schema, baseline, committed, scans>>
scanVars == <<reply, saveErr, completion, openPorts>>
endVars  == <<failed, changes, exitCode, consumer, lost>>
rvars    == <<store, lock, pc, cancelled, spool, attempts, scanID, scanVars, endVars>>

Steps == {"start", "opening", "schema", "reserving", "scanning", "finalizing",
          "emitting", "closing", "exited", "killed"}

RInit ==
    /\ Init
    /\ lock = NoRun
    /\ pc = [r \in Runs |-> "start"]
    /\ cancelled = [r \in Runs |-> FALSE]
    /\ spool = [r \in Runs |-> "none"]
    /\ attempts = [r \in Runs |-> 0]
    /\ scanID = [r \in Runs |-> NoID]
    /\ reply = [r \in Runs |-> [j \in Jobs |-> "pending"]]
    /\ saveErr = [r \in Runs |-> FALSE]
    /\ completion = [r \in Runs |-> Completed]
    /\ failed = [r \in Runs |-> FALSE]
    /\ changes = [r \in Runs |-> {}]
    /\ openPorts = [r \in Runs |-> 0]
    /\ exitCode = [r \in Runs |-> 2]
    /\ consumer = baseline
    /\ lost = {}

Goto(r, step) == pc' = [pc EXCEPT ![r] = step]

-----------------------------------------------------------------------------
(* Startup.  Every way out before the scan starts closes the spool and the *)
(* database if they are open and exits with code 1.                        *)

\* Mutation: the spool is not closed.
FailStartup_KeepsSpool(r) ==
    /\ Goto(r, "exited")
    /\ exitCode' = [exitCode EXCEPT ![r] = 1]
    /\ lock' = IF lock = r THEN NoRun ELSE lock
    /\ UNCHANGED <<store, cancelled, spool, attempts, scanID, scanVars, failed, changes, consumer, lost>>

FailStartup(r) ==
    /\ Goto(r, "exited")
    /\ exitCode' = [exitCode EXCEPT ![r] = 1]
    /\ spool' = [spool EXCEPT ![r] = IF @ = "open" THEN "closed" ELSE @]
    /\ lock' = IF lock = r THEN NoRun ELSE lock
    /\ UNCHANGED <<store, cancelled, attempts, scanID, scanVars, failed, changes, consumer, lost>>

PrepareTargets(r) ==
    /\ pc[r] = "start"
    /\ \/ /\ ~cancelled[r]
          /\ spool' = [spool EXCEPT ![r] = "open"]
          /\ Goto(r, "opening")
          /\ UNCHANGED <<store, lock, cancelled, attempts, scanID, scanVars, endVars>>
       \/ FailStartup(r)

\* Opening waits five seconds at most for the process that has the file open;
\* it does not watch the context.
OpenState(r) ==
    /\ pc[r] = "opening"
    /\ \/ /\ lock = NoRun
          /\ lock' = r
          /\ Goto(r, "schema")
          /\ UNCHANGED <<store, cancelled, spool, attempts, scanID, scanVars, endVars>>
       \/ FailStartup(r)

CheckSchema(r) ==
    /\ pc[r] = "schema"
    /\ \/ /\ InitializeStateSchema \/ (validateStateSchema /\ UNCHANGED store)
          /\ Goto(r, "reserving")
          /\ UNCHANGED <<lock, cancelled, spool, attempts, scanID, scanVars, endVars>>
       \/ FailStartup(r)

\* Mutation: one attempt too many.
ReserveScan_Retries(r) ==
    /\ pc[r] = "reserving"
    /\ \/ /\ ~cancelled[r]
          /\ \E id \in ScanIDs :
                /\ ErrStateScanAlreadyExists(ScopeOf[r], id)
                /\ attempts[r] + 1 <= runtimeScanReservationAttempts
                /\ attempts' = [attempts EXCEPT ![r] = @ + 1]
                /\ UNCHANGED <<store, lock, pc, cancelled, spool, scanID, scanVars, endVars>>
       \/ /\ \E id \in ScanIDs :
                /\ CreateCurrentScanExclusive(ScopeOf[r], id)
                /\ scanID' = [scanID EXCEPT ![r] = id]
                /\ Goto(r, "scanning")
          /\ UNCHANGED <<lock, cancelled, spool, attempts, scanVars, endVars>>

\* Mutation: a scan bucket that exists is used as it is.
ReserveScan_Reuses(r) ==
    /\ pc[r] = "reserving"
    /\ \E id \in ScanIDs :
          /\ EnsureCurrentScan(ScopeOf[r], id)
          /\ scanID' = [scanID EXCEPT ![r] = id]
    /\ Goto(r, "scanning")
    /\ UNCHANGED <<lock, cancelled, spool, attempts, scanVars, endVars>>

\* One attempt: a fresh ID, created exclusively; an ID that exists is tried
\* again with another one, any other error ends the run.
ReserveScan(r) ==
    /\ pc[r] = "reserving"
    /\ \/ /\ ~cancelled[r]
          /\ \E id \in ScanIDs :
                \/ /\ CreateCurrentScanExclusive(ScopeOf[r], id)
                   /\ scanID' = [scanID EXCEPT ![r] = id]
                   /\ Goto(r, "scanning")
                   /\ UNCHANGED <<lock, cancelled, spool, attempts, scanVars, endVars>>
                \/ /\ ErrStateScanAlreadyExists(ScopeOf[r], id)
                   /\ attempts[r] + 1 < runtimeScanReservationAttempts
                   /\ attempts' = [attempts EXCEPT ![r] = @ + 1]
                   /\ UNCHANGED <<store, lock, pc, cancelled, spool, scanID, scanVars, endVars>>
       \/ FailStartup(r)

-----------------------------------------------------------------------------
(* The scan.                                                               *)

observedState == "open"

\* A result is persisted as it arrives; the first failure to persist is
\* remembered and the results are drained all the same.
CollectResult(r, j, o) ==
    /\ pc[r] = "scanning"
    /\ reply[r][j] = "pending"
    /\ reply' = [reply EXCEPT ![r][j] = "answered"]
    /\ openPorts' = IF observedState = "OPEN"
                    THEN [openPorts EXCEPT ![r] = @ + 1] ELSE openPorts
    /\ \/ /\ SaveCurrentService(ScopeOf[r], scanID[r], ServiceOf[j], o)
          /\ UNCHANGED saveErr
       \/ /\ saveErr' = [saveErr EXCEPT ![r] = TRUE]
          /\ UNCHANGED store
    /\ UNCHANGED <<lock, pc, cancelled, spool, attempts, scanID, completion, endVars>>

\* A probe that gets no answer leaves no trace in the database.
ProbeSilent(r, j) ==
    /\ pc[r] = "scanning"
    /\ reply[r][j] = "pending"
    /\ \E why \in Silences : reply' = [reply EXCEPT ![r][j] = why]
    /\ UNCHANGED <<store, lock, pc, cancelled, spool, attempts, scanID,
                   saveErr, completion, openPorts, endVars>>

\* What the scanner's completion may be: a signal that comes after the scanner
\* has looked at its context changes nothing any more.
ScannerEnds(r) ==
    (IF \A j \in Jobs : reply[r][j] # "pending" THEN Outcomes ELSE {})
    \cup (IF cancelled[r] THEN {Failed("cancelled")} ELSE {})

\* Mutation: the sticky persistence error is dropped.
EndOfScan_ForgetsSaveErr(r) ==
    /\ pc[r] = "scanning"
    /\ \E ended \in ScannerEnds(r) :
          completion' = [completion EXCEPT ![r] = ended]
    /\ Goto(r, "finalizing")
    /\ UNCHANGED <<store, lock, cancelled, spool, attempts, scanID, reply,
                   saveErr, openPorts, endVars>>

\* Results and completion are in: the loop of executeOwnedRuntimeScan ends.
EndOfScan(r) ==
    /\ pc[r] = "scanning"
    /\ \E ended \in ScannerEnds(r) :
          completion' = [completion EXCEPT ![r] = finalizeScanCompletion(ended, saveErr[r])]
    /\ Goto(r, "finalizing")
    /\ UNCHANGED <<store, lock, cancelled, spool, attempts, scanID, reply,
                   saveErr, openPorts, endVars>>

\* Mutation: the database is closed before the events are written.
FinalizeScan_ReleasesLock(r) ==
    /\ pc[r] = "finalizing"
    /\ \/ /\ FinalizeCurrentScan(ScopeOf[r], scanID[r], completion[r])
          /\ changes' = [changes EXCEPT ![r] =
                IF Successful(completion[r]) THEN ReconcileScope(ScopeOf[r], scanID[r]) ELSE {}]
          /\ completion' = [completion EXCEPT ![r] =
                finalizeScanCompletion(@, ~Successful(@))]
       \/ /\ completion' = [completion EXCEPT ![r] = finalizeScanCompletion(@, TRUE)]
          /\ UNCHANGED <<store, changes>>
    /\ spool' = [spool EXCEPT ![r] = "closed"]
    /\ failed' = [failed EXCEPT ![r] = completion'[r].failed]
    /\ lock' = NoRun
    /\ Goto(r, "emitting")
    /\ UNCHANGED <<cancelled, attempts, scanID, reply, saveErr,
                   openPorts, exitCode, consumer, lost>>

\* The scan is promoted or discarded, the transaction may fail, and the spool
\* is closed whatever happened; the error of either reaches the exit code.
FinalizeScan(r) ==
    /\ pc[r] = "finalizing"
    /\ \/ /\ FinalizeCurrentScan(ScopeOf[r], scanID[r], completion[r])
          /\ changes' = [changes EXCEPT ![r] =
                IF Successful(completion[r]) THEN ReconcileScope(ScopeOf[r], scanID[r]) ELSE {}]
          /\ completion' = [completion EXCEPT ![r] =
                finalizeScanCompletion(@, ~Successful(@))]
       \/ /\ completion' = [completion EXCEPT ![r] = finalizeScanCompletion(@, TRUE)]
          /\ UNCHANGED <<store, changes>>
    /\ spool' = [spool EXCEPT ![r] = "closed"]
    /\ \E cleanupErr \in BOOLEAN :
          failed' = [failed EXCEPT ![r] = completion'[r].failed \/ cleanupErr]
    /\ Goto(r, "emitting")
    /\ UNCHANGED <<lock, cancelled, attempts, scanID, reply, saveErr,
                   openPorts, exitCode, consumer, lost>>

-----------------------------------------------------------------------------
(* Events and exit.                                                        *)

\* Mutation: the certificate and the banner are left out of the hash.
hashScanResult_NamesOnly(rec) == <<rec.status, rec.sans>>

\* The operating system hint is not hashed.
hashScanResult(rec) == <<rec.status, rec.content, rec.sans>>

\* The type of the event a change is written as, worked out again from its two
\* records; a change may have none.
mapDeltaToLifecycleEvent(prior, curr) ==
    CASE prior = Absent /\ curr # Absent -> "service.opened"
      [] prior \in OpenRecords /\ curr \in OpenRecords ->
            IF hashScanResult(prior) # hashScanResult(curr) THEN "service.changed" ELSE "none"
      [] prior \in Records \ OpenRecords /\ curr \in OpenRecords -> "service.reopened"
      [] prior \in OpenRecords /\ curr = Absent -> "service.closed"
      [] OTHER -> "none"

EventOf(c) == mapDeltaToLifecycleEvent(c.previous, c.current)

\* The reader marks a closed service closed and otherwise looks the service up.
ReadEvent(known, c) ==
    CASE EventOf(c) = "none"           -> known
      [] EventOf(c) = "service.closed" -> [c.previous EXCEPT !.status = "closed"]
      [] OTHER                         -> c.current

\* Changes are written in the order of their service keys.
NextChange(r, c) ==
    /\ pc[r] = "emitting"
    /\ c \in changes[r]
    /\ \A d \in changes[r] : c.service <= d.service

EmitChange(r) ==
    /\ \E c \in changes[r] :
          /\ NextChange(r, c)
          /\ consumer' = [consumer EXCEPT ![ScopeOf[r]][c.service] = ReadEvent(@, c)]
          /\ changes' = [changes EXCEPT ![r] = @ \ {c}]
    /\ UNCHANGED <<store, lock, pc, cancelled, spool, attempts, scanID, scanVars,
                   failed, exitCode, lost>>

\* Writing stops at the first event that cannot be written; the rest is gone.
EmitFails(r) ==
    /\ \E c \in changes[r] : NextChange(r, c) /\ EventOf(c) # "none"
    /\ changes' = [changes EXCEPT ![r] = {}]
    /\ lost' = lost \cup {ScopeOf[r]}
    /\ Goto(r, "closing")
    /\ UNCHANGED <<store, lock, cancelled, spool, attempts, scanID, scanVars,
                   failed, exitCode, consumer>>

\* Mutation: a run that failed never gets past its events.
EmitDone_Waits(r) ==
    /\ pc[r] = "emitting" /\ changes[r] = {} /\ ~failed[r]
    /\ Goto(r, "closing")
    /\ UNCHANGED <<store, lock, cancelled, spool, attempts, scanID, scanVars, endVars>>

EmitDone(r) ==
    /\ pc[r] = "emitting" /\ changes[r] = {}
    /\ Goto(r, "closing")
    /\ UNCHANGED <<store, lock, cancelled, spool, attempts, scanID, scanVars, endVars>>

\* Mutation: the exit code reports the closing of the database only.
CloseState_ForgetsExecution(r) ==
    /\ pc[r] = "closing"
    /\ lock' = NoRun
    /\ \E closeErr \in BOOLEAN :
          exitCode' = [exitCode EXCEPT ![r] = IF closeErr THEN 1 ELSE 0]
    /\ Goto(r, "exited")
    /\ UNCHANGED <<store, cancelled, spool, attempts, scanID, scanVars,
                   failed, changes, consumer, lost>>

\* The outcome is assigned again here, from the execution and the closing of
\* the database only.
CloseState(r) ==
    /\ pc[r] = "closing"
    /\ lock' = NoRun
    /\ \E closeErr \in BOOLEAN :
          exitCode' = [exitCode EXCEPT ![r] = IF failed[r] \/ closeErr THEN 1 ELSE 0]
    /\ Goto(r, "exited")
    /\ UNCHANGED <<store, cancelled, spool, attempts, scanID, scanVars,
                   failed, changes, consumer, lost>>

-----------------------------------------------------------------------------
(* The environment of a run.                                               *)

Alive(r) == pc[r] \notin {"exited", "killed"}

Signal(r) ==
    /\ Alive(r) /\ ~cancelled[r]
    /\ cancelled' = [cancelled EXCEPT ![r] = TRUE]
    /\ UNCHANGED <<store, lock, pc, spool, attempts, scanID, scanVars, endVars>>

\* A kill releases the file lock; the spool file, the reserved scan and the
\* events not yet written are left behind.
Kill(r) ==
    /\ Alive(r)
    /\ Goto(r, "killed")
    /\ lock' = IF lock = r THEN NoRun ELSE lock
    /\ spool' = [spool EXCEPT ![r] = IF @ = "open" THEN "leaked" ELSE @]
    /\ changes' = [changes EXCEPT ![r] = {}]
    /\ lost' = IF changes[r] = {} THEN lost ELSE lost \cup {ScopeOf[r]}
    /\ UNCHANGED <<store, cancelled, attempts, scanID, scanVars, failed, exitCode, consumer>>

Step(r) ==
    \/ PrepareTargets(r)
    \/ OpenState(r)
    \/ CheckSchema(r)
    \/ ReserveScan(r)
    \/ \E j \in Jobs : \E o \in Replies[j] : CollectResult(r, j, o)
    \/ \E j \in Jobs : ProbeSilent(r, j)
    \/ EndOfScan(r)
    \/ FinalizeScan(r)
    \/ EmitChange(r)
    \/ EmitFails(r)
    \/ EmitDone(r)
    \/ CloseState(r)

AllEnded == (\A r \in Runs : ~Alive(r)) /\ UNCHANGED rvars

RNext ==
    \/ \E r \in Runs : Step(r) \/ Signal(r) \/ Kill(r)
    \/ AllEnded

RSpec == RInit /\ [][RNext]_rvars

\* A live process runs; nobody has to signal or kill it.
RFairSpec == RSpec /\ \A r \in Runs : WF_rvars(Step(r))

-----------------------------------------------------------------------------
RTypeOK ==
    /\ TypeOK
    /\ lock \in Runs \cup {NoRun}
    /\ pc \in [Runs -> Steps]
    /\ cancelled \in [Runs -> BOOLEAN]
    /\ spool \in [Runs -> {"none", "open", "closed", "leaked"}]
    /\ attempts \in [Runs -> 0 .. runtimeScanReservationAttempts - 1]
    /\ scanID \in [Runs -> ScanIDs \cup {NoID}]
    /\ reply \in [Runs -> [Jobs -> {"pending", "answered", "refused", "timeout"}]]
    /\ saveErr \in [Runs -> BOOLEAN]
    /\ completion \in [Runs -> ScanCompletions]
    /\ failed \in [Runs -> BOOLEAN]
    /\ \A r \in Runs : \A c \in changes[r] :
          c.kind \in {"opened", "changed", "closed", "reopened"} /\ c.service \in Services
    /\ openPorts \in [Runs -> Nat]
    /\ exitCode \in [Runs -> 0 .. 2]
    /\ consumer \in [Scopes -> StoredMaps]
    /\ lost \subseteq Scopes

Holding == {"schema", "reserving", "scanning", "finalizing", "emitting", "closing"}

\* One process at a time works on the database, from opening it to closing it
\* after the last event; a process that ended, however it ended, holds nothing
\* but what a kill leaves behind.
ResourcesAreHeldAndReleased ==
    \A r \in Runs :
        /\ lock = r <=> pc[r] \in Holding
        /\ spool[r] = "open" <=> pc[r] \in {"opening", "schema", "reserving",
                                            "scanning", "finalizing"}
        /\ spool[r] = "leaked" => pc[r] = "killed"

Answered(r) == {ServiceOf[j] : j \in {j \in Jobs : reply[r][j] = "answered"}}

Observed(sc, id) == {s \in Services : scans[sc][id][s] # Absent}

\* While a run scans, its reservation is its own: the bucket it reserved exists
\* and holds what this run observed, everything of it unless saving failed,
\* whatever earlier runs left in the database.
ReservationIsOwn ==
    \A r \in Runs :
        pc[r] \in {"scanning", "finalizing"} =>
            /\ scanID[r] \in ScanIDs
            /\ scans[ScopeOf[r]][scanID[r]] # NoScan
            /\ Observed(ScopeOf[r], scanID[r]) \subseteq Answered(r)
            /\ ~saveErr[r] => Answered(r) \subseteq Observed(ScopeOf[r], scanID[r])

OpenIn(b) == {s \in Services : b[s] \in OpenRecords}

\* A baseline changes only when a run of its scope finalizes a scan that
\* probed every job, was not reported cancelled or failed, and lost no
\* observation; its open services are then those that answered that run.
PromotionObservedEverything ==
    [][\A sc \in Scopes :
          baseline'[sc] # baseline[sc] =>
              \E r \in Runs :
                  /\ pc[r] = "finalizing" /\ ScopeOf[r] = sc
                  /\ Successful(completion[r]) /\ ~saveErr[r]
                  /\ \A j \in Jobs : reply[r][j] # "pending"
                  /\ OpenIn(baseline'[sc]) = Answered(r)]_rvars

\* The events tell the baseline: what their reader knows, brought up to date
\* with the changes a run still has to write, is the committed baseline but for
\* the operating system hints, over any number of runs, unless a write failed or
\* a process was killed before it.  So no other promoted change is swallowed on
\* its way to the event stream.
Told(rec) == IF rec \in Records THEN <<rec.status, rec.content, rec.sans>> ELSE rec

ConsumerFollowsBaseline ==
    \A sc \in Scopes \ lost :
        LET pending == UNION {changes[r] : r \in {r \in Runs : ScopeOf[r] = sc}}
            known   == ApplyChanges(consumer[sc], pending)
        IN  \A s \in Services : Told(known[s]) = Told(baseline[sc][s])

\* Exit code 0 means that this run's scan was complete and its baseline is in.
ExitZeroMeansPromoted ==
    \A r \in Runs :
        exitCode[r] = 0 =>
            /\ Successful(completion[r]) /\ ~saveErr[r]
            /\ \A j \in Jobs : reply[r][j] # "pending"
            /\ ScopeOf[r] \in committed

\* Over an unchanged network, where a service answers every probe of it alike, a
\* scan that every job answered, following one that every job answered, reports
\* nothing.
NetworkIsSteady ==
    \A j, k \in Jobs : ServiceOf[j] = ServiceOf[k] =>
        \A o \in Replies[j], p \in Replies[k] : o = p

RepeatIsSilent ==
    [][\A r \in Runs :
          /\ NetworkIsSteady
          /\ FinalizeScan(r)
          /\ \A j \in Jobs : reply[r][j] = "answered"
          /\ \A j \in Jobs : baseline[ScopeOf[r]][ServiceOf[j]] \in OpenRecords
          => changes'[r] = {}]_rvars

\* Every run comes to an end, also one that waits for the database or that is
\* signalled.
EveryRunEnds == \A r \in Runs : <>(~Alive(r))

-----------------------------------------------------------------------------
(* What the documents and the code say of the program, and it does not do. *)

\* "A timeout alone must not be presented as proof of firewall filtering or
\* service closure" (ARCHITECTURE.md): closing a service takes a probe of it
\* that was refused.
NoClosureByTimeoutAlone ==
    [][\A sc \in Scopes, s \in Services :
          (baseline[sc][s] \in OpenRecords /\ baseline'[sc][s] \in Records \ OpenRecords) =>
              \E r \in Runs, j \in Jobs :
                  /\ pc[r] = "finalizing" /\ ScopeOf[r] = sc
                  /\ ServiceOf[j] = s /\ reply[r][j] = "refused"]_rvars

\* An error of writing the events is joined to the outcome of the run
\* (runtime_lifecycle.go), so a run that exits with 0 has written them all.
ExitZeroMeansEventsWritten ==
    (\A r \in Runs : exitCode[r] = 0) => lost = {}
=============================================================================
