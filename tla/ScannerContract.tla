--------------------------- MODULE ScannerContract ---------------------------
(***************************************************************************)
(* What scanner.Run promises to the runtime that calls it, with the        *)
(* producer, the router, the worker pools and their channels hidden.  The  *)
(* scan is given a target stream; it probes the jobs the stream expands    *)
(* to, hands over what it found, and ends with one completion.  Unless the *)
(* scan was cancelled, the completion is a function of the stream alone:   *)
(* no interleaving of the goroutines can turn a failure into a success or  *)
(* one failure into another, and a success means every job was probed.     *)
(***************************************************************************)
EXTENDS Naturals, Sequences, ScanCompletion

CONSTANTS Streams, \* the target streams a scan may be given
          None     \* no completion yet

\* A target stream, expanded: a job per address and port, in the order the
\* producer sends them; a mark after the jobs of an address; a line that is
\* not a CIDR block, a name that does not resolve, a read error at the end.
JobKinds  == {"tcp", "udp", "udp_unsupported"}
ItemKinds == JobKinds \cup {"ip_end", "bad_cidr", "unresolved", "read_error"}

JobsOf(st)        == {i \in DOMAIN st : st[i] \in JobKinds}
ProbableJobs(st)  == {i \in DOMAIN st : st[i] \in {"tcp", "udp"}}
Unsupported(st)   == {i \in DOMAIN st : st[i] = "udp_unsupported"}
FailedItems(st)   == {i \in DOMAIN st : st[i] \notin JobKinds \cup {"ip_end"}}

\* The error an item leaves in the stream's sticky error.
ItemError(kind) ==
    IF kind = "unresolved" THEN "target_resolution" ELSE "target_parse"

\* How a scan of st ends when nobody cancels it: the first line that failed
\* decides, then a job no worker can build a payload for.
Outcome(st) ==
    IF FailedItems(st) # {}
    THEN LET first == CHOOSE i \in FailedItems(st) : \A j \in FailedItems(st) : i <= j
         IN  scanCompletionFromProducerError(ItemError(st[first]))
    ELSE IF Unsupported(st) # {} THEN Failed("worker_failed")
    ELSE Completed

VARIABLES stream,     \* the target stream of this scan
          cancelled,  \* the context was cancelled
          probed,     \* jobs a worker has finished probing
          found,      \* the probed jobs that answered
          collected,  \* the results the caller has received
          quiesced,   \* the caller has seen the result channel closed
          completion  \* the completion of the scan, or None

vars == <<stream, cancelled, probed, found, collected, quiesced, completion>>

Init ==
    /\ stream \in Streams
    /\ cancelled = FALSE
    /\ probed = {} /\ found = {} /\ collected = {}
    /\ quiesced = FALSE
    /\ completion = None

Cancel ==
    /\ ~cancelled
    /\ cancelled' = TRUE
    /\ UNCHANGED <<stream, probed, found, collected, quiesced, completion>>

\* A job is probed once, and only while the scan runs.
Probe(j, answers) ==
    /\ completion = None /\ ~quiesced
    /\ j \notin probed
    /\ probed' = probed \cup {j}
    /\ found' = IF answers THEN found \cup {j} ELSE found
    /\ UNCHANGED <<stream, cancelled, collected, quiesced, completion>>

Collect(j) ==
    /\ ~quiesced
    /\ j \in found \ collected
    /\ collected' = collected \cup {j}
    /\ UNCHANGED <<stream, cancelled, probed, found, quiesced, completion>>

\* The result channel closes after its last result.
Quiesce ==
    /\ ~quiesced
    /\ collected = found
    /\ quiesced' = TRUE
    /\ UNCHANGED <<stream, cancelled, probed, found, collected, completion>>

\* Cancellation is authoritative; without it every job was probed first.
Decide ==
    /\ completion = None
    /\ collected = found
    /\ IF cancelled
       THEN completion' = Failed("cancelled")
       ELSE /\ probed = ProbableJobs(stream)
            /\ completion' = Outcome(stream)
    /\ UNCHANGED <<stream, cancelled, probed, found, collected, quiesced>>

Next ==
    \/ Cancel
    \/ \E j \in ProbableJobs(stream), answers \in BOOLEAN : Probe(j, answers)
    \/ \E j \in ProbableJobs(stream) : Collect(j)
    \/ Quiesce
    \/ Decide

Spec == Init /\ [][Next]_vars
=============================================================================
