---------------------------- MODULE ScanPipeline ----------------------------
(***************************************************************************)
(* The scanner's goroutines (internal/scanner/dispatcher.go, worker.go,    *)
(* udp_worker.go and utils/parser.go) and the loop of the runtime that     *)
(* drains them (runtime_execution.go):                                     *)
(*                                                                         *)
(*   producer --raw--> router --tcpJobs--> TCP workers --results--> runtime*)
(*                          \--udpJobs--> UDP workers --/                  *)
(*   producer, router, workers --errors--> completion --> runtime          *)
(*                                                                         *)
(* The job channels are bounded FIFO queues, the result channel is a       *)
(* rendezvous, and each error channel holds one value.  A select on the    *)
(* context and a channel takes either when both are ready.  A job is the   *)
(* position in the stream of the item it comes from, so equal addresses    *)
(* stay distinct jobs; how the network answers a probe is nondeterminism.  *)
(***************************************************************************)
EXTENDS Naturals, Sequences, FiniteSets, ScanCompletion

CONSTANTS Streams,    \* the expanded target streams a scan may be given
          TCPWorkers, \* one per -w
          UDPWorkers, \* a quarter of that, at least one
          QueueCap,   \* capacity of each job channel, twice -w
          NoJob,      \* no job in hand
          None        \* nothing sent on this channel yet

Workers == TCPWorkers \cup UDPWorkers

ASSUME PipelineAssumption ==
    /\ TCPWorkers \cap UDPWorkers = {}
    /\ TCPWorkers # {} /\ UDPWorkers # {}
    /\ QueueCap \in Nat \ {0}
    /\ NoJob \notin Nat
    /\ None \notin ScanCompletions \cup ProducerErrors \cup {"unsupported"}

JobKinds  == {"tcp", "udp", "udp_unsupported"}
ItemKinds == JobKinds \cup {"ip_end", "bad_cidr", "unresolved", "read_error"}

ASSUME StreamsAreItems == Streams \subseteq Seq(ItemKinds)

VARIABLES stream,       \* the target stream of this scan
          cancelled,    \* the context was cancelled
          producerPc, nextItem, streamErr, \* StreamTargets' progress
          producerErr,  \* what the producer's error channel holds
          rawJobs, rawClosed,
          routerPc, routerJob, routerResult,
          routerErr,    \* what the router's error channel holds
          tcpJobs, udpJobs, jobsClosed,
          workerPc, workerJob, \* worker -> its step and the job in hand
          unsupported,  \* UDP worker -> it met a port without a payload
          workerErr,    \* the first error a UDP worker returned, or None
          resultsClosed, workersDone,
          completion,   \* what the completion channel received, or None
          quiesced, received, \* the runtime saw the results end, a completion
          probed, found, collected \* history: jobs probed, that answered,
                                   \* whose result the runtime received

producerVars == <<producerPc, nextItem, streamErr, producerErr>>
routerVars   == <<routerPc, routerJob, routerResult, routerErr>>
workerVars   == <<workerPc, workerJob, unsupported, workerErr>>
jobQueues    == <<tcpJobs, udpJobs, jobsClosed>>
monitorVars  == <<resultsClosed, workersDone, completion>>
runtimeVars  == <<quiesced, received, collected>>
history      == <<probed, found>>

vars == <<stream, cancelled, producerVars, rawJobs, rawClosed, routerVars,
          jobQueues, workerVars, monitorVars, runtimeVars, history>>

JobsOf(st) == {i \in DOMAIN st : st[i] \in JobKinds}

Init ==
    /\ stream \in Streams
    /\ cancelled = FALSE
    /\ producerPc = "reading" /\ nextItem = 1
    /\ streamErr = "nil" /\ producerErr = None
    /\ rawJobs = <<>> /\ rawClosed = FALSE
    /\ routerPc = "receiving" /\ routerJob = NoJob
    /\ routerResult = "nil" /\ routerErr = None
    /\ tcpJobs = <<>> /\ udpJobs = <<>> /\ jobsClosed = FALSE
    /\ workerPc = [w \in Workers |-> "idle"]
    /\ workerJob = [w \in Workers |-> NoJob]
    /\ unsupported = [w \in UDPWorkers |-> FALSE]
    /\ workerErr = None
    /\ resultsClosed = FALSE /\ workersDone = FALSE /\ completion = None
    /\ quiesced = FALSE /\ received = FALSE
    /\ probed = {} /\ found = {} /\ collected = {}

\* The first signal cancels the context; later ones change nothing.
Cancel ==
    /\ ~cancelled
    /\ cancelled' = TRUE
    /\ UNCHANGED <<stream, producerVars, rawJobs, rawClosed, routerVars, jobQueues,
                   workerVars, monitorVars, runtimeVars, history>>

-----------------------------------------------------------------------------
(* The producer: StreamTargets and dispatchJobs, then the closing of its   *)
(* two channels.                                                           *)

producerUnchanged == <<stream, cancelled, routerVars, jobQueues, workerVars,
                       monitorVars, runtimeVars, history>>

\* StreamTargets returns err, which is sent before the raw queue is closed.
ReturnFromStream(err) ==
    /\ producerErr' = err
    /\ producerPc' = "closing"
    /\ UNCHANGED <<nextItem, streamErr, rawJobs, rawClosed, producerUnchanged>>

\* Mutation: the last failed line decides instead of the first.
SkipFailedLine_LastWins ==
    /\ producerPc = "reading" /\ nextItem <= Len(stream)
    /\ stream[nextItem] \in {"bad_cidr", "unresolved", "read_error"}
    /\ streamErr' = IF stream[nextItem] = "unresolved" THEN "target_resolution"
                    ELSE "target_parse"
    /\ nextItem' = nextItem + 1
    /\ UNCHANGED <<producerPc, producerErr, rawJobs, rawClosed, producerUnchanged>>

\* A line that fails is remembered if it is the first and does not stop the
\* stream.
SkipFailedLine ==
    /\ producerPc = "reading" /\ nextItem <= Len(stream)
    /\ stream[nextItem] \in {"bad_cidr", "unresolved", "read_error"}
    /\ streamErr' = IF streamErr # "nil" THEN streamErr
                    ELSE IF stream[nextItem] = "unresolved" THEN "target_resolution"
                    ELSE "target_parse"
    /\ nextItem' = nextItem + 1
    /\ UNCHANGED <<producerPc, producerErr, rawJobs, rawClosed, producerUnchanged>>

EndOfStream ==
    /\ producerPc = "reading" /\ nextItem > Len(stream)
    /\ ReturnFromStream(streamErr)

\* The context is checked before every send and after the ports of an address.
DispatchCheck ==
    /\ producerPc = "reading" /\ nextItem <= Len(stream)
    /\ stream[nextItem] \in JobKinds \cup {"ip_end"}
    /\ IF cancelled
       THEN ReturnFromStream("canceled")
       ELSE /\ IF stream[nextItem] = "ip_end"
               THEN nextItem' = nextItem + 1 /\ UNCHANGED producerPc
               ELSE producerPc' = "sending" /\ UNCHANGED nextItem
            /\ UNCHANGED <<streamErr, producerErr, rawJobs, rawClosed, producerUnchanged>>

DispatchJob ==
    /\ producerPc = "sending"
    /\ \/ /\ Len(rawJobs) < QueueCap
          /\ rawJobs' = Append(rawJobs, nextItem)
          /\ nextItem' = nextItem + 1
          /\ producerPc' = "reading"
          /\ UNCHANGED <<streamErr, producerErr, rawClosed, producerUnchanged>>
       \/ cancelled /\ ReturnFromStream("canceled")

CloseRawJobs ==
    /\ producerPc = "closing"
    /\ producerPc' = "done"
    /\ rawClosed' = TRUE
    /\ UNCHANGED <<nextItem, streamErr, producerErr, rawJobs, producerUnchanged>>

Producer == SkipFailedLine \/ EndOfStream \/ DispatchCheck \/ DispatchJob \/ CloseRawJobs

-----------------------------------------------------------------------------
(* The router: routeJobs, then the closing of the job queues.              *)

routerUnchanged == <<stream, cancelled, producerVars, rawClosed, workerVars,
                     monitorVars, runtimeVars, history>>

ReturnFromRouter(err) ==
    /\ routerResult' = err
    /\ routerPc' = "closing"
    /\ routerJob' = NoJob
    /\ UNCHANGED <<routerErr, rawJobs, jobQueues, routerUnchanged>>

RouteReceive ==
    /\ routerPc = "receiving"
    /\ \/ /\ rawJobs # <<>>
          /\ routerJob' = Head(rawJobs)
          /\ rawJobs' = Tail(rawJobs)
          /\ routerPc' = "sending"
          /\ UNCHANGED <<routerResult, routerErr, jobQueues, routerUnchanged>>
       \/ rawJobs = <<>> /\ rawClosed /\ ReturnFromRouter("nil")
       \/ cancelled /\ ReturnFromRouter("canceled")

\* Mutation: a UDP job falls through to the TCP queue after it was sent.
RouteSend_FallsThrough ==
    /\ routerPc = "sending"
    /\ Len(tcpJobs) < QueueCap
    /\ stream[routerJob] # "tcp" => Len(udpJobs) < QueueCap
    /\ tcpJobs' = Append(tcpJobs, routerJob)
    /\ udpJobs' = IF stream[routerJob] = "tcp" THEN udpJobs ELSE Append(udpJobs, routerJob)
    /\ routerJob' = NoJob
    /\ routerPc' = "receiving"
    /\ UNCHANGED <<routerResult, routerErr, rawJobs, jobsClosed, routerUnchanged>>

\* A job the router holds when it returns is dropped with it.
RouteSend ==
    /\ routerPc = "sending"
    /\ \/ /\ IF stream[routerJob] = "tcp"
             THEN /\ Len(tcpJobs) < QueueCap
                  /\ tcpJobs' = Append(tcpJobs, routerJob)
                  /\ UNCHANGED udpJobs
             ELSE /\ Len(udpJobs) < QueueCap
                  /\ udpJobs' = Append(udpJobs, routerJob)
                  /\ UNCHANGED tcpJobs
          /\ routerJob' = NoJob
          /\ routerPc' = "receiving"
          /\ UNCHANGED <<routerResult, routerErr, rawJobs, jobsClosed, routerUnchanged>>
       \/ cancelled /\ ReturnFromRouter("canceled")

CloseJobQueues ==
    /\ routerPc = "closing"
    /\ routerPc' = "reporting"
    /\ jobsClosed' = TRUE
    /\ UNCHANGED <<routerJob, routerResult, routerErr, rawJobs, tcpJobs, udpJobs, routerUnchanged>>

ReportRouter ==
    /\ routerPc = "reporting"
    /\ routerPc' = "done"
    /\ routerErr' = routerResult
    /\ UNCHANGED <<routerJob, routerResult, rawJobs, jobQueues, routerUnchanged>>

Router == RouteReceive \/ RouteSend \/ CloseJobQueues \/ ReportRouter

-----------------------------------------------------------------------------
(* The workers.  A TCP worker returns nothing; a UDP worker returns the    *)
(* context's error or the port it had no payload for, and only the first   *)
(* error of the pool is kept.                                              *)

workerUnchanged == <<stream, cancelled, producerVars, rawJobs, rawClosed, routerVars,
                     monitorVars, runtimeVars>>

ReturnFromWorker(w, err) ==
    /\ workerPc' = [workerPc EXCEPT ![w] = "done"]
    /\ workerJob' = [workerJob EXCEPT ![w] = NoJob]
    /\ workerErr' = IF w \in UDPWorkers /\ err # "nil" /\ workerErr = None
                    THEN err ELSE workerErr
    /\ UNCHANGED <<unsupported, jobQueues, history, workerUnchanged>>

\* Mutation: the ok of a receive from a closed queue is not looked at, and the
\* zero job is worked on.
WorkerTake_ZeroJob(w) ==
    /\ workerPc[w] = "idle"
    /\ LET queue == IF w \in TCPWorkers THEN tcpJobs ELSE udpJobs
       IN /\ queue # <<>> \/ jobsClosed
          /\ workerPc' = [workerPc EXCEPT ![w] = "limited"]
          /\ workerJob' = [workerJob EXCEPT ![w] = IF queue = <<>> THEN 0 ELSE Head(queue)]
          /\ IF queue = <<>> THEN UNCHANGED <<tcpJobs, udpJobs>>
             ELSE IF w \in TCPWorkers
             THEN tcpJobs' = Tail(queue) /\ UNCHANGED udpJobs
             ELSE udpJobs' = Tail(queue) /\ UNCHANGED tcpJobs
    /\ UNCHANGED <<unsupported, workerErr, jobsClosed, history, workerUnchanged>>

WorkerTake(w) ==
    /\ workerPc[w] = "idle"
    /\ LET queue == IF w \in TCPWorkers THEN tcpJobs ELSE udpJobs
       IN \/ /\ queue # <<>>
             /\ workerPc' = [workerPc EXCEPT ![w] = "limited"]
             /\ workerJob' = [workerJob EXCEPT ![w] = Head(queue)]
             /\ IF w \in TCPWorkers
                THEN tcpJobs' = Tail(queue) /\ UNCHANGED udpJobs
                ELSE udpJobs' = Tail(queue) /\ UNCHANGED tcpJobs
             /\ UNCHANGED <<unsupported, workerErr, jobsClosed, history, workerUnchanged>>
          \/ /\ queue = <<>> /\ jobsClosed
             /\ ReturnFromWorker(w, IF w \in UDPWorkers /\ unsupported[w]
                                    THEN "unsupported" ELSE "nil")
          \/ cancelled /\ ReturnFromWorker(w, "canceled")

\* The shared limiter grants a token in time, or fails once the context is
\* cancelled; a worker it fails drops its job.
WorkerWait(w) ==
    /\ workerPc[w] = "limited"
    /\ \/ /\ workerPc' = [workerPc EXCEPT ![w] = "probing"]
          /\ UNCHANGED <<workerJob, unsupported, workerErr, jobQueues, history, workerUnchanged>>
       \/ cancelled /\ ReturnFromWorker(w, "canceled")

\* A probe that is refused, times out or is answered by something that does
\* not validate reports nothing.
WorkerProbe(w) ==
    /\ workerPc[w] = "probing"
    /\ stream[workerJob[w]] # "udp_unsupported"
    /\ probed' = probed \cup {workerJob[w]}
    /\ \/ /\ found' = found \cup {workerJob[w]}
          /\ workerPc' = [workerPc EXCEPT ![w] = "pushing"]
          /\ UNCHANGED workerJob
       \/ /\ workerPc' = [workerPc EXCEPT ![w] = "idle"]
          /\ workerJob' = [workerJob EXCEPT ![w] = NoJob]
          /\ UNCHANGED found
    /\ UNCHANGED <<unsupported, workerErr, jobQueues, workerUnchanged>>

\* Mutation: the worker returns at once and leaves its queue to nobody.
WorkerUnsupported_Returns(w) ==
    /\ w \in UDPWorkers
    /\ workerPc[w] = "probing"
    /\ stream[workerJob[w]] = "udp_unsupported"
    /\ ReturnFromWorker(w, "unsupported")

\* A port without a payload is an error of the worker, which goes on draining
\* its queue.
WorkerUnsupported(w) ==
    /\ w \in UDPWorkers
    /\ workerPc[w] = "probing"
    /\ stream[workerJob[w]] = "udp_unsupported"
    /\ unsupported' = [unsupported EXCEPT ![w] = TRUE]
    /\ workerPc' = [workerPc EXCEPT ![w] = "idle"]
    /\ workerJob' = [workerJob EXCEPT ![w] = NoJob]
    /\ UNCHANGED <<workerErr, jobQueues, history, workerUnchanged>>

\* The result is handed to the runtime; the send does not watch the context.
WorkerPush(w) ==
    /\ workerPc[w] = "pushing"
    /\ ~quiesced /\ ~resultsClosed
    /\ collected' = collected \cup {workerJob[w]}
    /\ workerPc' = [workerPc EXCEPT ![w] = "idle"]
    /\ workerJob' = [workerJob EXCEPT ![w] = NoJob]
    /\ UNCHANGED <<stream, cancelled, producerVars, rawJobs, rawClosed, routerVars, jobQueues,
                   unsupported, workerErr, monitorVars, quiesced, received, history>>

Worker(w) == WorkerTake(w) \/ WorkerWait(w) \/ WorkerProbe(w) \/ WorkerUnsupported(w) \/ WorkerPush(w)

-----------------------------------------------------------------------------
(* The monitor, the completion and the runtime's loop.                     *)

endUnchanged == <<stream, cancelled, producerVars, rawJobs, rawClosed, routerVars,
                  jobQueues, workerVars, history>>

\* Mutation: the UDP workers are not in the wait group.
CloseResults_ForgetsUDP ==
    /\ \A w \in TCPWorkers : workerPc[w] = "done"
    /\ ~resultsClosed
    /\ resultsClosed' = TRUE
    /\ UNCHANGED <<workersDone, completion, runtimeVars, endUnchanged>>

\* Once every worker has returned, the results are closed, then the pool's
\* error channel and its done signal.
CloseResults ==
    /\ \A w \in Workers : workerPc[w] = "done"
    /\ ~resultsClosed
    /\ resultsClosed' = TRUE
    /\ UNCHANGED <<workersDone, completion, runtimeVars, endUnchanged>>

SignalWorkersDone ==
    /\ resultsClosed /\ ~workersDone
    /\ workersDone' = TRUE
    /\ UNCHANGED <<resultsClosed, completion, runtimeVars, endUnchanged>>

\* Mutation: the completion does not wait for the workers.
awaitScannerCompletion_Eager ==
    /\ completion = None
    /\ producerErr # None /\ routerErr # None
    /\ completion' = IF cancelled THEN Failed("cancelled")
                     ELSE IF producerErr # "nil"
                          THEN scanCompletionFromProducerError(producerErr)
                     ELSE IF routerErr # "nil" THEN Failed("")
                     ELSE IF workerErr # None THEN Failed("worker_failed")
                     ELSE Completed
    /\ UNCHANGED <<resultsClosed, workersDone, runtimeVars, endUnchanged>>

\* The order in which the outcomes count: cancellation, producer, router,
\* workers.
awaitScannerCompletion ==
    /\ completion = None
    /\ producerErr # None /\ routerErr # None /\ workersDone
    /\ completion' = IF cancelled THEN Failed("cancelled")
                     ELSE IF producerErr # "nil"
                          THEN scanCompletionFromProducerError(producerErr)
                     ELSE IF routerErr # "nil" THEN Failed("")
                     ELSE IF workerErr # None THEN Failed("worker_failed")
                     ELSE Completed
    /\ UNCHANGED <<resultsClosed, workersDone, runtimeVars, endUnchanged>>

RuntimeQuiesce ==
    /\ ~quiesced /\ resultsClosed
    /\ quiesced' = TRUE
    /\ UNCHANGED <<received, collected, monitorVars, endUnchanged>>

RuntimeReceive ==
    /\ ~received /\ completion # None
    /\ received' = TRUE
    /\ UNCHANGED <<quiesced, collected, monitorVars, endUnchanged>>

\* The runtime leaves its loop; nothing of the scan is left running.
Finished == quiesced /\ received

Terminated == Finished /\ UNCHANGED vars

Next ==
    \/ Cancel
    \/ Producer
    \/ Router
    \/ \E w \in Workers : Worker(w)
    \/ CloseResults
    \/ SignalWorkersDone
    \/ awaitScannerCompletion
    \/ RuntimeQuiesce
    \/ RuntimeReceive
    \/ Terminated

\* Every goroutine that can run eventually does; a signal need never come.
Fairness ==
    /\ WF_vars(Producer)
    /\ WF_vars(Router)
    /\ \A w \in Workers : WF_vars(Worker(w))
    /\ WF_vars(CloseResults) /\ WF_vars(SignalWorkersDone)
    /\ WF_vars(awaitScannerCompletion)
    /\ WF_vars(RuntimeQuiesce) /\ WF_vars(RuntimeReceive)

Spec == Init /\ [][Next]_vars

FairSpec == Spec /\ Fairness

-----------------------------------------------------------------------------
InQueue(queue, i) == \E k \in DOMAIN queue : queue[k] = i

Jobs == Nat \ {0}

TypeOK ==
    /\ stream \in Seq(ItemKinds)
    /\ cancelled \in BOOLEAN
    /\ producerPc \in {"reading", "sending", "closing", "done"}
    /\ nextItem \in Jobs
    /\ streamErr \in {"nil", "target_parse", "target_resolution"}
    /\ producerErr \in ProducerErrors \cup {None}
    /\ rawJobs \in Seq(Jobs) /\ rawClosed \in BOOLEAN
    /\ routerPc \in {"receiving", "sending", "closing", "reporting", "done"}
    /\ routerJob \in Jobs \cup {NoJob}
    /\ routerResult \in {"nil", "canceled"}
    /\ routerErr \in {"nil", "canceled", None}
    /\ tcpJobs \in Seq(Jobs) /\ udpJobs \in Seq(Jobs) /\ jobsClosed \in BOOLEAN
    /\ workerPc \in [Workers -> {"idle", "limited", "probing", "pushing", "done"}]
    /\ workerJob \in [Workers -> Jobs \cup {NoJob}]
    /\ unsupported \in [UDPWorkers -> BOOLEAN]
    /\ workerErr \in {"unsupported", "canceled", None}
    /\ resultsClosed \in BOOLEAN /\ workersDone \in BOOLEAN
    /\ completion \in ScanCompletions \cup {None}
    /\ quiesced \in BOOLEAN /\ received \in BOOLEAN
    /\ probed \subseteq Jobs /\ found \subseteq Jobs /\ collected \subseteq Jobs

\* No goroutine sends on a channel another one has closed, which would panic:
\* the raw queue, the job queues, the results and the workers' error channel.
NoSendOnClosedChannel ==
    /\ rawClosed => producerPc = "done"
    /\ jobsClosed => routerPc \in {"reporting", "done"}
    /\ resultsClosed => \A w \in Workers : workerPc[w] = "done"
    /\ workersDone => resultsClosed

\* The places where a job that was sent and not yet probed may be.
Places(i) ==
    {<<"raw", k>> : k \in {k \in DOMAIN rawJobs : rawJobs[k] = i}}
    \cup {<<"router", 0>> : x \in {x \in {routerJob} : x = i}}
    \cup {<<"tcp", k>> : k \in {k \in DOMAIN tcpJobs : tcpJobs[k] = i}}
    \cup {<<"udp", k>> : k \in {k \in DOMAIN udpJobs : udpJobs[k] = i}}
    \cup {<<"worker", w>> : w \in {w \in Workers : workerJob[w] = i}}

\* A job is never in two places, so it is probed once at most and by a worker
\* of its protocol; only a cancelled scan may lose one.
JobsConserved ==
    \A i \in JobsOf(stream) :
        /\ Cardinality(Places(i)) <= 1
        /\ i \in probed =>
              \A p \in Places(i) : p[1] = "worker" /\ workerPc[p[2]] = "pushing"
        /\ \A w \in Workers : workerJob[w] = i => (stream[i] = "tcp" <=> w \in TCPWorkers)
        /\ (~cancelled /\ i < nextItem) =>
              \/ Places(i) # {}
              \/ i \in probed
              \/ stream[i] = "udp_unsupported"
        /\ i >= nextItem => Places(i) = {}

\* A completed scan has tried everything it was asked to: every line of the
\* stream expanded, every job probed by the pool of its protocol, and every
\* answer in the runtime's hands or on its way.
CompletedMeansEverythingProbed ==
    completion = Completed =>
        /\ \A i \in DOMAIN stream : stream[i] \in JobKinds \cup {"ip_end"}
        /\ JobsOf(stream) \subseteq probed
        /\ collected = found

\* The scan implements what it promises its caller.
Contract == INSTANCE ScannerContract

ImplementsContract == Contract!Spec

\* Every scan ends, cancelled or not: the results are closed and a completion
\* is received, so the runtime always gets to finalize.
Termination == <>Finished
=============================================================================
