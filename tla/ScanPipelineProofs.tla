-------------------------- MODULE ScanPipelineProofs ---------------------------
(***************************************************************************)
(* A scan that completes has probed everything, no job is lost or probed   *)
(* twice, and the pipeline implements ScannerContract: for any number of   *)
(* workers, any capacity of the queues and any target stream.  The         *)
(* invariant is built in layers, each proved with the ones before it: what *)
(* the goroutines hold (Typing), what the channels have reported           *)
(* (Reporting), what the stream and the results have come to (Progress),   *)
(* that nothing is dropped while nobody cancels (Exhausted,                *)
(* NothingDropped), that jobs stay in the order of the stream (InOrder)    *)
(* and that every outcome reported has its reason there (Verdict).         *)
(***************************************************************************)
EXTENDS ScanPipeline, FiniteSetTheorems, TLAPS

\* A job in hand is where the step says it is.
HeldJobs ==
    /\ routerJob # NoJob <=> routerPc = "sending"
    /\ \A w \in Workers : workerJob[w] # NoJob <=> workerPc[w] \in {"limited", "probing", "pushing"}

\* Every channel that reports an outcome has it exactly once its goroutine is
\* past it, and nothing closes before those who write to it are done.
Reports ==
    /\ producerErr # None <=> producerPc \in {"closing", "done"}
    /\ rawClosed <=> producerPc = "done"
    /\ jobsClosed <=> routerPc \in {"reporting", "done"}
    /\ routerErr # None <=> routerPc = "done"
    /\ completion # None => workersDone
    /\ \A w \in UDPWorkers : unsupported[w] /\ workerPc[w] = "done" => workerErr # None

\* What the producer has passed without an error it has expanded.
StreamSoFar ==
    /\ producerPc = "sending" => nextItem <= Len(stream) /\ stream[nextItem] \in JobKinds
    /\ streamErr = "nil" =>
          \A i \in DOMAIN stream : i < nextItem => stream[i] \in JobKinds \cup {"ip_end"}

\* The results on their way are those of the workers that push.
Results ==
    /\ collected \subseteq found /\ found \subseteq probed
    /\ \A w \in Workers : workerPc[w] = "pushing" => workerJob[w] \in found
    /\ \A j \in found \ collected : \E w \in Workers : workerPc[w] = "pushing" /\ workerJob[w] = j

\* Where a job is that the producer has sent, while nobody has cancelled.
Accounted(i) ==
    \/ InQueue(rawJobs, i) \/ routerJob = i
    \/ InQueue(tcpJobs, i) \/ InQueue(udpJobs, i)
    \/ \E w \in Workers : workerJob[w] = i
    \/ i \in probed
    \/ stream[i] = "udp_unsupported" /\ \E w \in UDPWorkers : unsupported[w]

NothingDropped ==
    ~cancelled => \A i \in JobsOf(stream) : i < nextItem => Accounted(i)

\* Without a cancellation no goroutine stops before its input is used up.
Exhausted ==
    ~cancelled =>
        /\ producerPc \in {"closing", "done"} => nextItem > Len(stream) /\ producerErr = streamErr
        /\ routerPc \in {"closing", "reporting", "done"} => rawClosed /\ rawJobs = << >>
        /\ \A w \in TCPWorkers : workerPc[w] = "done" => jobsClosed /\ tcpJobs = << >>
        /\ \A w \in UDPWorkers : workerPc[w] = "done" => jobsClosed /\ udpJobs = << >>

-----------------------------------------------------------------------------
(* Queues.                                                                 *)

\* A job sent is in the queue, and the others stay in it.
LEMMA AppendedQueue ==
    ASSUME NEW queue \in Seq(Jobs), NEW job \in Jobs
    PROVE  /\ Append(queue, job) \in Seq(Jobs)
           /\ InQueue(Append(queue, job), job)
           /\ \A i : InQueue(queue, i) => InQueue(Append(queue, job), i)
<1>1. /\ Append(queue, job) \in Seq(Jobs) /\ Len(Append(queue, job)) = Len(queue) + 1
      /\ Append(queue, job)[Len(queue) + 1] = job
      /\ \A k \in 1 .. Len(queue) : Append(queue, job)[k] = queue[k]
  OBVIOUS
<1>2. DOMAIN queue = 1 .. Len(queue) /\ DOMAIN Append(queue, job) = 1 .. Len(queue) + 1
  BY <1>1
<1>3. Len(queue) \in Nat
  OBVIOUS
<1> QED BY <1>1, <1>2, <1>3 DEF InQueue

\* A job received was in the queue, and the others stay in it.
LEMMA TakenQueue ==
    ASSUME NEW queue \in Seq(Jobs), queue # << >>
    PROVE  /\ Head(queue) \in Jobs /\ Tail(queue) \in Seq(Jobs)
           /\ \A i : InQueue(queue, i) => i = Head(queue) \/ InQueue(Tail(queue), i)
<1>1. Head(queue) \in Jobs /\ Tail(queue) \in Seq(Jobs) /\ Head(queue) = queue[1]
  OBVIOUS
<1>2. \A k \in 1 .. Len(queue) : k # 1 =>
          k - 1 \in 1 .. Len(Tail(queue)) /\ Tail(queue)[k - 1] = queue[k]
  OBVIOUS
<1>3. DOMAIN queue = 1 .. Len(queue) /\ DOMAIN Tail(queue) = 1 .. Len(Tail(queue))
  BY <1>1
<1> QED BY <1>1, <1>2, <1>3 DEF InQueue

\* Every error of the producer gives a completion, and none but nil a success.
LEMMA ProducerCompletions ==
    /\ Completed \in ScanCompletions
    /\ \A status \in ScanStatuses : Failed(status) \in ScanCompletions /\ Failed(status) # Completed
    /\ \A err \in ProducerErrors :
          /\ scanCompletionFromProducerError(err) \in ScanCompletions
          /\ err # "nil" => scanCompletionFromProducerError(err) # Completed
<1>1. /\ Completed \in ScanCompletions
      /\ \A status \in ScanStatuses : Failed(status) \in ScanCompletions /\ Failed(status) # Completed
  BY DEF Completed, Failed, ScanCompletions, ScanStatuses
<1>2. ASSUME NEW err \in ProducerErrors
      PROVE  /\ scanCompletionFromProducerError(err) \in ScanCompletions
             /\ err # "nil" => scanCompletionFromProducerError(err) # Completed
  BY <1>1 DEF scanCompletionFromProducerError, ProducerErrors, ScanStatuses
<1> QED BY <1>1, <1>2

-----------------------------------------------------------------------------
(* What the goroutines and the channels hold.                              *)

\* The values that stand for jobs, errors and nothing are apart.
LEMMA Outcomes ==
    /\ NoJob \notin Jobs /\ UDPWorkers \subseteq Workers /\ TCPWorkers \subseteq Workers
    /\ \A err \in ProducerErrors : err # None
    /\ \A err \in {"nil", "canceled"} : err \in ProducerErrors /\ err # None
    /\ \A err \in {"nil", "target_parse", "target_resolution"} : err \in ProducerErrors
    /\ "unsupported" # None
BY PipelineAssumption DEF Jobs, ProducerErrors, Workers

Typing == TypeOK /\ HeldJobs

Reporting == NoSendOnClosedChannel /\ Reports

Progress == StreamSoFar /\ Results

\* What each goroutine and channel holds, at every step.
LEMMA TypingInvariant == Spec => []Typing
<1>1. Init => Typing
  <2> SUFFICES ASSUME Init PROVE Typing
    OBVIOUS
  <2>1. stream \in Seq(ItemKinds)
    BY StreamsAreItems DEF Init
  <2>2. << >> \in Seq(Jobs) /\ 1 \in Jobs
    BY DEF Jobs
  <2>3. TypeOK
    BY <2>1, <2>2 DEF Init, TypeOK
  <2>4. HeldJobs
    BY DEF Init, HeldJobs
  <2> QED BY <2>3, <2>4 DEF Typing
<1>2. Typing /\ [Next]_vars => Typing'
  <2> SUFFICES ASSUME Typing, [Next]_vars PROVE Typing'
    OBVIOUS
  <2> USE Outcomes
      DEF Typing, TypeOK, HeldJobs,
          producerVars, routerVars, workerVars, jobQueues, monitorVars, runtimeVars, history,
          producerUnchanged, routerUnchanged, workerUnchanged, endUnchanged
  <2>1. CASE UNCHANGED vars
    BY <2>1 DEF vars
  <2>2. CASE Cancel
    BY <2>2 DEF Cancel
  <2>3. CASE SkipFailedLine
    <3>1. nextItem + 1 \in Jobs
      BY DEF Jobs
    <3> QED BY <2>3, <3>1 DEF SkipFailedLine
  <2>4. CASE EndOfStream
    BY <2>4 DEF EndOfStream, ReturnFromStream
  <2>5. CASE DispatchCheck
    <3>1. nextItem + 1 \in Jobs
      BY DEF Jobs
    <3>2. CASE ReturnFromStream("canceled")
      BY <3>2 DEF ReturnFromStream
    <3>3. CASE ~ReturnFromStream("canceled")
      BY <2>5, <3>1, <3>3 DEF DispatchCheck
    <3> QED BY <3>2, <3>3
  <2>6. CASE DispatchJob
    <3>1. Append(rawJobs, nextItem) \in Seq(Jobs) /\ nextItem + 1 \in Jobs
      BY AppendedQueue DEF Jobs
    <3>2. CASE ReturnFromStream("canceled")
      BY <3>2 DEF ReturnFromStream
    <3>3. CASE /\ producerPc = "sending" /\ producerPc' = "reading"
               /\ rawJobs' = Append(rawJobs, nextItem) /\ nextItem' = nextItem + 1
               /\ UNCHANGED <<streamErr, producerErr, rawClosed, producerUnchanged>>
      BY <3>1, <3>3
    <3> QED BY <2>6, <3>2, <3>3 DEF DispatchJob
  <2>7. CASE CloseRawJobs
    BY <2>7 DEF CloseRawJobs
  <2>8. ASSUME NEW err \in {"nil", "canceled"}, ReturnFromRouter(err)
        PROVE  Typing'
    BY <2>8 DEF ReturnFromRouter
  <2>9. CASE RouteReceive
    <3>1. rawJobs # << >> => Head(rawJobs) \in Jobs /\ Tail(rawJobs) \in Seq(Jobs)
      BY TakenQueue
    <3>2. CASE ReturnFromRouter("nil") \/ ReturnFromRouter("canceled")
      BY <2>8, <3>2
    <3>3. CASE /\ rawJobs # << >> /\ routerPc' = "sending"
               /\ routerJob' = Head(rawJobs) /\ rawJobs' = Tail(rawJobs)
               /\ UNCHANGED <<routerResult, routerErr, jobQueues, routerUnchanged>>
      BY <3>1, <3>3
    <3> QED BY <2>9, <3>2, <3>3 DEF RouteReceive
  <2>10. CASE RouteSend
    <3>1. routerJob \in Jobs
      BY <2>10 DEF RouteSend
    <3>2. Append(tcpJobs, routerJob) \in Seq(Jobs) /\ Append(udpJobs, routerJob) \in Seq(Jobs)
      BY <3>1, AppendedQueue
    <3>3. CASE ReturnFromRouter("canceled")
      BY <2>8, <3>3
    <3>4. CASE /\ tcpJobs' \in {tcpJobs, Append(tcpJobs, routerJob)}
               /\ udpJobs' \in {udpJobs, Append(udpJobs, routerJob)}
               /\ routerJob' = NoJob /\ routerPc' = "receiving"
               /\ UNCHANGED <<routerResult, routerErr, rawJobs, jobsClosed, routerUnchanged>>
      <4>1. tcpJobs' \in Seq(Jobs) /\ udpJobs' \in Seq(Jobs)
        BY <3>2, <3>4
      <4> QED BY <3>4, <4>1
    <3> QED BY <2>10, <3>3, <3>4 DEF RouteSend
  <2>11. CASE CloseJobQueues
    BY <2>11 DEF CloseJobQueues
  <2>12. CASE ReportRouter
    BY <2>12 DEF ReportRouter
  <2>13. ASSUME NEW w \in Workers, NEW err \in {"nil", "unsupported", "canceled"},
                ReturnFromWorker(w, err)
         PROVE  Typing'
    <3>1. workerErr' \in {"unsupported", "canceled", None}
      BY <2>13 DEF ReturnFromWorker
    <3> QED BY <2>13, <3>1 DEF ReturnFromWorker
  <2>14. ASSUME NEW w \in Workers, WorkerTake(w)
         PROVE  Typing'
    <3> DEFINE queue == IF w \in TCPWorkers THEN tcpJobs ELSE udpJobs
    <3>1. CASE /\ queue # << >>
               /\ workerPc' = [workerPc EXCEPT ![w] = "limited"]
               /\ workerJob' = [workerJob EXCEPT ![w] = Head(queue)]
               /\ IF w \in TCPWorkers
                  THEN tcpJobs' = Tail(queue) /\ UNCHANGED udpJobs
                  ELSE udpJobs' = Tail(queue) /\ UNCHANGED tcpJobs
               /\ UNCHANGED <<unsupported, workerErr, jobsClosed, history, workerUnchanged>>
      <4>1. Head(queue) \in Jobs /\ Tail(queue) \in Seq(Jobs)
        <5>1. queue \in Seq(Jobs)
          OBVIOUS
        <5> QED BY <3>1, <5>1, TakenQueue
      <4> HIDE DEF queue
      <4>2. tcpJobs' \in Seq(Jobs) /\ udpJobs' \in Seq(Jobs)
        BY <3>1, <4>1
      <4> QED BY <3>1, <4>1, <4>2
    <3>2. CASE ReturnFromWorker(w, IF w \in UDPWorkers /\ unsupported[w] THEN "unsupported" ELSE "nil")
      BY <2>13, <3>2
    <3>3. CASE ReturnFromWorker(w, "canceled")
      BY <2>13, <3>3
    <3> QED BY <2>14, <3>1, <3>2, <3>3 DEF WorkerTake
  <2>15. ASSUME NEW w \in Workers, WorkerWait(w)
         PROVE  Typing'
    <3>1. CASE ReturnFromWorker(w, "canceled")
      BY <2>13, <3>1
    <3>2. CASE /\ workerPc[w] = "limited" /\ workerPc' = [workerPc EXCEPT ![w] = "probing"]
               /\ UNCHANGED <<workerJob, unsupported, workerErr, jobQueues, history, workerUnchanged>>
      BY <3>2
    <3> QED BY <2>15, <3>1, <3>2 DEF WorkerWait
  <2>16. ASSUME NEW w \in Workers, WorkerProbe(w)
         PROVE  Typing'
    <3>1. workerJob[w] \in Jobs
      BY <2>16 DEF WorkerProbe
    <3>2. TypeOK'
      <4>1. probed' \subseteq Jobs /\ found' \subseteq Jobs
        BY <2>16, <3>1 DEF WorkerProbe
      <4>2. workerPc' \in [Workers -> {"idle", "limited", "probing", "pushing", "done"}]
        BY <2>16 DEF WorkerProbe
      <4>3. workerJob' \in [Workers -> Jobs \cup {NoJob}]
        BY <2>16 DEF WorkerProbe
      <4>4. UNCHANGED <<unsupported, workerErr, jobQueues, workerUnchanged>>
        BY <2>16 DEF WorkerProbe
      <4> QED BY <4>1, <4>2, <4>3, <4>4
    <3>3. HeldJobs'
      BY <2>16, <3>1 DEF WorkerProbe
    <3> QED BY <3>2, <3>3
  <2>17. ASSUME NEW w \in Workers, WorkerUnsupported(w)
         PROVE  Typing'
    BY <2>17 DEF WorkerUnsupported
  <2>18. ASSUME NEW w \in Workers, WorkerPush(w)
         PROVE  Typing'
    <3>1. workerJob[w] \in Jobs
      BY <2>18 DEF WorkerPush
    <3> QED BY <2>18, <3>1 DEF WorkerPush
  <2>19. CASE CloseResults
    BY <2>19 DEF CloseResults
  <2>20. CASE SignalWorkersDone
    BY <2>20 DEF SignalWorkersDone
  <2>21. CASE awaitScannerCompletion
    <3>1. producerErr \in ProducerErrors
      BY <2>21 DEF awaitScannerCompletion
    <3>2. completion' \in ScanCompletions
      <4>1. {"cancelled", "", "worker_failed"} \subseteq ScanStatuses
        BY DEF ScanStatuses
      <4>2. /\ scanCompletionFromProducerError(producerErr) \in ScanCompletions
            /\ Failed("cancelled") \in ScanCompletions /\ Failed("") \in ScanCompletions
            /\ Failed("worker_failed") \in ScanCompletions /\ Completed \in ScanCompletions
        BY <3>1, <4>1, ProducerCompletions
      <4>3. \/ completion' = scanCompletionFromProducerError(producerErr)
            \/ completion' \in {Failed("cancelled"), Failed(""), Failed("worker_failed"), Completed}
        BY <2>21 DEF awaitScannerCompletion
      <4> QED BY <4>2, <4>3
    <3>3. UNCHANGED <<resultsClosed, workersDone, runtimeVars, endUnchanged>>
      BY <2>21 DEF awaitScannerCompletion
    <3> QED BY <3>2, <3>3
  <2>22. CASE RuntimeQuiesce
    BY <2>22 DEF RuntimeQuiesce
  <2>23. CASE RuntimeReceive
    BY <2>23 DEF RuntimeReceive
  <2>24. CASE Terminated
    BY <2>1, <2>24 DEF Terminated
  <2> QED BY <2>1, <2>2, <2>3, <2>4, <2>5, <2>6, <2>7, <2>9, <2>10, <2>11, <2>12, <2>14, <2>15,
             <2>16, <2>17, <2>18, <2>19, <2>20, <2>21, <2>22, <2>23, <2>24
             DEF Next, Producer, Router, Worker
<1> QED BY <1>1, <1>2, PTL DEF Spec

\* Only jobs travel through the channels of dispatcher.go, and each goroutine
\* reports only the outcomes its code has, whatever pools and stream (TypeOK).
THEOREM TypeInvariant == Spec => []TypeOK
BY TypingInvariant, PTL DEF Typing
\* Outcomes are reported, and channels closed, at the right time.
LEMMA ReportingInvariant == Spec => []Reporting
<1>1. Init => Reporting
  BY DEF Init, Reporting, NoSendOnClosedChannel, Reports
<1>2. Reporting /\ Typing /\ [Next]_vars => Reporting'
  <2> SUFFICES ASSUME Reporting, Typing, [Next]_vars PROVE Reporting'
    OBVIOUS
  <2> DEFINE NoneFacts == /\ \A err \in ProducerErrors : err # None
                          /\ "nil" # None /\ "canceled" # None /\ "unsupported" # None
                          /\ streamErr \in ProducerErrors
                          /\ "canceled" \in ProducerErrors
                          /\ routerResult # None
  <2>0. NoneFacts
    BY Outcomes DEF Typing, TypeOK
  <2> USE <2>0
      DEF Reporting, NoSendOnClosedChannel, Reports,
          producerVars, routerVars, workerVars, jobQueues, monitorVars, runtimeVars, history,
          producerUnchanged, routerUnchanged, workerUnchanged, endUnchanged
  <2>1. CASE UNCHANGED vars
    BY <2>1 DEF vars
  <2>2. CASE Cancel
    BY <2>2 DEF Cancel
  <2>3. CASE SkipFailedLine
    BY <2>3 DEF SkipFailedLine
  <2>4. ASSUME NEW err \in ProducerErrors, ReturnFromStream(err),
               producerPc \in {"reading", "sending"}
        PROVE  Reporting'
    BY <2>4 DEF ReturnFromStream
  <2>5. CASE EndOfStream
    BY <2>4, <2>5 DEF EndOfStream
  <2>6. CASE DispatchCheck
    <3>1. CASE ReturnFromStream("canceled")
      BY <2>4, <2>6, <3>1 DEF DispatchCheck
    <3>2. CASE /\ producerPc' \in {"reading", "sending"}
               /\ UNCHANGED <<streamErr, producerErr, rawJobs, rawClosed, producerUnchanged>>
      BY <2>6, <3>2 DEF DispatchCheck
    <3> QED BY <2>6, <3>1, <3>2 DEF DispatchCheck
  <2>7. CASE DispatchJob
    <3>1. CASE ReturnFromStream("canceled")
      BY <2>4, <2>7, <3>1 DEF DispatchJob
    <3>2. CASE /\ producerPc' = "reading"
               /\ UNCHANGED <<streamErr, producerErr, rawClosed, producerUnchanged>>
      BY <2>7, <3>2 DEF DispatchJob
    <3> QED BY <2>7, <3>1, <3>2 DEF DispatchJob
  <2>8. CASE CloseRawJobs
    BY <2>8 DEF CloseRawJobs
  <2>9. ASSUME NEW err \in {"nil", "canceled"}, ReturnFromRouter(err),
               routerPc \in {"receiving", "sending"}
        PROVE  Reporting'
    BY <2>9 DEF ReturnFromRouter
  <2>10. CASE RouteReceive
    <3>1. CASE ReturnFromRouter("nil") \/ ReturnFromRouter("canceled")
      BY <2>9, <2>10, <3>1 DEF RouteReceive
    <3>2. CASE /\ routerPc' = "sending"
               /\ UNCHANGED <<routerResult, routerErr, jobQueues, routerUnchanged>>
      BY <2>10, <3>2 DEF RouteReceive
    <3> QED BY <2>10, <3>1, <3>2 DEF RouteReceive
  <2>11. CASE RouteSend
    <3>1. CASE ReturnFromRouter("canceled")
      BY <2>9, <2>11, <3>1 DEF RouteSend
    <3>2. CASE /\ routerPc' = "receiving"
               /\ UNCHANGED <<routerResult, routerErr, rawJobs, jobsClosed, routerUnchanged>>
      BY <2>11, <3>2 DEF RouteSend
    <3> QED BY <2>11, <3>1, <3>2 DEF RouteSend
  <2>12. CASE CloseJobQueues
    BY <2>12 DEF CloseJobQueues
  <2>13. CASE ReportRouter
    BY <2>13 DEF ReportRouter
  <2>14. ASSUME NEW w \in Workers, workerPc[w] # "done",
                \A v \in Workers \ {w} : workerPc'[v] = workerPc[v],
                \A v \in UDPWorkers \ {w} : unsupported'[v] = unsupported[v],
                workerErr # None => workerErr' # None,
                w \in UDPWorkers /\ unsupported'[w] /\ workerPc'[w] = "done" => workerErr' # None,
                UNCHANGED <<producerVars, rawClosed, routerVars, jobsClosed, monitorVars>>
         PROVE  Reporting'
    <3>1. NoSendOnClosedChannel'
      BY <2>14
    <3>2. Reports'
      BY <2>14, Outcomes
    <3> QED BY <3>1, <3>2
  <2>15. ASSUME NEW w \in Workers, NEW err \in {"nil", "unsupported", "canceled"},
                ReturnFromWorker(w, err), workerPc[w] # "done",
                w \in UDPWorkers /\ unsupported[w] => err # "nil"
         PROVE  Reporting'
    <3>1. w \in UDPWorkers /\ unsupported'[w] => workerErr' # None
      BY <2>15 DEF ReturnFromWorker
    <3>2. workerErr # None => workerErr' # None
      BY <2>15 DEF ReturnFromWorker
    <3>3. /\ \A v \in Workers \ {w} : workerPc'[v] = workerPc[v]
          /\ \A v \in UDPWorkers \ {w} : unsupported'[v] = unsupported[v]
      BY <2>15 DEF ReturnFromWorker, Typing, TypeOK
    <3>4. UNCHANGED <<producerVars, rawClosed, routerVars, jobsClosed, monitorVars>>
      BY <2>15 DEF ReturnFromWorker
    <3> QED BY <2>14, <2>15, <3>1, <3>2, <3>3, <3>4
  <2>16. ASSUME NEW w \in Workers, workerPc[w] # "done",
                NEW pc \in {"idle", "limited", "probing", "pushing"},
                workerPc' = [workerPc EXCEPT ![w] = pc],
                \A v \in UDPWorkers \ {w} : unsupported'[v] = unsupported[v],
                UNCHANGED <<workerErr, producerVars, rawClosed, routerVars, jobsClosed, monitorVars>>
         PROVE  Reporting'
    <3>1. workerPc'[w] # "done" /\ \A v \in Workers \ {w} : workerPc'[v] = workerPc[v]
      BY <2>16 DEF Typing, TypeOK
    <3>2. workerErr # None => workerErr' # None
      BY <2>16
    <3> QED BY <2>14, <2>16, <3>1, <3>2
  <2>17. ASSUME NEW w \in Workers, WorkerTake(w)
         PROVE  Reporting'
    <3>0. workerPc[w] # "done"
      BY <2>17 DEF WorkerTake
    <3>1. CASE ReturnFromWorker(w, IF w \in UDPWorkers /\ unsupported[w] THEN "unsupported" ELSE "nil")
      <4>1. CASE w \in UDPWorkers /\ unsupported[w]
        BY <2>15, <3>0, <3>1, <4>1
      <4>2. CASE ~(w \in UDPWorkers /\ unsupported[w])
        BY <2>15, <3>0, <3>1, <4>2
      <4> QED BY <4>1, <4>2
    <3>2. CASE ReturnFromWorker(w, "canceled")
      BY <2>15, <3>0, <3>2
    <3>3. CASE /\ workerPc' = [workerPc EXCEPT ![w] = "limited"]
               /\ UNCHANGED <<unsupported, workerErr, jobsClosed, history, workerUnchanged>>
      BY <2>16, <3>0, <3>3
    <3> QED BY <2>17, <3>1, <3>2, <3>3 DEF WorkerTake
  <2>18. ASSUME NEW w \in Workers, WorkerWait(w)
         PROVE  Reporting'
    <3>0. workerPc[w] # "done"
      BY <2>18 DEF WorkerWait
    <3>1. CASE ReturnFromWorker(w, "canceled")
      BY <2>15, <3>0, <3>1
    <3>2. CASE /\ workerPc' = [workerPc EXCEPT ![w] = "probing"]
               /\ UNCHANGED <<unsupported, workerErr, jobQueues, workerUnchanged>>
      BY <2>16, <3>0, <3>2
    <3> QED BY <2>18, <3>1, <3>2 DEF WorkerWait
  <2>19. ASSUME NEW w \in Workers, WorkerProbe(w)
         PROVE  Reporting'
    <3>0. workerPc[w] # "done"
      BY <2>19 DEF WorkerProbe
    <3>1. UNCHANGED <<unsupported, workerErr, jobQueues, workerUnchanged>>
      BY <2>19 DEF WorkerProbe
    <3>2. CASE workerPc' = [workerPc EXCEPT ![w] = "pushing"]
      BY <2>16, <3>0, <3>1, <3>2
    <3>3. CASE workerPc' = [workerPc EXCEPT ![w] = "idle"]
      BY <2>16, <3>0, <3>1, <3>3
    <3> QED BY <2>19, <3>2, <3>3 DEF WorkerProbe
  <2>20. ASSUME NEW w \in Workers, WorkerUnsupported(w)
         PROVE  Reporting'
    <3>1. workerPc[w] # "done" /\ workerPc' = [workerPc EXCEPT ![w] = "idle"]
      BY <2>20 DEF WorkerUnsupported
    <3>2. \A v \in UDPWorkers \ {w} : unsupported'[v] = unsupported[v]
      BY <2>20 DEF WorkerUnsupported, Typing, TypeOK
    <3>3. UNCHANGED <<workerErr, producerVars, rawClosed, routerVars, jobsClosed, monitorVars>>
      BY <2>20 DEF WorkerUnsupported
    <3> QED BY <2>16, <3>1, <3>2, <3>3
  <2>21. ASSUME NEW w \in Workers, WorkerPush(w)
         PROVE  Reporting'
    <3>1. workerPc[w] # "done" /\ workerPc' = [workerPc EXCEPT ![w] = "idle"]
      BY <2>21 DEF WorkerPush
    <3>2. \A v \in UDPWorkers \ {w} : unsupported'[v] = unsupported[v]
      BY <2>21 DEF WorkerPush
    <3>3. UNCHANGED <<workerErr, producerVars, rawClosed, routerVars, jobsClosed, monitorVars>>
      BY <2>21 DEF WorkerPush
    <3> QED BY <2>16, <3>1, <3>2, <3>3
  <2>22. CASE CloseResults
    BY <2>22 DEF CloseResults
  <2>23. CASE SignalWorkersDone
    BY <2>23 DEF SignalWorkersDone
  <2>24. CASE awaitScannerCompletion
    BY <2>24 DEF awaitScannerCompletion
  <2>25. CASE RuntimeQuiesce
    BY <2>25 DEF RuntimeQuiesce
  <2>26. CASE RuntimeReceive
    BY <2>26 DEF RuntimeReceive
  <2>27. CASE Terminated
    BY <2>1, <2>27 DEF Terminated
  <2> QED BY <2>1, <2>2, <2>3, <2>5, <2>6, <2>7, <2>8, <2>10, <2>11, <2>12, <2>13, <2>17, <2>18,
             <2>19, <2>20, <2>21, <2>22, <2>23, <2>24, <2>25, <2>26, <2>27
             DEF Next, Producer, Router, Worker
<1> QED BY <1>1, <1>2, TypingInvariant, PTL DEF Spec

\* No goroutine sends on a closed channel, however many workers there are
\* (dispatcher.go:75-114).
THEOREM NoSendOnClosed == Spec => []NoSendOnClosedChannel
BY ReportingInvariant, PTL DEF Reporting
-----------------------------------------------------------------------------
(* How far the stream and the results have come.                           *)

\* The producer has expanded what it has passed.
LEMMA ProgressInvariant == Spec => []Progress
<1>1. Init /\ Typing => Progress
  BY DEF Init, Progress, StreamSoFar, Results, Typing, TypeOK, Jobs
<1>2. Progress /\ Typing /\ [Next]_vars => Progress'
  <2> SUFFICES ASSUME Progress, Typing, [Next]_vars PROVE Progress'
    OBVIOUS
  <2>0. /\ nextItem \in Nat /\ Len(stream) \in Nat
        /\ DOMAIN stream = 1 .. Len(stream)
    BY DEF Typing, TypeOK, Jobs
  <2>1. ASSUME UNCHANGED <<stream, nextItem, streamErr>>,
               producerPc' = "sending" => producerPc = "sending"
        PROVE  StreamSoFar'
    BY <2>1 DEF Progress, StreamSoFar
  <2>2. ASSUME UNCHANGED <<workerPc, workerJob, probed, found, collected>>
        PROVE  Results'
    BY <2>2 DEF Progress, Results
  <2> USE DEF producerVars, routerVars, workerVars, jobQueues, monitorVars, runtimeVars, history,
          producerUnchanged, routerUnchanged, workerUnchanged, endUnchanged
  <2>3. CASE UNCHANGED vars
    BY <2>1, <2>2, <2>3 DEF vars, Progress
  <2>4. CASE Cancel
    BY <2>1, <2>2, <2>4 DEF Cancel, Progress
  <2>5. CASE Producer
    <3>1. Results'
      BY <2>2, <2>5 DEF Producer, SkipFailedLine, EndOfStream, DispatchCheck, DispatchJob, CloseRawJobs,
                        ReturnFromStream
    <3>2. CASE SkipFailedLine
      <4>1. streamErr' # "nil" /\ producerPc' = "reading" /\ UNCHANGED stream
        BY <3>2 DEF SkipFailedLine
      <4> QED BY <3>1, <4>1 DEF Progress, StreamSoFar
    <3>3. CASE EndOfStream \/ CloseRawJobs
      BY <2>1, <3>1, <3>3 DEF EndOfStream, CloseRawJobs, ReturnFromStream, Progress
    <3>4. CASE DispatchCheck
      <4>1. CASE ReturnFromStream("canceled")
        BY <2>1, <3>1, <4>1 DEF ReturnFromStream, Progress
      <4>2. CASE /\ stream[nextItem] = "ip_end" /\ producerPc = "reading"
                 /\ nextItem' = nextItem + 1
                 /\ UNCHANGED <<stream, producerPc, streamErr>>
        BY <2>0, <3>1, <4>2 DEF Progress, StreamSoFar
      <4>3. CASE /\ nextItem <= Len(stream)
                 /\ stream[nextItem] \in JobKinds \cup {"ip_end"} /\ stream[nextItem] # "ip_end"
                 /\ producerPc' = "sending"
                 /\ UNCHANGED <<stream, nextItem, streamErr>>
        BY <2>0, <3>1, <4>3 DEF Progress, StreamSoFar
      <4> QED BY <3>4, <4>1, <4>2, <4>3 DEF DispatchCheck
    <3>5. CASE DispatchJob
      <4>1. CASE ReturnFromStream("canceled")
        BY <2>1, <3>1, <4>1 DEF ReturnFromStream, Progress
      <4>2. CASE /\ producerPc = "sending" /\ producerPc' = "reading"
                 /\ nextItem' = nextItem + 1
                 /\ UNCHANGED <<stream, streamErr>>
        BY <2>0, <3>1, <4>2 DEF Progress, StreamSoFar
      <4> QED BY <3>5, <4>1, <4>2 DEF DispatchJob
    <3> QED BY <2>5, <3>2, <3>3, <3>4, <3>5 DEF Producer
  <2>6. CASE Router
    BY <2>1, <2>2, <2>6 DEF Router, RouteReceive, RouteSend, CloseJobQueues, ReportRouter, ReturnFromRouter,
                            Progress
  <2>7. ASSUME NEW w \in Workers, Worker(w)
        PROVE  Progress'
    <3>1. UNCHANGED <<stream, nextItem, streamErr, producerPc>>
      BY <2>7 DEF Worker, WorkerTake, WorkerWait, WorkerProbe, WorkerUnsupported, WorkerPush, ReturnFromWorker
    <3>2. StreamSoFar'
      BY <2>1, <3>1
    <3> DEFINE Others == \A v \in Workers \ {w} : workerPc'[v] = workerPc[v] /\ workerJob'[v] = workerJob[v]
    <3> SUFFICES Results'
      BY <3>2 DEF Progress
    <3>3. ASSUME workerPc[w] # "pushing", workerPc'[w] # "pushing", Others,
                 UNCHANGED <<found, collected>>, probed \subseteq probed'
          PROVE  Results'
      BY <3>3 DEF Progress, Results
    <3>4. ASSUME NEW err, ReturnFromWorker(w, err), workerPc[w] # "pushing"
          PROVE  Results'
      <4>1. workerPc'[w] # "pushing" /\ Others
        BY <3>4 DEF ReturnFromWorker, Typing, TypeOK
      <4>2. UNCHANGED <<found, collected, probed>>
        BY <3>4 DEF ReturnFromWorker
      <4> QED BY <3>3, <3>4, <4>1, <4>2
    <3>5. CASE WorkerTake(w)
      <4>0. workerPc[w] # "pushing"
        BY <3>5 DEF WorkerTake
      <4>1. CASE /\ workerPc' = [workerPc EXCEPT ![w] = "limited"]
                 /\ \E job : workerJob' = [workerJob EXCEPT ![w] = job]
                 /\ UNCHANGED <<history, workerUnchanged>>
        <5>1. workerPc'[w] # "pushing" /\ Others
          BY <4>1 DEF Typing, TypeOK
        <5>2. UNCHANGED <<found, collected, probed>>
          BY <4>1
        <5> QED BY <3>3, <4>0, <5>1, <5>2
      <4>2. CASE \E err : ReturnFromWorker(w, err)
        BY <3>4, <4>0, <4>2
      <4> QED BY <3>5, <4>1, <4>2 DEF WorkerTake
    <3>6. CASE WorkerWait(w)
      <4>0. workerPc[w] # "pushing"
        BY <3>6 DEF WorkerWait
      <4>1. CASE /\ workerPc' = [workerPc EXCEPT ![w] = "probing"]
                 /\ UNCHANGED <<workerJob, history, workerUnchanged>>
        <5>1. workerPc'[w] # "pushing" /\ Others
          BY <4>1 DEF Typing, TypeOK
        <5>2. UNCHANGED <<found, collected, probed>>
          BY <4>1
        <5> QED BY <3>3, <4>0, <5>1, <5>2
      <4>2. CASE ReturnFromWorker(w, "canceled")
        BY <3>4, <4>0, <4>2
      <4> QED BY <3>6, <4>1, <4>2 DEF WorkerWait
    <3>7. CASE WorkerProbe(w)
      <4>1. /\ probed' = probed \cup {workerJob[w]} /\ workerPc[w] # "pushing"
            /\ UNCHANGED collected
        BY <3>7 DEF WorkerProbe
      <4>2. CASE workerPc' = [workerPc EXCEPT ![w] = "idle"]
                 /\ workerJob' = [workerJob EXCEPT ![w] = NoJob] /\ UNCHANGED found
        <5>1. workerPc'[w] # "pushing" /\ Others
          BY <4>2 DEF Typing, TypeOK
        <5> QED BY <3>3, <4>1, <4>2, <5>1
      <4>3. CASE /\ workerPc' = [workerPc EXCEPT ![w] = "pushing"]
                 /\ found' = found \cup {workerJob[w]} /\ UNCHANGED workerJob
        <5>1. /\ workerPc'[w] = "pushing"
              /\ \A v \in Workers \ {w} : workerPc'[v] = workerPc[v]
          BY <4>3 DEF Typing, TypeOK
        <5>2. collected' \subseteq found' /\ found' \subseteq probed'
          BY <4>1, <4>3 DEF Progress, Results
        <5>3. \A v \in Workers : workerPc'[v] = "pushing" => workerJob'[v] \in found'
          BY <4>3, <5>1 DEF Progress, Results
        <5>4. ASSUME NEW j \in found' \ collected'
              PROVE  \E v \in Workers : workerPc'[v] = "pushing" /\ workerJob'[v] = j
          <6>1. CASE j = workerJob[w]
            BY <4>3, <5>1, <6>1
          <6>2. CASE j # workerJob[w]
            <7>1. PICK v \in Workers : workerPc[v] = "pushing" /\ workerJob[v] = j
              BY <4>1, <4>3, <5>4, <6>2 DEF Progress, Results
            <7> QED BY <4>1, <4>3, <5>1, <7>1
          <6> QED BY <6>1, <6>2
        <5> QED BY <5>2, <5>3, <5>4 DEF Results
      <4> QED BY <3>7, <4>2, <4>3 DEF WorkerProbe
    <3>8. CASE WorkerUnsupported(w)
      <4>1. workerPc[w] # "pushing" /\ UNCHANGED <<found, collected, probed>>
        BY <3>8 DEF WorkerUnsupported
      <4>2. workerPc'[w] # "pushing" /\ Others
        BY <3>8 DEF WorkerUnsupported, Typing, TypeOK
      <4> QED BY <3>3, <4>1, <4>2
    <3>9. CASE WorkerPush(w)
      <4>1. /\ workerPc[w] = "pushing" /\ collected' = collected \cup {workerJob[w]}
            /\ UNCHANGED <<found, probed>>
        BY <3>9 DEF WorkerPush
      <4>2. workerPc'[w] # "pushing" /\ Others
        BY <3>9 DEF WorkerPush, Typing, TypeOK
      <4> QED BY <4>1, <4>2 DEF Progress, Results
    <3> QED BY <2>7, <3>2, <3>5, <3>6, <3>7, <3>8, <3>9 DEF Worker, Progress
  <2>8. CASE CloseResults \/ SignalWorkersDone \/ awaitScannerCompletion \/ RuntimeQuiesce \/ RuntimeReceive
    BY <2>1, <2>2, <2>8 DEF CloseResults, SignalWorkersDone, awaitScannerCompletion, RuntimeQuiesce,
                            RuntimeReceive, Progress
  <2> QED BY <2>3, <2>4, <2>5, <2>6, <2>7, <2>8 DEF Next, Terminated
<1> QED BY <1>1, <1>2, TypingInvariant, PTL DEF Spec
-----------------------------------------------------------------------------
(* Nothing is dropped while nobody cancels.                                *)

\* Without a cancellation nobody stops before the input is exhausted.
LEMMA ExhaustedInvariant == Spec => []Exhausted
<1>1. Init => Exhausted
  BY Outcomes DEF Init, Exhausted
<1>2. Exhausted /\ Typing /\ Reporting /\ Reporting' /\ [Next]_vars => Exhausted'
  <2> SUFFICES ASSUME Exhausted, Typing, Reporting, Reporting', [Next]_vars, ~cancelled'
               PROVE  Exhausted'
    BY DEF Exhausted
  <2> USE DEF producerVars, routerVars, workerVars, jobQueues, monitorVars, runtimeVars, history,
          producerUnchanged, routerUnchanged, workerUnchanged, endUnchanged
  <2>1. CASE UNCHANGED vars
    BY <2>1 DEF vars, Exhausted
  <2>2. CASE Cancel
    BY <2>2 DEF Cancel
  <2>3. CASE Producer
    <3>0. ~cancelled
      BY <2>3 DEF Producer, SkipFailedLine, EndOfStream, DispatchCheck, DispatchJob, CloseRawJobs,
                  ReturnFromStream
    <3>1. CASE SkipFailedLine
      BY <3>0, <3>1 DEF SkipFailedLine, Exhausted
    <3>2. CASE EndOfStream
      BY <3>0, <3>2 DEF EndOfStream, ReturnFromStream, Exhausted
    <3>3. CASE DispatchCheck
      BY <3>0, <3>3 DEF DispatchCheck, Exhausted
    <3>4. CASE DispatchJob
      <4>1. ~rawClosed
        BY <3>4 DEF DispatchJob, Reporting, Reports
      <4>2. producerPc' = "reading" /\ UNCHANGED <<rawClosed, routerVars, jobQueues, workerVars>>
        BY <3>0, <3>4 DEF DispatchJob
      <4> QED BY <3>0, <4>1, <4>2 DEF Exhausted
    <3>5. CASE CloseRawJobs
      BY <3>0, <3>5 DEF CloseRawJobs, Exhausted
    <3> QED BY <2>3, <3>1, <3>2, <3>3, <3>4, <3>5 DEF Producer
  <2>4. CASE Router
    <3>0. ~cancelled
      BY <2>4 DEF Router, RouteReceive, RouteSend, CloseJobQueues, ReportRouter, ReturnFromRouter
    <3>1. CASE RouteReceive
      BY <3>0, <3>1 DEF RouteReceive, ReturnFromRouter, Exhausted
    <3>2. CASE RouteSend
      <4>1. ~jobsClosed
        BY <3>2 DEF RouteSend, Reporting, Reports
      <4>2. routerPc' = "receiving" /\ UNCHANGED <<producerVars, stream, jobsClosed, workerVars>>
        BY <3>0, <3>2 DEF RouteSend
      <4> QED BY <3>0, <4>1, <4>2 DEF Exhausted
    <3>3. CASE CloseJobQueues
      BY <3>0, <3>3 DEF CloseJobQueues, Exhausted
    <3>4. CASE ReportRouter
      BY <3>0, <3>4 DEF ReportRouter, Exhausted
    <3> QED BY <2>4, <3>1, <3>2, <3>3, <3>4 DEF Router
  <2>5. ASSUME NEW w \in Workers, Worker(w)
        PROVE  Exhausted'
    <3>0. ~cancelled /\ UNCHANGED <<stream, producerVars, rawJobs, rawClosed, routerVars, jobsClosed>>
      BY <2>5 DEF Worker, WorkerTake, WorkerWait, WorkerProbe, WorkerUnsupported, WorkerPush, ReturnFromWorker
    <3>1. ASSUME NEW pc, pc # "done", workerPc' = [workerPc EXCEPT ![w] = pc],
                 UNCHANGED <<tcpJobs, udpJobs>>
          PROVE  Exhausted'
      <4>1. \A v \in Workers : workerPc'[v] = "done" => workerPc[v] = "done"
        BY <3>1 DEF Typing, TypeOK
      <4> QED BY <3>0, <3>1, <4>1, Outcomes DEF Exhausted
    <3>2. CASE WorkerTake(w)
      <4> DEFINE queue == IF w \in TCPWorkers THEN tcpJobs ELSE udpJobs
      <4>1. CASE /\ queue # << >>
                 /\ workerPc' = [workerPc EXCEPT ![w] = "limited"]
                 /\ IF w \in TCPWorkers
                    THEN tcpJobs' = Tail(queue) /\ UNCHANGED udpJobs
                    ELSE udpJobs' = Tail(queue) /\ UNCHANGED tcpJobs
        <5>1. \A v \in Workers : workerPc'[v] = "done" => workerPc[v] = "done"
          BY <4>1 DEF Typing, TypeOK
        <5>2. CASE w \in TCPWorkers
          BY <3>0, <4>1, <5>1, <5>2, Outcomes DEF Exhausted
        <5>3. CASE w \notin TCPWorkers
          BY <3>0, <4>1, <5>1, <5>3, Outcomes DEF Exhausted
        <5> QED BY <5>2, <5>3
      <4>2. CASE /\ queue = << >> /\ jobsClosed
                 /\ \E err : ReturnFromWorker(w, err)
        <5>1. \A v \in Workers \ {w} : workerPc'[v] = workerPc[v]
          BY <4>2 DEF ReturnFromWorker, Typing, TypeOK
        <5>2. UNCHANGED jobQueues
          BY <4>2 DEF ReturnFromWorker
        <5>3. TCPWorkers \cap UDPWorkers = {}
          BY PipelineAssumption
        <5>4. \A v \in TCPWorkers : workerPc'[v] = "done" => jobsClosed /\ tcpJobs = << >>
          BY <3>0, <4>2, <5>1, Outcomes DEF Exhausted
        <5>5. \A v \in UDPWorkers : workerPc'[v] = "done" => jobsClosed /\ udpJobs = << >>
          BY <3>0, <4>2, <5>1, <5>3, Outcomes DEF Exhausted
        <5> QED BY <3>0, <5>2, <5>4, <5>5 DEF Exhausted
      <4> QED BY <3>0, <3>2, <4>1, <4>2 DEF WorkerTake
    <3>3. CASE WorkerWait(w)
      BY <3>0, <3>1, <3>3 DEF WorkerWait
    <3>4. CASE WorkerProbe(w)
      BY <3>1, <3>4 DEF WorkerProbe
    <3>5. CASE WorkerUnsupported(w)
      BY <3>1, <3>5 DEF WorkerUnsupported
    <3>6. CASE WorkerPush(w)
      BY <3>1, <3>6 DEF WorkerPush
    <3> QED BY <2>5, <3>2, <3>3, <3>4, <3>5, <3>6 DEF Worker
  <2>6. CASE CloseResults \/ SignalWorkersDone \/ awaitScannerCompletion \/ RuntimeQuiesce \/ RuntimeReceive
    <3>1. UNCHANGED endUnchanged
      BY <2>6 DEF CloseResults, SignalWorkersDone, awaitScannerCompletion, RuntimeQuiesce, RuntimeReceive
    <3> QED BY <3>1 DEF Exhausted
  <2> QED BY <2>1, <2>2, <2>3, <2>4, <2>5, <2>6 DEF Next, Terminated
<1> QED BY <1>1, <1>2, TypingInvariant, ReportingInvariant, PTL DEF Spec
\* Without a cancellation every job sent is accounted for.
LEMMA NothingDroppedInvariant == Spec => []NothingDropped
<1>1. Init => NothingDropped
  BY DEF Init, NothingDropped, JobsOf
<1>2. NothingDropped /\ Typing /\ Progress /\ [Next]_vars => NothingDropped'
  <2> SUFFICES ASSUME NothingDropped, Typing, Progress, [Next]_vars, ~cancelled',
                      NEW i \in JobsOf(stream'), i < nextItem'
               PROVE  Accounted(i)'
    BY DEF NothingDropped
  <2> USE DEF producerVars, routerVars, workerVars, jobQueues, monitorVars, runtimeVars, history,
          producerUnchanged, routerUnchanged, workerUnchanged, endUnchanged
  <2>0. /\ ~cancelled /\ UNCHANGED stream
        /\ probed \subseteq probed'
    <3>1. CASE UNCHANGED vars \/ Terminated
      BY <3>1 DEF vars, Terminated
    <3>2. CASE Cancel
      BY <3>2 DEF Cancel
    <3>3. CASE Producer
      BY <3>3 DEF Producer, SkipFailedLine, EndOfStream, DispatchCheck, DispatchJob, CloseRawJobs,
                  ReturnFromStream
    <3>4. CASE Router
      BY <3>4 DEF Router, RouteReceive, RouteSend, CloseJobQueues, ReportRouter, ReturnFromRouter
    <3>5. CASE \E w \in Workers : Worker(w)
      <4>1. PICK w \in Workers : Worker(w)
        BY <3>5
      <4>2. CASE WorkerProbe(w)
        BY <4>2 DEF WorkerProbe
      <4>3. CASE ~WorkerProbe(w)
        BY <4>1, <4>3 DEF Worker, WorkerTake, WorkerWait, WorkerUnsupported, WorkerPush, ReturnFromWorker
      <4> QED BY <4>2, <4>3
    <3>6. CASE CloseResults \/ SignalWorkersDone \/ awaitScannerCompletion \/ RuntimeQuiesce \/ RuntimeReceive
      <4>1. UNCHANGED endUnchanged
        BY <3>6 DEF CloseResults, SignalWorkersDone, awaitScannerCompletion, RuntimeQuiesce, RuntimeReceive
      <4> QED BY <4>1
    <3> QED BY <3>1, <3>2, <3>3, <3>4, <3>5, <3>6 DEF Next
  <2>a. /\ i \in JobsOf(stream) /\ i \in Nat /\ i \in Jobs /\ i # NoJob
        /\ stream[i] \in JobKinds /\ nextItem \in Nat
    BY <2>0, PipelineAssumption DEF JobsOf, Typing, TypeOK, Jobs
  <2>b. i < nextItem => Accounted(i)
    BY <2>0, <2>a DEF NothingDropped
  <2>1. CASE UNCHANGED vars
    BY <2>1, <2>b DEF vars, Accounted, InQueue
  <2>2. CASE Producer
    <3>1. ASSUME i < nextItem
          PROVE  Accounted(i)'
      <4>1. UNCHANGED <<stream, routerJob, tcpJobs, udpJobs, workerJob, probed, unsupported>>
        BY <2>2 DEF Producer, SkipFailedLine, EndOfStream, DispatchCheck, DispatchJob, CloseRawJobs,
                    ReturnFromStream
      <4>2. InQueue(rawJobs, i) => InQueue(rawJobs', i)
        <5>1. InQueue(Append(rawJobs, nextItem), i) \/ ~InQueue(rawJobs, i)
          BY AppendedQueue DEF Typing, TypeOK
        <5>2. rawJobs' \in {rawJobs, Append(rawJobs, nextItem)}
          BY <2>2 DEF Producer, SkipFailedLine, EndOfStream, DispatchCheck, DispatchJob, CloseRawJobs,
                      ReturnFromStream
        <5> QED BY <5>1, <5>2
      <4> QED BY <2>b, <3>1, <4>1, <4>2 DEF Accounted, InQueue
    <3>2. ASSUME i = nextItem
          PROVE  Accounted(i)'
      <4>1. stream[i] # "ip_end" /\ stream[i] \notin {"bad_cidr", "unresolved", "read_error"}
        BY <2>a DEF JobKinds
      <4>2. nextItem' # nextItem
        BY <3>2, <2>a
      <4>3. DispatchJob /\ rawJobs' = Append(rawJobs, nextItem)
        BY <2>0, <2>2, <3>2, <4>1, <4>2
           DEF Producer, SkipFailedLine, EndOfStream, DispatchCheck, DispatchJob, CloseRawJobs, ReturnFromStream
      <4>4. InQueue(rawJobs', i)
        BY <3>2, <4>3, AppendedQueue DEF Typing, TypeOK
      <4> QED BY <4>4 DEF Accounted, InQueue
    <3>3. nextItem' \in {nextItem, nextItem + 1}
      BY <2>2 DEF Producer, SkipFailedLine, EndOfStream, DispatchCheck, DispatchJob, CloseRawJobs,
                  ReturnFromStream
    <3> QED BY <2>a, <3>1, <3>2, <3>3
  <2>3. CASE Router
    <3>0. UNCHANGED <<stream, nextItem, workerJob, probed, unsupported>>
      BY <2>3 DEF Router, RouteReceive, RouteSend, CloseJobQueues, ReportRouter, ReturnFromRouter
    <3>1. Accounted(i)
      BY <2>b, <3>0
    <3>2. CASE RouteReceive
      <4>1. routerJob = NoJob
        BY <3>2 DEF RouteReceive, Typing, HeldJobs
      <4>2. InQueue(rawJobs, i) => InQueue(rawJobs', i) \/ routerJob' = i
        <5>1. CASE rawJobs # << >> /\ routerJob' = Head(rawJobs) /\ rawJobs' = Tail(rawJobs)
          BY <5>1, TakenQueue DEF Typing, TypeOK
        <5>2. CASE UNCHANGED rawJobs
          BY <5>2
        <5> QED BY <3>2, <5>1, <5>2 DEF RouteReceive, ReturnFromRouter
      <4>3. UNCHANGED <<tcpJobs, udpJobs>>
        BY <3>2 DEF RouteReceive, ReturnFromRouter
      <4> QED BY <2>a, <3>0, <3>1, <4>1, <4>2, <4>3 DEF Accounted, InQueue
    <3>3. CASE RouteSend
      <4>0. routerJob \in Jobs /\ tcpJobs \in Seq(Jobs) /\ udpJobs \in Seq(Jobs)
        BY <3>3, Outcomes DEF RouteSend, Typing, TypeOK, HeldJobs
      <4>1. /\ InQueue(tcpJobs, i) => InQueue(Append(tcpJobs, routerJob), i)
            /\ InQueue(udpJobs, i) => InQueue(Append(udpJobs, routerJob), i)
            /\ InQueue(Append(tcpJobs, routerJob), routerJob)
            /\ InQueue(Append(udpJobs, routerJob), routerJob)
        BY <4>0, AppendedQueue
      <4>2. UNCHANGED rawJobs
        BY <2>0, <3>3 DEF RouteSend
      <4>3. CASE tcpJobs' = Append(tcpJobs, routerJob) /\ UNCHANGED udpJobs
        BY <3>0, <3>1, <4>1, <4>2, <4>3 DEF Accounted, InQueue
      <4>4. CASE udpJobs' = Append(udpJobs, routerJob) /\ UNCHANGED tcpJobs
        BY <3>0, <3>1, <4>1, <4>2, <4>4 DEF Accounted, InQueue
      <4> QED BY <2>0, <3>3, <4>3, <4>4 DEF RouteSend
    <3>4. CASE CloseJobQueues \/ ReportRouter
      BY <3>0, <3>1, <3>4 DEF CloseJobQueues, ReportRouter, Accounted, InQueue
    <3> QED BY <2>3, <3>2, <3>3, <3>4 DEF Router
  <2>4. ASSUME NEW w \in Workers, Worker(w)
        PROVE  Accounted(i)'
    <3>0. UNCHANGED <<stream, nextItem, rawJobs, routerJob>>
      BY <2>4 DEF Worker, WorkerTake, WorkerWait, WorkerProbe, WorkerUnsupported, WorkerPush, ReturnFromWorker
    <3>1. Accounted(i)
      BY <2>b, <3>0
    <3>2. ASSUME UNCHANGED <<tcpJobs, udpJobs, unsupported>>,
                 \A v \in Workers \ {w} : workerJob'[v] = workerJob[v],
                 workerJob[w] \in probed' \cup {NoJob, workerJob'[w]}
          PROVE  Accounted(i)'
      BY <2>0, <2>a, <3>0, <3>1, <3>2 DEF Accounted, InQueue
    <3>3. CASE WorkerTake(w)
      <4> DEFINE queue == IF w \in TCPWorkers THEN tcpJobs ELSE udpJobs
      <4>0. workerJob[w] = NoJob
        BY <3>3 DEF WorkerTake, Typing, HeldJobs
      <4>1. CASE /\ queue # << >>
                 /\ workerJob' = [workerJob EXCEPT ![w] = Head(queue)]
                 /\ IF w \in TCPWorkers
                    THEN tcpJobs' = Tail(queue) /\ UNCHANGED udpJobs
                    ELSE udpJobs' = Tail(queue) /\ UNCHANGED tcpJobs
                 /\ UNCHANGED <<probed, unsupported>>
        <5>1. workerJob'[w] = Head(queue) /\ \A v \in Workers \ {w} : workerJob'[v] = workerJob[v]
          BY <4>1 DEF Typing, TypeOK
        <5>2. InQueue(queue, i) => i = Head(queue) \/ InQueue(Tail(queue), i)
          <6>1. queue \in Seq(Jobs)
            BY DEF Typing, TypeOK
          <6> QED BY <4>1, <6>1, TakenQueue
        <5>3. CASE w \in TCPWorkers
          BY <2>a, <3>0, <3>1, <4>0, <4>1, <5>1, <5>2, <5>3 DEF Accounted, InQueue
        <5>4. CASE w \notin TCPWorkers
          BY <2>a, <3>0, <3>1, <4>0, <4>1, <5>1, <5>2, <5>4 DEF Accounted, InQueue
        <5> QED BY <5>3, <5>4
      <4>2. CASE \E err : ReturnFromWorker(w, err)
        <5>1. UNCHANGED <<tcpJobs, udpJobs, unsupported>>
          BY <4>2 DEF ReturnFromWorker
        <5>2. \A v \in Workers \ {w} : workerJob'[v] = workerJob[v]
          BY <4>2 DEF ReturnFromWorker, Typing, TypeOK
        <5> QED BY <3>2, <4>0, <5>1, <5>2
      <4> QED BY <3>3, <4>1, <4>2 DEF WorkerTake
    <3>4. CASE WorkerWait(w)
      BY <2>0, <3>2, <3>4 DEF WorkerWait
    <3>5. CASE WorkerProbe(w)
      <4>1. workerJob[w] \in probed' /\ UNCHANGED <<tcpJobs, udpJobs, unsupported>>
        BY <3>5 DEF WorkerProbe
      <4>2. \A v \in Workers \ {w} : workerJob'[v] = workerJob[v]
        BY <3>5 DEF WorkerProbe, Typing, TypeOK
      <4> QED BY <3>2, <4>1, <4>2
    <3>6. CASE WorkerUnsupported(w)
      <4>1. /\ w \in UDPWorkers /\ stream[workerJob[w]] = "udp_unsupported"
            /\ UNCHANGED <<tcpJobs, udpJobs>>
        BY <3>6 DEF WorkerUnsupported
      <4>2. unsupported'[w] = TRUE /\ \A v \in UDPWorkers : unsupported[v] => unsupported'[v]
        BY <3>6 DEF WorkerUnsupported, Typing, TypeOK
      <4>3. \A v \in Workers \ {w} : workerJob'[v] = workerJob[v]
        BY <3>6 DEF WorkerUnsupported, Typing, TypeOK
      <4> QED BY <2>0, <2>a, <3>0, <3>1, <4>1, <4>2, <4>3 DEF Accounted, InQueue
    <3>7. CASE WorkerPush(w)
      <4>1. UNCHANGED <<tcpJobs, udpJobs, unsupported>>
        BY <3>7 DEF WorkerPush
      <4>2. \A v \in Workers \ {w} : workerJob'[v] = workerJob[v]
        BY <3>7 DEF WorkerPush, Typing, TypeOK
      <4>3. workerJob[w] \in probed
        BY <3>7 DEF WorkerPush, Progress, Results
      <4> QED BY <2>0, <3>2, <4>1, <4>2, <4>3
    <3> QED BY <2>4, <3>3, <3>4, <3>5, <3>6, <3>7 DEF Worker
  <2>5. CASE CloseResults \/ SignalWorkersDone \/ awaitScannerCompletion \/ RuntimeQuiesce \/ RuntimeReceive
    <3>1. UNCHANGED endUnchanged
      BY <2>5 DEF CloseResults, SignalWorkersDone, awaitScannerCompletion, RuntimeQuiesce, RuntimeReceive
    <3> QED BY <2>b, <3>1 DEF Accounted, InQueue
  <2>6. CASE Cancel
    BY <2>6 DEF Cancel
  <2> QED BY <2>1, <2>2, <2>3, <2>4, <2>5, <2>6 DEF Next, Terminated
<1> QED BY <1>1, <1>2, TypingInvariant, ProgressInvariant, PTL DEF Spec
\* When the completion is formed, all the workers have stopped: whatever was
\* handed to them has been probed, or one of them reported a port it has no
\* payload for.
LEMMA AllProbed ==
    ASSUME Typing, Reporting, Progress, Exhausted, NothingDropped,
           ~cancelled, workersDone, producerErr = "nil", routerErr = "nil", workerErr = None
    PROVE  /\ \A i \in DOMAIN stream : stream[i] \in JobKinds \cup {"ip_end"}
           /\ JobsOf(stream) \subseteq probed
           /\ collected = found
<1>1. \A w \in Workers : workerPc[w] = "done" /\ workerJob[w] = NoJob
  BY DEF Reporting, NoSendOnClosedChannel, Typing, HeldJobs
<1>2. producerPc \in {"closing", "done"} /\ routerPc = "done"
  BY Outcomes DEF Reporting, Reports, ProducerErrors
<1>3. nextItem > Len(stream) /\ streamErr = "nil" /\ rawJobs = << >> /\ routerJob = NoJob
  BY <1>2 DEF Exhausted, Typing, HeldJobs
<1>4. tcpJobs = << >> /\ udpJobs = << >>
  BY <1>1, Outcomes, PipelineAssumption DEF Exhausted
<1>5. DOMAIN stream = 1 .. Len(stream) /\ Len(stream) \in Nat /\ nextItem \in Nat
  BY DEF Typing, TypeOK, Jobs
<1>6. \A i \in DOMAIN stream : i < nextItem
  BY <1>3, <1>5
<1>7. \A i \in DOMAIN stream : stream[i] \in JobKinds \cup {"ip_end"}
  BY <1>3, <1>6 DEF Progress, StreamSoFar
<1>8. ASSUME NEW i \in JobsOf(stream)
      PROVE  i \in probed
  <2>1. Accounted(i)
    BY <1>6 DEF JobsOf, NothingDropped
  <2>2. i # NoJob
    BY <1>5, PipelineAssumption DEF JobsOf
  <2>3. \A w \in UDPWorkers : ~unsupported[w]
    BY <1>1, Outcomes DEF Reporting, Reports
  <2>4. ~InQueue(rawJobs, i) /\ ~InQueue(tcpJobs, i) /\ ~InQueue(udpJobs, i)
    BY <1>3, <1>4 DEF InQueue
  <2> QED BY <1>1, <1>3, <2>1, <2>2, <2>3, <2>4 DEF Accounted
<1>9. collected = found
  BY <1>1 DEF Progress, Results
<1> QED BY <1>7, <1>8, <1>9

\* A completed scan has tried everything it was asked to, whatever the number
\* of workers, the room in the queues, the target stream and the order in which
\* goroutines run (scan_completion.go:30-35, dispatcher.go:192-268): only then
\* may the runtime read an unseen service as closed.
THEOREM CompletedMeansEverything == Spec => []CompletedMeansEverythingProbed
<1>1. Init => CompletedMeansEverythingProbed
  BY PipelineAssumption DEF Init, CompletedMeansEverythingProbed, Completed, ScanCompletions, ScanStatuses
<1>2. /\ CompletedMeansEverythingProbed /\ Typing /\ Reporting /\ Progress /\ Exhausted /\ NothingDropped
      /\ [Next]_vars
      => CompletedMeansEverythingProbed'
  <2> SUFFICES ASSUME CompletedMeansEverythingProbed, Typing, Reporting, Progress, Exhausted, NothingDropped,
                      [Next]_vars, completion' = Completed
               PROVE  CompletedMeansEverythingProbed'
    BY DEF CompletedMeansEverythingProbed
  <2> USE DEF producerVars, routerVars, workerVars, jobQueues, monitorVars, runtimeVars, history,
          producerUnchanged, routerUnchanged, workerUnchanged, endUnchanged
  <2>1. CASE awaitScannerCompletion
    <3>1. ~cancelled /\ workersDone /\ producerErr = "nil" /\ routerErr = "nil" /\ workerErr = None
      <4>1. producerErr \in ProducerErrors /\ workersDone
        BY <2>1 DEF awaitScannerCompletion, Typing, TypeOK
      <4>2. {"cancelled", "", "worker_failed"} \subseteq ScanStatuses
        BY DEF ScanStatuses
      <4>3. /\ Failed("cancelled") # Completed /\ Failed("") # Completed /\ Failed("worker_failed") # Completed
            /\ producerErr # "nil" => scanCompletionFromProducerError(producerErr) # Completed
        BY <4>1, <4>2, ProducerCompletions
      <4> QED BY <2>1, <4>1, <4>3 DEF awaitScannerCompletion
    <3>2. UNCHANGED <<stream, probed, found, collected>>
      BY <2>1 DEF awaitScannerCompletion
    <3> QED BY <3>1, <3>2, AllProbed DEF CompletedMeansEverythingProbed, JobsOf
  <2>2. ASSUME completion = Completed, UNCHANGED <<stream, found, collected>>, probed \subseteq probed'
        PROVE  CompletedMeansEverythingProbed'
    BY <2>2 DEF CompletedMeansEverythingProbed, JobsOf
  <2>3. CASE UNCHANGED vars \/ Cancel \/ Terminated
    BY <2>2, <2>3 DEF vars, Cancel, Terminated
  <2>4. CASE Producer
    BY <2>2, <2>4 DEF Producer, SkipFailedLine, EndOfStream, DispatchCheck, DispatchJob, CloseRawJobs,
                      ReturnFromStream
  <2>5. CASE Router
    BY <2>2, <2>5 DEF Router, RouteReceive, RouteSend, CloseJobQueues, ReportRouter, ReturnFromRouter
  <2>6. ASSUME NEW w \in Workers, Worker(w)
        PROVE  FALSE
    <3>1. completion = Completed
      <4>1. CASE WorkerTake(w)
        BY <4>1 DEF WorkerTake, ReturnFromWorker
      <4>2. CASE WorkerWait(w)
        BY <4>2 DEF WorkerWait, ReturnFromWorker
      <4>3. CASE WorkerProbe(w)
        BY <4>3 DEF WorkerProbe
      <4>4. CASE WorkerUnsupported(w) \/ WorkerPush(w)
        BY <4>4 DEF WorkerUnsupported, WorkerPush
      <4> QED BY <2>6, <4>1, <4>2, <4>3, <4>4 DEF Worker
    <3>2. completion # None
      BY <3>1, ProducerCompletions, PipelineAssumption
    <3>3. workerPc[w] = "done"
      BY <3>2 DEF Reporting, Reports, NoSendOnClosedChannel
    <3>4. workerPc[w] # "done"
      BY <2>6 DEF Worker, WorkerTake, WorkerWait, WorkerProbe, WorkerUnsupported, WorkerPush
    <3> QED BY <3>3, <3>4
  <2>7. CASE CloseResults \/ SignalWorkersDone \/ RuntimeQuiesce \/ RuntimeReceive
    <3>1. UNCHANGED <<stream, completion, probed, found, collected>>
      BY <2>7 DEF CloseResults, SignalWorkersDone, RuntimeQuiesce, RuntimeReceive
    <3> QED BY <2>2, <3>1
  <2> QED BY <2>1, <2>3, <2>4, <2>5, <2>6, <2>7 DEF Next
<1> QED BY <1>1, <1>2, TypingInvariant, ReportingInvariant, ProgressInvariant, ExhaustedInvariant,
           NothingDroppedInvariant, PTL DEF Spec

-----------------------------------------------------------------------------
(* Jobs travel in the order of the stream, so no two places hold the same. *)

Queued(queue) == {queue[k] : k \in DOMAIN queue}

Increasing(queue) == \A j, k \in DOMAIN queue : j < k => queue[j] < queue[k]

AllBefore(A, B) == \A i \in A, j \in B : i < j

Routed == {routerJob} \ {NoJob}

Held == {workerJob[w] : w \in Workers} \ {NoJob}

Taken == Held \cup probed

\* Each channel hands jobs on first in, first out, so whatever is further down
\* the pipeline was sent before whatever is behind it in the same line.
InLine ==
    /\ Increasing(rawJobs) /\ Increasing(tcpJobs) /\ Increasing(udpJobs)
    /\ \A i \in Queued(rawJobs) \cup Routed \cup Queued(tcpJobs) \cup Queued(udpJobs) \cup Taken :
          i \in JobsOf(stream) /\ i < nextItem
    /\ AllBefore(Routed \cup Queued(tcpJobs) \cup Queued(udpJobs) \cup Taken, Queued(rawJobs))
    /\ AllBefore(Queued(tcpJobs) \cup Queued(udpJobs) \cup Taken, Routed)
    /\ AllBefore({i \in Taken : stream[i] = "tcp"}, Queued(tcpJobs))
    /\ AllBefore({i \in Taken : stream[i] # "tcp"}, Queued(udpJobs))
    /\ \A i \in Queued(tcpJobs) : stream[i] = "tcp"
    /\ \A i \in Queued(udpJobs) : stream[i] # "tcp"

\* A worker has a job of its protocol that no other worker has; a job that was
\* probed is in nobody's hands but those that push its result.
InHand ==
    /\ \A i \in probed : stream[i] # "udp_unsupported"
    /\ \A w \in Workers :
          workerJob[w] # NoJob => (stream[workerJob[w]] = "tcp" <=> w \in TCPWorkers)
    /\ \A w, v \in Workers : workerJob[w] # NoJob /\ workerJob[w] = workerJob[v] => w = v
    /\ \A w \in Workers : workerJob[w] \in probed => workerPc[w] = "pushing"
    /\ \A w \in Workers : workerPc[w] = "pushing" => workerJob[w] \notin collected

InOrder == InLine /\ InHand

\* A queue stays in order when a later job is appended.
LEMMA AppendedInOrder ==
    ASSUME NEW queue \in Seq(Jobs), NEW job \in Jobs, Increasing(queue),
           AllBefore(Queued(queue), {job})
    PROVE  /\ Queued(Append(queue, job)) = Queued(queue) \cup {job}
           /\ Increasing(Append(queue, job))
<1>1. /\ Append(queue, job)[Len(queue) + 1] = job
      /\ \A k \in 1 .. Len(queue) : Append(queue, job)[k] = queue[k]
  OBVIOUS
<1>2. /\ Len(queue) \in Nat /\ DOMAIN queue = 1 .. Len(queue)
      /\ DOMAIN Append(queue, job) = DOMAIN queue \cup {Len(queue) + 1}
  OBVIOUS
<1>3. \A k \in DOMAIN queue : k < Len(queue) + 1
  BY <1>2
<1>4. Queued(Append(queue, job)) = Queued(queue) \cup {job}
  BY <1>1, <1>2 DEF Queued
<1>5. \A k \in DOMAIN queue : queue[k] < job
  BY DEF AllBefore, Queued
<1> QED BY <1>1, <1>2, <1>3, <1>4, <1>5 DEF Increasing

\* A job received comes before all that stay in the queue.
LEMMA TakenInOrder ==
    ASSUME NEW queue \in Seq(Jobs), queue # << >>, Increasing(queue)
    PROVE  /\ Head(queue) \in Queued(queue) /\ Queued(Tail(queue)) \subseteq Queued(queue)
           /\ AllBefore({Head(queue)}, Queued(Tail(queue)))
           /\ Increasing(Tail(queue))
<1>1. /\ Head(queue) = queue[1] /\ 1 \in DOMAIN queue
      /\ \A k \in DOMAIN Tail(queue) : /\ k \in Nat /\ k + 1 \in DOMAIN queue /\ 1 < k + 1
                                       /\ Tail(queue)[k] = queue[k + 1]
  OBVIOUS
<1>2. Head(queue) \in Queued(queue) /\ Queued(Tail(queue)) \subseteq Queued(queue)
  BY <1>1 DEF Queued
<1>3. AllBefore({Head(queue)}, Queued(Tail(queue)))
  BY <1>1 DEF AllBefore, Queued, Increasing
<1>4. Increasing(Tail(queue))
  BY <1>1 DEF Increasing
<1> QED BY <1>2, <1>3, <1>4

\* Jobs may leave the line anywhere without disturbing it.
LEMMA LineShrinks ==
    ASSUME InLine, stream' = stream, nextItem \in Nat, nextItem' \in Nat, nextItem' >= nextItem,
           JobsOf(stream) \subseteq Nat,
           Increasing(rawJobs'), Queued(rawJobs') \subseteq Queued(rawJobs),
           Increasing(tcpJobs'), Queued(tcpJobs') \subseteq Queued(tcpJobs),
           Increasing(udpJobs'), Queued(udpJobs') \subseteq Queued(udpJobs),
           Routed' \subseteq Routed, Taken' \subseteq Taken
    PROVE  InLine'
<1>1. \A i \in Queued(rawJobs') \cup Routed' \cup Queued(tcpJobs') \cup Queued(udpJobs') \cup Taken' :
          i \in JobsOf(stream) /\ i < nextItem'
  BY DEF InLine
<1> QED BY <1>1 DEF InLine, AllBefore, JobsOf, Increasing, Queued
\* A worker that only goes on or gives its job up keeps the hands apart.
LEMMA HandsShrink ==
    ASSUME InHand, UNCHANGED <<stream, probed, collected>>, NoJob \notin probed,
           \A w \in Workers :
              /\ workerJob'[w] \in {workerJob[w], NoJob}
              /\ workerPc'[w] = "pushing" => workerPc[w] = "pushing" /\ workerJob'[w] = workerJob[w]
              /\ workerJob'[w] # NoJob /\ workerPc[w] = "pushing" => workerPc'[w] = "pushing"
    PROVE  InHand'
<1>1. \A i \in probed' : stream'[i] # "udp_unsupported"
  BY DEF InHand
<1>2. \A w \in Workers :
          workerJob'[w] # NoJob => (stream'[workerJob'[w]] = "tcp" <=> w \in TCPWorkers)
  BY DEF InHand
<1>3. \A w, v \in Workers : workerJob'[w] # NoJob /\ workerJob'[w] = workerJob'[v] => w = v
  BY DEF InHand
<1>4. \A w \in Workers : workerJob'[w] \in probed' => workerPc'[w] = "pushing"
  BY DEF InHand
<1>5. \A w \in Workers : workerPc'[w] = "pushing" => workerJob'[w] \notin collected'
  BY DEF InHand
<1> QED BY <1>1, <1>2, <1>3, <1>4, <1>5 DEF InHand

\* No step lets a job overtake another on its way.
LEMMA InOrderStep ==
    ASSUME Typing, Progress, InOrder, [Next]_vars
    PROVE  InOrder'
<1> USE DEF producerVars, routerVars, workerVars, jobQueues, monitorVars, runtimeVars, history,
            producerUnchanged, routerUnchanged, workerUnchanged, endUnchanged
<1>0. /\ Jobs \subseteq Nat /\ NoJob \notin Jobs /\ NoJob \notin Nat
      /\ probed \subseteq Jobs /\ NoJob \notin probed
      /\ nextItem \in Jobs /\ nextItem \in Nat
      /\ rawJobs \in Seq(Jobs) /\ tcpJobs \in Seq(Jobs) /\ udpJobs \in Seq(Jobs)
      /\ JobsOf(stream) \subseteq Nat
      /\ DOMAIN stream = 1 .. Len(stream) /\ Len(stream) \in Nat
      /\ workerPc \in [Workers -> {"idle", "limited", "probing", "pushing", "done"}]
      /\ workerJob \in [Workers -> Jobs \cup {NoJob}]
      /\ TCPWorkers \cap UDPWorkers = {} /\ Workers = TCPWorkers \cup UDPWorkers
  <2>1. DOMAIN stream = 1 .. Len(stream) /\ Len(stream) \in Nat
    BY DEF Typing, TypeOK
  <2>2. JobsOf(stream) \subseteq Nat
    BY <2>1 DEF JobsOf
  <2>3. Jobs \subseteq Nat /\ NoJob \notin Jobs /\ NoJob \notin Nat
    BY PipelineAssumption DEF Jobs
  <2>4. TCPWorkers \cap UDPWorkers = {} /\ Workers = TCPWorkers \cup UDPWorkers
    BY PipelineAssumption DEF Workers
  <2> QED BY <2>1, <2>2, <2>3, <2>4 DEF Typing, TypeOK
<1>1. ASSUME UNCHANGED <<stream, rawJobs, routerJob, tcpJobs, udpJobs, workerVars, probed, collected>>,
             nextItem' \in Nat, nextItem' >= nextItem
      PROVE  InOrder'
  <2>1. InLine'
    BY <1>0, <1>1, LineShrinks DEF InOrder, InLine, Increasing, Queued, Routed, Held, Taken
  <2>2. InHand'
    BY <1>0, <1>1, HandsShrink DEF InOrder
  <2> QED BY <2>1, <2>2 DEF InOrder
<1>2. CASE UNCHANGED vars \/ Terminated \/ Cancel
  BY <1>0, <1>1, <1>2 DEF vars, Terminated, Cancel
<1>3. CASE CloseResults \/ SignalWorkersDone \/ awaitScannerCompletion \/ RuntimeQuiesce \/ RuntimeReceive
  <2>1. UNCHANGED <<endUnchanged, collected>>
    BY <1>3 DEF CloseResults, SignalWorkersDone, awaitScannerCompletion, RuntimeQuiesce, RuntimeReceive
  <2> QED BY <1>0, <1>1, <2>1
<1>4. CASE Producer
  <2>1. UNCHANGED <<stream, routerJob, tcpJobs, udpJobs, workerVars, probed, collected>>
    BY <1>4 DEF Producer, SkipFailedLine, EndOfStream, DispatchCheck, DispatchJob, CloseRawJobs,
                ReturnFromStream
  <2>2. nextItem' \in {nextItem, nextItem + 1}
    BY <1>4 DEF Producer, SkipFailedLine, EndOfStream, DispatchCheck, DispatchJob, CloseRawJobs,
                ReturnFromStream
  <2>3. CASE UNCHANGED rawJobs
    BY <1>0, <1>1, <2>1, <2>2, <2>3
  <2>4. CASE producerPc = "sending" /\ rawJobs' = Append(rawJobs, nextItem) /\ nextItem' = nextItem + 1
    <3>1. nextItem \in JobsOf(stream)
      <4>1. nextItem <= Len(stream) /\ stream[nextItem] \in JobKinds
        BY <2>4 DEF Progress, StreamSoFar
      <4>2. nextItem \in DOMAIN stream
        BY <1>0, <4>1 DEF Jobs
      <4> QED BY <4>1, <4>2 DEF JobsOf
    <3>2. AllBefore(Queued(rawJobs), {nextItem})
      BY DEF InOrder, InLine, AllBefore
    <3>3. Queued(rawJobs') = Queued(rawJobs) \cup {nextItem} /\ Increasing(rawJobs')
      BY <1>0, <2>4, <3>2, AppendedInOrder DEF InOrder, InLine
    <3>4. InHand'
      BY <1>0, <2>1, HandsShrink DEF InOrder
    <3>5. Routed' = Routed /\ Taken' = Taken
      BY <2>1 DEF Routed, Taken, Held
    <3>6. \A i \in Queued(rawJobs) \cup Routed \cup Queued(tcpJobs) \cup Queued(udpJobs) \cup Taken :
              i \in JobsOf(stream) /\ i < nextItem /\ i < nextItem' /\ nextItem < nextItem'
      BY <1>0, <2>4 DEF InOrder, InLine
    <3>7. InLine'
      BY <2>1, <2>4, <1>0, <3>1, <3>3, <3>5, <3>6 DEF InOrder, InLine, AllBefore
    <3> QED BY <3>4, <3>7 DEF InOrder
  <2> QED BY <1>4, <2>3, <2>4 DEF Producer, SkipFailedLine, EndOfStream, DispatchCheck, DispatchJob,
                                  CloseRawJobs, ReturnFromStream
<1>5. CASE Router
  <2>1. UNCHANGED <<stream, nextItem, workerVars, probed, collected>>
    BY <1>5 DEF Router, RouteReceive, RouteSend, CloseJobQueues, ReportRouter, ReturnFromRouter
  <2>2. InHand' /\ Taken' = Taken
    BY <1>0, <2>1, HandsShrink DEF InOrder, Taken, Held
  <2>3. CASE UNCHANGED <<rawJobs, tcpJobs, udpJobs>> /\ routerJob' \in {routerJob, NoJob}
    <3>1. InLine'
      BY <1>0, <2>1, <2>2, <2>3, LineShrinks DEF InOrder, InLine, Increasing, Queued, Routed
    <3> QED BY <2>2, <3>1 DEF InOrder
  <2>4. CASE /\ rawJobs # << >> /\ rawJobs' = Tail(rawJobs) /\ routerJob' = Head(rawJobs)
             /\ UNCHANGED <<tcpJobs, udpJobs>>
    <3>1. /\ Head(rawJobs) \in Queued(rawJobs) /\ Queued(rawJobs') \subseteq Queued(rawJobs)
          /\ AllBefore({Head(rawJobs)}, Queued(rawJobs'))
          /\ Increasing(rawJobs')
      BY <1>0, <2>4, TakenInOrder DEF InOrder, InLine
    <3>2. Routed' \subseteq {Head(rawJobs)}
      BY <2>4 DEF Routed
    <3>3. InLine'
      BY <2>1, <2>2, <2>4, <3>1, <3>2 DEF InOrder, InLine, AllBefore
    <3> QED BY <2>2, <3>3 DEF InOrder
  <2>5. CASE /\ routerPc = "sending" /\ routerJob' = NoJob /\ UNCHANGED rawJobs
             /\ IF stream[routerJob] = "tcp"
                THEN tcpJobs' = Append(tcpJobs, routerJob) /\ UNCHANGED udpJobs
                ELSE udpJobs' = Append(udpJobs, routerJob) /\ UNCHANGED tcpJobs
    <3>1. routerJob \in Routed /\ routerJob \in Jobs /\ Routed' = {}
      BY <2>5 DEF Routed, Typing, TypeOK, HeldJobs
    <3>2. AllBefore(Queued(tcpJobs), {routerJob}) /\ AllBefore(Queued(udpJobs), {routerJob})
      BY <3>1 DEF InOrder, InLine, AllBefore
    <3>3. /\ Queued(Append(tcpJobs, routerJob)) = Queued(tcpJobs) \cup {routerJob}
          /\ Queued(Append(udpJobs, routerJob)) = Queued(udpJobs) \cup {routerJob}
          /\ Increasing(Append(tcpJobs, routerJob)) /\ Increasing(Append(udpJobs, routerJob))
      BY <1>0, <3>1, <3>2, AppendedInOrder DEF InOrder, InLine
    <3>4. CASE stream[routerJob] = "tcp"
      BY <2>1, <2>2, <2>5, <3>1, <3>3, <3>4 DEF InOrder, InLine, AllBefore
    <3>5. CASE stream[routerJob] # "tcp"
      BY <2>1, <2>2, <2>5, <3>1, <3>3, <3>5 DEF InOrder, InLine, AllBefore
    <3> QED BY <3>4, <3>5
  <2>6. CASE RouteReceive
    BY <2>3, <2>4, <2>6 DEF RouteReceive, ReturnFromRouter
  <2>7. CASE RouteSend
    BY <2>3, <2>5, <2>7 DEF RouteSend, ReturnFromRouter
  <2>8. CASE CloseJobQueues \/ ReportRouter
    BY <2>3, <2>8 DEF CloseJobQueues, ReportRouter
  <2> QED BY <1>5, <2>6, <2>7, <2>8 DEF Router
<1>6. ASSUME NEW w \in Workers, Worker(w)
      PROVE  InOrder'
  <2>1. UNCHANGED <<stream, nextItem, rawJobs, routerJob>> /\ Routed' = Routed
    BY <1>6 DEF Worker, WorkerTake, WorkerWait, WorkerProbe, WorkerUnsupported, WorkerPush,
                ReturnFromWorker, Routed
  <2>2. ASSUME workerJob'[w] \in {workerJob[w], NoJob},
               workerPc'[w] # "pushing", workerPc[w] = "pushing" => workerJob'[w] = NoJob,
               \A v \in Workers \ {w} : workerJob'[v] = workerJob[v] /\ workerPc'[v] = workerPc[v],
               UNCHANGED <<tcpJobs, udpJobs, probed, collected>>
        PROVE  InOrder'
    <3>1. \A v \in Workers :
            /\ workerJob'[v] \in {workerJob[v], NoJob}
            /\ workerPc'[v] = "pushing" => workerPc[v] = "pushing" /\ workerJob'[v] = workerJob[v]
            /\ workerJob'[v] # NoJob /\ workerPc[v] = "pushing" => workerPc'[v] = "pushing"
      BY <2>2
    <3>2. InHand'
      BY <1>0, <2>1, <2>2, <3>1, HandsShrink DEF InOrder
    <3>3. Taken' \subseteq Taken
      BY <2>2, <3>1 DEF Taken, Held
    <3>4. InLine'
      BY <1>0, <2>1, <2>2, <3>3, LineShrinks DEF InOrder, InLine, Increasing, Queued
    <3> QED BY <3>2, <3>4 DEF InOrder
  <2>3. ASSUME NEW err, ReturnFromWorker(w, err)
        PROVE  InOrder'
    BY <1>0, <2>2, <2>3 DEF ReturnFromWorker
  <2>4. ASSUME NEW queue \in Seq(Jobs), queue # << >>, workerPc[w] = "idle",
               queue = IF w \in TCPWorkers THEN tcpJobs ELSE udpJobs,
               workerPc' = [workerPc EXCEPT ![w] = "limited"],
               workerJob' = [workerJob EXCEPT ![w] = Head(queue)],
               IF w \in TCPWorkers
               THEN tcpJobs' = Tail(queue) /\ UNCHANGED udpJobs
               ELSE udpJobs' = Tail(queue) /\ UNCHANGED tcpJobs,
               UNCHANGED <<probed, collected>>
        PROVE  InOrder'
    <3> DEFINE job == Head(queue)
    <3>1. Increasing(queue)
      BY <2>4 DEF InOrder, InLine
    <3>2. /\ job \in Queued(queue) /\ Queued(Tail(queue)) \subseteq Queued(queue)
          /\ AllBefore({job}, Queued(Tail(queue)))
          /\ Increasing(Tail(queue))
      BY <2>4, <3>1, TakenInOrder
    <3> HIDE DEF job
    <3>3. /\ job \in JobsOf(stream) /\ job < nextItem /\ job \in Nat /\ job # NoJob
          /\ stream[job] = "tcp" <=> w \in TCPWorkers
          /\ job \notin Taken
      BY <1>0, <2>4, <3>2 DEF InOrder, InLine, AllBefore
    <3>4. /\ workerJob'[w] = job /\ workerPc'[w] = "limited" /\ workerJob[w] = NoJob
          /\ \A v \in Workers \ {w} : workerJob'[v] = workerJob[v] /\ workerPc'[v] = workerPc[v]
      BY <1>0, <2>4 DEF job, Typing, HeldJobs
    <3>5. Taken' = Taken \cup {job}
      BY <2>4, <3>3, <3>4 DEF Taken, Held
    <3>6. InHand'
      <4>1. job \notin probed /\ \A v \in Workers : workerJob[v] # job
        BY <1>0, <3>3 DEF Taken, Held
      <4> QED BY <2>1, <2>4, <3>3, <3>4, <4>1 DEF InOrder, InHand
    <3>7. InLine'
      <4>1. CASE w \in TCPWorkers
        BY <2>1, <2>4, <3>2, <3>3, <3>5, <4>1 DEF InOrder, InLine, AllBefore
      <4>2. CASE w \notin TCPWorkers
        BY <2>1, <2>4, <3>2, <3>3, <3>5, <4>2 DEF InOrder, InLine, AllBefore
      <4> QED BY <4>1, <4>2
    <3> QED BY <3>6, <3>7 DEF InOrder
  <2>5. CASE WorkerTake(w)
    <3> DEFINE queue == IF w \in TCPWorkers THEN tcpJobs ELSE udpJobs
    <3>1. queue \in Seq(Jobs)
      BY <1>0
    <3> QED BY <2>3, <2>4, <2>5, <3>1 DEF WorkerTake
  <2>6. CASE WorkerWait(w)
    BY <1>0, <2>2, <2>3, <2>6 DEF WorkerWait
  <2>7. CASE WorkerProbe(w)
    <3> DEFINE job == workerJob[w]
    <3>1. /\ workerPc[w] = "probing" /\ stream[job] # "udp_unsupported"
          /\ probed' = probed \cup {job} /\ UNCHANGED <<tcpJobs, udpJobs, collected>>
          /\ \/ workerPc' = [workerPc EXCEPT ![w] = "pushing"] /\ UNCHANGED workerJob
             \/ /\ workerPc' = [workerPc EXCEPT ![w] = "idle"]
                /\ workerJob' = [workerJob EXCEPT ![w] = NoJob]
      BY <2>7 DEF WorkerProbe
    <3>2. job \in Held /\ job # NoJob /\ job \notin probed /\ job \notin collected
      BY <3>1 DEF Held, Typing, HeldJobs, InOrder, InHand, Progress, Results
    <3>3. Taken' \subseteq Taken
      <4>1. \A v \in Workers : workerJob'[v] \in {workerJob[v], NoJob}
        BY <1>0, <3>1
      <4> QED BY <3>1, <3>2, <4>1 DEF Taken, Held
    <3>4. InLine'
      BY <1>0, <2>1, <3>1, <3>3, LineShrinks DEF InOrder, InLine, Increasing, Queued
    <3>5. \A v \in Workers \ {w} :
             /\ workerJob'[v] = workerJob[v] /\ workerPc'[v] = workerPc[v]
             /\ workerJob[v] # job
      BY <1>0, <3>1, <3>2 DEF InOrder, InHand
    <3>6. \/ workerJob'[w] = job /\ workerPc'[w] = "pushing"
          \/ workerJob'[w] = NoJob /\ workerPc'[w] = "idle"
      BY <1>0, <3>1
    <3> HIDE DEF job
    <3>7. InHand'
      <4>1. \A i \in probed' : stream'[i] # "udp_unsupported"
        BY <2>1, <3>1 DEF InOrder, InHand
      <4>2. \A v \in Workers : workerJob'[v] \in {workerJob[v], NoJob}
        BY <3>5, <3>6 DEF job
      <4>3. /\ \A v \in Workers : workerJob'[v] \in probed' => workerPc'[v] = "pushing"
            /\ \A v \in Workers : workerPc'[v] = "pushing" => workerJob'[v] \notin collected'
        BY <1>0, <3>1, <3>2, <3>5, <3>6 DEF InOrder, InHand
      <4> QED BY <2>1, <4>1, <4>2, <4>3 DEF InOrder, InHand
    <3> QED BY <3>4, <3>7 DEF InOrder
  <2>8. CASE WorkerUnsupported(w)
    BY <1>0, <2>2, <2>8 DEF WorkerUnsupported
  <2>9. CASE WorkerPush(w)
    <3>1. /\ workerPc[w] = "pushing" /\ collected' = collected \cup {workerJob[w]}
          /\ workerPc'[w] = "idle" /\ workerJob'[w] = NoJob
          /\ \A v \in Workers \ {w} : workerJob'[v] = workerJob[v] /\ workerPc'[v] = workerPc[v]
          /\ UNCHANGED <<tcpJobs, udpJobs, probed>>
      BY <1>0, <2>9 DEF WorkerPush
    <3>2. workerJob[w] # NoJob
      BY <3>1 DEF Typing, HeldJobs
    <3>3. Taken' \subseteq Taken
      BY <3>1 DEF Taken, Held
    <3>4. InLine'
      BY <1>0, <2>1, <3>1, <3>3, LineShrinks DEF InOrder, InLine, Increasing, Queued
    <3>5. \A v \in Workers \ {w} : workerJob[v] # workerJob[w]
      BY <3>2 DEF InOrder, InHand
    <3>6. InHand'
      <4>1. \A v \in Workers : workerJob'[v] \in {workerJob[v], NoJob}
        BY <3>1
      <4>2. /\ \A v \in Workers : workerJob'[v] \in probed' => workerPc'[v] = "pushing"
            /\ \A v \in Workers : workerPc'[v] = "pushing" => workerJob'[v] \notin collected'
        BY <1>0, <3>1, <3>5 DEF InOrder, InHand
      <4> QED BY <2>1, <3>1, <4>1, <4>2 DEF InOrder, InHand
    <3> QED BY <3>4, <3>6 DEF InOrder
  <2> QED BY <1>6, <2>5, <2>6, <2>7, <2>8, <2>9 DEF Worker
<1> QED BY <1>2, <1>3, <1>4, <1>5, <1>6 DEF Next
\* The jobs along the pipeline are in the order of the stream.
LEMMA InOrderInvariant == Spec => []InOrder
<1>1. Init => InOrder
  <2> SUFFICES ASSUME Init PROVE InOrder
    OBVIOUS
  <2>1. /\ rawJobs = << >> /\ tcpJobs = << >> /\ udpJobs = << >> /\ routerJob = NoJob
        /\ probed = {} /\ \A w \in Workers : workerJob[w] = NoJob /\ workerPc[w] = "idle"
    BY DEF Init
  <2>2. Queued(rawJobs) = {} /\ Queued(tcpJobs) = {} /\ Queued(udpJobs) = {} /\ Routed = {} /\ Taken = {}
    BY <2>1 DEF Queued, Routed, Taken, Held
  <2>3. InLine
    BY <2>1, <2>2 DEF InLine, Increasing, AllBefore
  <2>4. InHand
    BY <2>1 DEF InHand
  <2> QED BY <2>3, <2>4 DEF InOrder
<1>2. Typing /\ Progress /\ InOrder /\ [Next]_vars => InOrder'
  BY InOrderStep
<1> QED BY <1>1, <1>2, TypingInvariant, ProgressInvariant, PTL DEF Spec

\* Two places that hold one job are one place.
LEMMA OnePlace ==
    ASSUME Typing, InOrder, NEW i \in JobsOf(stream), NEW p \in Places(i), NEW q \in Places(i)
    PROVE  p = q
<1>0. i \in Nat /\ i # NoJob /\ NoJob \notin Nat
  <2>1. DOMAIN stream = 1 .. Len(stream) /\ Len(stream) \in Nat
    BY DEF Typing, TypeOK
  <2> QED BY <2>1, PipelineAssumption DEF JobsOf
<1> DEFINE InRaw    == i \in Queued(rawJobs)
           InRouter == i \in Routed
           InTCP    == i \in Queued(tcpJobs)
           InUDP    == i \in Queued(udpJobs)
           InPool   == i \in Held
<1>1. ASSUME NEW r \in Places(i)
      PROVE  \/ InRaw /\ \E k \in DOMAIN rawJobs : rawJobs[k] = i /\ r = <<"raw", k>>
             \/ InRouter /\ r = <<"router", 0>>
             \/ InTCP /\ \E k \in DOMAIN tcpJobs : tcpJobs[k] = i /\ r = <<"tcp", k>>
             \/ InUDP /\ \E k \in DOMAIN udpJobs : udpJobs[k] = i /\ r = <<"udp", k>>
             \/ InPool /\ \E w \in Workers : workerJob[w] = i /\ r = <<"worker", w>>
  BY <1>0 DEF Places, Queued, Routed, Held
<1>2. /\ ~(InRaw /\ (InRouter \/ InTCP \/ InUDP \/ InPool))
      /\ ~(InRouter /\ (InTCP \/ InUDP \/ InPool))
      /\ ~(InTCP /\ InUDP)
  BY <1>0 DEF InOrder, InLine, AllBefore, Taken
<1>3. ~(InPool /\ (InTCP \/ InUDP))
  BY <1>0 DEF InOrder, InLine, AllBefore, Taken
<1>4. ASSUME NEW queue \in Seq(Jobs), Increasing(queue),
             NEW j \in DOMAIN queue, NEW k \in DOMAIN queue, queue[j] = i, queue[k] = i
      PROVE  j = k
  <2>1. j \in Nat /\ k \in Nat
    OBVIOUS
  <2>2. ~(j < k) /\ ~(k < j)
    BY <1>0, <1>4 DEF Increasing
  <2> QED BY <2>1, <2>2
<1>5. /\ \A j, k \in DOMAIN rawJobs : rawJobs[j] = i /\ rawJobs[k] = i => j = k
      /\ \A j, k \in DOMAIN tcpJobs : tcpJobs[j] = i /\ tcpJobs[k] = i => j = k
      /\ \A j, k \in DOMAIN udpJobs : udpJobs[j] = i /\ udpJobs[k] = i => j = k
      /\ \A v, w \in Workers : workerJob[v] = i /\ workerJob[w] = i => v = w
  BY <1>0, <1>4 DEF Typing, TypeOK, InOrder, InLine, InHand
<1> HIDE DEF InRaw, InRouter, InTCP, InUDP, InPool
<1>6. CASE InRaw
  BY <1>1, <1>2, <1>5, <1>6
<1>7. CASE InRouter
  BY <1>1, <1>2, <1>5, <1>7
<1>8. CASE InTCP
  BY <1>1, <1>2, <1>3, <1>5, <1>8
<1>9. CASE InUDP
  BY <1>1, <1>2, <1>3, <1>5, <1>9
<1>10. CASE InPool
  BY <1>1, <1>2, <1>3, <1>5, <1>10
<1> QED BY <1>1, <1>6, <1>7, <1>8, <1>9, <1>10

\* No job is in two places, probed twice, probed by the wrong pool or sent before
\* the producer reached it, and without a cancellation none is lost
\* (JobsConserved): for any pools, capacities and target stream.
THEOREM JobsAreConserved == Spec => []JobsConserved
<1>1. Typing /\ InOrder /\ NothingDropped => JobsConserved
  <2> SUFFICES ASSUME Typing, InOrder, NothingDropped, NEW i \in JobsOf(stream)
               PROVE  /\ Cardinality(Places(i)) <= 1
                      /\ i \in probed =>
                            \A p \in Places(i) : p[1] = "worker" /\ workerPc[p[2]] = "pushing"
                      /\ \A w \in Workers :
                            workerJob[w] = i => (stream[i] = "tcp" <=> w \in TCPWorkers)
                      /\ (~cancelled /\ i < nextItem) =>
                            \/ Places(i) # {}
                            \/ i \in probed
                            \/ stream[i] = "udp_unsupported"
                      /\ i >= nextItem => Places(i) = {}
    BY DEF JobsConserved
  <2>0. i \in Nat /\ i # NoJob /\ nextItem \in Nat
    <3>1. DOMAIN stream = 1 .. Len(stream) /\ Len(stream) \in Nat /\ nextItem \in Nat
      BY DEF Typing, TypeOK, Jobs
    <3> QED BY <3>1, PipelineAssumption DEF JobsOf
  <2>1. Cardinality(Places(i)) <= 1
    <3>1. CASE Places(i) = {}
      BY <3>1, FS_EmptySet
    <3>2. CASE Places(i) # {}
      <4>1. PICK p : p \in Places(i)
        BY <3>2
      <4>2. Places(i) = {p}
        BY <4>1, OnePlace
      <4> QED BY <4>2, FS_Singleton
    <3> QED BY <3>1, <3>2
  <2>2. ASSUME NEW p \in Places(i)
        PROVE  \/ i \in Queued(rawJobs) \cup Routed \cup Queued(tcpJobs) \cup Queued(udpJobs)
               \/ i \in Taken /\ \E w \in Workers : workerJob[w] = i /\ p = <<"worker", w>>
    BY <2>0 DEF Places, Queued, Routed, Taken, Held
  <2>3. i \in probed => \A p \in Places(i) : p[1] = "worker" /\ workerPc[p[2]] = "pushing"
    <3> SUFFICES ASSUME i \in probed, NEW p \in Places(i)
                 PROVE  p[1] = "worker" /\ workerPc[p[2]] = "pushing"
      OBVIOUS
    <3>1. i \notin Queued(rawJobs) \cup Routed \cup Queued(tcpJobs) \cup Queued(udpJobs)
      BY <2>0 DEF InOrder, InLine, AllBefore, Taken
    <3>2. PICK w \in Workers : workerJob[w] = i /\ p = <<"worker", w>>
      BY <2>2, <3>1
    <3> QED BY <3>2 DEF InOrder, InHand
  <2>4. \A w \in Workers : workerJob[w] = i => (stream[i] = "tcp" <=> w \in TCPWorkers)
    BY <2>0 DEF InOrder, InHand
  <2>5. ASSUME ~cancelled, i < nextItem
        PROVE  Places(i) # {} \/ i \in probed \/ stream[i] = "udp_unsupported"
    <3>1. Accounted(i)
      BY <2>5 DEF NothingDropped
    <3> QED BY <3>1 DEF Accounted, InQueue, Places
  <2>6. ASSUME i >= nextItem
        PROVE  Places(i) = {}
    <3>1. i \notin Queued(rawJobs) \cup Routed \cup Queued(tcpJobs) \cup Queued(udpJobs) \cup Taken
      BY <2>0, <2>6 DEF InOrder, InLine
    <3> QED BY <2>2, <3>1
  <2> QED BY <2>1, <2>3, <2>4, <2>5, <2>6
<1> QED BY <1>1, TypingInvariant, InOrderInvariant, NothingDroppedInvariant, PTL

-----------------------------------------------------------------------------
(* The scan as its caller sees it: every step is a step of ScannerContract *)
(* or changes nothing the contract speaks of.                              *)

\* The sticky error of the stream is that of its first line that fails.
FirstFailure ==
    streamErr # "nil" =>
        \E i \in Contract!FailedItems(stream) :
            /\ i < nextItem
            /\ \A j \in Contract!FailedItems(stream) : i <= j
            /\ streamErr = Contract!ItemError(stream[i])

\* Who has an outcome to report has a reason in the stream or in a cancellation.
Reasons ==
    /\ quiesced => resultsClosed
    /\ ~cancelled => /\ routerResult = "nil" /\ routerErr \in {"nil", None}
                     /\ workerErr \in {"unsupported", None}
    /\ (\E w \in UDPWorkers : unsupported[w]) \/ workerErr = "unsupported" =>
          Contract!Unsupported(stream) # {}

Verdict == FirstFailure /\ Reasons

\* The sticky error stays that of the first line that fails.
LEMMA FirstFailureStep ==
    ASSUME Typing, Progress, FirstFailure, [Next]_vars
    PROVE  FirstFailure'
<1> USE DEF producerVars, routerVars, workerVars, jobQueues, monitorVars, runtimeVars, history,
            producerUnchanged, routerUnchanged, workerUnchanged, endUnchanged
<1>0. /\ nextItem \in Nat /\ Len(stream) \in Nat /\ DOMAIN stream = 1 .. Len(stream)
      /\ nextItem \in Jobs
  BY DEF Typing, TypeOK, Jobs
<1>1. ASSUME UNCHANGED <<stream, streamErr>>, nextItem' \in {nextItem, nextItem + 1}
      PROVE  FirstFailure'
  BY <1>0, <1>1 DEF FirstFailure, Contract!FailedItems, Contract!ItemError
<1>2. CASE SkipFailedLine
  <2>1. /\ nextItem \in DOMAIN stream /\ nextItem' = nextItem + 1 /\ UNCHANGED stream
        /\ stream[nextItem] \in {"bad_cidr", "unresolved", "read_error"}
    BY <1>0, <1>2 DEF SkipFailedLine, Jobs
  <2>2. CASE streamErr # "nil"
    <3>1. UNCHANGED streamErr
      BY <1>2, <2>2 DEF SkipFailedLine
    <3> QED BY <1>1, <2>1, <3>1
  <2>3. CASE streamErr = "nil"
    <3>1. nextItem \in Contract!FailedItems(stream)
      BY <2>1 DEF Contract!FailedItems, Contract!JobKinds
    <3>2. \A i \in Contract!FailedItems(stream) : nextItem <= i
      BY <1>0, <2>3 DEF Progress, StreamSoFar, Contract!FailedItems, Contract!JobKinds, JobKinds
    <3>3. streamErr' = Contract!ItemError(stream[nextItem])
      BY <1>2, <2>3 DEF SkipFailedLine, Contract!ItemError
    <3>4. nextItem < nextItem'
      BY <1>0, <2>1
    <3> QED BY <2>1, <3>1, <3>2, <3>3, <3>4 DEF FirstFailure
  <2> QED BY <2>2, <2>3
<1>3. CASE EndOfStream \/ DispatchCheck \/ DispatchJob \/ CloseRawJobs
  BY <1>1, <1>3 DEF EndOfStream, DispatchCheck, DispatchJob, CloseRawJobs, ReturnFromStream
<1>4. CASE UNCHANGED vars \/ Terminated \/ Cancel
  BY <1>1, <1>4 DEF vars, Terminated, Cancel
<1>5. CASE Router
  BY <1>1, <1>5 DEF Router, RouteReceive, RouteSend, CloseJobQueues, ReportRouter, ReturnFromRouter
<1>6. CASE \E w \in Workers : Worker(w)
  BY <1>1, <1>6 DEF Worker, WorkerTake, WorkerWait, WorkerProbe, WorkerUnsupported, WorkerPush,
                    ReturnFromWorker
<1>7. CASE CloseResults \/ SignalWorkersDone \/ awaitScannerCompletion \/ RuntimeQuiesce \/ RuntimeReceive
  <2>1. UNCHANGED endUnchanged
    BY <1>7 DEF CloseResults, SignalWorkersDone, awaitScannerCompletion, RuntimeQuiesce, RuntimeReceive
  <2> QED BY <1>1, <2>1
<1> QED BY <1>2, <1>3, <1>4, <1>5, <1>6, <1>7 DEF Next, Producer

\* Whoever reports an error has a reason in the stream or a cancellation.
LEMMA ReasonsStep ==
    ASSUME Typing, InOrder, Reasons, [Next]_vars
    PROVE  Reasons'
<1> USE DEF producerVars, routerVars, workerVars, jobQueues, monitorVars, runtimeVars, history,
            producerUnchanged, routerUnchanged, workerUnchanged, endUnchanged
<1>1. ASSUME UNCHANGED <<stream, unsupported, workerErr>>,
             ~cancelled' => routerResult' = "nil" /\ routerErr' \in {"nil", None},
             quiesced' => resultsClosed',
             ~cancelled' => ~cancelled
      PROVE  Reasons'
  BY <1>1 DEF Reasons
<1>2. CASE UNCHANGED vars \/ Terminated \/ Cancel \/ Producer
  BY <1>1, <1>2 DEF vars, Terminated, Cancel, Producer, SkipFailedLine, EndOfStream, DispatchCheck,
                    DispatchJob, CloseRawJobs, ReturnFromStream, Reasons
<1>3. CASE Router
  BY <1>1, <1>3 DEF Router, RouteReceive, RouteSend, CloseJobQueues, ReportRouter, ReturnFromRouter, Reasons
<1>4. CASE CloseResults \/ SignalWorkersDone \/ awaitScannerCompletion \/ RuntimeQuiesce \/ RuntimeReceive
  <2>1. UNCHANGED endUnchanged
    BY <1>4 DEF CloseResults, SignalWorkersDone, awaitScannerCompletion, RuntimeQuiesce, RuntimeReceive
  <2>2. quiesced' => resultsClosed'
    BY <1>4 DEF CloseResults, SignalWorkersDone, awaitScannerCompletion, RuntimeQuiesce, RuntimeReceive,
                Reasons
  <2> QED BY <1>1, <2>1, <2>2 DEF Reasons
<1>5. ASSUME NEW w \in Workers, Worker(w)
      PROVE  Reasons'
  <2>1. UNCHANGED <<stream, cancelled, routerVars, resultsClosed, quiesced>>
    BY <1>5 DEF Worker, WorkerTake, WorkerWait, WorkerProbe, WorkerUnsupported, WorkerPush, ReturnFromWorker
  <2>2. CASE UNCHANGED <<unsupported, workerErr>>
    BY <2>1, <2>2 DEF Reasons
  <2>3. ASSUME NEW err, ReturnFromWorker(w, err),
               \/ err = "nil"
               \/ err = "unsupported" /\ w \in UDPWorkers /\ unsupported[w]
               \/ err = "canceled" /\ cancelled
        PROVE  Reasons'
    <3>1. UNCHANGED unsupported /\ workerErr' \in {workerErr, err}
      BY <2>3 DEF ReturnFromWorker
    <3>2. CASE workerErr' # workerErr
      <4>1. workerErr' = err /\ err # "nil"
        BY <2>3, <3>2 DEF ReturnFromWorker
      <4> QED BY <2>1, <2>3, <3>1, <4>1 DEF Reasons
    <3> QED BY <2>2, <3>1, <3>2
  <2>4. CASE WorkerTake(w)
    <3>1. CASE ReturnFromWorker(w, IF w \in UDPWorkers /\ unsupported[w] THEN "unsupported" ELSE "nil")
      BY <2>3, <3>1
    <3>2. CASE cancelled /\ ReturnFromWorker(w, "canceled")
      BY <2>3, <3>2
    <3> QED BY <2>2, <2>4, <3>1, <3>2 DEF WorkerTake
  <2>5. CASE WorkerWait(w)
    BY <2>2, <2>3, <2>5 DEF WorkerWait
  <2>6. CASE WorkerProbe(w) \/ WorkerPush(w)
    BY <2>2, <2>6 DEF WorkerProbe, WorkerPush
  <2>7. CASE WorkerUnsupported(w)
    <3>1. /\ workerPc[w] = "probing" /\ stream[workerJob[w]] = "udp_unsupported"
          /\ UNCHANGED workerErr
      BY <2>7 DEF WorkerUnsupported
    <3>2. workerJob[w] \in Taken
      BY <3>1 DEF Typing, HeldJobs, Taken, Held
    <3>3. workerJob[w] \in Contract!Unsupported(stream)
      BY <3>1, <3>2 DEF InOrder, InLine, JobsOf, Contract!Unsupported
    <3> QED BY <2>1, <3>1, <3>3 DEF Reasons
  <2> QED BY <1>5, <2>4, <2>5, <2>6, <2>7 DEF Worker
<1> QED BY <1>2, <1>3, <1>4, <1>5 DEF Next

\* The errors that arrive decide as the stream does.
LEMMA VerdictInvariant == Spec => []Verdict
<1>1. Init => Verdict
  BY Outcomes DEF Init, Verdict, FirstFailure, Reasons
<1>2. Typing /\ Progress /\ InOrder /\ Verdict /\ [Next]_vars => Verdict'
  BY FirstFailureStep, ReasonsStep DEF Verdict
<1> QED BY <1>1, <1>2, TypingInvariant, ProgressInvariant, InOrderInvariant, PTL DEF Spec

\* All workers have stopped when the completion is formed, and unless somebody
\* cancelled they have probed whatever can be probed; only then is there an
\* error to report, and it is that of the stream.
LEMMA DecidedOutcome ==
    ASSUME Typing, Reporting, Progress, Exhausted, NothingDropped, InOrder, Verdict,
           awaitScannerCompletion
    PROVE  Contract!Decide
<1> USE DEF producerVars, routerVars, workerVars, jobQueues, monitorVars, runtimeVars, history, endUnchanged
<1>1. completion = None /\ producerErr # None /\ routerErr # None /\ workersDone
  BY DEF awaitScannerCompletion
<1>2. UNCHANGED <<stream, cancelled, probed, found, collected, quiesced>>
  BY DEF awaitScannerCompletion
<1>3. \A w \in Workers : workerPc[w] = "done" /\ workerJob[w] = NoJob
  BY <1>1 DEF Reporting, NoSendOnClosedChannel, Typing, HeldJobs
<1>4. collected = found
  BY <1>3 DEF Progress, Results
<1>5. CASE cancelled
  <2>1. completion' = Contract!Failed("cancelled")
    BY <1>5 DEF awaitScannerCompletion, Failed, Contract!Failed
  <2> QED BY <1>1, <1>2, <1>4, <1>5, <2>1 DEF Contract!Decide
<1>6. CASE ~cancelled
  <2>1. producerPc \in {"closing", "done"} /\ routerPc = "done"
    BY <1>1 DEF Reporting, Reports
  <2>2. /\ producerErr = streamErr /\ nextItem > Len(stream) /\ rawJobs = << >> /\ routerJob = NoJob
        /\ routerErr = "nil" /\ workerErr \in {"unsupported", None}
    BY <1>1, <1>6, <2>1 DEF Exhausted, Typing, HeldJobs, Verdict, Reasons
  <2>3. tcpJobs = << >> /\ udpJobs = << >>
    BY <1>3, <1>6, Outcomes, PipelineAssumption DEF Exhausted
  <2>4. DOMAIN stream = 1 .. Len(stream) /\ Len(stream) \in Nat /\ nextItem \in Nat
    BY DEF Typing, TypeOK, Jobs
  <2>5. \A i \in DOMAIN stream : i < nextItem /\ i # NoJob
    BY <2>2, <2>4, PipelineAssumption
  <2>6. ASSUME NEW i \in JobsOf(stream)
        PROVE  \/ i \in probed
               \/ stream[i] = "udp_unsupported" /\ \E w \in UDPWorkers : unsupported[w]
    <3>1. Accounted(i) /\ i # NoJob
      BY <1>6, <2>5 DEF JobsOf, NothingDropped
    <3>2. ~InQueue(rawJobs, i) /\ ~InQueue(tcpJobs, i) /\ ~InQueue(udpJobs, i)
      BY <2>2, <2>3 DEF InQueue
    <3> QED BY <1>3, <2>2, <3>1, <3>2 DEF Accounted
  <2>7. probed = Contract!ProbableJobs(stream)
    <3>1. Contract!ProbableJobs(stream) \subseteq probed
      BY <2>6 DEF JobsOf, JobKinds, Contract!ProbableJobs
    <3>2. probed \subseteq Contract!ProbableJobs(stream)
      BY DEF InOrder, InLine, InHand, Taken, JobsOf, JobKinds, Contract!ProbableJobs
    <3> QED BY <3>1, <3>2
  <2>8. completion' = Contract!Outcome(stream)
    <3> DEFINE Failures == Contract!FailedItems(stream)
               first == CHOOSE i \in Failures : \A j \in Failures : i <= j
    <3>0. /\ Failed("worker_failed") = Contract!Failed("worker_failed")
          /\ Completed = Contract!Completed
          /\ \A err : scanCompletionFromProducerError(err) = Contract!scanCompletionFromProducerError(err)
      BY DEF Failed, Contract!Failed, Completed, Contract!Completed, scanCompletionFromProducerError,
             Contract!scanCompletionFromProducerError
    <3>1. CASE streamErr # "nil"
      <4>1. PICK i \in Failures : /\ \A j \in Failures : i <= j
                                  /\ streamErr = Contract!ItemError(stream[i])
        BY <3>1 DEF Verdict, FirstFailure
      <4>2. first \in Failures /\ \A j \in Failures : first <= j
        BY <4>1
      <4>3. first = i
        <5>1. i \in Nat /\ first \in Nat
          BY <2>4, <4>1, <4>2 DEF Contract!FailedItems
        <5> HIDE DEF Failures, first
        <5>2. i <= first /\ first <= i
          BY <4>1, <4>2
        <5> QED BY <5>1, <5>2
      <4>4. completion' = scanCompletionFromProducerError(Contract!ItemError(stream[first]))
        <5>1. completion' = scanCompletionFromProducerError(streamErr)
          BY <1>6, <2>2, <3>1 DEF awaitScannerCompletion
        <5> QED BY <4>1, <4>3, <5>1
      <4>5. Failures # {}
        BY <4>1
      <4> QED BY <3>0, <4>4, <4>5 DEF Contract!Outcome
    <3>2. CASE streamErr = "nil"
      <4>1. Failures = {}
        BY <2>5, <3>2 DEF Progress, StreamSoFar, JobKinds, Contract!FailedItems, Contract!JobKinds
      <4>2. completion' = IF workerErr # None THEN Failed("worker_failed") ELSE Completed
        BY <1>6, <2>2, <3>2 DEF awaitScannerCompletion
      <4>3. workerErr # None <=> Contract!Unsupported(stream) # {}
        <5>1. workerErr # None => Contract!Unsupported(stream) # {}
          BY <2>2 DEF Verdict, Reasons
        <5>2. ASSUME Contract!Unsupported(stream) # {}
              PROVE  workerErr # None
          <6>1. PICK i \in DOMAIN stream : stream[i] = "udp_unsupported"
            BY <5>2 DEF Contract!Unsupported
          <6>2. i \in JobsOf(stream) /\ i \notin probed
            BY <6>1 DEF JobsOf, JobKinds, InOrder, InHand
          <6>3. PICK w \in UDPWorkers : unsupported[w]
            BY <2>6, <6>2
          <6> QED BY <1>3, <6>3, Outcomes DEF Reporting, Reports
        <5> QED BY <5>1, <5>2
      <4> QED BY <3>0, <4>1, <4>2, <4>3 DEF Contract!Outcome
    <3> QED BY <3>1, <3>2
  <2> QED BY <1>1, <1>2, <1>4, <1>6, <2>7, <2>8 DEF Contract!Decide
<1> QED BY <1>5, <1>6

\* Every step of a goroutine is a step of the contract or none.
LEMMA ContractStep ==
    ASSUME Typing, Reporting, Progress, Exhausted, NothingDropped, InOrder, Verdict, [Next]_vars
    PROVE  [Contract!Next]_(Contract!vars)
<1> USE DEF producerVars, routerVars, workerVars, jobQueues, monitorVars, runtimeVars, history,
            producerUnchanged, routerUnchanged, workerUnchanged, endUnchanged
<1>1. CASE UNCHANGED vars \/ Terminated
  BY <1>1 DEF vars, Terminated, Contract!vars
<1>2. CASE Cancel
  <2>1. Contract!Cancel
    BY <1>2 DEF Cancel, Contract!Cancel
  <2> QED BY <2>1 DEF Contract!Next
<1>3. CASE Producer
  BY <1>3 DEF Producer, SkipFailedLine, EndOfStream, DispatchCheck, DispatchJob, CloseRawJobs,
              ReturnFromStream, Contract!vars
<1>4. CASE Router
  BY <1>4 DEF Router, RouteReceive, RouteSend, CloseJobQueues, ReportRouter, ReturnFromRouter,
              Contract!vars
<1>5. ASSUME NEW w \in Workers, Worker(w)
      PROVE  [Contract!Next]_(Contract!vars)
  <2>0. workerPc[w] # "done"
    BY <1>5 DEF Worker, WorkerTake, WorkerWait, WorkerProbe, WorkerUnsupported, WorkerPush
  <2>1. completion = None /\ ~quiesced
    BY <2>0 DEF Reporting, Reports, NoSendOnClosedChannel, Verdict, Reasons
  <2>2. CASE WorkerTake(w) \/ WorkerWait(w) \/ WorkerUnsupported(w)
    BY <2>2 DEF WorkerTake, WorkerWait, WorkerUnsupported, ReturnFromWorker, Contract!vars
  <2>3. CASE WorkerProbe(w)
    <3>1. workerPc[w] = "probing" /\ stream[workerJob[w]] # "udp_unsupported"
      BY <2>3 DEF WorkerProbe
    <3>2. workerJob[w] \in Taken /\ workerJob[w] \notin probed
      BY <3>1 DEF Typing, HeldJobs, Taken, Held, InOrder, InHand
    <3>3. workerJob[w] \in Contract!ProbableJobs(stream)
      BY <3>1, <3>2 DEF InOrder, InLine, JobsOf, JobKinds, Contract!ProbableJobs
    <3>4. \E answers \in BOOLEAN : Contract!Probe(workerJob[w], answers)
      <4>1. CASE found' = found \cup {workerJob[w]}
        <5>1. Contract!Probe(workerJob[w], TRUE)
          BY <2>1, <2>3, <3>2, <4>1 DEF WorkerProbe, Contract!Probe
        <5> QED BY <5>1
      <4>2. CASE found' = found
        <5>1. Contract!Probe(workerJob[w], FALSE)
          BY <2>1, <2>3, <3>2, <4>2 DEF WorkerProbe, Contract!Probe
        <5> QED BY <5>1
      <4> QED BY <2>3, <4>1, <4>2 DEF WorkerProbe
    <3> QED BY <3>3, <3>4 DEF Contract!Next
  <2>4. CASE WorkerPush(w)
    <3>1. workerPc[w] = "pushing"
      BY <2>4 DEF WorkerPush
    <3>2. workerJob[w] \in found /\ workerJob[w] \in probed /\ workerJob[w] \notin collected
      BY <3>1 DEF Progress, Results, InOrder, InHand
    <3>3. workerJob[w] \in Contract!ProbableJobs(stream)
      BY <3>2 DEF InOrder, InLine, InHand, Taken, JobsOf, JobKinds, Contract!ProbableJobs
    <3>4. Contract!Collect(workerJob[w])
      BY <2>1, <2>4, <3>2 DEF WorkerPush, Contract!Collect
    <3> QED BY <3>3, <3>4 DEF Contract!Next
  <2> QED BY <1>5, <2>2, <2>3, <2>4 DEF Worker
<1>6. CASE CloseResults \/ SignalWorkersDone \/ RuntimeReceive
  BY <1>6 DEF CloseResults, SignalWorkersDone, RuntimeReceive, Contract!vars
<1>7. CASE awaitScannerCompletion
  BY <1>7, DecidedOutcome DEF Contract!Next
<1>8. CASE RuntimeQuiesce
  <2>1. \A w \in Workers : workerPc[w] = "done"
    BY <1>8 DEF RuntimeQuiesce, Reporting, NoSendOnClosedChannel
  <2>2. collected = found
    BY <2>1 DEF Progress, Results
  <2>3. Contract!Quiesce
    BY <1>8, <2>2 DEF RuntimeQuiesce, Contract!Quiesce
  <2> QED BY <2>3 DEF Contract!Next
<1> QED BY <1>1, <1>2, <1>3, <1>4, <1>5, <1>6, <1>7, <1>8 DEF Next

\* The goroutines and channels of scanner.Run keep what its caller is promised
\* (ScannerContract): each job is probed once, each result arrives before the
\* channel closes, and unless the scan was cancelled its completion is that of
\* the first failed line, of a port without a payload or a success, whatever
\* the interleaving (dispatcher.go, scan_completion.go:37-67).
THEOREM ScanKeepsItsContract == Spec => ImplementsContract
<1>1. Init => Contract!Init
  BY DEF Init, Contract!Init
<1> QED BY <1>1, ContractStep, TypingInvariant, ReportingInvariant, ProgressInvariant,
           ExhaustedInvariant, NothingDroppedInvariant, InOrderInvariant, VerdictInvariant, PTL
        DEF Spec, ImplementsContract, Contract!Spec
=============================================================================
