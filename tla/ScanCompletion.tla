--------------------------- MODULE ScanCompletion ---------------------------
(***************************************************************************)
(* The completion record of one scan: how the scanner classifies the way a *)
(* scan ended (internal/scanner/scan_completion.go) and how the runtime    *)
(* folds a failure of its own into it (cmd/tcprecon/main.go).  An error    *)
(* value is abstracted to whether it is nil; a completion is one of the    *)
(* status strings of the code ("" is the zero value) and that flag.        *)
(***************************************************************************)

ScanStatuses == {"completed", "cancelled", "resolution_failed", "parse_failed",
                 "worker_failed", "state_failed", ""}

ScanCompletions == [status : ScanStatuses, failed : BOOLEAN]

\* The error a producer may end with: none, the context's cancellation, a
\* target that does not parse, a name that does not resolve, any other error.
ProducerErrors == {"nil", "canceled", "target_parse", "target_resolution",
                   "other"}

Completed == [status |-> "completed", failed |-> FALSE]

Failed(status) == [status |-> status, failed |-> TRUE]

\* Only a completion with the completed status and no error may touch the
\* committed baseline.
Successful(c) == c.status = "completed" /\ ~c.failed

scanCompletionFromProducerError(err) ==
    CASE err = "nil"               -> Completed
      [] err = "canceled"          -> Failed("cancelled")
      [] err = "target_parse"      -> Failed("parse_failed")
      [] err = "target_resolution" -> Failed("resolution_failed")
      [] OTHER                     -> Failed("")

\* A state failure turns a success into state_failed and otherwise only joins
\* its error to the status the scanner had already given.
finalizeScanCompletion(c, stateFailed) ==
    IF ~stateFailed
    THEN c
    ELSE Failed(IF Successful(c) THEN "state_failed" ELSE c.status)
=============================================================================
