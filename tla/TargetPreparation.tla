--------------------------- MODULE TargetPreparation ---------------------------
(***************************************************************************)
(* Target preparation (cmd/tcprecon/target_preparation.go) between the     *)
(* choice of a source (main.go) and the replay of the spool by the scanner *)
(* (internal/utils/parser.go), under the signal goroutine of main.  A      *)
(* source is a list of lines and may also break before its end; a line is  *)
(* a target or one of the two lines that are skipped, and the white space  *)
(* around it is left out.  The scanner's read may block: a source delivers *)
(* when it likes.                                                          *)
(***************************************************************************)
EXTENDS Naturals, Sequences

CONSTANTS Names,      \* what a line that is kept names
          Blank,      \* a line of white space
          Comment,    \* a line that starts with a hash sign
          Cut,        \* what a write that fell short has put of a line
          Contents,   \* the lists of lines a source may hold
          MaxSignals  \* bound: interrupts and termination requests sent

ASSUME SkippedLinesNameNothing == {Blank, Comment} \cap Names = {}
ASSUME ContentsAreLines == Contents \subseteq Seq(Names \cup {Blank, Comment})
\* The first bytes of a target: no space and no hash sign, and perhaps the
\* name of another target.
ASSUME CutReadsAsTarget == Cut \notin {Blank, Comment}
ASSUME MaxSignalsNat == MaxSignals \in Nat

\* An argument that is no URL is a source of one line; an argument that is
\* one, and TARGET_URL, are fetched.
SourceKinds == {"argument", "file", "stdin", "http"}

VARIABLES kind,       \* what selectTargetReader chose
          content,    \* the lines the source holds, to its end
          pc,         \* of the run
          unread,     \* the lines the source has not delivered yet
          line,       \* the line the scanner holds
          source,     \* the reader of the source: "none", "open" or "closed"
          closes,     \* how often it was closed
          handle,     \* the open spool file: "none", "open" or "closed"
          file,       \* does the spool file exist
          written,    \* the lines in the spool
          targets,    \* the target list that scope and scan share
          offset,     \* lines of the spool the scan has read
          replayed,   \* the targets the scan has read from the spool
          removeErr,  \* removing the spool file failed, and was reported
          signals,    \* signals sent
          cancelled   \* the context

sourceVars == <<kind, content, source, closes, unread, line>>
spoolVars  == <<handle, file, written, targets, offset, replayed, removeErr>>
signalVars == <<signals, cancelled>>
vars       == <<pc, sourceVars, spoolVars, signalVars>>

Lines == Names \cup {Blank, Comment}

Steps == {"select", "check", "create", "scan", "line", "write", "drained",
          "close", "seek", "failed", "ready", "unused", "replayed", "done"}

TypeOK ==
    /\ kind \in SourceKinds /\ content \in Contents
    /\ pc \in Steps
    /\ unread \in Seq(Lines) /\ line \in Lines
    /\ source \in {"none", "open", "closed"} /\ closes \in Nat
    /\ handle \in {"none", "open", "closed"} /\ file \in BOOLEAN
    /\ written \in Seq(Names \cup {Cut}) /\ targets \in Seq(Names)
    /\ offset \in 0 .. Len(written) /\ replayed \in Seq(Names)
    /\ removeErr \in BOOLEAN
    /\ signals \in 0 .. MaxSignals /\ cancelled \in BOOLEAN

Init ==
    /\ kind \in SourceKinds /\ content \in Contents
    /\ kind = "argument" => Len(content) = 1
    /\ pc = "select"
    /\ unread = content /\ line = Blank
    /\ source = "none" /\ closes = 0
    /\ handle = "none" /\ file = FALSE
    /\ written = << >> /\ targets = << >> /\ offset = 0 /\ replayed = << >>
    /\ removeErr = FALSE
    /\ signals = 0 /\ cancelled = FALSE

-----------------------------------------------------------------------------
(* Choosing the source.                                                    *)

FetchTargets ==
    /\ pc = "select" /\ kind = "http"
    /\ \/ pc' = "failed" /\ UNCHANGED <<source, closes>>   \* no response
       \/ pc' = "failed" /\ source' = "closed" /\ closes' = 1  \* its status is not 200
       \/ ~cancelled /\ pc' = "check" /\ source' = "open" /\ UNCHANGED closes
    /\ UNCHANGED <<kind, content, unread, line, spoolVars, signalVars>>

selectTargetReader ==
    \/ FetchTargets
    \/ /\ pc = "select" /\ kind # "http"
       /\ \/ pc' = "check" /\ source' = "open"
          \/ kind = "file" /\ pc' = "failed" /\ UNCHANGED source
       /\ UNCHANGED <<kind, content, unread, line, closes, spoolVars, signalVars>>

-----------------------------------------------------------------------------
(* Preparing it.                                                           *)

CloseSource == source' = "closed" /\ closes' = closes + 1

\* Closing the spool removes its file, or fails to; only the first call does
\* anything.
ClosePrepared ==
    IF handle = "open"
    THEN /\ handle' = "closed"
         /\ file' \in BOOLEAN
         /\ removeErr' = file'
    ELSE UNCHANGED <<handle, file, removeErr>>

\* Mutation: a failure leaves the source to its finalizer.
fail_KeepsSource ==
    /\ pc' = "failed"
    /\ ClosePrepared
    /\ UNCHANGED <<kind, content, unread, line, source, closes, targets, offset, replayed>>

\* Every error while reading and writing closes both ends; what the spool
\* holds by then is the caller's.
fail ==
    /\ pc' = "failed"
    /\ CloseSource /\ ClosePrepared
    /\ UNCHANGED <<kind, content, unread, line, targets, offset, replayed>>

CheckContext ==
    /\ pc = "check"
    /\ IF cancelled THEN fail /\ UNCHANGED written
       ELSE pc' = "create" /\ UNCHANGED <<sourceVars, spoolVars>>
    /\ UNCHANGED signalVars

CreateSpool ==
    /\ pc = "create"
    /\ \/ fail /\ UNCHANGED written
       \/ /\ pc' = "scan"
          /\ handle' = "open" /\ file' = TRUE
          /\ UNCHANGED <<sourceVars, written, targets, offset, replayed, removeErr>>
    /\ UNCHANGED signalVars

\* Mutation: a source that breaks counts as one that ends.
Scan_IgnoresErr ==
    /\ pc = "scan"
    /\ \/ /\ unread # << >>
          /\ line' = Head(unread) /\ unread' = Tail(unread)
          /\ pc' = "line"
          /\ UNCHANGED <<kind, content, source, closes, spoolVars>>
       \/ /\ pc' = "drained" /\ UNCHANGED <<sourceVars, spoolVars>>
    /\ UNCHANGED signalVars

\* Mutation: the scanner waits for more at the end of the source.
Scan_Follows ==
    /\ pc = "scan"
    /\ \/ /\ unread # << >>
          /\ line' = Head(unread) /\ unread' = Tail(unread)
          /\ pc' = "line"
          /\ UNCHANGED <<kind, content, source, closes, spoolVars>>
       \/ unread = << >> /\ UNCHANGED <<pc, sourceVars, spoolVars>>
       \/ unread # << >> /\ fail /\ UNCHANGED written
    /\ UNCHANGED signalVars

\* The scanner's next line, the end of the source, or its failure (a read
\* error, a line beyond the scanner's buffer, the timeout of the fetch).
\* Nothing here looks at the context.
Scan ==
    /\ pc = "scan"
    /\ \/ /\ unread # << >>
          /\ line' = Head(unread) /\ unread' = Tail(unread)
          /\ pc' = "line"
          /\ UNCHANGED <<kind, content, source, closes, spoolVars>>
       \/ /\ unread = << >>
          /\ pc' = "drained" /\ UNCHANGED <<sourceVars, spoolVars>>
       \/ fail /\ UNCHANGED written
    /\ UNCHANGED signalVars

\* Which lines are targets; replay applies the same rule to the spool.
ParseTargetLine(l) == l \in Names \cup {Cut}

\* Mutation: every line is spooled, as it is.
TakeLine_KeepsAll ==
    /\ pc = "line"
    /\ IF cancelled THEN fail /\ UNCHANGED written
       ELSE pc' = "write" /\ UNCHANGED <<sourceVars, spoolVars>>
    /\ UNCHANGED signalVars

TakeLine ==
    /\ pc = "line"
    /\ IF cancelled THEN fail /\ UNCHANGED written
       ELSE /\ pc' = IF ParseTargetLine(line) THEN "write" ELSE "scan"
            /\ UNCHANGED <<sourceVars, spoolVars>>
    /\ UNCHANGED signalVars

\* What a write of the line may leave in the spool, whether it reports an
\* error, fewer bytes than the line has, or neither.
Spooled == {written} \cup {Append(written, l) : l \in {line, Cut}}

\* Mutation: the target is listed although the write fell short.
WriteTarget_Lenient ==
    /\ pc = "write"
    /\ pc' = "scan"
    /\ written' \in Spooled
    /\ targets' = Append(targets, line)
    /\ UNCHANGED <<sourceVars, handle, file, offset, replayed, removeErr, signalVars>>

\* The write may fail or fall short, with nothing, a part or all of the line
\* in the spool; the target is listed once it is written.
WriteTarget ==
    /\ pc = "write"
    /\ \/ fail /\ written' \in Spooled
       \/ /\ pc' = "scan"
          /\ written' = Append(written, line)
          /\ targets' = Append(targets, line)
          /\ UNCHANGED <<sourceVars, handle, file, offset, replayed, removeErr>>
    /\ UNCHANGED signalVars

Drained ==
    /\ pc = "drained"
    /\ IF cancelled THEN fail /\ UNCHANGED written
       ELSE pc' = "close" /\ UNCHANGED <<sourceVars, spoolVars>>
    /\ UNCHANGED signalVars

\* The end of the source is closed before the list is used; arguments and
\* standard input cannot fail to close.
CloseDrained ==
    /\ pc = "close"
    /\ CloseSource
    /\ \/ /\ pc' = "seek"
          /\ UNCHANGED spoolVars
       \/ /\ kind \in {"file", "http"}
          /\ pc' = "failed"
          /\ ClosePrepared
          /\ UNCHANGED <<written, targets, offset, replayed>>
    /\ UNCHANGED <<kind, content, unread, line, signalVars>>

SeekStart ==
    /\ pc = "seek"
    /\ \/ pc' = "ready" /\ UNCHANGED spoolVars
       \/ /\ pc' = "failed"
          /\ ClosePrepared
          /\ UNCHANGED <<written, targets, offset, replayed>>
    /\ UNCHANGED <<sourceVars, signalVars>>

-----------------------------------------------------------------------------
(* Using it: the scan replays the spool line by line and the run closes it *)
(* after the scan, which an interrupt or an earlier error may end anywhere. *)

ReplayLine ==
    /\ pc = "ready" /\ offset < Len(written)
    /\ offset' = offset + 1
    /\ replayed' = IF ParseTargetLine(written[offset + 1])
                   THEN Append(replayed, written[offset + 1]) ELSE replayed
    /\ UNCHANGED <<pc, sourceVars, handle, file, written, targets, removeErr, signalVars>>

ReplayEnd ==
    /\ pc = "ready" /\ offset = Len(written)
    /\ pc' = "replayed"
    /\ UNCHANGED <<sourceVars, spoolVars, signalVars>>

Finish ==
    /\ pc \in {"ready", "replayed"}
    /\ pc' = IF pc = "ready" THEN "unused" ELSE "done"
    /\ ClosePrepared
    /\ UNCHANGED <<sourceVars, written, targets, offset, replayed, signalVars>>

-----------------------------------------------------------------------------
\* The channel holds one signal and the goroutine takes one and ends, so that
\* later signals do nothing, not even end the program.
Signal ==
    /\ signals < MaxSignals
    /\ signals' = signals + 1
    /\ UNCHANGED <<pc, sourceVars, spoolVars, cancelled>>

CancelOnSignal ==
    /\ signals > 0 /\ ~cancelled
    /\ cancelled' = TRUE
    /\ UNCHANGED <<pc, sourceVars, spoolVars, signals>>

Closed == pc \in {"failed", "unused", "done"}

Ended == Closed /\ UNCHANGED vars

Prepare ==
    \/ selectTargetReader
    \/ CheckContext \/ CreateSpool
    \/ Scan \/ TakeLine \/ WriteTarget \/ Drained
    \/ CloseDrained \/ SeekStart
    \/ ReplayLine \/ ReplayEnd \/ Finish

Next == Prepare \/ Signal \/ CancelOnSignal \/ Ended

Spec == Init /\ [][Next]_vars

\* The scheduler runs the goroutines.  A file, an argument and a fetched body
\* (ten seconds for all of it) deliver or fail; standard input belongs to
\* whoever holds the other end of the pipe.
Blocking == pc = "scan" /\ kind = "stdin"

CodeSpec ==
    Spec /\ WF_vars(~Blocking /\ Prepare) /\ WF_vars(CancelOnSignal)

\* A writer at the other end that goes on writing and closes.
FairSpec == CodeSpec /\ WF_vars(Prepare)

-----------------------------------------------------------------------------
\* Whatever fails, and wherever, the source was closed exactly once if it was
\* opened, the spool is closed, and a spool file that is still there was
\* reported.  A prepared run has closed its source once and holds its spool.
NothingLeftBehind ==
    /\ Closed =>
          /\ source # "open" /\ handle # "open"
          /\ file => removeErr
    /\ closes = IF source = "closed" THEN 1 ELSE 0
    /\ pc \in {"ready", "replayed"} => source = "closed" /\ handle = "open" /\ file

\* The scope identifier and the scan are computed from one list.  A write that
\* failed may have left the spool with a line, or the first bytes of one, that
\* the target list does not have: such a spool is closed and no line of it is
\* read.  A scan that gets to its end has read each target of the list in its
\* place.
ScanReplaysTheScope ==
    /\ written # targets => pc = "failed" /\ handle = "closed" /\ replayed = << >>
    /\ pc \in {"replayed", "done"} => replayed = targets

\* Preparation is all or nothing: a run that gets a list gets every target of
\* a source that was read to its end, once, and the scan replays exactly that
\* list; a source that breaks, a write that falls short and an interrupt give
\* an error and no list.
Abstract == INSTANCE PreparedTargets WITH
    outcome <- CASE pc \in {"ready", "unused"}  -> "ready"
                 [] pc \in {"replayed", "done"} -> "replayed"
                 [] pc = "failed"               -> "failed"
                 [] OTHER                       -> "pending",
    scope   <- IF pc \in {"ready", "unused", "replayed", "done"} THEN targets ELSE << >>,
    replay  <- IF pc \in {"replayed", "done"} THEN replayed ELSE << >>

ImplementsPreparedTargets == Abstract!Spec

\* Every run ends its preparation, closed, when its source is written to its
\* end.
PreparationEnds == <>Closed
=============================================================================
