----------------------- MODULE TargetPreparationProofs -----------------------
(***************************************************************************)
(* Proofs, for any sources and any number of signals, of the safety        *)
(* properties of TargetPreparation, and that it implements                 *)
(* PreparedTargets.                                                        *)
(***************************************************************************)
EXTENDS TargetPreparation, TLAPS

\* Who holds what at which step: the source is open until it is closed once,
\* the spool exists and is open from its creation to the end of its use.
Custody ==
    /\ source = "open" <=> pc \in {"check", "create", "scan", "line", "write", "drained", "close"}
    /\ source = "none" => pc \in {"select", "failed"}
    /\ source = "closed" => pc \in {"seek", "ready", "unused", "replayed", "done", "failed"}
    /\ handle = "open" <=> pc \in {"scan", "line", "write", "drained", "close", "seek",
                                   "ready", "replayed"}
    /\ file => handle = "open" \/ removeErr
    /\ handle = "open" => file

\* What the scan has read is the part of the list before its offset.
ReplaySoFar ==
    /\ pc = "write" => line \in Names
    /\ pc \notin {"ready", "unused", "replayed", "done"} => offset = 0
    /\ Len(replayed) = offset
    /\ \A i \in 1 .. offset : replayed[i] = written[i]
    /\ pc \in {"replayed", "done"} => offset = Len(written)

IInv == TypeOK /\ NothingLeftBehind /\ ScanReplaysTheScope /\ Custody /\ ReplaySoFar

\* A write leaves in the spool nothing but lines that read as targets.
LEMMA SpooledLines ==
    ASSUME written \in Seq(Names \cup {Cut}), line \in Names, written' \in Spooled
    PROVE  written' \in Seq(Names \cup {Cut}) /\ Len(written') \in Nat
<1>1. \A l \in {line, Cut} : Append(written, l) \in Seq(Names \cup {Cut})
  OBVIOUS
<1>2. written' \in Seq(Names \cup {Cut})
  BY <1>1 DEF Spooled
<1> QED BY <1>2

\* Who holds the file and what has been replayed, at every step.
LEMMA InductiveInvariant == Spec => []IInv
<1>1. Init => IInv
  <2> SUFFICES ASSUME Init PROVE IInv
    OBVIOUS
  <2>1. content \in Seq(Lines)
    BY ContentsAreLines DEF Init, Lines
  <2> QED
    <3> USE DEF Init
    <3>1. << >> \in Seq(Names) /\ << >> \in Seq(Names \cup {Cut}) /\ Len(<< >>) = 0
      OBVIOUS
    <3>2. TypeOK
      <4>1. Blank \in Lines /\ content \in Contents
        BY DEF Lines
      <4>2. unread \in Seq(Lines) /\ line \in Lines
        BY <2>1, <4>1
      <4>3. offset \in 0 .. Len(written) /\ closes \in Nat /\ signals \in 0 .. MaxSignals
        BY <3>1, MaxSignalsNat
      <4> QED
        BY <3>1, <4>1, <4>2, <4>3 DEF TypeOK, Steps
    <3>3. NothingLeftBehind /\ Custody
      BY DEF NothingLeftBehind, Closed, Custody
    <3>4. ScanReplaysTheScope /\ ReplaySoFar
      BY <3>1 DEF ScanReplaysTheScope, ReplaySoFar
    <3> QED
      BY <3>2, <3>3, <3>4 DEF IInv
<1>2. IInv /\ [Next]_vars => IInv'
  <2> SUFFICES ASSUME IInv, [Next]_vars PROVE IInv'
    OBVIOUS
  <2> USE MaxSignalsNat, CutReadsAsTarget DEF IInv, TypeOK, Steps, NothingLeftBehind, Closed,
              ScanReplaysTheScope, Custody, ReplaySoFar,
              sourceVars, spoolVars, signalVars
  <2>1. CASE UNCHANGED vars
    BY <2>1 DEF vars
  <2>2. ASSUME fail, UNCHANGED written, handle # "none", UNCHANGED signalVars,
               pc \in {"scan", "line", "write", "drained"}
        PROVE  IInv'
    BY <2>2 DEF fail, CloseSource, ClosePrepared
  <2>3. ASSUME fail, UNCHANGED written, UNCHANGED signalVars, pc \in {"check", "create"}
        PROVE  IInv'
    BY <2>3 DEF fail, CloseSource, ClosePrepared
  <2>4. CASE selectTargetReader
    BY <2>4 DEF selectTargetReader, FetchTargets
  <2>5. CASE CheckContext
    BY <2>3, <2>5 DEF CheckContext
  <2>6. CASE CreateSpool
    <3>1. CASE fail /\ UNCHANGED written
      BY <2>3, <2>6, <3>1 DEF CreateSpool
    <3>2. CASE ~(fail /\ UNCHANGED written)
      BY <2>6, <3>2 DEF CreateSpool
    <3> QED
      BY <3>1, <3>2
  <2>7. CASE Scan
    <3>1. CASE unread # << >> /\ line' = Head(unread) /\ unread' = Tail(unread)
               /\ pc' = "line"
               /\ UNCHANGED <<kind, content, source, closes, spoolVars, signalVars>>
      <4>1. line' \in Lines /\ unread' \in Seq(Lines)
        BY <3>1
      <4> QED
        BY <2>7, <3>1, <4>1 DEF Scan
    <3>2. CASE unread = << >> /\ pc' = "drained" /\ UNCHANGED <<sourceVars, spoolVars, signalVars>>
      BY <2>7, <3>2 DEF Scan
    <3>3. CASE fail /\ UNCHANGED written
      BY <2>2, <2>7, <3>3 DEF Scan
    <3> QED
      BY <2>7, <3>1, <3>2, <3>3 DEF Scan
  <2>8. CASE TakeLine
    <3>1. ASSUME ParseTargetLine(line) PROVE line \in Names
      BY <3>1 DEF ParseTargetLine, Lines
    <3> QED
      BY <2>2, <2>8, <3>1 DEF TakeLine
  <2>9. CASE WriteTarget
    <3> DEFINE torn == fail /\ written' \in Spooled
    <3>1. CASE torn
      <4>1. /\ pc = "write" /\ line \in Names /\ handle = "open" /\ source = "open"
            /\ offset = 0 /\ replayed = << >> /\ UNCHANGED signalVars
        BY <2>9 DEF WriteTarget
      <4>2. written' \in Seq(Names \cup {Cut}) /\ Len(written') \in Nat
        BY <3>1, <4>1, SpooledLines
      <4>3. /\ pc' = "failed" /\ source' = "closed" /\ closes' = 1
            /\ handle' = "closed" /\ removeErr' = file' /\ file' \in BOOLEAN
            /\ UNCHANGED <<kind, content, unread, line, targets, offset, replayed, signalVars>>
        BY <3>1, <4>1 DEF fail, CloseSource, ClosePrepared
      <4>4. TypeOK'
        BY <4>1, <4>2, <4>3
      <4>5. NothingLeftBehind' /\ Custody'
        BY <4>3
      <4>6. ScanReplaysTheScope' /\ ReplaySoFar'
        BY <4>1, <4>3
      <4> QED
        BY <4>4, <4>5, <4>6
    <3>2. CASE ~torn
      <4>1. /\ written = targets /\ line \in Names
            /\ Append(written, line) \in Seq(Names) /\ Len(Append(written, line)) = Len(written) + 1
        BY <2>9 DEF WriteTarget
      <4>2. /\ pc = "write" /\ pc' = "scan" /\ offset = 0
            /\ written' = Append(written, line) /\ targets' = written'
            /\ UNCHANGED <<sourceVars, handle, file, offset, replayed, removeErr, signalVars>>
        BY <2>9, <3>2, <4>1 DEF WriteTarget
      <4>3. TypeOK'
        BY <4>1, <4>2
      <4>4. NothingLeftBehind' /\ Custody'
        BY <4>2
      <4>5. ScanReplaysTheScope' /\ ReplaySoFar'
        BY <4>2
      <4> QED
        BY <4>3, <4>4, <4>5
    <3> QED
      BY <3>1, <3>2
  <2>10. CASE Drained
    BY <2>2, <2>10 DEF Drained
  <2>11. CASE CloseDrained
    <3>1. source' = "closed" /\ closes' = 1 /\ source = "open" /\ handle = "open"
      BY <2>11 DEF CloseDrained, CloseSource
    <3>2. CASE pc' = "seek"
      BY <2>11, <3>1, <3>2 DEF CloseDrained
    <3>3. CASE pc' = "failed" /\ ClosePrepared
      <4>1. handle' = "closed" /\ removeErr' = file' /\ file' \in BOOLEAN
        BY <3>1, <3>3 DEF ClosePrepared
      <4> QED
        BY <2>11, <3>1, <3>3, <4>1 DEF CloseDrained
    <3> QED
      BY <2>11, <3>2, <3>3 DEF CloseDrained
  <2>12. CASE SeekStart
    <3>1. CASE pc' = "ready"
      BY <2>12, <3>1 DEF SeekStart
    <3>2. CASE pc' = "failed" /\ ClosePrepared
      <4>1. handle' = "closed" /\ removeErr' = file' /\ file' \in BOOLEAN
        BY <2>12, <3>2 DEF SeekStart, ClosePrepared
      <4> QED
        BY <2>12, <3>2, <4>1 DEF SeekStart
    <3> QED
      BY <2>12, <3>1, <3>2 DEF SeekStart
  <2>13. CASE ReplayLine
    <3>1. written = targets /\ written[offset + 1] \in Names
      BY <2>13 DEF ReplayLine
    <3>2. replayed' = Append(replayed, written[offset + 1])
      BY <2>13, <3>1 DEF ReplayLine, ParseTargetLine
    <3>3. /\ replayed' \in Seq(Names)
          /\ Len(replayed') = offset + 1
          /\ \A i \in 1 .. offset + 1 : replayed'[i] = written[i]
      <4>1. replayed \in Seq(Names) /\ Len(replayed) = offset /\ offset \in Nat
        OBVIOUS
      <4>2. /\ Append(replayed, written[offset + 1]) \in Seq(Names)
            /\ Len(Append(replayed, written[offset + 1])) = offset + 1
            /\ \A i \in 1 .. offset :
                  Append(replayed, written[offset + 1])[i] = replayed[i]
            /\ Append(replayed, written[offset + 1])[offset + 1] = written[offset + 1]
        BY <3>1, <4>1
      <4> QED
        BY <3>2, <4>1, <4>2
    <3> QED
      BY <2>13, <3>3 DEF ReplayLine
  <2>14. CASE ReplayEnd
    BY <2>14 DEF ReplayEnd
  <2>15. CASE Finish
    BY <2>15 DEF Finish, ClosePrepared
  <2>16. CASE Signal
    BY <2>16 DEF Signal
  <2>17. CASE CancelOnSignal
    BY <2>17 DEF CancelOnSignal
  <2>18. CASE Ended
    BY <2>18 DEF Ended, vars
  <2> QED
    BY <2>1, <2>4, <2>5, <2>6, <2>7, <2>8, <2>9, <2>10, <2>11, <2>12, <2>13, <2>14, <2>15,
       <2>16, <2>17, <2>18
       DEF Next, Prepare
<1> QED
  BY <1>1, <1>2, PTL DEF Spec

\* Only targets reach the spool and the list of target_preparation.go, and the
\* replay never runs past the end of the spool (TypeOK).
THEOREM TypeInvariant == Spec => []TypeOK
BY InductiveInvariant, PTL DEF IInv

\* Whatever fails in target_preparation.go, and wherever, the source is closed
\* exactly once, the spool is closed, and a file that stays behind is reported.
THEOREM NothingLeftBehindTheorem == Spec => []NothingLeftBehind
BY InductiveInvariant, PTL DEF IInv

\* A spool that a failed write of target_preparation.go left with more than the
\* target list is closed unread; from any other the scan reads exactly the
\* targets the scope identifier is computed from, for every source and however
\* often the lines repeat.
THEOREM ScanReplaysTheScopeTheorem == Spec => []ScanReplaysTheScope
BY InductiveInvariant, PTL DEF IInv

-----------------------------------------------------------------------------
(* The list is the source's, so that the preparation implements            *)
(* PreparedTargets.                                                        *)

\* list has the targets among the first n lines of the source.
KeptBefore(list, n) ==
    \E at \in [1 .. Len(list) -> 1 .. n] :
       /\ \A i, j \in 1 .. Len(list) : i < j => at[i] < at[j]
       /\ \A i \in 1 .. Len(list) : list[i] = content[at[i]]
       /\ \A k \in 1 .. n : content[k] \in Names => \E i \in 1 .. Len(list) : at[i] = k

\* The lines the scanner has passed: those it has read, but the one in hand.
Passed == Len(content) - Len(unread) - (IF pc \in {"line", "write"} THEN 1 ELSE 0)

\* Until it fails, the preparation has listed the targets of the lines it has
\* passed; the source is at its end when the list is used.
ReadSoFar ==
    /\ content \in Seq(Lines) /\ Passed \in Nat
    /\ \A i \in 1 .. Len(unread) : unread[i] = content[Len(content) - Len(unread) + i]
    /\ pc \in {"line", "write"} => line = content[Passed + 1]
    /\ pc \in {"select", "check", "create"} => targets = << >> /\ Passed = 0
    /\ pc # "failed" => KeptBefore(targets, Passed)
    /\ pc \in {"drained", "close", "seek", "ready", "unused", "replayed", "done"} => unread = << >>

\* One line more of the source: the list grows by it exactly if it names a target.
LEMMA KeptNext ==
    ASSUME NEW list \in Seq(Names), NEW n \in Nat, KeptBefore(list, n)
    PROVE  /\ content[n + 1] \notin Names => KeptBefore(list, n + 1)
           /\ content[n + 1] \in Names => KeptBefore(Append(list, content[n + 1]), n + 1)
<1>1. PICK at \in [1 .. Len(list) -> 1 .. n] :
          /\ \A i, j \in 1 .. Len(list) : i < j => at[i] < at[j]
          /\ \A i \in 1 .. Len(list) : list[i] = content[at[i]]
          /\ \A k \in 1 .. n : content[k] \in Names => \E i \in 1 .. Len(list) : at[i] = k
  BY DEF KeptBefore
<1>2. ASSUME content[n + 1] \notin Names PROVE KeptBefore(list, n + 1)
  <2>1. at \in [1 .. Len(list) -> 1 .. n + 1]
    OBVIOUS
  <2>2. \A k \in 1 .. n + 1 : content[k] \in Names => \E i \in 1 .. Len(list) : at[i] = k
    BY <1>1, <1>2
  <2> QED
    BY <1>1, <2>1, <2>2 DEF KeptBefore
<1>3. ASSUME content[n + 1] \in Names
      PROVE  KeptBefore(Append(list, content[n + 1]), n + 1)
  <2> DEFINE more == Append(list, content[n + 1])
             next == [i \in 1 .. Len(list) + 1 |-> IF i = Len(list) + 1 THEN n + 1 ELSE at[i]]
  <2>1. /\ Len(more) = Len(list) + 1
        /\ \A i \in 1 .. Len(list) : more[i] = list[i]
        /\ more[Len(list) + 1] = content[n + 1]
    BY <1>3
  <2>2. Len(list) \in Nat
    OBVIOUS
  <2>3. next \in [1 .. Len(more) -> 1 .. n + 1]
    BY <2>1, <2>2
  <2>4. /\ \A i \in 1 .. Len(list) : next[i] = at[i]
        /\ next[Len(list) + 1] = n + 1
    BY <2>2
  <2> HIDE DEF more, next
  <2>5. \A i, j \in 1 .. Len(more) : i < j => next[i] < next[j]
    BY <1>1, <2>1, <2>2, <2>4
  <2>6. \A i \in 1 .. Len(more) : more[i] = content[next[i]]
    BY <1>1, <2>1, <2>2, <2>4
  <2>7. \A k \in 1 .. n + 1 : content[k] \in Names => \E i \in 1 .. Len(more) : next[i] = k
    <3> SUFFICES ASSUME NEW k \in 1 .. n + 1, content[k] \in Names
                 PROVE  \E i \in 1 .. Len(more) : next[i] = k
      OBVIOUS
    <3>1. CASE k = n + 1
      BY <2>1, <2>2, <2>4, <3>1
    <3>2. CASE k # n + 1
      <4>1. PICK i \in 1 .. Len(list) : at[i] = k
        BY <1>1, <3>2
      <4> QED
        BY <2>1, <2>2, <2>4, <4>1
    <3> QED
      BY <3>1, <3>2
  <2>8. KeptBefore(more, n + 1)
    BY <2>3, <2>5, <2>6, <2>7 DEF KeptBefore
  <2> QED
    BY <2>8 DEF more
<1> QED
  BY <1>2, <1>3

\* A failure leaves what was read as it is.
LEMMA FailureEndsReading ==
    ASSUME ReadSoFar, TypeOK, pc' = "failed", UNCHANGED <<content, unread, line>>
    PROVE  ReadSoFar'
<1>1. Passed' \in Nat
  BY DEF ReadSoFar, Passed, TypeOK
<1> QED
  BY <1>1 DEF ReadSoFar

\* A step that reads nothing keeps the list of what was read.
LEMMA IdleReading ==
    ASSUME ReadSoFar, UNCHANGED <<content, unread, targets>>,
           pc \notin {"line", "write", "failed"}, pc' \notin {"line", "write", "failed"},
           pc' \in {"check", "create"} => pc \in {"select", "check", "create"},
           pc' # "select",
           pc' \in {"drained", "close", "seek", "ready", "unused", "replayed", "done"}
              => unread = << >>
    PROVE  ReadSoFar'
<1>1. Passed' = Passed
  BY DEF Passed
<1>2. KeptBefore(targets, Passed)' = KeptBefore(targets, Passed)
  BY <1>1 DEF KeptBefore
<1> QED
  BY <1>1, <1>2 DEF ReadSoFar

\* No step loses a target or makes one up.
LEMMA ReadSoFarStep ==
    ASSUME IInv, ReadSoFar, [Next]_vars PROVE ReadSoFar'
<1> USE DEF sourceVars, spoolVars, signalVars
<1>0. TypeOK /\ (pc = "write" => line \in Names)
  BY DEF IInv, ReplaySoFar
<1>a. ASSUME UNCHANGED <<pc, content, unread, line, targets>> PROVE ReadSoFar'
  <2>1. Passed' = Passed
    BY <1>a DEF Passed
  <2>2. KeptBefore(targets, Passed)' = KeptBefore(targets, Passed)
    BY <1>a, <2>1 DEF KeptBefore
  <2> QED
    BY <1>a, <2>1, <2>2 DEF ReadSoFar
<1>b. ASSUME fail PROVE ReadSoFar'
  BY <1>0, <1>b, FailureEndsReading DEF fail
<1>1. CASE UNCHANGED vars
  BY <1>1, <1>a DEF vars
<1>2. CASE selectTargetReader
  <2>1. /\ pc = "select" /\ pc' \in {"check", "failed"}
        /\ UNCHANGED <<content, unread, line, targets>>
    BY <1>2 DEF selectTargetReader, FetchTargets
  <2> QED
    BY <1>0, <2>1, FailureEndsReading, IdleReading
<1>3. CASE CheckContext
  BY <1>3, <1>b, IdleReading DEF CheckContext
<1>4. CASE CreateSpool
  BY <1>4, <1>b, IdleReading DEF CreateSpool
<1>5. CASE Scan
  <2>1. CASE /\ unread # << >>
             /\ line' = Head(unread) /\ unread' = Tail(unread) /\ pc = "scan" /\ pc' = "line"
             /\ UNCHANGED <<content, targets>>
    <3>1. /\ unread \in Seq(Lines) /\ Len(unread) \in Nat /\ Len(unread) >= 1
          /\ Len(unread') = Len(unread) - 1
          /\ \A i \in 1 .. Len(unread') : unread'[i] = unread[i + 1]
          /\ line' = unread[1]
      BY <1>0, <2>1 DEF TypeOK
    <3>2. content \in Seq(Lines) /\ Len(content) \in Nat /\ Passed = Len(content) - Len(unread)
      BY <2>1 DEF ReadSoFar, Passed
    <3>3. Passed' = Passed /\ Passed \in Nat
      BY <2>1, <3>1, <3>2 DEF Passed, ReadSoFar
    <3>4. KeptBefore(targets, Passed)'
      BY <2>1, <3>3 DEF KeptBefore, ReadSoFar
    <3>5. \A i \in 1 .. Len(unread') : unread'[i] = content[Len(content) - Len(unread') + i]
      BY <3>1, <3>2 DEF ReadSoFar
    <3>6. line' = content[Passed + 1]
      BY <3>1, <3>2 DEF ReadSoFar
    <3> QED
      BY <2>1, <3>2, <3>3, <3>4, <3>5, <3>6 DEF ReadSoFar
  <2>2. CASE /\ unread = << >> /\ pc = "scan" /\ pc' = "drained"
             /\ UNCHANGED <<content, unread, targets>>
    BY <2>2, IdleReading
  <2> QED
    BY <1>5, <1>b, <2>1, <2>2 DEF Scan
<1>6. CASE TakeLine
  <2>1. CASE /\ ~cancelled /\ line \in Names /\ pc = "line" /\ pc' = "write"
             /\ UNCHANGED <<content, unread, line, targets>>
    <3>1. Passed' = Passed
      BY <2>1 DEF Passed
    <3>2. KeptBefore(targets, Passed)' = KeptBefore(targets, Passed)
      BY <2>1, <3>1 DEF KeptBefore
    <3> QED
      BY <2>1, <3>1, <3>2 DEF ReadSoFar
  <2>2. CASE /\ ~cancelled /\ line \notin Names /\ pc = "line" /\ pc' = "scan"
             /\ UNCHANGED <<content, unread, line, targets>>
    <3>1. Passed' = Passed + 1 /\ Passed \in Nat
      BY <1>0, <2>2 DEF Passed, ReadSoFar, TypeOK
    <3>2. targets \in Seq(Names) /\ KeptBefore(targets, Passed) /\ content[Passed + 1] \notin Names
      BY <1>0, <2>2 DEF ReadSoFar, TypeOK
    <3>3. KeptBefore(targets, Passed + 1)
      BY <3>1, <3>2, KeptNext
    <3>4. KeptBefore(targets, Passed)'
      BY <2>2, <3>1, <3>3 DEF KeptBefore
    <3> QED
      BY <2>2, <3>1, <3>4 DEF ReadSoFar
  <2>3. ParseTargetLine(line) <=> line \in Names
    BY <1>0, <1>6, CutReadsAsTarget DEF TakeLine, TypeOK, Lines, ParseTargetLine
  <2> QED
    BY <1>6, <1>b, <2>1, <2>2, <2>3 DEF TakeLine
<1>7. CASE WriteTarget
  <2>1. CASE /\ pc = "write" /\ pc' = "scan" /\ targets' = Append(targets, line)
             /\ UNCHANGED <<content, unread, line>>
    <3>1. Passed' = Passed + 1 /\ Passed \in Nat
      BY <1>0, <2>1 DEF Passed, ReadSoFar, TypeOK
    <3>2. /\ targets \in Seq(Names) /\ KeptBefore(targets, Passed)
          /\ line = content[Passed + 1] /\ content[Passed + 1] \in Names
      BY <1>0, <2>1 DEF ReadSoFar, TypeOK
    <3>3. KeptBefore(Append(targets, line), Passed + 1)
      BY <3>1, <3>2, KeptNext
    <3>4. KeptBefore(targets, Passed)'
      BY <2>1, <3>1, <3>3 DEF KeptBefore
    <3> QED
      BY <2>1, <3>1, <3>4 DEF ReadSoFar
  <2> QED
    BY <1>7, <1>b, <2>1 DEF WriteTarget
<1>8. CASE Drained
  BY <1>8, <1>b, IdleReading DEF Drained, ReadSoFar
<1>9. CASE CloseDrained
  <2>1. /\ pc = "close" /\ pc' \in {"seek", "failed"}
        /\ UNCHANGED <<content, unread, line, targets>>
    BY <1>9 DEF CloseDrained
  <2> QED
    BY <1>0, <2>1, FailureEndsReading, IdleReading DEF ReadSoFar
<1>10. CASE SeekStart
  <2>1. /\ pc = "seek" /\ pc' \in {"ready", "failed"}
        /\ UNCHANGED <<content, unread, line, targets>>
    BY <1>10 DEF SeekStart
  <2> QED
    BY <1>0, <2>1, FailureEndsReading, IdleReading DEF ReadSoFar
<1>11. CASE ReplayLine
  BY <1>11, <1>a DEF ReplayLine
<1>12. CASE ReplayEnd
  BY <1>12, IdleReading DEF ReplayEnd, ReadSoFar
<1>13. CASE Finish
  <2>1. /\ pc \in {"ready", "replayed"} /\ pc' \in {"unused", "done"}
        /\ UNCHANGED <<content, unread, line, targets>>
    BY <1>13 DEF Finish
  <2> QED
    BY <2>1, IdleReading DEF ReadSoFar
<1>14. CASE Signal \/ CancelOnSignal \/ Ended
  BY <1>14, <1>a DEF Signal, CancelOnSignal, Ended, vars
<1> QED
  BY <1>1, <1>2, <1>3, <1>4, <1>5, <1>6, <1>7, <1>8, <1>9, <1>10, <1>11, <1>12, <1>13, <1>14
     DEF Next, Prepare

\* The list has the targets of the part of the source that was read.
LEMMA ReadingInvariant == Spec => []ReadSoFar
<1>1. Init => ReadSoFar
  <2> SUFFICES ASSUME Init PROVE ReadSoFar
    OBVIOUS
  <2>1. content \in Seq(Lines) /\ Len(content) \in Nat /\ unread = content /\ pc = "select"
    BY ContentsAreLines DEF Init, Lines
  <2>2. Passed = 0 /\ targets = << >>
    <3>1. Passed = Len(content) - Len(content) - 0
      BY <2>1 DEF Passed
    <3> QED
      BY <2>1, <3>1 DEF Init
  <2>3. KeptBefore(<< >>, 0)
    <3> DEFINE at == [i \in 1 .. 0 |-> i]
    <3>1. at \in [1 .. 0 -> 1 .. 0] /\ Len(<< >>) = 0 /\ 1 .. 0 = {}
      OBVIOUS
    <3> HIDE DEF at
    <3>2. at \in [1 .. Len(<< >>) -> 1 .. 0]
      BY <3>1
    <3>3. \A i \in 1 .. Len(<< >>) : FALSE
      BY <3>1
    <3> QED
      BY <3>1, <3>2, <3>3 DEF KeptBefore
  <2> QED
    BY <2>1, <2>2, <2>3 DEF ReadSoFar
<1> QED
  BY <1>1, InductiveInvariant, ReadSoFarStep, PTL DEF Spec

\* A replay that reached the end of the spool is the list.
LEMMA ReplayedIsWritten ==
    ASSUME IInv, pc = "ready", offset = Len(written) PROVE replayed = targets
<1>1. /\ replayed \in Seq(Names) /\ targets \in Seq(Names) /\ written = targets
      /\ Len(replayed) = Len(written)
      /\ \A i \in 1 .. Len(written) : replayed[i] = written[i]
  BY DEF IInv, TypeOK, ScanReplaysTheScope, ReplaySoFar
<1> QED
  BY <1>1

\* Every step is one of the abstract preparation or none of its steps.
LEMMA PreparationStep ==
    ASSUME IInv, ReadSoFar, [Next]_vars
    PROVE  [Abstract!Prepare \/ Abstract!Fail \/ Abstract!Replay]_(Abstract!vars)
<1> DEFINE outcome == CASE pc \in {"ready", "unused"}  -> "ready"
                        [] pc \in {"replayed", "done"} -> "replayed"
                        [] pc = "failed"               -> "failed"
                        [] OTHER                       -> "pending"
           scope   == IF pc \in {"ready", "unused", "replayed", "done"} THEN targets ELSE << >>
           replay  == IF pc \in {"replayed", "done"} THEN replayed ELSE << >>
           early   == {"select", "check", "create", "scan", "line", "write", "drained",
                       "close", "seek"}
<1> USE DEF sourceVars, spoolVars, signalVars
<1>0. content' = content
  BY DEF Next, Prepare, selectTargetReader, FetchTargets, CheckContext, CreateSpool, Scan,
         TakeLine, WriteTarget, Drained, CloseDrained, SeekStart, ReplayLine, ReplayEnd, Finish,
         fail, Signal, CancelOnSignal, Ended, vars
<1>1. \/ pc \in early /\ pc' \in early
      \/ pc \in early /\ pc' = "failed"
      \/ pc = "seek" /\ pc' = "ready" /\ UNCHANGED targets
      \/ pc = "ready" /\ pc' = "replayed" /\ UNCHANGED <<targets, replayed>> /\ offset = Len(written)
      \/ pc = "ready" /\ pc' = "unused" /\ UNCHANGED targets
      \/ pc = "replayed" /\ pc' = "done" /\ UNCHANGED <<targets, replayed>>
      \/ UNCHANGED <<pc, targets>> /\ (pc \in {"replayed", "done"} => UNCHANGED replayed)
  BY DEF Next, Prepare, selectTargetReader, FetchTargets, CheckContext, CreateSpool, Scan,
         TakeLine, WriteTarget, Drained, CloseDrained, SeekStart, ReplayLine, ReplayEnd, Finish,
         fail, Signal, CancelOnSignal, Ended, vars
<1>2. CASE pc \in early /\ pc' \in early
  BY <1>0, <1>2 DEF Abstract!vars
<1>3. CASE pc \in early /\ pc' = "failed"
  BY <1>0, <1>3 DEF Abstract!Fail
<1>4. CASE pc = "seek" /\ pc' = "ready" /\ UNCHANGED targets
  <2>1. targets \in Seq(Names)
    BY DEF IInv, TypeOK
  <2>2. Passed = Len(content) /\ KeptBefore(targets, Passed)
    <3>1. unread = << >> /\ content \in Seq(Lines)
      BY <1>4 DEF ReadSoFar
    <3> QED
      BY <1>4, <3>1 DEF ReadSoFar, Passed
  <2>3. Abstract!IsKept(targets, content)
    BY <2>1, <2>2 DEF Abstract!IsKept, KeptBefore
  <2> QED
    BY <1>0, <1>4, <2>3 DEF Abstract!Prepare
<1>5. CASE pc = "ready" /\ pc' = "replayed" /\ UNCHANGED <<targets, replayed>> /\ offset = Len(written)
  <2>1. replayed = targets
    BY <1>5, ReplayedIsWritten DEF IInv
  <2> QED
    BY <1>0, <1>5, <2>1 DEF Abstract!Replay
<1>6. CASE \/ pc = "ready" /\ pc' = "unused" /\ UNCHANGED targets
           \/ pc = "replayed" /\ pc' = "done" /\ UNCHANGED <<targets, replayed>>
  BY <1>0, <1>6 DEF Abstract!vars
<1>7. CASE UNCHANGED <<pc, targets>> /\ (pc \in {"replayed", "done"} => UNCHANGED replayed)
  BY <1>0, <1>7 DEF Abstract!vars
<1> QED
  BY <1>1, <1>2, <1>3, <1>4, <1>5, <1>6, <1>7

\* target_preparation.go is all or nothing for every source: a run that gets a
\* list gets each target of a source read to its end, in its order, and its
\* scan replays that list; otherwise it gets an error and none.
THEOREM PreparationKeepsItsPromise == Spec => ImplementsPreparedTargets
<1>1. Init => Abstract!Init
  BY DEF Init, Abstract!Init
<1> QED
  BY <1>1, InductiveInvariant, ReadingInvariant, PreparationStep, PTL
     DEF Spec, ImplementsPreparedTargets, Abstract!Spec
=============================================================================
