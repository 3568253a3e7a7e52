---------------------------- MODULE PreparedTargets ----------------------------
(***************************************************************************)
(* What target preparation promises to the run that asked for it: all or   *)
(* nothing.  Either the run gets the whole list of targets its source      *)
(* names, once, and a scan that replays the list meets exactly those       *)
(* targets, or it gets an error and no list.                               *)
(***************************************************************************)
EXTENDS Naturals, Sequences

CONSTANTS Names,    \* what a kept line of a source names
          Contents  \* the lists of lines a source may hold

VARIABLES outcome,  \* of the preparation
          content,  \* what the source holds, to its end
          scope,    \* the targets the scope identifier is computed from
          replay    \* the targets the scan read

vars == <<outcome, content, scope, replay>>

\* The list has each line that names a target, and no other, in the order of
\* the source: at[i] is the line its i-th target is from.
IsKept(list, lines) ==
    /\ list \in Seq(Names)
    /\ \E at \in [1 .. Len(list) -> 1 .. Len(lines)] :
          /\ \A i, j \in 1 .. Len(list) : i < j => at[i] < at[j]
          /\ \A i \in 1 .. Len(list) : list[i] = lines[at[i]]
          /\ \A k \in 1 .. Len(lines) :
                lines[k] \in Names => \E i \in 1 .. Len(list) : at[i] = k

Init ==
    /\ outcome = "pending"
    /\ content \in Contents
    /\ scope = << >> /\ replay = << >>

Prepare ==
    /\ outcome = "pending"
    /\ outcome' = "ready"
    /\ IsKept(scope', content)
    /\ UNCHANGED <<content, replay>>

Fail ==
    /\ outcome = "pending"
    /\ outcome' = "failed"
    /\ UNCHANGED <<content, scope, replay>>

Replay ==
    /\ outcome = "ready"
    /\ outcome' = "replayed"
    /\ replay' = scope
    /\ UNCHANGED <<content, scope>>

Spec == Init /\ [][Prepare \/ Fail \/ Replay]_vars
=============================================================================
