---------------------------- MODULE ServiceLedger ----------------------------
(***************************************************************************)
(* What the lifecycle state promises to whoever reads committed baselines: *)
(* every service of every scope goes through one life cycle,               *)
(*                                                                         *)
(*    (absent) --opened--> open --closed--> closed --reopened--> open      *)
(*                          | ^                                            *)
(*                          changed                                        *)
(*                                                                         *)
(* a commit moves the services of one scope and of no other, a service     *)
(* once known is never forgotten, and closing keeps the last record.  The  *)
(* scans, their identifiers and the schema are not visible here.           *)
(***************************************************************************)
EXTENDS ServiceReconcile

CONSTANT Scopes

VARIABLE ledger \* scope -> service -> its record

Init == ledger \in [Scopes -> [Services -> {Absent, Invalid}]]

Opened(old, new)   == old = Absent /\ new \in OpenRecords
Changed(old, new)  == old \in OpenRecords /\ new \in OpenRecords /\ new # old
Closed(old, new)   == old \in OpenRecords /\ new = [old EXCEPT !.status = "closed"]
Reopened(old, new) == old \in Records \ OpenRecords /\ new \in OpenRecords

Moves(old, new) ==
    \/ Opened(old, new)
    \/ Changed(old, new)
    \/ Closed(old, new)
    \/ Reopened(old, new)
    \/ new = old

\* A scope with a record that does not validate is never committed to.
Commit(sc) ==
    /\ \A s \in Services : ledger[sc][s] # Invalid
    /\ \A s \in Services : Moves(ledger[sc][s], ledger'[sc][s])
    /\ \A other \in Scopes \ {sc} : ledger'[other] = ledger[other]

Next == \E sc \in Scopes : Commit(sc)

Spec == Init /\ [][Next]_ledger
=============================================================================
