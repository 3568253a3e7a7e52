---------------------------- MODULE MCScanRuntime ----------------------------
(* Two runs over one database; the values of the larger constants. *)
EXTENDS ScanRuntime, TLC

CONSTANTS r1, r2, r3, i1, i2, j1, j2, x, y, n

OneRun     == r1 :> x
OneScope   == r1 :> x @@ r2 :> x
ThreeRuns  == OneScope @@ r3 :> x

Observed1(content, os) == [content |-> content, os |-> os, sans |-> <<n>>]

Http  == Observed1("http", "linux")
Ssh   == Observed1("ssh", "linux")
Mute  == Observed1("none", "no hint")
Blank == Observed1("none", "obfuscated")

MCContents     == {"http", "ssh", "none"}
MCOSHints      == {"linux", "obfuscated", "no hint"}
MCObservations == {Http, Ssh, Mute, Blank}

\* Two services, one probe each.
OneEach == j1 :> 1 @@ j2 :> 2
OneOnly == j1 :> 1

AnyReply    == j1 :> {Http, Ssh} @@ j2 :> {Http}
OneReply    == j1 :> {Http}
SteadyReply == j1 :> {Http} @@ j2 :> {Ssh}
TurnReply   == j1 :> {Http, Mute, Blank}

MCOutcomes == {Completed, Failed("parse_failed")}
Success    == {Completed}

\* The database files the runs are started on: a new one, one of an unknown
\* version, one with a damaged baseline.
MCInit ==
    /\ RInit
    /\ \/ schema \in {"empty", "unsupported"}
       \/ schema = "v1" /\ baseline[x][1] = Invalid

MCSpec     == MCInit /\ [][RNext]_rvars
MCFairSpec == MCSpec /\ \A r \in Runs : WF_rvars(Step(r))

\* Runs that a schedule starts one after the other (a CronJob that forbids
\* overlap and kills only a run it has started), signals aside, so that a
\* service lives through all of its life cycle.
OneAtATime ==
    /\ UNCHANGED cancelled
    /\ \A r \in Runs :
        pc[r] = "start" =>
            /\ pc'[r] # "killed"
            /\ pc'[r] # "start" => \A q \in Runs \ {r} : pc[q] = "start" \/ ~Alive(q)

MCHistorySpec == RInit /\ schema = "empty" /\ [][RNext /\ OneAtATime]_rvars

\* Runs of one scope and scan IDs are interchangeable.
Symmetry == Permutations(Runs) \cup Permutations(ScanIDs)
=============================================================================
