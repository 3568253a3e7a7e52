-------------------------- MODULE ServiceReconcile --------------------------
(***************************************************************************)
(* The pure part of the lifecycle state: what one persisted service record *)
(* holds, when two records compare equal, which changes a complete scan    *)
(* implies and which baseline it leaves behind (state_records.go,          *)
(* state_reconcile.go, the map built by state_promotion.go).               *)
(*                                                                         *)
(* The baseline and the current scan of a scope are maps from service keys *)
(* to records; here they are total functions on Services with Absent for a *)
(* key that is not in the map.  Invalid stands for a stored value that     *)
(* does not decode or validate as a schema-v1 record.                      *)
(***************************************************************************)
CONSTANTS Services,     \* the service keys of a scope (identity hashes)
          Contents,     \* banner, certificate subject and issuer, together
          OSHints,      \* the operating system guesses
          Names,        \* subject alternative names
          Observations, \* what a worker may report: names as a sequence
          Absent,       \* no record under this key
          Invalid       \* a record that fails validation

Records == [status  : {"open", "closed"},
            content : Contents,
            os      : OSHints,
            sans    : SUBSET Names]

OpenRecords == {r \in Records : r.status = "open"}

ASSUME RecordSentinels ==
    /\ Absent \notin Records
    /\ Invalid \notin Records
    /\ Absent # Invalid

ASSUME ObservationShape ==
    \A o \in Observations :
        /\ o.content \in Contents
        /\ o.os \in OSHints
        /\ \A i \in DOMAIN o.sans : o.sans[i] \in Names

\* A map of stored records, and one that a load accepts: the loader fails the
\* whole map on the first invalid value, and a current scan holds open
\* records only.
StoredMaps  == [Services -> Records \cup {Absent, Invalid}]
LoadedMaps  == [Services -> Records \cup {Absent}]
CurrentMaps == [Services -> OpenRecords \cup {Absent}]
NoRecords   == [s \in Services |-> Absent]

loadServiceRecordsOK(stored) == \A s \in Services : stored[s] # Invalid

-----------------------------------------------------------------------------
\* Deduplicated and sorted names: a list in canonical order is its set.
canonicalObservationStrings(names) == {names[i] : i \in DOMAIN names}

serviceRecordFromObservation(o) ==
    [status  |-> "open",
     content |-> o.content,
     os      |-> o.os,
     sans    |-> canonicalObservationStrings(o.sans)]

serviceComparisonEqual(a, b) ==
    /\ a.content = b.content
    /\ a.os = b.os
    /\ a.sans = b.sans

-----------------------------------------------------------------------------
Change(kind, s, previous, current) ==
    [kind |-> kind, service |-> s, previous |-> previous, current |-> current]

\* Mutation: a service observed again counts as changed.
observedChanges_AlwaysChanged(baseline, current) ==
    LET seen == {s \in Services : current[s] # Absent}
    IN  {Change("opened", s, Absent, current[s]) :
            s \in {k \in seen : baseline[k] = Absent}}
        \cup
        {Change("changed", s, baseline[s], current[s]) :
            s \in {k \in seen : baseline[k] # Absent}}

\* The changes of the services observed by the current scan, then those of the
\* services it did not observe.  The code sorts them by service key; a key has
\* one change at most, so the set determines the list.
observedChanges(baseline, current) ==
    LET seen == {s \in Services : current[s] # Absent}
    IN  {Change("opened", s, Absent, current[s]) :
            s \in {k \in seen : baseline[k] = Absent}}
        \cup
        {Change("reopened", s, baseline[s], current[s]) :
            s \in {k \in seen : /\ baseline[k] # Absent
                                /\ baseline[k].status = "closed"}}
        \cup
        {Change("changed", s, baseline[s], current[s]) :
            s \in {k \in seen : /\ baseline[k] # Absent
                                /\ baseline[k].status # "closed"
                                /\ ~serviceComparisonEqual(baseline[k], current[k])}}

\* Mutation: a tombstone is reported closed again.
unobservedChanges_Repeats(baseline, current) ==
    {Change("closed", s, baseline[s], Absent) :
        s \in {k \in Services : current[k] = Absent /\ baseline[k] # Absent}}

unobservedChanges(baseline, current) ==
    {Change("closed", s, baseline[s], Absent) :
        s \in {k \in Services : /\ current[k] = Absent
                                /\ baseline[k] # Absent
                                /\ baseline[k].status # "closed"}}

reconcileServiceRecords(baseline, current) ==
    observedChanges(baseline, current) \cup unobservedChanges(baseline, current)

\* Mutation: an unobserved service leaves no tombstone.
nextBaseline_Forgets(baseline, current) == current

\* The map a promotion writes: the current records, and a closed record for
\* every baseline service the scan did not observe.
nextBaseline(baseline, current) ==
    [s \in Services |->
        IF current[s] # Absent THEN current[s]
        ELSE IF baseline[s] # Absent THEN [baseline[s] EXCEPT !.status = "closed"]
        ELSE Absent]

-----------------------------------------------------------------------------
(***************************************************************************)
(* What a consumer makes of a list of changes: it stores the current       *)
(* record of an opened, changed or reopened service and marks the previous *)
(* record of a closed service closed.                                      *)
(***************************************************************************)
ChangeResult(c) ==
    IF c.kind = "closed" THEN [c.previous EXCEPT !.status = "closed"]
                         ELSE c.current

ApplyChanges(view, changes) ==
    [s \in Services |->
        IF \E c \in changes : c.service = s
        THEN ChangeResult(CHOOSE c \in changes : c.service = s)
        ELSE view[s]]
=============================================================================
