-------------------------- MODULE StateManagerProofs ---------------------------
(***************************************************************************)
(* Proofs, for any services, batch size and number of results, about       *)
(* StateManager, and about the four parts side by side.                    *)
(***************************************************************************)
EXTENDS MCParts, ProbeProofs

-----------------------------------------------------------------------------
(* The last element for a key.                                             *)

\* A bounded set of positions has a last one.
LEMMA LastOne ==
    ASSUME NEW n \in Nat, NEW S, S \subseteq 1 .. n, S # {}
    PROVE  \E i \in S : \A j \in S : j <= i
<1> DEFINE After == {n - i : i \in S}
<1>1. After \subseteq Nat /\ After # {}
  <2>1. \A i \in S : n - i \in Nat
    OBVIOUS
  <2>2. \E i \in S : n - i \in After
    OBVIOUS
  <2> QED BY <2>1, <2>2
<1>2. PICK t \in After : \A k \in After : ~ (<<k, t>> \in OpToRel(<, Nat))
  BY <1>1, WFMin, NatLessThanWellFounded, Zenon
<1> HIDE DEF After
<1>3. \A k \in After : ~ (k < t)
  BY <1>1, <1>2, Zenon DEF OpToRel
<1>4. PICK i \in S : t = n - i
  BY DEF After
<1>5. \A j \in S : n - j \in After
  BY DEF After
<1>6. \A j \in S : j <= i
  BY <1>3, <1>4, <1>5
<1> QED BY <1>6

\* Latest is the payload at the last position of a key.
LEMMA LatestIs ==
    ASSUME NEW s, NEW key, NEW before, DOMAIN s \subseteq Nat,
           NEW i \in DOMAIN s, s[i].key = key,
           \A j \in DOMAIN s : s[j].key = key => j <= i
    PROVE  Latest(s, key, before) = s[i].payload
<1> DEFINE at == {j \in DOMAIN s : s[j].key = key}
<1>1. i \in at /\ \A j \in at : j <= i
  OBVIOUS
<1>2. ASSUME NEW k \in at, \A j \in at : j <= k
      PROVE  k = i
  BY <1>1, <1>2
<1>3. (CHOOSE k \in at : \A j \in at : j <= k) = i
  BY <1>1, <1>2
<1> QED BY <1>1, <1>3 DEF Latest

\* Latest without an element for the key is what there was.
LEMMA LatestIsNone ==
    ASSUME NEW s, NEW key, NEW before, \A j \in DOMAIN s : s[j].key # key
    PROVE  Latest(s, key, before) = before
BY DEF Latest

\* A key that occurs has a last position.
LEMMA SomeLatest ==
    ASSUME NEW S, NEW s \in Seq(S), NEW key, \E j \in DOMAIN s : s[j].key = key
    PROVE  \E i \in DOMAIN s : /\ s[i].key = key
                               /\ \A j \in DOMAIN s : s[j].key = key => j <= i
<1> DEFINE at == {j \in DOMAIN s : s[j].key = key}
<1>1. Len(s) \in Nat /\ at \in SUBSET (1 .. Len(s)) /\ at # {}
  OBVIOUS
<1>2. PICK i \in at : \A j \in at : j <= i
  BY <1>1, LastOne
<1> QED BY <1>2

\* Latest of a sequence that grew at its end.
LEMMA LatestOfAppend ==
    ASSUME NEW S, NEW s \in Seq(S), NEW r \in S, NEW key, NEW before
    PROVE  Latest(Append(s, r), key, before) =
               IF r.key = key THEN r.payload ELSE Latest(s, key, before)
<1> DEFINE t == Append(s, r)
<1>1. /\ DOMAIN t = 1 .. Len(s) + 1 /\ DOMAIN s = 1 .. Len(s) /\ Len(s) \in Nat
      /\ t[Len(s) + 1] = r /\ \A j \in 1 .. Len(s) : t[j] = s[j]
  OBVIOUS
<1> HIDE DEF t
<1>2. CASE r.key = key
  <2>1. /\ DOMAIN t \subseteq Nat /\ Len(s) + 1 \in DOMAIN t
        /\ \A j \in DOMAIN t : j <= Len(s) + 1
    BY <1>1
  <2>2. t[Len(s) + 1].key = key
    BY <1>1, <1>2
  <2>3. \A j \in DOMAIN t : t[j].key = key => j <= Len(s) + 1
    BY <2>1
  <2>4. Latest(t, key, before) = t[Len(s) + 1].payload
    BY <2>1, <2>2, <2>3, LatestIs, Zenon
  <2> QED BY <1>1, <1>2, <2>4 DEF t
<1>3. CASE r.key # key /\ \E j \in DOMAIN s : s[j].key = key
  <2>1. PICK i \in DOMAIN s : /\ s[i].key = key
                              /\ \A j \in DOMAIN s : s[j].key = key => j <= i
    BY <1>3, SomeLatest
  <2>2. i \in DOMAIN t /\ t[i] = s[i] /\ DOMAIN s \subseteq Nat /\ DOMAIN t \subseteq Nat
    BY <1>1
  <2>3. \A j \in DOMAIN t : t[j].key = key => j <= i
    BY <1>1, <1>3, <2>1
  <2>4. Latest(t, key, before) = t[i].payload /\ Latest(s, key, before) = s[i].payload
    BY <2>1, <2>2, <2>3, LatestIs
  <2> QED BY <1>3, <2>2, <2>4 DEF t
<1>4. CASE r.key # key /\ ~ \E j \in DOMAIN s : s[j].key = key
  <2>1. \A j \in DOMAIN t : t[j].key # key
    BY <1>1, <1>4
  <2>2. Latest(t, key, before) = before /\ Latest(s, key, before) = before
    BY <1>4, <2>1, LatestIsNone, Zenon
  <2> QED BY <1>4, <2>2 DEF t
<1> QED BY <1>2, <1>3, <1>4

\* Latest of a sequence that shrank at its front.
LEMMA LatestOfTail ==
    ASSUME NEW S, NEW s \in Seq(S), s # << >>, NEW key, NEW before
    PROVE  Latest(s, key, before) =
               Latest(Tail(s), key, IF Head(s).key = key THEN Head(s).payload ELSE before)
<1> DEFINE t == Tail(s)
           first == IF Head(s).key = key THEN Head(s).payload ELSE before
<1>1. /\ DOMAIN s = 1 .. Len(s) /\ Len(s) \in Nat /\ Len(s) > 0 /\ Head(s) = s[1]
      /\ t \in Seq(S) /\ DOMAIN t = 1 .. Len(s) - 1
      /\ \A j \in 1 .. Len(s) - 1 : t[j] = s[j + 1]
  OBVIOUS
<1> HIDE DEF t
<1>2. CASE \E j \in DOMAIN t : t[j].key = key
  <2>1. PICK i \in DOMAIN t : /\ t[i].key = key
                              /\ \A j \in DOMAIN t : t[j].key = key => j <= i
    BY <1>1, <1>2, SomeLatest
  <2>2. i + 1 \in DOMAIN s /\ s[i + 1] = t[i] /\ DOMAIN s \subseteq Nat /\ DOMAIN t \subseteq Nat
    BY <1>1
  <2>3. ASSUME NEW j \in DOMAIN s, s[j].key = key PROVE j <= i + 1
    <3>1. CASE j = 1
      BY <1>1, <3>1
    <3>2. CASE j # 1
      <4>1. j - 1 \in DOMAIN t /\ t[j - 1] = s[j]
        BY <1>1, <3>2
      <4> QED BY <1>1, <2>1, <2>3, <4>1
    <3> QED BY <3>1, <3>2
  <2>4. Latest(t, key, first) = t[i].payload
    BY <2>1, <2>2, LatestIs
  <2>5. Latest(s, key, before) = s[i + 1].payload
    BY <2>1, <2>2, <2>3, LatestIs
  <2> QED BY <2>2, <2>4, <2>5 DEF t
<1>3. CASE ~ \E j \in DOMAIN t : t[j].key = key
  <2>1. Latest(t, key, first) = first
    BY <1>3, LatestIsNone
  <2>2. \A j \in DOMAIN s : s[j].key = key => j = 1
    <3> SUFFICES ASSUME NEW j \in DOMAIN s, s[j].key = key, j # 1 PROVE FALSE
      OBVIOUS
    <3>1. j - 1 \in DOMAIN t /\ t[j - 1] = s[j]
      BY <1>1
    <3> QED BY <1>3, <3>1
  <2>3. CASE Head(s).key = key
    <3>1. 1 \in DOMAIN s /\ s[1].key = key /\ DOMAIN s \subseteq Nat
      BY <1>1, <2>3
    <3>2. Latest(s, key, before) = s[1].payload
      BY <2>2, <3>1, LatestIs
    <3> QED BY <1>1, <2>1, <2>3, <3>2 DEF t
  <2>4. CASE Head(s).key # key
    <3>1. \A j \in DOMAIN s : s[j].key # key
      BY <1>1, <2>2, <2>4
    <3>2. Latest(s, key, before) = before
      BY <3>1, LatestIsNone
    <3> QED BY <2>1, <2>4, <3>2 DEF t
  <2> QED BY <2>3, <2>4
<1> QED BY <1>2, <1>3
-----------------------------------------------------------------------------
(* The history of a bucket.                                                *)

\* A delta more that is new to the bucket makes the history of the next one.
LEMMA HistoryGoesOn ==
    ASSUME NEW deltas \in Seq(Deltas), NEW bucket \in Buckets, NEW d \in Deltas,
           NEW old \in Buckets, AreHistory(deltas, old, bucket),
           d.payload # bucket[d.key], d.previous = "UNKNOWN" <=> bucket[d.key] = Absent
    PROVE  AreHistory(Append(deltas, d), old, [bucket EXCEPT ![d.key] = d.payload])
<1> DEFINE all  == Append(deltas, d)
           next == [bucket EXCEPT ![d.key] = d.payload]
<1>0. d.key \in Keys
  BY DEF Deltas
<1>1. ASSUME NEW key \in Keys
      PROVE  next[key] = Latest(all, key, old[key])
  <2>1. Latest(all, key, old[key]) =
            IF d.key = key THEN d.payload ELSE Latest(deltas, key, old[key])
    BY LatestOfAppend
  <2>2. next[key] = IF d.key = key THEN d.payload ELSE bucket[key]
    BY DEF Buckets
  <2> QED BY <2>1, <2>2 DEF AreHistory
<1>2. /\ DOMAIN all = 1 .. Len(deltas) + 1 /\ DOMAIN deltas = 1 .. Len(deltas)
      /\ Len(deltas) \in Nat /\ all[Len(deltas) + 1] = d
      /\ \A i \in 1 .. Len(deltas) : all[i] = deltas[i]
      /\ SubSeq(all, 1, Len(deltas)) = deltas
  OBVIOUS
<1>3. \A i \in 1 .. Len(deltas) : SubSeq(all, 1, i - 1) = SubSeq(deltas, 1, i - 1)
  OBVIOUS
<1> HIDE DEF all, next
<1>4. ASSUME NEW i \in DOMAIN all
      PROVE  LET before == Latest(SubSeq(all, 1, i - 1), all[i].key, old[all[i].key])
             IN  /\ all[i].payload # before
                 /\ all[i].previous = "UNKNOWN" <=> before = Absent
  <2>1. CASE i = Len(deltas) + 1
    <3>1. i - 1 = Len(deltas)
      BY <1>2, <2>1
    <3>2. Latest(SubSeq(all, 1, i - 1), all[i].key, old[all[i].key]) = bucket[d.key]
      <4>1. SubSeq(all, 1, i - 1) = deltas /\ all[i] = d
        BY <1>2, <2>1, <3>1
      <4>2. bucket[d.key] = Latest(deltas, d.key, old[d.key])
        BY <1>0 DEF AreHistory
      <4> QED BY <4>1, <4>2
    <3> QED BY <1>2, <2>1, <3>2
  <2>2. CASE i # Len(deltas) + 1
    <3>1. i \in 1 .. Len(deltas)
      BY <1>2, <2>2
    <3>2. all[i] = deltas[i] /\ SubSeq(all, 1, i - 1) = SubSeq(deltas, 1, i - 1)
      BY <1>2, <1>3, <3>1
    <3> QED BY <1>2, <3>1, <3>2 DEF AreHistory
  <2> QED BY <2>1, <2>2
<1> QED BY <1>1, <1>4 DEF AreHistory, all, next

\* No deltas are the history of a bucket that has not changed.
LEMMA NoHistory == ASSUME NEW b PROVE AreHistory(<< >>, b, b)
<1>1. \A key, before : Latest(<< >>, key, before) = before
  BY LatestIsNone
<1> QED BY <1>1 DEF AreHistory

-----------------------------------------------------------------------------
(* The loop.                                                               *)

\* Only a return after a failure leaves a batch behind.
Batches ==
    /\ pc \in {"flush", "emit"} => ~stateErr
    /\ pc = "emit" => buffer = << >>
    /\ pc = "returned" => stateErr \/ buffer = << >>

\* While no transaction has failed, what was received is the batch over the bucket,
\* over what the transaction has made of it where one is open.
Undropped ==
    ~stateErr => \A key \in Keys : Latest(received, key, initial[key]) = Latest(buffer, key, tx[key])

\* The deltas of a batch are the history of its transaction; it shows when it commits.
Histories ==
    jsonMode =>
        /\ AreHistory(stdout \o emissions, initial, tx)
        /\ pc = "flush" => AreHistory(stdout, initial, db)

ManagerInv == ManagerTypeOK /\ Batches /\ Undropped /\ Histories

\* Nothing is dropped and the deltas are a history, at every step.
LEMMA ManagerInvariant == ManagerSpec => []ManagerInv
<1> USE BatchAssumption, CapacityAssumption, MaxResultsAssumption
<1>1. ManagerInit => ManagerInv
  <2> SUFFICES ASSUME ManagerInit PROVE ManagerInv
    OBVIOUS
  <2>1. ManagerTypeOK
    <3>1. /\ << >> \in Seq(Results) /\ << >> \in Seq(Deltas) /\ Len(<< >>) = 0
          /\ 0 \in 0 .. 0 /\ 0 <= Capacity /\ 0 < MaxBatchSize /\ 0 + 0 <= MaxResults
          /\ 0 <= MaxBatchSize
      OBVIOUS
    <3> QED BY <3>1 DEF ManagerInit, ManagerTypeOK
  <2>2. \A key, before : Latest(<< >>, key, before) = before
    BY LatestIsNone
  <2>3. Batches /\ Undropped
    BY <2>2 DEF ManagerInit, Batches, Undropped
  <2>4. stdout \o emissions = << >> /\ initial = tx /\ pc # "flush"
    BY DEF ManagerInit
  <2>5. Histories
    BY <2>4, NoHistory DEF Histories
  <2> QED BY <2>1, <2>3, <2>5 DEF ManagerInv
<1>2. ManagerInv /\ [ManagerNext]_managerVars => ManagerInv'
  <2> SUFFICES ASSUME ManagerInv, [ManagerNext]_managerVars PROVE ManagerInv'
    OBVIOUS
  <2>0. ManagerTypeOK /\ Batches /\ Undropped /\ Histories
    BY DEF ManagerInv
  <2>1. CASE UNCHANGED managerVars \/ ManagerFinished
    <3>1. UNCHANGED managerVars
      BY <2>1 DEF ManagerFinished
    <3> QED BY <2>0, <3>1
            DEF ManagerInv, managerVars, ManagerTypeOK, Batches, Undropped, Histories
  <2>2. CASE Send
    <3>1. ManagerTypeOK'
      BY <2>0, <2>2 DEF Send, ManagerTypeOK
    <3>2. Batches' /\ Undropped' /\ Histories'
      BY <2>0, <2>2 DEF Send, Batches, Undropped, Histories
    <3> QED BY <3>1, <3>2 DEF ManagerInv
  <2>3. CASE CloseResults
    <3>1. ManagerTypeOK'
      BY <2>0, <2>3 DEF CloseResults, ManagerTypeOK
    <3>2. Batches' /\ Undropped' /\ Histories'
      BY <2>0, <2>3 DEF CloseResults, Batches, Undropped, Histories
    <3> QED BY <3>1, <3>2 DEF ManagerInv
  <2>4. CASE Receive
    <3> DEFINE h == Head(channel)
    <3>0. /\ h \in Results /\ Tail(channel) \in Seq(Results) /\ Len(Tail(channel)) = Len(channel) - 1
          /\ received \in Seq(Results) /\ buffer \in Seq(Results)
      BY <2>0, <2>4 DEF Receive, ManagerTypeOK
    <3>1. ManagerTypeOK'
      <4>1. /\ channel' \in Seq(Results) /\ Len(channel') <= Capacity
            /\ received' \in Seq(Results) /\ Len(received') = Len(received) + 1
            /\ Len(received') + Len(channel') <= MaxResults
        BY <2>0, <2>4, <3>0 DEF Receive, ManagerTypeOK
      <4>2. openPorts' \in 0 .. Len(received')
        BY <2>0, <2>4, <4>1 DEF Receive, ManagerTypeOK
      <4>3. /\ buffer' \in Seq(Results) /\ Len(buffer') <= MaxBatchSize
            /\ pc' \in {"select", "flush"}
            /\ pc' = "select" => Len(buffer') < MaxBatchSize
        <5>1. Append(buffer, h) \in Seq(Results) /\ Len(Append(buffer, h)) = Len(buffer) + 1
              /\ Len(buffer) \in Nat /\ Len(buffer) < MaxBatchSize
          BY <2>0, <2>4, <3>0 DEF Receive, ManagerTypeOK
        <5>2. << >> \in Seq(Results) /\ Len(<< >>) = 0
          OBVIOUS
        <5>3. CASE Len(Append(buffer, h)) < MaxBatchSize
          <6>1. buffer' = Append(buffer, h) /\ pc' = "select"
            BY <2>4, <5>3 DEF Receive
          <6> QED BY <5>1, <5>3, <6>1
        <5>4. CASE ~ (Len(Append(buffer, h)) < MaxBatchSize) /\ stateErr
          <6>1. buffer' = << >> /\ pc' = "select"
            BY <2>4, <5>4 DEF Receive
          <6> QED BY <5>2, <6>1
        <5>5. CASE ~ (Len(Append(buffer, h)) < MaxBatchSize) /\ ~stateErr
          <6>1. buffer' = Append(buffer, h) /\ pc' = "flush"
            BY <2>4, <5>5 DEF Receive
          <6> QED BY <5>1, <6>1
        <5> QED BY <5>3, <5>4, <5>5
      <4>4. /\ UNCHANGED <<closed, closing, stateErr, db, tx, emissions, jsonMode, stdout, initial>>
            /\ pc = "select"
        BY <2>4 DEF Receive
      <4> QED BY <2>0, <4>1, <4>2, <4>3, <4>4 DEF ManagerTypeOK
    <3>2. Batches'
      BY <2>0, <2>4 DEF Receive, Batches
    <3>3. Undropped'
      <4> SUFFICES ASSUME ~stateErr', NEW key \in Keys
                   PROVE  Latest(received', key, initial'[key]) = Latest(buffer', key, tx'[key])
        BY DEF Undropped
      <4>1. buffer' = Append(buffer, h) /\ received' = Append(received, h)
            /\ initial' = initial /\ tx' = tx /\ ~stateErr
        BY <2>4 DEF Receive
      <4>2. Latest(received, key, initial[key]) = Latest(buffer, key, tx[key])
        BY <2>0, <4>1 DEF Undropped
      <4> QED BY <3>0, <4>1, <4>2, LatestOfAppend
    <3>4. Histories'
      <4>1. UNCHANGED <<jsonMode, stdout, emissions, initial, tx, db>> /\ pc = "select"
        BY <2>4 DEF Receive
      <4>2. tx = db /\ emissions = << >> /\ stdout \in Seq(Deltas)
        BY <2>0, <4>1 DEF ManagerTypeOK
      <4>3. stdout \o emissions = stdout
        BY <4>2
      <4> QED BY <2>0, <4>1, <4>2, <4>3 DEF Histories
    <3> QED BY <3>1, <3>2, <3>3, <3>4 DEF ManagerInv
  <2>5. CASE ReceiveClosed
    <3>1. ManagerTypeOK'
      BY <2>0, <2>5 DEF ReceiveClosed, ManagerTypeOK
    <3>2. Batches' /\ Undropped'
      BY <2>0, <2>5 DEF ReceiveClosed, Batches, Undropped
    <3>3. Histories'
      <4>1. UNCHANGED <<jsonMode, stdout, emissions, initial, tx, db>> /\ pc = "select"
        BY <2>5 DEF ReceiveClosed
      <4>2. tx = db /\ emissions = << >> /\ stdout \in Seq(Deltas)
        BY <2>0, <4>1 DEF ManagerTypeOK
      <4>3. stdout \o emissions = stdout
        BY <4>2
      <4> QED BY <2>0, <4>1, <4>2, <4>3 DEF Histories
    <3> QED BY <3>1, <3>2, <3>3 DEF ManagerInv
  <2>6. CASE FlushTick
    <3>1. ManagerTypeOK'
      <4>1. /\ buffer' \in Seq(Results) /\ Len(buffer') <= MaxBatchSize
            /\ pc' \in {"select", "flush"}
            /\ pc' = "select" => Len(buffer') < MaxBatchSize
        <5>1. buffer \in Seq(Results) /\ Len(buffer) <= MaxBatchSize
          BY <2>0 DEF ManagerTypeOK
        <5>2. << >> \in Seq(Results) /\ Len(<< >>) = 0
          OBVIOUS
        <5>3. (buffer' = << >> /\ pc' = "select") \/ (buffer' = buffer /\ pc' = "flush")
          BY <2>6 DEF FlushTick
        <5>4. CASE buffer' = << >> /\ pc' = "select"
          BY <5>2, <5>4
        <5>5. CASE buffer' = buffer /\ pc' = "flush"
          BY <5>1, <5>5
        <5> QED BY <5>3, <5>4, <5>5
      <4>2. /\ UNCHANGED <<channel, closed, closing, stateErr, openPorts, db, tx, emissions,
                           jsonMode, stdout, initial, received>>
            /\ pc = "select"
        BY <2>6 DEF FlushTick
      <4> QED BY <2>0, <4>1, <4>2 DEF ManagerTypeOK
    <3>2. Batches' /\ Undropped'
      BY <2>0, <2>6 DEF FlushTick, Batches, Undropped
    <3>3. Histories'
      <4>1. UNCHANGED <<jsonMode, stdout, emissions, initial, tx, db>> /\ pc = "select"
        BY <2>6 DEF FlushTick
      <4>2. tx = db /\ emissions = << >> /\ stdout \in Seq(Deltas)
        BY <2>0, <4>1 DEF ManagerTypeOK
      <4>3. stdout \o emissions = stdout
        BY <4>2
      <4> QED BY <2>0, <4>1, <4>2, <4>3 DEF Histories
    <3> QED BY <3>1, <3>2, <3>3 DEF ManagerInv
  <2>7. CASE Store
    <3> DEFINE r == Head(buffer)
               d == [key |-> r.key, payload |-> r.payload,
                     previous |-> IF tx[r.key] = Absent THEN "UNKNOWN" ELSE "MUTATED"]
    <3>01. /\ buffer \in Seq(Results) /\ buffer # << >> /\ r \in Results
          /\ Tail(buffer) \in Seq(Results) /\ Len(Tail(buffer)) = Len(buffer) - 1
          /\ tx \in Buckets /\ initial \in Buckets /\ emissions \in Seq(Deltas) /\ stdout \in Seq(Deltas)
      BY <2>0, <2>7 DEF Store, ManagerTypeOK
    <3>02. r.key \in Keys /\ r.payload \in Payloads
      BY <3>01 DEF Results
    <3>03. d \in Deltas
      BY <3>02 DEF Deltas
    <3>0. /\ buffer \in Seq(Results) /\ buffer # << >> /\ r \in Results
          /\ Tail(buffer) \in Seq(Results) /\ Len(Tail(buffer)) = Len(buffer) - 1
          /\ r.key \in Keys /\ r.payload \in Payloads /\ d \in Deltas
          /\ tx \in Buckets /\ initial \in Buckets /\ emissions \in Seq(Deltas) /\ stdout \in Seq(Deltas)
      BY <3>01, <3>02, <3>03
    <3>1. /\ buffer' = Tail(buffer) /\ pc = "flush" /\ pc' = pc
          /\ UNCHANGED <<stateErr, received, initial, jsonMode, stdout, db>>
          /\ \/ tx[r.key] = r.payload /\ UNCHANGED <<tx, emissions>>
             \/ /\ tx[r.key] # r.payload
                /\ tx' = [tx EXCEPT ![r.key] = r.payload]
                /\ emissions' = Append(emissions, d)
      BY <2>7 DEF Store
    <3>2. ManagerTypeOK'
      <4>1. tx' \in Buckets /\ emissions' \in Seq(Deltas)
        <5>1. Append(emissions, d) \in Seq(Deltas)
          BY <3>0
        <5>2. [tx EXCEPT ![r.key] = r.payload] \in Buckets
          BY <3>0 DEF Buckets
        <5> HIDE DEF d, r
        <5> QED BY <3>0, <3>1, <5>1, <5>2
      <4>2. UNCHANGED <<channel, closed, closing, openPorts>>
        BY <2>7 DEF Store
      <4> QED BY <2>0, <3>0, <3>1, <4>1, <4>2 DEF ManagerTypeOK
    <3>3. Batches'
      BY <2>0, <3>1 DEF Batches
    <3>4. Undropped'
      <4> SUFFICES ASSUME ~stateErr', NEW key \in Keys
                   PROVE  Latest(received', key, initial'[key]) = Latest(buffer', key, tx'[key])
        BY DEF Undropped
      <4>1. Latest(received, key, initial[key]) = Latest(buffer, key, tx[key])
        BY <2>0, <3>1 DEF Undropped
      <4>2. Latest(buffer, key, tx[key]) =
                Latest(Tail(buffer), key, IF r.key = key THEN r.payload ELSE tx[key])
        BY <3>0, LatestOfTail
      <4>3. tx'[key] = IF r.key = key THEN r.payload ELSE tx[key]
        BY <3>0, <3>1 DEF Buckets
      <4> QED BY <3>1, <4>1, <4>2, <4>3
    <3>5. Histories'
      <4>1. CASE UNCHANGED <<tx, emissions>>
        BY <2>0, <3>1, <4>1 DEF Histories
      <4>2. CASE /\ tx[r.key] # r.payload
                 /\ tx' = [tx EXCEPT ![r.key] = r.payload]
                 /\ emissions' = Append(emissions, d)
        <5>1. stdout \o emissions \in Seq(Deltas)
              /\ stdout \o Append(emissions, d) = Append(stdout \o emissions, d)
          BY <3>0
        <5>2. d.key = r.key /\ d.payload = r.payload /\ (d.previous = "UNKNOWN" <=> tx[d.key] = Absent)
          OBVIOUS
        <5> HIDE DEF d
        <5>3. jsonMode => AreHistory(Append(stdout \o emissions, d), initial, [tx EXCEPT ![d.key] = d.payload])
          BY <2>0, <3>0, <4>2, <5>1, <5>2, HistoryGoesOn DEF Histories
        <5> QED BY <2>0, <3>1, <4>2, <5>1, <5>2, <5>3 DEF Histories
      <4> QED BY <3>1, <4>1, <4>2
    <3> QED BY <3>2, <3>3, <3>4, <3>5 DEF ManagerInv
  <2>8. CASE FlushCommits
    <3>1. ManagerTypeOK'
      BY <2>0, <2>8 DEF FlushCommits, ManagerTypeOK
    <3>2. Batches' /\ Undropped' /\ Histories'
      BY <2>0, <2>8 DEF FlushCommits, Batches, Undropped, Histories
    <3> QED BY <3>1, <3>2 DEF ManagerInv
  <2>9. CASE FlushFails
    <3>1. ManagerTypeOK'
      BY <2>0, <2>9 DEF FlushFails, AfterFlush, ManagerTypeOK
    <3>2. Batches' /\ Undropped'
      BY <2>9 DEF FlushFails, AfterFlush, Batches, Undropped
    <3>3. Histories'
      <4>1. /\ UNCHANGED <<jsonMode, stdout, initial, db>> /\ pc = "flush" /\ pc' # "flush"
            /\ tx' = db /\ emissions' = << >>
        BY <2>9 DEF FlushFails, AfterFlush
      <4>2. stdout \o << >> = stdout
        BY <2>0 DEF ManagerTypeOK
      <4> QED BY <2>0, <4>1, <4>2 DEF Histories
    <3> QED BY <3>1, <3>2, <3>3 DEF ManagerInv
  <2>10. CASE Emit
    <3>0. emissions \in Seq(Deltas) /\ stdout \in Seq(Deltas)
      BY <2>0 DEF ManagerTypeOK
    <3>1. ManagerTypeOK'
      <4>1. stdout' \in Seq(Deltas) /\ emissions' \in Seq(Deltas)
        <5>1. emissions # << >> => /\ Append(stdout, Head(emissions)) \in Seq(Deltas)
                                   /\ Tail(emissions) \in Seq(Deltas)
          BY <3>0
        <5> QED BY <2>10, <3>0, <5>1 DEF Emit
      <4>2. /\ pc' \in {"emit", "select", "returned"} /\ buffer = << >> /\ tx = db
            /\ pc' # "emit" => emissions' = << >>
        BY <2>0, <2>10 DEF Emit, AfterFlush, Batches, ManagerTypeOK
      <4>3. Len(<< >>) = 0 /\ 0 < MaxBatchSize
        OBVIOUS
      <4>4. UNCHANGED <<channel, closed, closing, buffer, stateErr, openPorts, db, tx, jsonMode,
                        initial, received>>
        BY <2>10 DEF Emit
      <4> QED BY <2>0, <4>1, <4>2, <4>3, <4>4 DEF ManagerTypeOK
    <3>2. Batches' /\ Undropped'
      BY <2>0, <2>10 DEF Emit, AfterFlush, Batches, Undropped
    <3>3. stdout' \o emissions' = stdout \o emissions
      <4>1. emissions # << >> =>
                Append(stdout, Head(emissions)) \o Tail(emissions) = stdout \o emissions
        BY <3>0
      <4> QED BY <2>10, <4>1 DEF Emit
    <3>4. Histories'
      BY <2>0, <2>10, <3>3 DEF Emit, AfterFlush, Histories
    <3> QED BY <3>1, <3>2, <3>4 DEF ManagerInv
  <2> QED BY <2>1, <2>2, <2>3, <2>4, <2>5, <2>6, <2>7, <2>8, <2>9, <2>10 DEF ManagerNext
<1> QED BY <1>1, <1>2, PTL DEF ManagerSpec

\* The loop of state.go keeps its shape: a batch never grows past its limit,
\* and no deltas are left over between two batches.
THEOREM ManagerTypes == ManagerSpec => []ManagerTypeOK
BY ManagerInvariant, PTL DEF ManagerInv

\* A nil error of state.go means that the bucket has the last result of every
\* service, whichever flush took it; and the deltas printed are the history of
\* what is committed, also after a failure.
THEOREM HistoryIsKeptTheorem == ManagerSpec => []HistoryIsKept
<1>1. ManagerInv => HistoryIsKept
  <2> SUFFICES ASSUME ManagerInv PROVE HistoryIsKept
    OBVIOUS
  <2>1. ManagerTypeOK /\ Batches /\ Undropped /\ Histories
    BY DEF ManagerInv
  <2>2. \A key, before : Latest(<< >>, key, before) = before
    BY LatestIsNone
  <2>3. NilErrorMeansPersisted
    BY <2>1, <2>2 DEF NilErrorMeansPersisted, ManagerTypeOK, Batches, Undropped
  <2>4. DeltasAreTheHistory
    BY <2>1 DEF DeltasAreTheHistory, ManagerTypeOK, Histories
  <2> QED BY <2>3, <2>4 DEF HistoryIsKept
<1> QED BY <1>1, ManagerInvariant, PTL

-----------------------------------------------------------------------------
(* The parts that share nothing.                                           *)

\* Of whichever part moves, the probes, the limiter and the state manager all
\* keep their shape: none touches the state of another.
THEOREM PartsTypes == MCSpec => []PartsTypeOK
<1> USE DEF MCTCP, MCUDP, MCLimiter, MCManager
<1>1. MCSpec => TCPSpec
  <2>1. MCInit => TCPInit
    BY DEF MCInit
  <2>2. [MCNext]_parts => [TCPNext]_tcpVars
    BY DEF MCNext, parts
  <2> QED BY <2>1, <2>2, PTL DEF MCSpec, TCPSpec
<1>2. MCSpec => UDPSpec
  <2>1. MCInit => UDPInit
    BY DEF MCInit
  <2>2. [MCNext]_parts => [UDPNext]_udpVars
    BY DEF MCNext, parts
  <2> QED BY <2>1, <2>2, PTL DEF MCSpec, UDPSpec
<1>3. MCSpec => LimiterSpec
  <2>1. MCInit => LimiterInit
    BY DEF MCInit
  <2>2. [MCNext]_parts => [LimiterNext]_limiterVars
    BY DEF MCNext, parts
  <2> QED BY <2>1, <2>2, PTL DEF MCSpec, LimiterSpec
<1>4. MCSpec => ManagerSpec
  <2>1. MCInit => ManagerInit
    BY DEF MCInit
  <2>2. [MCNext]_parts => [ManagerNext]_managerVars
    BY DEF MCNext, parts
  <2> QED BY <2>1, <2>2, PTL DEF MCSpec, ManagerSpec
<1> QED BY <1>1, <1>2, <1>3, <1>4, TCPTypes, UDPTypes, LimiterTypes, ManagerTypes, PTL
        DEF PartsTypeOK
=============================================================================
