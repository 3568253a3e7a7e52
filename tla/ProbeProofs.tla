------------------------------ MODULE ProbeProofs ------------------------------
(***************************************************************************)
(* Proofs about the probes of the two pools of workers: for every timeout  *)
(* and service about TCPProbe; for every datagram about the checks of UDP  *)
(* answers, and for any identifiers, source ports and number of probes     *)
(* about UDPProbe; for every rate and any number of workers about the      *)
(* limiter they wait for (RateLimiter).                                    *)
(***************************************************************************)
EXTENDS TCPProbe, UDPProbe, RateLimiter, WellFoundedInduction, FiniteSetTheorems, TLAPS

-----------------------------------------------------------------------------
(* The deadlines of a TCP probe.                                           *)

\* The time a phase may end at, counted in timeouts since the dial.
Budget(p) == CASE p = "dial" -> Timeout [] p = "handshake" -> 2 * Timeout
               [] OTHER -> 3 * Timeout

\* What has passed and what is left of a phase never exceed its budget.
Deadlines ==
    /\ phase \in Phases
    /\ left \in 0 .. Timeout /\ elapsed \in Nat
    /\ elapsed + left <= Budget(phase)
    /\ phase = "idle" => elapsed = 0 /\ left = 0

\* No service holds a worker for more than the dial, the handshake and the
\* banner take together, whatever it sends and at what pace.
THEOREM ProbeIsTimelyTheorem == TCPSpec => []ProbeIsTimely
<1> USE TimeoutAssumption DEF Deadlines, Budget, Phases
<1>1. TCPInit => Deadlines
  BY DEF TCPInit
<1>2. Deadlines /\ [TCPNext]_tcpVars => Deadlines'
  <2> SUFFICES ASSUME Deadlines, [TCPNext]_tcpVars PROVE Deadlines'
    OBVIOUS
  <2>1. CASE UNCHANGED tcpVars
    BY <2>1 DEF tcpVars
  <2>2. CASE Dial
    BY <2>2 DEF Dial
  <2>3. CASE Connected
    BY <2>3 DEF Connected
  <2>4. CASE DialTimeout
    BY <2>4 DEF DialTimeout
  <2>5. ASSUME phase' = "idle", left' = 0, elapsed' = 0
        PROVE  Deadlines'
    BY <2>5
  <2>6. CASE HandshakeOK
    BY <2>5, <2>6 DEF HandshakeOK, Push
  <2>7. CASE HandshakeFails
    BY <2>7 DEF HandshakeFails
  <2>8. CASE ParseSSH
    BY <2>5, <2>8 DEF ParseSSH, Push
  <2>9. CASE ReadHeader
    BY <2>9 DEF ReadHeader
  <2>10. CASE ParseHTTP
    BY <2>5, <2>10 DEF ParseHTTP, Push
  <2>11. CASE ReadGreeting
    BY <2>5, <2>11 DEF ReadGreeting, Push
  <2>12. CASE ReadFails
    BY <2>5, <2>12 DEF ReadFails, Push
  <2>13. CASE ServiceSends
    BY <2>13 DEF ServiceSends
  <2>14. CASE TCPTick
    BY <2>14 DEF TCPTick
  <2> QED
    BY <2>1, <2>2, <2>3, <2>4, <2>6, <2>7, <2>8, <2>9, <2>10, <2>11, <2>12, <2>13, <2>14
       DEF TCPNext
<1>3. Deadlines => ProbeIsTimely
  BY DEF ProbeIsTimely
<1> QED
  BY <1>1, <1>2, <1>3, PTL DEF TCPSpec

-----------------------------------------------------------------------------
(* Nothing is recorded that the service did not say.                       *)

\* A line of the service, or the end of one whose beginning the handshake took.
Said(line) == line = "rest" \/ \E l \in 1 .. Len(service.lines) : service.lines[l] = line

AllSaid(lines) == \A i \in 1 .. Len(lines) : Said(lines[i])

\* Whatever has arrived or been read was said; a probe has room for its result.
Heard ==
    /\ AllSaid(stream) /\ AllSaid(head)
    /\ phase # "idle" => Len(observed) < MaxDials

\* One observation as ObservationsAreGenuine wants it.
Genuine(o) ==
    /\ o.meta # NoMeta => service.tls /\ o.banner = << >> /\ o.OSHint = ""
    /\ service.port = "ssh" => o.banner \in {<< >>, <<"ssh">>}
    /\ AllSaid(o.banner)

ProbeInv == TCPTypeOK /\ Heard /\ ObservationsAreGenuine

\* Min takes an element of a set of numbers.
LEMMA LeastElement ==
    ASSUME NEW S, S \subseteq Nat, S # {}
    PROVE  Min(S) \in S
<1>1. PICK i \in S : \A j \in S : ~(<<j, i>> \in OpToRel(<, Nat))
  BY WFMin, NatLessThanWellFounded, Zenon
<1>2. \A j \in S : ~(j < i)
  BY <1>1, Zenon DEF OpToRel
<1>3. \A j \in S : i <= j
  BY <1>2
<1> QED BY <1>3 DEF Min

\* Max takes an element of a bounded set of numbers.
LEMMA GreatestElement ==
    ASSUME NEW n \in Nat, NEW S, S \subseteq 0 .. n, S # {}
    PROVE  Max(S) \in S
<1> DEFINE T == {n - i : i \in S}
<1>1. T \subseteq Nat /\ T # {}
  <2>1. \A i \in S : n - i \in Nat
    OBVIOUS
  <2>2. \E i \in S : n - i \in T
    OBVIOUS
  <2> QED BY <2>1, <2>2
<1>2. PICK t \in T : \A j \in T : ~(<<j, t>> \in OpToRel(<, Nat))
  BY <1>1, WFMin, NatLessThanWellFounded, Zenon
<1> HIDE DEF T
<1>3. \A j \in T : ~(j < t)
  BY <1>1, <1>2, Zenon DEF OpToRel
<1>4. PICK m \in S : t = n - m
  BY DEF T
<1>5. \A i \in S : m >= i
  <2>1. \A i \in S : n - i \in T
    BY DEF T
  <2> QED BY <1>3, <1>4, <2>1
<1> QED BY <1>5 DEF Max

\* Trimming leaves a part of the banner, and nothing of nothing.
LEMMA TrimmedBanner ==
    ASSUME NEW banner \in Seq(Kinds)
    PROVE  /\ TrimSpace(banner) \in Seq(Kinds)
           /\ \A j \in 1 .. Len(TrimSpace(banner)) :
                 \E i \in 1 .. Len(banner) : TrimSpace(banner)[j] = banner[i]
           /\ banner = << >> => TrimSpace(banner) = << >>
           /\ banner = <<"ssh">> => TrimSpace(banner) = <<"ssh">>
<1> DEFINE text == {i \in 1 .. Len(banner) : banner[i] # "blank"}
<1>1. CASE text = {}
  <2>1. TrimSpace(banner) = << >>
    BY <1>1 DEF TrimSpace
  <2>2. banner # <<"ssh">>
    <3> SUFFICES ASSUME banner = <<"ssh">> PROVE FALSE
      OBVIOUS
    <3>1. 1 \in text
      OBVIOUS
    <3> QED BY <1>1, <3>1
  <2> QED BY <2>1, <2>2
<1>2. CASE text # {}
  <2>1. Len(banner) \in Nat /\ text \subseteq Nat /\ text \subseteq 0 .. Len(banner)
    OBVIOUS
  <2>2. Min(text) \in text /\ Max(text) \in text
    <3> HIDE DEF text
    <3> QED BY <1>2, <2>1, LeastElement, GreatestElement
  <2> DEFINE lo == Min(text)
             hi == Max(text)
  <2>3. TrimSpace(banner) = SubSeq(banner, lo, hi)
    BY <1>2 DEF TrimSpace
  <2>4. lo \in 1 .. Len(banner) /\ hi \in 1 .. Len(banner)
    BY <2>2
  <2>5. banner # << >>
    BY <2>4
  <2>6. banner = <<"ssh">> => lo = 1 /\ hi = 1
    BY <2>4
  <2> HIDE DEF text, lo, hi
  <2>7. /\ SubSeq(banner, lo, hi) \in Seq(Kinds)
        /\ \A j \in 1 .. Len(SubSeq(banner, lo, hi)) :
              /\ lo + j - 1 \in 1 .. Len(banner)
              /\ SubSeq(banner, lo, hi)[j] = banner[lo + j - 1]
    BY <2>4
  <2>8. ASSUME banner = <<"ssh">>
        PROVE  SubSeq(banner, lo, hi) = <<"ssh">>
    <3> DEFINE s == SubSeq(banner, lo, hi)
    <3>1. Len(s) = 1 /\ s[1] = "ssh"
      BY <2>6, <2>8
    <3>2. s \in Seq(Kinds)
      BY <2>7
    <3> HIDE DEF s
    <3>3. s = <<"ssh">>
      BY <3>1, <3>2
    <3> QED BY <3>3 DEF s
  <2> QED BY <2>3, <2>5, <2>7, <2>8
<1> QED BY <1>1, <1>2

\* The property, as one condition on each observation.
LEMMA GenuineObservations ==
    ObservationsAreGenuine <=> \A i \in 1 .. Len(observed) : Genuine(observed[i])
BY DEF ObservationsAreGenuine, Genuine, AllSaid, Said

\* The condition after a step.
LEMMA StillGenuine ==
    ASSUME service' = service, \A i \in 1 .. Len(observed') : Genuine(observed'[i])
    PROVE  ObservationsAreGenuine'
<1> SUFFICES ASSUME NEW i \in 1 .. Len(observed'), NEW o, o = observed'[i]
             PROVE  /\ o.meta # NoMeta => service'.tls /\ o.banner = << >> /\ o.OSHint = ""
                    /\ service'.port = "ssh" => o.banner \in {<< >>, <<"ssh">>}
                    /\ \A j \in 1 .. Len(o.banner) :
                          \/ o.banner[j] = "rest"
                          \/ \E l \in 1 .. Len(service'.lines) : service'.lines[l] = o.banner[j]
  BY Zenon DEF ObservationsAreGenuine
<1>1. Genuine(o)
  BY Zenon
<1> QED BY <1>1, Zenon DEF Genuine, AllSaid, Said

\* A worker that pushes a result made of what was said keeps the invariant.
LEMMA PushKeepsProbeInv ==
    ASSUME ProbeInv, phase # "idle", service' = service,
           NEW banner \in Seq(Kinds), AllSaid(banner), NEW meta \in Handshaken \cup {NoMeta},
           meta # NoMeta => service.tls /\ banner = << >>,
           service.port = "ssh" => banner \in {<< >>, <<"ssh">>},
           Push(banner, meta)
    PROVE  ProbeInv'
<1> DEFINE o == [banner |-> TrimSpace(banner), OSHint |-> FingerprintOS(banner), meta |-> meta]
<1>1. /\ observed' = Append(observed, o) /\ phase' = "idle" /\ left' = 0 /\ elapsed' = 0
      /\ sent' = 0 /\ stream' = << >> /\ head' = << >>
  BY DEF Push
<1>2. o \in Observations /\ Genuine(o)
  <2>1. FingerprintOS(banner) \in {"", "found", "Unknown/Obfuscated"}
    BY DEF FingerprintOS
  <2>2. banner = << >> => FingerprintOS(banner) = ""
    BY DEF FingerprintOS
  <2>3. o \in Observations
    BY <2>1, TrimmedBanner DEF Observations
  <2>4. AllSaid(TrimSpace(banner))
    BY TrimmedBanner DEF AllSaid
  <2> QED BY <2>2, <2>3, <2>4, TrimmedBanner DEF Genuine
<1> HIDE DEF o
<1>3. observed \in Seq(Observations) /\ Len(observed) < MaxDials /\ MaxDials \in Nat
  BY DialsAssumption DEF ProbeInv, TCPTypeOK, Heard
<1>4. /\ Append(observed, o) \in Seq(Observations) /\ Len(Append(observed, o)) = Len(observed) + 1
      /\ \A i \in 1 .. Len(observed) : Append(observed, o)[i] = observed[i]
      /\ Append(observed, o)[Len(observed) + 1] = o
  BY <1>2, <1>3
<1>5. service \in ServiceType /\ Len(service.lines) \in Nat
  BY ServicesAreServices DEF ProbeInv, TCPTypeOK, ServiceType
<1>6. TCPTypeOK'
  <2>1. << >> \in Seq(Kinds) /\ 0 \in 0 .. Timeout /\ 0 \in 0 .. Len(service.lines)
    BY <1>5, TimeoutAssumption
  <2>2. Len(observed') <= MaxDials
    BY <1>1, <1>3, <1>4
  <2> QED BY <1>1, <1>4, <2>1, <2>2 DEF ProbeInv, TCPTypeOK, Phases
<1>7. Heard'
  BY <1>1 DEF Heard, AllSaid
<1>8. \A i \in 1 .. Len(observed') : Genuine(observed'[i])
  <2>1. \A i \in 1 .. Len(observed) : Genuine(observed[i])
    BY GenuineObservations DEF ProbeInv
  <2> QED BY <1>1, <1>2, <1>3, <1>4, <2>1
<1>9. ObservationsAreGenuine'
  BY <1>8, StillGenuine, Zenon
<1> QED BY <1>6, <1>7, <1>9 DEF ProbeInv

\* The steps that record nothing.
LEMMA StepKeepsProbeInv ==
    ASSUME ProbeInv, UNCHANGED <<service, observed>>,
           phase' \in Phases, left' \in 0 .. Timeout, elapsed' \in Nat,
           sent' \in 0 .. Len(service.lines),
           stream' \in Seq(Kinds), head' \in Seq(Kinds), AllSaid(stream'), AllSaid(head'),
           phase' # "idle" => phase # "idle" \/ Len(observed) < MaxDials
    PROVE  ProbeInv'
<1>1. TCPTypeOK'
  BY DEF ProbeInv, TCPTypeOK
<1>2. Heard'
  BY DEF ProbeInv, Heard, AllSaid, Said
<1>3. ObservationsAreGenuine'
  <2>1. \A i \in 1 .. Len(observed) : Genuine(observed[i])
    BY GenuineObservations, Zenon DEF ProbeInv
  <2>2. service' = service /\ observed' = observed
    OBVIOUS
  <2> QED BY <2>1, <2>2, StillGenuine, Zenon
<1> QED BY <1>1, <1>2, <1>3 DEF ProbeInv

\* Taking a line from the front leaves what was said.
LEMMA SaidHeadAndTail ==
    ASSUME NEW lines \in Seq(Kinds), lines # << >>, AllSaid(lines)
    PROVE  /\ Head(lines) \in Kinds /\ Said(Head(lines))
           /\ Tail(lines) \in Seq(Kinds) /\ AllSaid(Tail(lines))
<1>1. /\ Head(lines) = lines[1] /\ 1 \in 1 .. Len(lines) /\ lines[1] \in Kinds
      /\ Tail(lines) \in Seq(Kinds)
      /\ \A i \in 1 .. Len(Tail(lines)) : i + 1 \in 1 .. Len(lines) /\ Tail(lines)[i] = lines[i + 1]
  OBVIOUS
<1> QED BY <1>1 DEF AllSaid

\* Lines that were said, and one more, were all said.
LEMMA SaidAppend ==
    ASSUME NEW lines \in Seq(Kinds), AllSaid(lines), NEW line \in Kinds, Said(line)
    PROVE  Append(lines, line) \in Seq(Kinds) /\ AllSaid(Append(lines, line))
<1>1. /\ Append(lines, line) \in Seq(Kinds) /\ Len(Append(lines, line)) = Len(lines) + 1
      /\ Append(lines, line)[Len(lines) + 1] = line
      /\ \A i \in 1 .. Len(lines) : Append(lines, line)[i] = lines[i]
      /\ Len(lines) \in Nat
  OBVIOUS
<1> QED BY <1>1 DEF AllSaid

\* A failed handshake leaves a part of what was said, or "rest" before it.
LEMMA SaidLeftovers ==
    ASSUME NEW lines \in Seq(Kinds), AllSaid(lines), NEW rest \in Leftovers(lines)
    PROVE  rest \in Seq(Kinds) /\ AllSaid(rest)
<1>1. PICK k \in 1 .. Len(lines) :
          rest \in {SubSeq(lines, k + 1, Len(lines)), <<"rest">> \o SubSeq(lines, k + 1, Len(lines))}
  BY DEF Leftovers
<1> DEFINE after == SubSeq(lines, k + 1, Len(lines))
<1>2. /\ after \in Seq(Kinds) /\ Len(after) \in Nat
      /\ \A i \in 1 .. Len(after) : k + i \in 1 .. Len(lines) /\ after[i] = lines[k + i]
  <2>1. k \in Nat /\ Len(lines) \in Nat /\ k + 1 \in 1 .. Len(lines) + 1
    OBVIOUS
  <2>2. after \in Seq(Kinds) /\ Len(after) = Len(lines) - k
    BY <2>1
  <2>3. \A i \in 1 .. Len(lines) - k : after[i] = lines[k + i]
    BY <2>1
  <2> HIDE DEF after
  <2> QED BY <2>1, <2>2, <2>3
<1> HIDE DEF after
<1>3. AllSaid(after)
  BY <1>2 DEF AllSaid
<1>4. "rest" \in Kinds /\ Said("rest")
  BY DEF Kinds, Said
<1>5. /\ <<"rest">> \o after \in Seq(Kinds) /\ Len(<<"rest">> \o after) = Len(after) + 1
      /\ (<<"rest">> \o after)[1] = "rest"
      /\ \A i \in 2 .. Len(after) + 1 : i - 1 \in 1 .. Len(after) /\ (<<"rest">> \o after)[i] = after[i - 1]
  BY <1>2, <1>4
<1>6. AllSaid(<<"rest">> \o after)
  <2> SUFFICES ASSUME NEW i \in 1 .. Len(<<"rest">> \o after)
               PROVE  Said((<<"rest">> \o after)[i])
    BY DEF AllSaid
  <2>1. i = 1 \/ i \in 2 .. Len(after) + 1
    BY <1>2, <1>5
  <2> QED BY <1>3, <1>4, <1>5, <2>1 DEF AllSaid
<1> QED BY <1>1, <1>2, <1>3, <1>5, <1>6 DEF after

\* The lines a probe holds were said by its service.
LEMMA ProbeInvariant == TCPSpec => []ProbeInv
<1>1. TCPInit => ProbeInv
  <2> SUFFICES ASSUME TCPInit PROVE ProbeInv
    OBVIOUS
  <2>1. service \in ServiceType /\ Len(service.lines) \in Nat
    BY ServicesAreServices DEF TCPInit, ServiceType
  <2>2. TCPTypeOK
    BY <2>1, TimeoutAssumption, DialsAssumption DEF TCPInit, TCPTypeOK, Phases
  <2>3. Heard /\ ObservationsAreGenuine
    BY DEF TCPInit, Heard, AllSaid, ObservationsAreGenuine
  <2> QED BY <2>2, <2>3 DEF ProbeInv
<1>2. ProbeInv /\ [TCPNext]_tcpVars => ProbeInv'
  <2> SUFFICES ASSUME ProbeInv, [TCPNext]_tcpVars PROVE ProbeInv'
    OBVIOUS
  <2>0. /\ service \in ServiceType /\ phase \in Phases /\ left \in 0 .. Timeout /\ elapsed \in Nat
        /\ sent \in 0 .. Len(service.lines) /\ Len(service.lines) \in Nat /\ Timeout \in Nat
        /\ service.lines \in Seq(Kinds)
        /\ stream \in Seq(Kinds) /\ head \in Seq(Kinds) /\ AllSaid(stream) /\ AllSaid(head)
    BY ServicesAreServices, TimeoutAssumption DEF ProbeInv, TCPTypeOK, Heard, ServiceType
  <2>p. << >> \in Seq(Kinds) /\ AllSaid(<< >>) /\ NoMeta \in Handshaken \cup {NoMeta}
    BY DEF AllSaid
  <2>1. CASE UNCHANGED tcpVars
    BY <2>0, <2>1, StepKeepsProbeInv DEF tcpVars
  <2>2. CASE Dial \/ Connected \/ DialTimeout \/ TCPTick
    BY <2>0, <2>2, StepKeepsProbeInv DEF Dial, Connected, DialTimeout, TCPTick, Phases
  <2>3. CASE ServiceSends
    <3>1. sent + 1 \in 1 .. Len(service.lines)
      BY <2>0, <2>3 DEF ServiceSends
    <3>2. service.lines[sent + 1] \in Kinds /\ Said(service.lines[sent + 1])
      BY <2>0, <3>1 DEF Said
    <3>3. stream' \in Seq(Kinds) /\ AllSaid(stream')
      BY <2>0, <2>3, <3>2, SaidAppend DEF ServiceSends
    <3> QED BY <2>0, <2>3, <3>1, <3>3, StepKeepsProbeInv DEF ServiceSends
  <2>4. CASE HandshakeFails
    <3>1. stream' \in Seq(Kinds) /\ AllSaid(stream')
      BY <2>0, <2>4, SaidLeftovers DEF HandshakeFails
    <3> QED BY <2>0, <2>4, <3>1, StepKeepsProbeInv DEF HandshakeFails, Phases
  <2>5. CASE HandshakeOK
    <3>1. PICK meta \in Handshaken : Push(<< >>, meta)
      BY <2>5 DEF HandshakeOK
    <3> QED BY <2>5, <2>p, <3>1, PushKeepsProbeInv DEF HandshakeOK
  <2>6. ASSUME NEW banner \in Seq(Kinds), AllSaid(banner), Push(banner, NoMeta),
               phase = "parse", UNCHANGED service,
               service.port = "ssh" => banner \in {<< >>, <<"ssh">>}
        PROVE  ProbeInv'
    BY <2>6, <2>p, PushKeepsProbeInv
  <2>7. CASE ParseSSH
    <3>1. CASE Head(stream) = "ssh"
      <4>1. <<"ssh">> \in Seq(Kinds) /\ AllSaid(<<"ssh">>)
        BY <2>0, <2>7, <3>1, SaidHeadAndTail DEF ParseSSH, AllSaid
      <4> QED BY <2>6, <2>7, <3>1, <4>1 DEF ParseSSH, Parsing
    <3>2. CASE Head(stream) # "ssh"
      BY <2>6, <2>7, <2>p, <3>2 DEF ParseSSH, Parsing
    <3> QED BY <3>1, <3>2
  <2>8. CASE ReadHeader
    <3>1. /\ head' \in Seq(Kinds) /\ AllSaid(head')
          /\ stream' \in Seq(Kinds) /\ AllSaid(stream')
      BY <2>0, <2>8, SaidHeadAndTail, SaidAppend DEF ReadHeader
    <3> QED BY <2>0, <2>8, <3>1, StepKeepsProbeInv DEF ReadHeader, Parsing
  <2>9. CASE ParseHTTP
    <3>1. service.port = "http" /\ phase = "parse" /\ UNCHANGED service
      BY <2>9 DEF ParseHTTP, Parsing
    <3>2. CASE stream # << >> /\ Head(stream) = "server" /\ Push(<<"server">>, NoMeta)
      <4>1. "server" \in Kinds /\ Said("server")
        BY <2>0, <3>2, SaidHeadAndTail
      <4>2. <<"server">> \in Seq(Kinds) /\ AllSaid(<<"server">>)
        BY <4>1 DEF AllSaid
      <4> QED BY <2>6, <3>1, <3>2, <4>2
    <3>3. CASE head # << >> /\ Push(fallbackStatus, NoMeta)
      <4>1. head[1] \in Kinds /\ Said(head[1])
        BY <2>0, <3>3, SaidHeadAndTail
      <4>2. fallbackStatus \in Seq(Kinds) /\ AllSaid(fallbackStatus)
        BY <2>p, <4>1 DEF fallbackStatus, AllSaid
      <4> QED BY <2>6, <3>1, <3>3, <4>2
    <3>4. CASE Push(<< >>, NoMeta)
      BY <2>6, <2>p, <3>1, <3>4
    <3> QED BY <2>9, <3>2, <3>3, <3>4 DEF ParseHTTP
  <2>10. CASE ReadGreeting
    BY <2>0, <2>6, <2>10 DEF ReadGreeting, Parsing
  <2>11. CASE ReadFails
    BY <2>6, <2>p, <2>11 DEF ReadFails
  <2> QED BY <2>1, <2>2, <2>3, <2>4, <2>5, <2>7, <2>8, <2>9, <2>10, <2>11 DEF TCPNext
<1> QED BY <1>1, <1>2, PTL DEF TCPSpec

\* A connection holds only lines of its service and an observation has its
\* shape, however often the service is probed (TCPTypeOK).
THEOREM TCPTypes == TCPSpec => []TCPTypeOK
BY ProbeInvariant, PTL DEF ProbeInv

\* A result says nothing the service did not say: TLS metadata come from a TLS
\* service and with no banner, an SSH port is recorded with an intact
\* identification or none, and every line of a banner is the service's or the
\* end of one that the handshake cut (worker.go:40-118, banners.go).
THEOREM ObservationsAreGenuineTheorem == TCPSpec => []ObservationsAreGenuine
BY ProbeInvariant, PTL DEF ProbeInv

-----------------------------------------------------------------------------
(* The checks against the layouts of RFC 1035 and RFC 5905.                *)

\* ValidateDNSResponse (payloads.go) accepts exactly the responses to a
\* standard query that carry the identifier of the request, whatever the other
\* bits of the header are.
THEOREM DNSCheckIsExact ==
    ASSUME NEW qr \in 0 .. 1, NEW opcode \in 0 .. 15, NEW rest \in 0 .. 7,
           NEW len \in Nat, NEW id \in Nat, NEW txID \in Nat
    PROVE  ValidateDNSResponse(BuildDNSQuery(txID),
                               Datagram(DNSFlags(qr, opcode, rest), len, id, 0, 0))
           <=> len >= 12 /\ id = txID /\ qr = 1 /\ opcode = 0
<1>1. DNSFlags(qr, opcode, rest) \div 128 = qr
  BY DEF DNSFlags
<1>2. DNSFlags(qr, opcode, rest) \div 8 = 16 * qr + opcode
  BY DEF DNSFlags
<1>3. (16 * qr + opcode) % 16 = opcode /\ qr % 2 = qr
  OBVIOUS
<1> QED
  BY <1>1, <1>2, <1>3 DEF ValidateDNSResponse, BuildDNSQuery, Datagram

\* ValidateNTPResponse (payloads.go) accepts exactly the full-length server and
\* broadcast packets of versions 1 to 4 whose stratum is valid and whose
\* transmit timestamp is set, whatever the leap indicator.
THEOREM NTPCheckIsExact ==
    ASSUME NEW leap \in 0 .. 3, NEW version \in 0 .. 7, NEW mode \in 0 .. 7,
           NEW len \in Nat, NEW stratum \in Nat, NEW transmit \in Nat
    PROVE  ValidateNTPResponse(Datagram(NTPFirst(leap, version, mode), len, 0, stratum, transmit))
           <=> /\ len >= 48 /\ mode \in {4, 5} /\ version \in 1 .. 4
               /\ stratum <= 16 /\ transmit # 0
<1>1. NTPFirst(leap, version, mode) % 8 = mode
  BY DEF NTPFirst
<1>2. NTPFirst(leap, version, mode) \div 8 = 8 * leap + version
  BY DEF NTPFirst
<1>3. (8 * leap + version) % 8 = version
  OBVIOUS
<1> QED
  BY <1>1, <1>2, <1>3 DEF ValidateNTPResponse, Datagram

-----------------------------------------------------------------------------
(* The probes.                                                             *)

\* The flag bytes of the headers that the model sends.
LEMMA FlagBytes ==
    /\ DNSFlags(0, 0, 1) = 1 /\ DNSFlags(1, 0, 1) = 129 /\ DNSFlags(1, 4, 0) = 160
    /\ NTPFirst(0, 4, 3) = 35 /\ NTPFirst(0, 4, 4) = 36 /\ NTPFirst(3, 4, 4) = 228
BY DEF DNSFlags, NTPFirst

\* A datagram is a body.
LEMMA DatagramIsBody ==
    ASSUME NEW byte \in Nat, NEW len \in Nat, NEW id \in Nat, NEW stratum \in Nat,
           NEW transmit \in Nat
    PROVE  Datagram(byte, len, id, stratum, transmit) \in Bodies
BY DEF Datagram, Bodies

\* Requests, answers and stray datagrams are all bodies.
LEMMA DatagramsAreBodies ==
    ASSUME clock \in Nat
    PROVE  /\ Requests(port) \subseteq Bodies
           /\ \A req \in Bodies : Answer(req) \in Bodies /\ Others(req) \subseteq Bodies
<1>1. Requests(port) \subseteq Bodies
  <2>1. ASSUME NEW id \in TxIDs PROVE BuildDNSQuery(id) \in Bodies
    <3>1. id \in Nat
      BY TxIDsAreWords
    <3>2. Datagram(1, 27, id, 0, 0) \in Bodies
      BY <3>1, DatagramIsBody
    <3> QED
      BY <3>2, FlagBytes DEF BuildDNSQuery
  <2>2. BuildNTPRequest \in Bodies /\ SNMPRequest \in Bodies
    BY FlagBytes, DatagramIsBody DEF BuildNTPRequest, SNMPRequest
  <2> QED
    BY <2>1, <2>2 DEF Requests
<1>2. ASSUME NEW req \in Bodies
      PROVE  Answer(req) \in Bodies /\ Others(req) \subseteq Bodies
  <2>1. req.id \in Nat
    BY DEF Bodies
  <2>2. /\ Datagram(129, 43, req.id, 0, 0) \in Bodies
        /\ Datagram(36, 48, 0, 2, clock) \in Bodies
        /\ Datagram(0, 60, 0, 0, 0) \in Bodies
    BY <2>1, DatagramIsBody
  <2>3. /\ Datagram(160, 43, req.id, 0, 0) \in Bodies
        /\ Datagram(129, 4, req.id, 0, 0) \in Bodies
        /\ Datagram(228, 48, 0, 0, 0) \in Bodies
    BY <2>1, DatagramIsBody
  <2>4. Answer(req) \in Bodies
    BY <2>2, FlagBytes DEF Answer
  <2>5. Others(req) \subseteq Bodies
    BY <2>3, FlagBytes DEF Others
  <2> QED
    BY <2>4, <2>5
<1> QED
  BY <1>1, <1>2

\* Only a service passes the checks: a request sent back and the answers of
\* another program do not.
LEMMA OnlyTheServicePasses ==
    ASSUME port \in {53, 123}, NEW req \in Requests(port), NEW q \in Requests(port),
           NEW body \in {q} \cup Others(q)
    PROVE  ~isOpen(port, req, body)
<1>1. CASE port = 53
  <2>1. ~((1 \div 128) % 2 = 1) /\ ~((160 \div 8) % 16 = 0) /\ ~((228 \div 8) % 16 = 0)
    OBVIOUS
  <2>2. \/ body.byte = 1 \/ body.byte = 160 \/ body.byte = 228 \/ body.len = 4
    BY <1>1 DEF Requests, Others, BuildDNSQuery, Datagram, DNSFlags, NTPFirst
  <2> QED
    BY <1>1, <2>1, <2>2 DEF isOpen, ValidateDNSResponse
<1>2. CASE port = 123
  <2>1. ~(35 % 8 \in {4, 5})
    OBVIOUS
  <2>2. \/ body.byte = 35 \/ body.len = 43 \/ body.len = 4 \/ body.transmit = 0
    BY <1>2 DEF Requests, Others, BuildNTPRequest, Datagram, DNSFlags, NTPFirst
  <2>3. body.len \in {4, 43, 48}
    BY <1>2 DEF Requests, Others, BuildNTPRequest, Datagram
  <2> QED
    BY <1>2, <2>1, <2>2, <2>3 DEF isOpen, ValidateNTPResponse
<1> QED
  BY <1>1, <1>2

\* Where what is under way comes from.
Provenance ==
    /\ socket # NoSocket => request \in Requests(port) /\ Len(results) < probes
    /\ \A q \in asked : q.body \in Requests(port)
    /\ \A d \in flight :
          \/ listener = "service" /\ d \in answers
          \/ listener = "echo" /\ d.body \in Requests(port)
          \/ listener = "other" /\ \E q \in Requests(port) : d.body \in Others(q)

UDPInv == UDPTypeOK /\ Provenance /\ OpenMeansAnswered

\* Every datagram under way has a sender.
LEMMA UDPInvariant == UDPSpec => []UDPInv
<1> USE NoSocketIsNone, ProbesAssumption
<1>1. UDPInit => UDPInv
  <2> SUFFICES ASSUME UDPInit PROVE UDPInv
    OBVIOUS
  <2>1. SNMPRequest \in Bodies
    BY DEF SNMPRequest, Datagram, Bodies
  <2> QED
    BY <2>1 DEF UDPInit, UDPInv, UDPTypeOK, Provenance, OpenMeansAnswered
<1>2. UDPInv /\ [UDPNext]_udpVars => UDPInv'
  <2> SUFFICES ASSUME UDPInv, [UDPNext]_udpVars PROVE UDPInv'
    OBVIOUS
  <2> USE DEF UDPInv, UDPTypeOK, Provenance, netVars
  <2>1. CASE UNCHANGED udpVars
    BY <2>1 DEF udpVars, OpenMeansAnswered
  <2>2. CASE SendProbe
    <3>1. /\ socket' \in Sockets /\ request' \in Requests(port)
          /\ asked' = asked \cup {[to |-> socket', body |-> request']}
          /\ probes' = probes + 1 /\ probes < Probes
          /\ UNCHANGED <<port, listener, clock, flight, answers, results>>
      BY <2>2 DEF SendProbe
    <3>2. request' \in Bodies
      BY <3>1, DatagramsAreBodies
    <3>3. UDPTypeOK'
      BY <3>1, <3>2
    <3>4. Provenance'
      BY <3>1
    <3> QED
      BY <3>1, <3>3, <3>4 DEF OpenMeansAnswered
  <2>3. CASE ReadAnswer
    <3>1. PICK d \in flight :
             /\ d.to = socket
             /\ results' = IF isOpen(port, request, d.body)
                           THEN Append(results, [request |-> request, banner |-> d.body])
                           ELSE results
             /\ socket' = NoSocket
             /\ UNCHANGED <<port, listener, clock, request, netVars, probes>>
      BY <2>3 DEF ReadAnswer
    <3>2. socket \in Sockets /\ request \in Requests(port) /\ Len(results) < probes
      BY <3>1
    <3>3. CASE ~isOpen(port, request, d.body)
      BY <3>1, <3>3 DEF OpenMeansAnswered
    <3>4. CASE isOpen(port, request, d.body)
      <4>1. results' = Append(results, [request |-> request, banner |-> d.body])
        BY <3>1, <3>4
      <4>2. [request |-> request, banner |-> d.body] \in [request : Bodies, banner : Bodies]
        OBVIOUS
      <4>3. UDPTypeOK' /\ Provenance'
        <5>1. results' \in Seq([request : Bodies, banner : Bodies]) /\ Len(results') = Len(results) + 1
          BY <4>1, <4>2
        <5> QED
          BY <3>1, <3>2, <5>1
      <4>4. port \in {53, 123} => listener = "service" /\ d \in answers
        BY <3>2, <3>4, OnlyTheServicePasses
      <4>5. port = 53 => d.body.id = request.id
        BY <3>4 DEF isOpen, ValidateDNSResponse
      <4>6. ASSUME NEW i \in 1 .. Len(results')
            PROVE  results'[i] = IF i <= Len(results) THEN results[i]
                                 ELSE [request |-> request, banner |-> d.body]
        BY <4>1, <4>2
      <4>7. Len(results') = Len(results) + 1
        BY <4>1
      <4>8. ASSUME NEW i \in 1 .. Len(results'), port \in {53, 123}
            PROVE  /\ listener = "service"
                   /\ \E a \in answers : a.body = results'[i].banner
                   /\ port = 53 => results'[i].banner.id = results'[i].request.id
        <5>1. CASE i <= Len(results)
          <6>1. i \in 1 .. Len(results) /\ results'[i] = results[i]
            BY <4>6, <5>1
          <6> QED
            BY <4>8, <6>1 DEF OpenMeansAnswered
        <5>2. CASE i > Len(results)
          <6>1. results'[i] = [request |-> request, banner |-> d.body]
            BY <4>6, <4>7, <5>2
          <6> QED
            BY <4>4, <4>5, <4>8, <6>1
        <5> QED
          BY <5>1, <5>2
      <4>9. port' = port /\ listener' = listener /\ answers' = answers
        BY <3>1
      <4> QED
        BY <4>3, <4>8, <4>9 DEF OpenMeansAnswered
    <3> QED
      BY <3>3, <3>4
  <2>4. CASE ProbeTimeout
    BY <2>4 DEF ProbeTimeout, OpenMeansAnswered
  <2>5. CASE Listen
    <3>1. PICK q \in asked :
             /\ \/ /\ listener = "service"
                   /\ flight' = flight \cup {[to |-> q.to, body |-> Answer(q.body)]}
                   /\ answers' = answers \cup {[to |-> q.to, body |-> Answer(q.body)]}
                \/ /\ listener = "echo"
                   /\ flight' = flight \cup {q}
                   /\ UNCHANGED answers
                \/ /\ listener = "other"
                   /\ \E body \in Others(q.body) :
                         flight' = flight \cup {[to |-> q.to, body |-> body]}
                   /\ UNCHANGED answers
             /\ asked' \in {asked, asked \ {q}}
             /\ UNCHANGED <<port, listener, clock, socket, request, probes, results>>
      BY <2>5 DEF Listen
    <3>2. q.to \in Sockets /\ q.body \in Bodies /\ q.body \in Requests(port)
      OBVIOUS
    <3>3. CASE listener = "service"
      <4>1. /\ flight' = flight \cup {[to |-> q.to, body |-> Answer(q.body)]}
            /\ answers' = answers \cup {[to |-> q.to, body |-> Answer(q.body)]}
        BY <3>1, <3>3
      <4>2. Answer(q.body) \in Bodies
        BY <3>2, DatagramsAreBodies
      <4>3. UDPTypeOK' /\ Provenance'
        BY <3>1, <3>2, <3>3, <4>1, <4>2
      <4> QED
        BY <3>1, <4>1, <4>3 DEF OpenMeansAnswered
    <3>4. CASE listener = "echo"
      BY <3>1, <3>2, <3>4 DEF OpenMeansAnswered
    <3>5. CASE listener = "other"
      <4>1. PICK body \in Others(q.body) : flight' = flight \cup {[to |-> q.to, body |-> body]}
        BY <3>1, <3>5
      <4>2. body \in Bodies
        BY <3>2, <4>1, DatagramsAreBodies
      <4>3. UDPTypeOK' /\ Provenance'
        BY <3>1, <3>2, <3>5, <4>1, <4>2
      <4> QED
        BY <3>1, <3>5, <4>3 DEF OpenMeansAnswered
    <3> QED
      BY <3>3, <3>4, <3>5
  <2>6. CASE Lose
    BY <2>6 DEF Lose, OpenMeansAnswered
  <2>7. CASE ClockTick
    BY <2>7 DEF ClockTick, OpenMeansAnswered
  <2> QED
    BY <2>1, <2>2, <2>3, <2>4, <2>5, <2>6, <2>7 DEF UDPNext
<1> QED
  BY <1>1, <1>2, PTL DEF UDPSpec

\* udp_worker.go holds one socket at a time and records at most one result for
\* a probe (UDPTypeOK).
THEOREM UDPTypes == UDPSpec => []UDPTypeOK
BY UDPInvariant, PTL DEF UDPInv

\* A DNS or NTP port is recorded open (udp_worker.go) only when the service
\* answered, DNS to this very query, however the network loses, repeats and
\* delays datagrams and whatever else listens on the port.
THEOREM OpenMeansAnsweredTheorem == UDPSpec => []OpenMeansAnswered
BY UDPInvariant, PTL DEF UDPInv

-----------------------------------------------------------------------------
(* The limiter that the workers of both pools wait for.                    *)

\* Each waiting worker has a tick of its own and the bucket owes at least that
\* many tokens; what was counted and what is in the bucket came from the
\* bucket the observer found and the ticks since.
Debts ==
    /\ \A w \in Workers : wait[w] > 0 => wait[w] <= -tokens
    /\ \A v, w \in Workers : v # w /\ wait[v] > 0 => wait[v] # wait[w]
    /\ seen <= Burst + age
    /\ seen + tokens <= Burst + age

LimiterInv == LimiterTypeOK /\ Debts

\* At most one waiting worker is due at a tick, and only while tokens are owed.
LEMMA OneIsDue ==
    ASSUME LimiterTypeOK, Debts
    PROVE  /\ Cardinality(Due) \in 0 .. 1
           /\ Cardinality(Due) = 1 => tokens < 0
<1>1. CASE Due = {}
  <2>1. Cardinality(Due) = 0
    BY <1>1, FS_EmptySet
  <2> QED
    BY <2>1
<1>2. CASE Due # {}
  <2>1. PICK w : w \in Due
    BY <1>2
  <2>2. Due = {w}
    BY <2>1 DEF Due, Debts
  <2>3. Cardinality(Due) = 1
    BY <2>2, FS_Singleton
  <2>4. tokens < 0
    BY <2>1 DEF Due, Debts, LimiterTypeOK
  <2> QED
    BY <2>3, <2>4
<1> QED
  BY <1>1, <1>2

\* The debts of the bucket are the workers that wait.
LEMMA LimiterInvariant == LimiterSpec => []LimiterInv
<1> USE RateAssumption, MaxAgeNat DEF Burst
<1>1. LimiterInit => LimiterInv
  <2> SUFFICES ASSUME LimiterInit PROVE LimiterInv
    OBVIOUS
  <2>1. \A w \in Workers : wait[w] = 0
    BY DEF LimiterInit
  <2>2. LimiterTypeOK
    <3>1. wait \in [Workers -> Nat]
      BY DEF LimiterInit
    <3>2. tokens \in Int /\ tokens <= Burst
      BY DEF LimiterInit
    <3>3. cancelled \in BOOLEAN
      BY DEF LimiterInit
    <3>4. seen \in Nat /\ age \in 0 .. MaxAge
      BY DEF LimiterInit
    <3> QED
      BY <3>1, <3>2, <3>3, <3>4 DEF LimiterTypeOK
  <2>3. Debts
    BY <2>1 DEF LimiterInit, Debts
  <2> QED
    BY <2>2, <2>3 DEF LimiterInv
<1>2. LimiterInv /\ [LimiterNext]_limiterVars => LimiterInv'
  <2> SUFFICES ASSUME LimiterInv, [LimiterNext]_limiterVars PROVE LimiterInv'
    OBVIOUS
  <2> USE DEF LimiterInv, LimiterTypeOK, Debts
  <2>1. CASE UNCHANGED limiterVars
    BY <2>1 DEF limiterVars
  <2>2. ASSUME NEW w \in Workers, StartAtOnce(w)
        PROVE  LimiterInv'
    BY <2>2 DEF StartAtOnce
  <2>3. ASSUME NEW w \in Workers, Wait(w)
        PROVE  LimiterInv'
    BY <2>3 DEF Wait
  <2>4. CASE LimiterTick
    <3>1. /\ Cardinality(Due) \in 0 .. 1
          /\ Cardinality(Due) = 1 => tokens < 0
      BY OneIsDue
    <3>2. PICK n \in 0 .. 1 : n = Cardinality(Due)
      BY <3>1
    <3>3. seen' = seen + n /\ (n = 1 => tokens < 0)
      BY <2>4, <3>1, <3>2 DEF LimiterTick
    <3>4. seen' \in Nat /\ seen' <= Burst + age' /\ seen' + tokens' <= Burst + age'
      BY <2>4, <3>3 DEF LimiterTick
    <3>5. \A w \in Workers : wait'[w] = IF wait[w] = 0 THEN 0 ELSE wait[w] - 1
      BY <2>4 DEF LimiterTick
    <3>6. /\ wait' \in [Workers -> Nat]
          /\ \A w \in Workers : wait'[w] > 0 => wait'[w] <= -tokens'
          /\ \A v, w \in Workers : v # w /\ wait'[v] > 0 => wait'[v] # wait'[w]
      BY <2>4, <3>5 DEF LimiterTick
    <3> QED
      BY <2>4, <3>4, <3>6 DEF LimiterTick
  <2>5. CASE Cancel
    BY <2>5 DEF Cancel
  <2>6. ASSUME NEW w \in Workers, GiveUp(w)
        PROVE  LimiterInv'
    BY <2>6 DEF GiveUp
  <2>7. CASE Observe
    BY <2>7 DEF Observe
  <2> QED
    BY <2>1, <2>2, <2>3, <2>4, <2>5, <2>6, <2>7 DEF LimiterNext
<1> QED
  BY <1>1, <1>2, PTL DEF LimiterSpec

\* The bucket of dispatcher.go never holds more than its burst, and waits are
\* counted down to zero (LimiterTypeOK).
THEOREM LimiterTypes == LimiterSpec => []LimiterTypeOK
BY LimiterInvariant, PTL DEF LimiterInv

\* However many workers share the limiter of dispatcher.go, the probes that
\* start in any window of t ticks are at most the rate and t: at most twice
\* the rate in a second.
THEOREM BoundedStartsTheorem == LimiterSpec => []BoundedStarts
<1>1. LimiterInv => BoundedStarts
  BY DEF LimiterInv, Debts, BoundedStarts
<1> QED
  BY <1>1, LimiterInvariant, PTL
=============================================================================
