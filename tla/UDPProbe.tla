------------------------------- MODULE UDPProbe -------------------------------
(***************************************************************************)
(* UDP probes of one port (internal/scanner/udp_worker.go) and the checks  *)
(* an answer has to pass (payloads.go), over a network that loses, repeats *)
(* and delays datagrams.  A datagram is reduced to the fields the checks   *)
(* read and to what else tells two answers apart.                          *)
(***************************************************************************)
EXTENDS Naturals, Sequences

CONSTANTS Ports,    \* the ports probed, 53, 123 and 161
          TxIDs,    \* transaction identifiers the clock can give
          Sockets,  \* source ports the operating system can give
          Probes    \* bound: probes of the port, one after the other

ASSUME PortsAreSupported == Ports \subseteq {53, 123, 161}
ASSUME TxIDsAreWords == \A id \in TxIDs : id \in Nat /\ id < 65536
ASSUME ProbesAssumption == Probes \in Nat \ {0}
NoSocket == "none"
ASSUME NoSocketIsNone == NoSocket \notin Sockets

-----------------------------------------------------------------------------
(* Datagrams and their checks.                                             *)

\* Byte 2 of a DNS header: response bit, operation code, AA, TC and RD.
DNSFlags(qr, opcode, rest) == 128 * qr + 8 * opcode + rest

\* Byte 0 of an NTP header: leap indicator, version, mode.
NTPFirst(leap, version, mode) == 64 * leap + 8 * version + mode

\* The flags byte, the length, the identifier (DNS), the stratum and the
\* transmit timestamp (NTP).
Datagram(byte, len, id, stratum, transmit) ==
    [byte |-> byte, len |-> len, id |-> id, stratum |-> stratum, transmit |-> transmit]

BuildDNSQuery(txID) == Datagram(DNSFlags(0, 0, 1), 27, txID, 0, 0)
BuildNTPRequest     == Datagram(NTPFirst(0, 4, 3), 48, 0, 0, 0)
SNMPRequest         == Datagram(0, 40, 0, 0, 0)

\* Mutation: the identifier is not compared.
ValidateDNSResponse_AnyID(req, resp) ==
    /\ resp.len >= 12
    /\ (resp.byte \div 128) % 2 = 1
    /\ (resp.byte \div 8) % 16 = 0

ValidateDNSResponse(req, resp) ==
    /\ resp.len >= 12
    /\ resp.id = req.id
    /\ (resp.byte \div 128) % 2 = 1
    /\ (resp.byte \div 8) % 16 = 0

ValidateNTPResponse(resp) ==
    /\ resp.len >= 48
    /\ resp.byte % 8 \in {4, 5}
    /\ (resp.byte \div 8) % 8 \in 1 .. 4
    /\ resp.stratum <= 16
    /\ resp.transmit # 0

isOpen(port, req, resp) ==
    CASE port = 53  -> ValidateDNSResponse(req, resp)
      [] port = 123 -> ValidateNTPResponse(resp)
      [] OTHER      -> resp.len > 0

Requests(port) ==
    IF port = 53 THEN {BuildDNSQuery(id) : id \in TxIDs}
    ELSE {IF port = 123 THEN BuildNTPRequest ELSE SNMPRequest}

-----------------------------------------------------------------------------
VARIABLES port,      \* the port
          listener,  \* what listens on it: "service", "echo" or "other"
          clock,     \* of the service, for the timestamps it sends
          socket,    \* the socket of the probe under way, or NoSocket
          request,   \* what the probe sent
          flight,    \* datagrams in the network: [to, body]
          asked,     \* requests that reached the listener: [from, body]
          answers,   \* every answer the service gave: [to, body]
          probes,    \* probes made
          results    \* open results: [request, banner]

netVars == <<flight, asked, answers>>
udpVars == <<port, listener, clock, socket, request, netVars, probes, results>>

Bodies == [byte : Nat, len : Nat, id : Nat, stratum : Nat, transmit : Nat]

UDPTypeOK ==
    /\ port \in Ports /\ listener \in {"service", "echo", "other"}
    /\ clock \in 1 .. Probes + 1
    /\ socket \in Sockets \cup {NoSocket}
    /\ request \in Bodies
    /\ flight \subseteq [to : Sockets, body : Bodies]
    /\ asked \subseteq [to : Sockets, body : Bodies]
    /\ answers \subseteq [to : Sockets, body : Bodies]
    /\ probes \in 0 .. Probes
    /\ results \in Seq([request : Bodies, banner : Bodies]) /\ Len(results) <= probes

UDPInit ==
    /\ port \in Ports /\ listener \in {"service", "echo", "other"}
    /\ clock = 1
    /\ socket = NoSocket /\ request = SNMPRequest
    /\ flight = {} /\ asked = {} /\ answers = {}
    /\ probes = 0 /\ results = << >>

\* A probe sends one datagram from a socket of its own; its source port may be
\* one that an earlier probe had.
SendProbe ==
    /\ socket = NoSocket /\ probes < Probes
    /\ socket' \in Sockets
    /\ request' \in Requests(port)
    /\ asked' = asked \cup {[to |-> socket', body |-> request']}
    /\ probes' = probes + 1
    /\ UNCHANGED <<port, listener, clock, flight, answers, results>>

\* Mutation: the worker goes on reading after an answer.
ReadAnswer_KeepsSocket ==
    \E d \in flight :
        /\ d.to = socket
        /\ results' = IF isOpen(port, request, d.body)
                      THEN Append(results, [request |-> request, banner |-> d.body])
                      ELSE results
        /\ UNCHANGED <<port, listener, clock, socket, request, netVars, probes>>

\* One datagram is read; if it does not validate, the probe ends without a
\* result and a later answer is not read.
ReadAnswer ==
    \E d \in flight :
        /\ d.to = socket
        /\ results' = IF isOpen(port, request, d.body)
                      THEN Append(results, [request |-> request, banner |-> d.body])
                      ELSE results
        /\ socket' = NoSocket
        /\ UNCHANGED <<port, listener, clock, request, netVars, probes>>

ProbeTimeout ==
    /\ socket # NoSocket
    /\ socket' = NoSocket
    /\ UNCHANGED <<port, listener, clock, request, netVars, probes, results>>

-----------------------------------------------------------------------------
(* The network and what listens.                                           *)

\* What the service says to a request that reached it.  An NTP server stamps
\* its answer with its clock; an unsynchronized one has no time to give.
Answer(req) ==
    CASE port = 53  -> Datagram(DNSFlags(1, 0, 1), 43, req.id, 0, 0)
      [] port = 123 -> Datagram(NTPFirst(0, 4, 4), 48, 0, 2, clock)
      [] OTHER      -> Datagram(0, 60, 0, 0, 0)

\* Some other program: an answer of another operation, a short one, a server
\* without a time.
Others(req) ==
    {Datagram(DNSFlags(1, 4, 0), 43, req.id, 0, 0), Datagram(DNSFlags(1, 0, 1), 4, req.id, 0, 0),
     Datagram(NTPFirst(3, 4, 4), 48, 0, 0, 0)}

Listen ==
    \E q \in asked :
        /\ \/ /\ listener = "service"
              /\ flight' = flight \cup {[to |-> q.to, body |-> Answer(q.body)]}
              /\ answers' = answers \cup {[to |-> q.to, body |-> Answer(q.body)]}
           \/ /\ listener = "echo"
              /\ flight' = flight \cup {q}
              /\ UNCHANGED answers
           \/ /\ listener = "other"
              /\ \E body \in Others(q.body) : flight' = flight \cup {[to |-> q.to, body |-> body]}
              /\ UNCHANGED answers
        /\ asked' \in {asked, asked \ {q}}
        /\ UNCHANGED <<port, listener, clock, socket, request, probes, results>>

Lose ==
    /\ \/ \E d \in flight : flight' = flight \ {d} /\ UNCHANGED asked
       \/ \E q \in asked : asked' = asked \ {q} /\ UNCHANGED flight
    /\ UNCHANGED <<port, listener, clock, socket, request, answers, probes, results>>

ClockTick ==
    /\ clock <= Probes
    /\ clock' = clock + 1
    /\ UNCHANGED <<port, listener, socket, request, netVars, probes, results>>

UDPNext == SendProbe \/ ReadAnswer \/ ProbeTimeout \/ Listen \/ Lose \/ ClockTick

UDPSpec == UDPInit /\ [][UDPNext]_udpVars

-----------------------------------------------------------------------------
\* A DNS or NTP port is open only because a service answered, whatever else
\* listens: a reflected request and an answer of another operation prove
\* nothing.  A DNS answer has the identifier of the query of its probe, so that
\* one to an earlier query of another identifier is not taken for it; an NTP
\* answer names no request, and a late one to an earlier probe counts.
OpenMeansAnswered ==
    \A i \in 1 .. Len(results) :
        LET r == results[i] IN
        port \in {53, 123} =>
            /\ listener = "service"
            /\ \E a \in answers : a.body = r.banner
            /\ port = 53 => r.banner.id = r.request.id

\* The DNS or NTP service that answers a port, one and the same throughout, is
\* recorded with the same banner every time: ARCHITECTURE.md:184 keeps what
\* changes from scan to scan (here the transaction ID of a DNS answer and the
\* time stamps of an NTP answer) out of the comparison.
AnswerIsStable ==
    listener = "service" /\ port \in {53, 123} =>
        \A i, j \in 1 .. Len(results) : results[i].banner = results[j].banner
=============================================================================
