------------------------------- MODULE TCPProbe -------------------------------
(***************************************************************************)
(* One TCP probe (internal/scanner/worker.go, tls.go, banners.go) against  *)
(* an unchanging service, repeated, over a network of varying latency.     *)
(* The worker dials, tries a TLS handshake on the connection, and when it  *)
(* fails reads a banner from the same connection in the way of the port.   *)
(* A stream is a sequence of lines, each reduced to its kind; time is      *)
(* counted in ticks, Timeout of them to a deadline.                        *)
(***************************************************************************)
EXTENDS Naturals, Sequences, FiniteSetsExt

CONSTANTS Services,   \* records of what a port serves, see ServiceType
          Timeout,    \* ticks of the -t option
          HTTPLimit,  \* lines that reach the limit of an HTTP head
          MaxDials    \* bound: probes of the service, one after the other

ASSUME TimeoutAssumption == Timeout \in Nat \ {0}
ASSUME HTTPLimitAssumption == HTTPLimit \in Nat \ {0}
ASSUME DialsAssumption == MaxDials \in Nat \ {0}

\* An SSH identification, an HTTP status line, a Server header, another
\* header or greeting, an empty line, a line without end, and the end of a
\* line or record that has lost its beginning.
Kinds == {"ssh", "status", "server", "text", "blank", "flood", "rest"}

\* The case of worker.go's dispatch the port falls under, whether the service
\* speaks TLS, the lines it sends, and whether it then closes.
ServiceType == [port : {"ssh", "http", "other"}, tls : BOOLEAN,
                lines : Seq(Kinds), closes : BOOLEAN]

ASSUME ServicesAreServices == Services \subseteq ServiceType

NoMeta == "none"

\* What a handshake can yield: no certificate, one, or one that verifies.
Handshaken == {"bare", "certificate", "verified"}

Observations == [banner : Seq(Kinds), OSHint : {"", "found", "Unknown/Obfuscated"},
                 meta : Handshaken \cup {NoMeta}]

VARIABLES service,  \* what the port serves
          phase,    \* of the probe under way
          left,     \* ticks to the deadline
          elapsed,  \* ticks since the probe began
          sent,     \* lines the service has sent
          stream,   \* lines that have arrived and are unread
          head,     \* the lines of an HTTP response read so far
          observed  \* the observations of the probes

tcpVars == <<service, phase, left, elapsed, sent, stream, head, observed>>

Phases == {"idle", "dial", "handshake", "parse"}

TCPTypeOK ==
    /\ service \in Services /\ phase \in Phases
    /\ left \in 0 .. Timeout /\ elapsed \in Nat
    /\ sent \in 0 .. Len(service.lines)
    /\ stream \in Seq(Kinds) /\ head \in Seq(Kinds)
    /\ observed \in Seq(Observations) /\ Len(observed) <= MaxDials

TCPInit ==
    /\ service \in Services
    /\ phase = "idle" /\ left = 0 /\ elapsed = 0
    /\ sent = 0 /\ stream = << >> /\ head = << >>
    /\ observed = << >>

-----------------------------------------------------------------------------
(* The observation.                                                        *)

\* White space around a banner is not recorded.
TrimSpace(banner) ==
    LET text == {i \in 1 .. Len(banner) : banner[i] # "blank"} IN
    IF text = {} THEN << >> ELSE SubSeq(banner, Min(text), Max(text))

\* An operating system is looked for in the banner as it was read.
FingerprintOS(banner) ==
    CASE banner = << >> -> ""
      [] \E i \in 1 .. Len(banner) : banner[i] \in {"ssh", "server"} -> "found"
      [] OTHER -> "Unknown/Obfuscated"

\* A connected port is reported open, whatever the layers above say.
Push(banner, meta) ==
    /\ observed' = Append(observed, [banner |-> TrimSpace(banner),
                                   OSHint |-> FingerprintOS(banner), meta |-> meta])
    /\ phase' = "idle" /\ left' = 0 /\ elapsed' = 0
    /\ sent' = 0 /\ stream' = << >> /\ head' = << >>

-----------------------------------------------------------------------------
(* Dialling and the handshake.                                             *)

\* A probe that cannot connect reports nothing; here it tries again.
Dial ==
    /\ phase = "idle" /\ Len(observed) < MaxDials
    /\ phase' = "dial" /\ left' = Timeout
    /\ UNCHANGED <<service, elapsed, sent, stream, head, observed>>

Connected ==
    /\ phase = "dial"
    /\ phase' = "handshake" /\ left' = Timeout
    /\ UNCHANGED <<service, elapsed, sent, stream, head, observed>>

HandshakeOK ==
    /\ phase = "handshake" /\ left > 0
    /\ service.tls
    /\ \E meta \in Handshaken : Push(<< >>, meta)
    /\ UNCHANGED service

\* What a failed handshake leaves of the stream: it reads at least a record
\* header and as much as its buffer takes, so one line at least has lost its
\* beginning.
Leftovers(lines) ==
    LET after(k) == SubSeq(lines, k + 1, Len(lines)) IN
    UNION {{after(k), <<"rest">> \o after(k)} : k \in 1 .. Len(lines)}

\* The service has sent everything and closed; all of it is read.
ServiceFinished == sent = Len(service.lines) /\ service.closes
AtEOF    == ServiceFinished /\ stream = << >>

\* It fails on the first bytes that are no TLS record, when the service closes,
\* or at its deadline.
HandshakeFails ==
    /\ phase = "handshake"
    /\ \/ (left = 0 \/ AtEOF) /\ UNCHANGED stream
       \/ left > 0 /\ stream # << >> /\ stream' \in Leftovers(stream)
    /\ phase' = "parse" /\ left' = Timeout
    /\ UNCHANGED <<service, elapsed, sent, head, observed>>

-----------------------------------------------------------------------------
(* Reading a banner.  A read fails at the deadline, whatever has arrived.  *)

Parsing(port) == phase = "parse" /\ service.port = port

\* Mutation: whatever the port says first is its identification.
ParseSSH_AnyLine ==
    /\ Parsing("ssh") /\ left > 0
    /\ stream # << >>
    /\ Push(<<Head(stream)>>, NoMeta)
    /\ UNCHANGED service

\* One line is read; it counts when it has an end and is an identification.
ParseSSH ==
    /\ Parsing("ssh") /\ left > 0
    /\ stream # << >>
    /\ Push(IF Head(stream) = "ssh" THEN <<"ssh">> ELSE << >>, NoMeta)
    /\ UNCHANGED service

\* Mutation: the deadline is set anew for every line.
ReadHeader_Renews ==
    /\ Parsing("http") /\ left > 0
    /\ stream # << >> /\ Head(stream) # "flood"
    /\ Len(head) + 1 < HTTPLimit
    /\ head = << >> \/ Head(stream) \notin {"server", "blank"}
    /\ head' = Append(head, Head(stream)) /\ stream' = Tail(stream)
    /\ left' = Timeout
    /\ UNCHANGED <<service, phase, elapsed, sent, observed>>

\* The first line is kept as the fallback, and lines follow up to the limit.
ReadHeader ==
    /\ Parsing("http") /\ left > 0
    /\ stream # << >> /\ Head(stream) # "flood"
    /\ Len(head) + 1 < HTTPLimit
    /\ head = << >> \/ Head(stream) \notin {"server", "blank"}
    /\ head' = Append(head, Head(stream)) /\ stream' = Tail(stream)
    /\ UNCHANGED <<service, phase, left, elapsed, sent, observed>>

fallbackStatus == IF head[1] = "blank" THEN << >> ELSE <<head[1]>>

\* The first Server header ends the reading; without one the end of the head
\* or of the stream gives the first line, and a head beyond the limit nothing.
ParseHTTP ==
    /\ Parsing("http") /\ left > 0
    /\ \/ /\ stream # << >> /\ head # << >> /\ Head(stream) = "server"
          /\ Push(<<"server">>, NoMeta)
       \/ /\ stream # << >> /\ head # << >> /\ Head(stream) = "blank"
          /\ Push(fallbackStatus, NoMeta)
       \/ AtEOF /\ head # << >> /\ Push(fallbackStatus, NoMeta)
       \/ /\ stream # << >>
          /\ \/ Head(stream) = "flood"
             \/ /\ Len(head) + 1 >= HTTPLimit
                /\ head = << >> \/ Head(stream) \notin {"server", "blank"}
          /\ Push(<< >>, NoMeta)
    /\ UNCHANGED service

\* One read: whatever has arrived, in one piece.
ReadGreeting ==
    /\ Parsing("other") /\ left > 0
    /\ stream # << >>
    /\ Push(stream, NoMeta)
    /\ UNCHANGED service

\* The deadline has passed, or the service has closed, which fails a read or a
\* write and may discard what is unread.
ReadFails ==
    /\ phase = "parse"
    /\ left = 0 \/ ServiceFinished
    /\ Push(<< >>, NoMeta)
    /\ UNCHANGED service

-----------------------------------------------------------------------------
(* The network and the clock.                                              *)

\* A TLS service that is too slow for the handshake still sends its records.
ServiceSends ==
    /\ phase \in {"handshake", "parse"} /\ sent < Len(service.lines)
    /\ sent' = sent + 1
    /\ stream' = Append(stream, service.lines[sent + 1])
    /\ UNCHANGED <<service, phase, left, elapsed, head, observed>>

TCPTick ==
    /\ phase # "idle" /\ left > 0
    /\ left' = left - 1 /\ elapsed' = elapsed + 1
    /\ UNCHANGED <<service, phase, sent, stream, head, observed>>

DialTimeout ==
    /\ phase = "dial" /\ left = 0
    /\ phase' = "idle" /\ elapsed' = 0
    /\ UNCHANGED <<service, left, sent, stream, head, observed>>

TCPNext ==
    \/ Dial \/ Connected \/ DialTimeout
    \/ HandshakeOK \/ HandshakeFails
    \/ ParseSSH \/ ReadHeader \/ ParseHTTP \/ ReadGreeting \/ ReadFails
    \/ ServiceSends \/ TCPTick

TCPSpec == TCPInit /\ [][TCPNext]_tcpVars

-----------------------------------------------------------------------------
\* A worker is held by one service for three timeouts at most (dial, handshake,
\* banner), however slowly the service drips its lines: the deadlines are
\* absolute, one to a phase.
ProbeIsTimely ==
    elapsed <= Timeout * (CASE phase = "dial" -> 1 [] phase = "handshake" -> 2 [] OTHER -> 3)

\* Nothing is recorded that the service did not say, whatever the order of
\* arrival and wherever the handshake cut the stream: TLS metadata come from a
\* TLS service and without a banner, and an SSH port is recorded only with an
\* identification that is intact.
ObservationsAreGenuine ==
    \A i \in 1 .. Len(observed) :
        LET o == observed[i] IN
        /\ o.meta # NoMeta => service.tls /\ o.banner = << >> /\ o.OSHint = ""
        /\ service.port = "ssh" => o.banner \in {<< >>, <<"ssh">>}
        /\ \A j \in 1 .. Len(o.banner) :
              o.banner[j] = "rest" \/ \E l \in 1 .. Len(service.lines) : service.lines[l] = o.banner[j]
=============================================================================
