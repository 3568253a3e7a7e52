-------------------------------- MODULE MCParts --------------------------------
(* Four components that share no state and call nothing of each other: the TCP
   probe, the UDP probe, the rate limiter and the state manager.  A behaviour
   is one of any of them; the others stay where they began. *)
EXTENDS TCPProbe, UDPProbe, RateLimiter, StateManager

CONSTANTS p1, p2, w1, w2, w3, w4

VARIABLE part  \* that moves

parts == <<part, tcpVars, udpVars, limiterVars, managerVars>>

-----------------------------------------------------------------------------
\* Services that answer in the ways the parsers tell apart: whole, cut short,
\* late, without an end, with and without the header that is looked for.
Plain(kind, text, ends) ==
    [port |-> kind, tls |-> FALSE, lines |-> text, closes |-> ends]

Quiet == [port |-> "other", tls |-> TRUE, lines |-> <<"rest">>, closes |-> FALSE]

MCServices ==
    {Plain("ssh", <<"ssh", "text">>, FALSE), Plain("ssh", <<"text", "ssh">>, TRUE),
     Plain("http", <<"status", "text", "server", "blank">>, TRUE),
     Plain("http", <<"status", "text", "blank", "text">>, FALSE),
     Plain("http", <<"blank", "text">>, TRUE),
     Plain("http", <<"status", "text", "text", "text", "server">>, FALSE),
     Plain("http", <<"status", "flood">>, FALSE),
     Plain("other", <<"text", "text">>, FALSE), Plain("other", <<"blank", "text">>, TRUE),
     Quiet}

\* Two identifiers and two source ports, so that two probes may share either.
MCPorts   == {53, 123, 161}
MCTxIDs   == {7, 65535}
MCSockets == {p1, p2}

\* More workers than tokens.
MCWorkers == {w1, w2, w3, w4}

\* Results that are open and results that are not.
MCPayloads   == {"open", "filtered"}
OpenPayloads == {"open"}

-----------------------------------------------------------------------------
MCInit ==
    /\ part \in {"tcp", "udp", "limiter", "manager"}
    /\ TCPInit /\ UDPInit /\ LimiterInit /\ ManagerInit
    /\ part # "tcp" => service = Quiet
    /\ part # "udp" => port = 53 /\ listener = "service"
    /\ part # "manager" => ~jsonMode /\ db = [k \in Keys |-> Absent]

MCTCP     == part = "tcp"     /\ TCPNext     /\ UNCHANGED <<part, udpVars, limiterVars, managerVars>>
MCUDP     == part = "udp"     /\ UDPNext     /\ UNCHANGED <<part, tcpVars, limiterVars, managerVars>>
MCLimiter == part = "limiter" /\ LimiterNext /\ UNCHANGED <<part, tcpVars, udpVars, managerVars>>
MCManager == part = "manager" /\ ManagerNext /\ UNCHANGED <<part, tcpVars, udpVars, limiterVars>>

MCNext == MCTCP \/ MCUDP \/ MCLimiter \/ MCManager

\* The fairness of the components that state one.
MCSpec ==
    /\ MCInit /\ [][MCNext]_parts
    /\ WF_parts(MCLimiter /\ LimiterTick)
    /\ WF_parts(MCLimiter /\ age = MaxAge /\ Observe)
    /\ \A w \in Workers : WF_parts(MCLimiter /\ GiveUp(w))
    /\ WF_parts(MCManager /\ ManagerStep)

\* Every component keeps its shape.
PartsTypeOK == TCPTypeOK /\ UDPTypeOK /\ LimiterTypeOK /\ ManagerTypeOK
=============================================================================
