----------------------------- MODULE Projection -----------------------------
(***************************************************************************)
(* How a flow of the traced program finds its way: the three maps of       *)
(* proxy.Proxy and the handlers that use them.  The tracer asks for a      *)
(* projection of the address in a connect or sendto and pokes it into the  *)
(* program; the proxy is then contacted at that projection and reads the   *)
(* target back from it.  In between, and between the phases of a hijacked  *)
(* DNS query, other flows allocate too.                                    *)
(*                                                                         *)
(* An address target is <<host, port>> (net.JoinHostPort) where the host   *)
(* is an IP or a domain: the tracer projects a domain's reserved IP a      *)
(* second time, as "domain:port".  Each handler call is one step, except   *)
(* the A query, which waits for the real DNS server half way through.      *)
(***************************************************************************)
EXTENDS Integers, FiniteSets

CONSTANTS
    Flows,       \* sockets or ICMP exchanges the program has at a time
    IPs,         \* public addresses the program uses
    Domains,     \* names it looks up
    Port,        \* the port of its TCP and plain UDP flows
    None,        \* "" of a Go map lookup, or no value
    AddrLast, AddrStart,    \* pool of addrMapper (see IPMapper)
    DomLast, DomStart       \* pool of domainMapper

DNSPort == 53

(* The server handleUDP substitutes for the DNS requests it relays.        *)
PublicDNS == <<"1.1.1.1", DNSPort>>

(* Flows go to an address or to a name; DNS queries go to an address.      *)
AddrTargets == IPs \X {Port, DNSPort} \cup Domains \X {Port}

ASSUME ProjectionAssumption ==
    /\ AddrLast \in Nat \ {0} /\ DomLast \in Nat \ {0}
    /\ AddrStart = 0 \/ (AddrStart \in Int /\ AddrStart < -1)
    /\ DomStart = 0 \/ (DomStart \in Int /\ DomStart < -1)
    /\ None \notin Int /\ None \notin IPs \cup Domains
    /\ None \notin AddrTargets /\ IPs \cap Domains = {}
    /\ Port \in Nat \ {DNSPort}

VARIABLES
    addrMap, addrRev, addrLast,    \* addrMapper: target  -> loopback IP
    domMap, domRev, domLast,       \* domainMapper: domain -> reserved IP
    realIP,        \* realIPMapper; the real address of d is written d
    answers,       \* <<domain, fake IP>> the program has been told
    flow,          \* the flows, see FlowRecord
    supportUDP     \* the node relays UDP; fixed for a run

addrVars == <<addrMap, addrRev, addrLast>>
domVars == <<domMap, domRev, domLast>>
vars == <<addrVars, domVars, realIP, answers, flow, supportUDP>>

AddrMapper == INSTANCE IPMapper WITH
    Targets <- AddrTargets, NoTarget <- None, NoAddr <- None,
    Last <- AddrLast, Start <- AddrStart,
    mapper <- addrMap, revMapper <- addrRev, lastAlloc <- addrLast

DomainMapper == INSTANCE IPMapper WITH
    Targets <- Domains, NoTarget <- None, NoAddr <- None,
    Last <- DomLast, Start <- DomStart,
    mapper <- domMap, revMapper <- domRev, lastAlloc <- domLast

-----------------------------------------------------------------------------
Idle == [phase |-> "idle"]

(* net and payload say what the program sent; want is where to; dst is the *)
(* projection the tracer poked in; got is where the proxy took it, name    *)
(* the domain a query asks for and ans the fake IP chosen for it.          *)
FlowRecord ==
    [phase : {"sent", "forwarding", "relayed", "answered", "dropped"},
     net : {"tcp", "udp", "icmp"}, payload : {"data", "A", "AAAA", "otherDNS"},
     name : Domains \cup {None}, want : AddrTargets,
     dst : Nat \cup Domains, got : AddrTargets \cup {PublicDNS, None},
     ans : Nat \cup {None}]

TypeOK ==
    /\ AddrMapper!TypeOK
    /\ DomainMapper!TypeOK
    /\ realIP \in [DomainMapper!Addrs -> Domains \cup {None}]
    /\ answers \subseteq Domains \X DomainMapper!Addrs
    /\ flow \in [Flows -> FlowRecord \cup {Idle}]
    /\ supportUDP \in BOOLEAN

Init ==
    /\ AddrMapper!Init
    /\ DomainMapper!Init
    /\ realIP = [a \in DomainMapper!Addrs |-> None]
    /\ answers = {}
    /\ flow = [f \in Flows |-> Idle]
    /\ supportUDP \in BOOLEAN

New(net, payload, name, want, dst) ==
    [phase |-> "sent", net |-> net, payload |-> payload, name |-> name,
     want |-> want, dst |-> dst, got |-> None, ans |-> None]

Moves(f, phase, got) ==
    flow' = [flow EXCEPT ![f].phase = phase, ![f].got = got]

-----------------------------------------------------------------------------
(* The tracer's side: handleINet4 / handleINet6 on the address in a        *)
(* connect, sendto or sendmsg.                                             *)

Redirectable(net, port) == net = "udp" => supportUDP \/ port = DNSPort

(* An address that is not reserved is projected as it stands.              *)
SendToIP(f, net, payload, name, ip, port) ==
    /\ flow[f] = Idle
    /\ Redirectable(net, port)
    /\ AddrMapper!Alloc(<<ip, port>>)
    /\ flow' = [flow EXCEPT ![f] =
           New(net, payload, name, <<ip, port>>, AddrMapper!AllocAddr(<<ip, port>>))]
    /\ UNCHANGED <<domVars, realIP, answers, supportUDP>>

(* The domain behind a reserved IP, as GetProjection reports it now.       *)
DomainTarget(fake, port) == <<DomainMapper!Get(fake), port>>

(* The program uses the fake IP it was given for d.                        *)
SendToDomain(f, net, d, fake, port) ==
    /\ flow[f] = Idle
    /\ <<d, fake>> \in answers
    /\ Redirectable(net, port)
    /\ AddrMapper!Alloc(DomainTarget(fake, port))
    /\ flow' = [flow EXCEPT ![f] =
           New(net, "data", None, <<d, port>>,
               AddrMapper!AllocAddr(DomainTarget(fake, port)))]
    /\ UNCHANGED <<domVars, realIP, answers, supportUDP>>

(* Neither TCP nor UDP: the fake IP is swapped for the real one, if known. *)
SendICMP(f, d, fake) ==
    /\ flow[f] = Idle
    /\ <<d, fake>> \in answers
    /\ flow' = [flow EXCEPT ![f] =
           New("icmp", "data", None, <<d, Port>>,
               IF realIP[fake] # None THEN realIP[fake] ELSE fake)]
    /\ UNCHANGED <<addrVars, domVars, realIP, answers, supportUDP>>

-----------------------------------------------------------------------------
(* The proxy's side.                                                       *)

Sent(f) == flow[f] # Idle /\ flow[f].phase = "sent" /\ flow[f].net # "icmp"

Forwarding(f) == flow[f] # Idle /\ flow[f].phase = "forwarding"

(* Faulty variant: ListenUDP handles a datagram before it reads another.   *)
Arrived_OneByOne(f, net) ==
    /\ Sent(f) /\ flow[f].net = net
    /\ net = "udp" => \A g \in Flows : ~Forwarding(g)

(* The listeners start a goroutine for each connection and each datagram.  *)
Arrived(f, net) == Sent(f) /\ flow[f].net = net

(* Faulty variant: looks up the far end of the connection, as handleUDP.   *)
HandleTCP_RemoteAddr(f) ==
    /\ Arrived(f, "tcp")
    /\ LET tgt == AddrMapper!Get(1)
       IN  IF tgt = None THEN Moves(f, "dropped", None) ELSE Moves(f, "relayed", tgt)
    /\ UNCHANGED <<addrVars, domVars, realIP, answers, supportUDP>>

(* handleTCP: the listener's end of the connection is the projection.      *)
HandleTCP(f) ==
    /\ Arrived(f, "tcp")
    /\ LET tgt == AddrMapper!Get(flow[f].dst)
       IN  IF tgt = None THEN Moves(f, "dropped", None) ELSE Moves(f, "relayed", tgt)
    /\ UNCHANGED <<addrVars, domVars, realIP, answers, supportUDP>>

(* handleUDP looks up the address the datagram came from.  The kernel      *)
(* sends from 127.0.0.1, whichever loopback address it sends to.           *)
SourceIP == 1

UDPTarget == AddrMapper!Get(SourceIP)

(* A socket bound to an interface sends from there, where nothing is       *)
(* projected: the datagram is dropped, like one that no target is found    *)
(* for.                                                                    *)
UnmappedUDP(f) ==
    /\ Arrived(f, "udp")
    /\ Moves(f, "dropped", None)
    /\ UNCHANGED <<addrVars, domVars, realIP, answers, supportUDP>>

(* hijackDNS projects the name; an AAAA query is answered at once and an A *)
(* query is first forwarded to the server.                                 *)
HijackDNS(f) ==
    /\ Arrived(f, "udp")
    /\ UDPTarget # None
    /\ flow[f].payload \in {"A", "AAAA"}
    /\ LET d == flow[f].name
           fake == DomainMapper!AllocAddr(d)
       IN  /\ DomainMapper!Alloc(d)
           /\ \/ /\ flow[f].payload = "AAAA"
                 /\ answers' = answers \cup {<<d, fake>>}
                 /\ flow' = [flow EXCEPT ![f].phase = "answered", ![f].ans = fake]
              \/ /\ flow[f].payload = "A"
                 /\ flow' = [flow EXCEPT ![f].phase = "forwarding", ![f].ans = fake,
                                         ![f].got = UDPTarget]
                 /\ UNCHANGED answers
    /\ UNCHANGED <<addrVars, realIP, supportUDP>>

AnswerFake(f) ==
    /\ answers' = answers \cup {<<flow[f].name, flow[f].ans>>}
    /\ flow' = [flow EXCEPT ![f].phase = "answered"]

(* Faulty variant: the real IP is filed under the newest fake IP.          *)
RestoreRealIP_Newest(f) ==
    /\ Forwarding(f)
    /\ realIP' = [realIP EXCEPT ![domLast] = flow[f].name]
    /\ AnswerFake(f)
    /\ UNCHANGED <<addrVars, domVars, supportUDP>>

(* The server's answer has an A record: it is kept for ICMP.               *)
RestoreRealIP(f) ==
    /\ Forwarding(f)
    /\ realIP' = [realIP EXCEPT ![flow[f].ans] = flow[f].name]
    /\ AnswerFake(f)
    /\ UNCHANGED <<addrVars, domVars, supportUDP>>

(* No A record among the answers, or the exchange failed.                  *)
AnswerWithoutRealIP(f) ==
    /\ Forwarding(f)
    /\ AnswerFake(f)
    /\ UNCHANGED <<addrVars, domVars, realIP, supportUDP>>

(* An empty answer is passed on as it is: the program learns no address.   *)
PassOnEmptyAnswer(f) ==
    /\ Forwarding(f)
    /\ flow' = [flow EXCEPT ![f].phase = "answered"]
    /\ UNCHANGED <<addrVars, domVars, realIP, answers, supportUDP>>

(* Other DNS questions go to the server directly when the node has no UDP  *)
(* and else, like any datagram, through the node; DNS to a public server.  *)
RelayUDP(f) ==
    /\ Arrived(f, "udp")
    /\ UDPTarget # None
    /\ \/ /\ flow[f].payload = "otherDNS"
          /\ Moves(f, "relayed", IF supportUDP THEN PublicDNS ELSE UDPTarget)
       \/ /\ flow[f].payload = "data"
          /\ IF supportUDP THEN Moves(f, "relayed", UDPTarget)
                           ELSE Moves(f, "dropped", None)
    /\ UNCHANGED <<addrVars, domVars, realIP, answers, supportUDP>>

(* The program is done with the flow.  It keeps its answers.               *)
Finish(f) ==
    /\ flow[f] # Idle
    /\ flow[f].net = "icmp" \/ flow[f].phase \in {"relayed", "answered", "dropped"}
    /\ flow' = [flow EXCEPT ![f] = Idle]
    /\ UNCHANGED <<addrVars, domVars, realIP, answers, supportUDP>>

-----------------------------------------------------------------------------
(* The goroutine of a connection or a datagram.                            *)
Handle(f) == HandleTCP(f) \/ UnmappedUDP(f) \/ HijackDNS(f) \/ RelayUDP(f)

Next ==
    \/ \E f \in Flows, ip \in IPs :
           \/ SendToIP(f, "tcp", "data", None, ip, Port)
           \/ SendToIP(f, "udp", "data", None, ip, Port)
           \/ \E d \in Domains, q \in {"A", "AAAA", "otherDNS"} :
                  SendToIP(f, "udp", q, d, ip, DNSPort)
    \/ \E f \in Flows, a \in answers :
           \/ SendToDomain(f, "tcp", a[1], a[2], Port)
           \/ SendToDomain(f, "udp", a[1], a[2], Port)
           \/ SendICMP(f, a[1], a[2])
    \/ \E f \in Flows :
           \/ Handle(f)
           \/ RestoreRealIP(f) \/ AnswerWithoutRealIP(f) \/ PassOnEmptyAnswer(f)
           \/ Finish(f)

Spec == Init /\ [][Next]_vars

(* The goroutine of a connection or datagram runs.  Nothing makes a server *)
(* answer a forwarded query: forwardDNSMessage reads without a deadline.   *)
Fairness == \A f \in Flows : WF_vars(Handle(f))

FairSpec == Spec /\ Fairness

-----------------------------------------------------------------------------
(* The connection the proxy dials for the program is the one the program   *)
(* asked for, by name or by address, whatever was projected in between.    *)
TCPDialsWanted ==
    \A f \in Flows : flow[f] # Idle /\ flow[f].net = "tcp" =>
        /\ flow[f].phase # "dropped"
        /\ flow[f].phase = "relayed" => flow[f].got = flow[f].want

(* An address the program was told stays the address of that name: a       *)
(* resolver cache or a long-lived socket is never redirected elsewhere.    *)
AnswersStayTrue == \A a \in answers : DomainMapper!Get(a[2]) = a[1]

(* A ping of a fake IP, when it is restored, reaches the real address of   *)
(* the domain and not of one that had, or got, the same fake IP: the A     *)
(* query sets realIPMapper long after it took the fake IP.                 *)
ICMPReachesDomain ==
    \A f \in Flows : flow[f] # Idle /\ flow[f].net = "icmp" =>
        flow[f].dst \in {flow[f].want[1]} \cup DomainMapper!Addrs

(* Both mappers are directories that only grow, as their callers assume:   *)
(* what is projected at an address never changes, and addresses are not    *)
(* shared.                                                                 *)
DirectoriesOnlyGrow ==
    AddrMapper!ImplementsDirectory /\ DomainMapper!ImplementsDirectory

(* A connection or datagram that reaches the proxy is handled, even if     *)
(* every A query that is being forwarded waits for its answer for ever.    *)
HandledRegardless ==
    \A f \in Flows : Sent(f) ~> ~Sent(f)

-----------------------------------------------------------------------------
(* A datagram is relayed to the target its sender addressed (the lookup's  *)
(* "loopback IP -> target address"), except that DNS goes to PublicDNS.    *)
UDPReachesWanted ==
    \A f \in Flows :
        flow[f] # Idle /\ flow[f].net = "udp" /\ flow[f].phase = "relayed" =>
            flow[f].got \in {flow[f].want, PublicDNS}

=============================================================================
