------------------------- MODULE Projection_proofs -------------------------
(***************************************************************************)
(* Projection for any flows, names and addresses.  Both mappers bring what *)
(* IPMapper_proofs shows of a mapper: typing without a bound, and, for a   *)
(* pool that fits its targets, that a projection reads back.  What is left *)
(* to show is that the flows, the answers and realIPMapper keep to the     *)
(* projections they were made with.                                        *)
(***************************************************************************)
EXTENDS Projection, TLAPS

AddrFacts == INSTANCE IPMapper_proofs WITH
    Targets <- AddrTargets, NoTarget <- None, NoAddr <- None,
    Last <- AddrLast, Start <- AddrStart,
    mapper <- addrMap, revMapper <- addrRev, lastAlloc <- addrLast

DomFacts == INSTANCE IPMapper_proofs WITH
    Targets <- Domains, NoTarget <- None, NoAddr <- None,
    Last <- DomLast, Start <- DomStart,
    mapper <- domMap, revMapper <- domRev, lastAlloc <- domLast

(* The pools hold every address and name the flows use.                    *)
PoolsFit == AddrMapper!Fits /\ DomainMapper!Fits

-----------------------------------------------------------------------------
(* The mappers' lemmas, in the words of this module.                       *)
LEMMA AddrAlloc ==
    ASSUME AddrMapper!TypeOK, AddrFacts!Occupied, NEW t \in AddrTargets, AddrMapper!Alloc(t)
    PROVE  /\ AddrMapper!TypeOK' /\ AddrFacts!Occupied'
           /\ AddrMapper!AllocAddr(t) \in AddrMapper!Addrs
           /\ addrRev'[t] = AddrMapper!AllocAddr(t)
           /\ \A u \in AddrTargets : addrRev[u] # None => addrRev'[u] = addrRev[u]
           /\ AddrMapper!Next
<1>1. AddrFacts!TypeOK
  BY DEF AddrFacts!TypeOK, AddrMapper!TypeOK, AddrFacts!Prefix, AddrMapper!Prefix,
         AddrFacts!Addrs, AddrMapper!Addrs
<1>2. AddrFacts!Alloc(t)
  BY DEF AddrFacts!Alloc, AddrMapper!Alloc, AddrFacts!AllocKnown, AddrMapper!AllocKnown,
         AddrFacts!AllocNew, AddrMapper!AllocNew, AddrFacts!Known, AddrMapper!Known,
         AddrFacts!mapVars, AddrMapper!mapVars, AddrFacts!NextAddr, AddrMapper!NextAddr,
         AddrFacts!Prefix, AddrMapper!Prefix
<1>3. /\ AddrFacts!TypeOK' /\ AddrFacts!Occupied'
      /\ AddrFacts!AllocAddr(t) \in AddrFacts!Addrs
      /\ addrRev'[t] = AddrFacts!AllocAddr(t)
      /\ \A u \in AddrTargets : AddrFacts!Known(u) => addrRev'[u] = addrRev[u]
  BY <1>1, <1>2, AddrFacts!AllocStep, ProjectionAssumption
<1>4. AddrMapper!TypeOK'
  BY <1>3 DEF AddrFacts!TypeOK, AddrMapper!TypeOK, AddrFacts!Prefix, AddrMapper!Prefix,
         AddrFacts!Addrs, AddrMapper!Addrs
<1>5. AddrFacts!AllocAddr(t) = AddrMapper!AllocAddr(t)
  BY DEF AddrFacts!AllocAddr, AddrMapper!AllocAddr, AddrFacts!Known, AddrMapper!Known,
         AddrFacts!NextAddr, AddrMapper!NextAddr, AddrFacts!Prefix, AddrMapper!Prefix
<1> QED
  BY <1>3, <1>4, <1>5
     DEF AddrFacts!Addrs, AddrMapper!Addrs, AddrFacts!Known, AddrMapper!Next

LEMMA DomAlloc ==
    ASSUME DomainMapper!TypeOK, DomFacts!Occupied, NEW t \in Domains, DomainMapper!Alloc(t)
    PROVE  /\ DomainMapper!TypeOK' /\ DomFacts!Occupied'
           /\ DomainMapper!AllocAddr(t) \in DomainMapper!Addrs
           /\ domRev'[t] = DomainMapper!AllocAddr(t)
           /\ \A u \in Domains : domRev[u] # None => domRev'[u] = domRev[u]
           /\ DomainMapper!Next
<1>1. DomFacts!TypeOK
  BY DEF DomFacts!TypeOK, DomainMapper!TypeOK, DomFacts!Prefix, DomainMapper!Prefix,
         DomFacts!Addrs, DomainMapper!Addrs
<1>2. DomFacts!Alloc(t)
  BY DEF DomFacts!Alloc, DomainMapper!Alloc, DomFacts!AllocKnown, DomainMapper!AllocKnown,
         DomFacts!AllocNew, DomainMapper!AllocNew, DomFacts!Known, DomainMapper!Known,
         DomFacts!mapVars, DomainMapper!mapVars, DomFacts!NextAddr, DomainMapper!NextAddr,
         DomFacts!Prefix, DomainMapper!Prefix
<1>3. /\ DomFacts!TypeOK' /\ DomFacts!Occupied'
      /\ DomFacts!AllocAddr(t) \in DomFacts!Addrs
      /\ domRev'[t] = DomFacts!AllocAddr(t)
      /\ \A u \in Domains : DomFacts!Known(u) => domRev'[u] = domRev[u]
  BY <1>1, <1>2, DomFacts!AllocStep, ProjectionAssumption
<1>4. DomainMapper!TypeOK'
  BY <1>3 DEF DomFacts!TypeOK, DomainMapper!TypeOK, DomFacts!Prefix, DomainMapper!Prefix,
         DomFacts!Addrs, DomainMapper!Addrs
<1>5. DomFacts!AllocAddr(t) = DomainMapper!AllocAddr(t)
  BY DEF DomFacts!AllocAddr, DomainMapper!AllocAddr, DomFacts!Known, DomainMapper!Known,
         DomFacts!NextAddr, DomainMapper!NextAddr, DomFacts!Prefix, DomainMapper!Prefix
<1> QED
  BY <1>3, <1>4, <1>5
     DEF DomFacts!Addrs, DomainMapper!Addrs, DomFacts!Known, DomainMapper!Next

-----------------------------------------------------------------------------
(* Flows and answers name what the mappers have projected.  None of this   *)
(* needs pools that fit: revMapper keeps its entries when a pool wraps.    *)
FlowTyped(r) ==
    /\ r.net # "icmp" => r.dst \in AddrMapper!Addrs
    /\ r.payload # "data" => r.name \in Domains
    /\ r.phase = "forwarding" => r.name \in Domains /\ r.ans \in DomainMapper!Addrs
                                 /\ domRev[r.name] = r.ans

AnswersGiven == \A a \in answers : domRev[a[1]] = a[2]

IInv ==
    /\ TypeOK
    /\ AddrFacts!Occupied /\ DomFacts!Occupied
    /\ \A f \in Flows : flow[f] # Idle => FlowTyped(flow[f])
    /\ AnswersGiven

(* A step of one flow, in terms of the record it leaves behind.            *)
LEMMA OneFlowChanges ==
    ASSUME IInv, NEW f \in Flows, NEW r \in FlowRecord \cup {Idle},
           flow' = [flow EXCEPT ![f] = r],
           AddrMapper!TypeOK', AddrFacts!Occupied',
           DomainMapper!TypeOK', DomFacts!Occupied',
           \A d \in Domains : domRev[d] # None => domRev'[d] = domRev[d],
           realIP' \in [DomainMapper!Addrs -> Domains \cup {None}],
           \A a \in answers' \ answers :
               a \in Domains \X DomainMapper!Addrs /\ domRev'[a[1]] = a[2],
           supportUDP' = supportUDP,
           r # Idle => FlowTyped(r)'
    PROVE  IInv'
<1>1. \A d \in Domains, x \in DomainMapper!Addrs : domRev[d] = x => domRev'[d] = x
  BY ProjectionAssumption DEF DomainMapper!Addrs
<1>2. flow' \in [Flows -> FlowRecord \cup {Idle}] /\ supportUDP' \in BOOLEAN
  BY DEF IInv, TypeOK
<1>3. answers' \subseteq Domains \X DomainMapper!Addrs /\ AnswersGiven'
  BY <1>1 DEF IInv, TypeOK, AnswersGiven
<1>4. ASSUME NEW g \in Flows, flow'[g] # Idle
      PROVE  FlowTyped(flow[g])'
  <2>1. CASE g = f
    BY <1>4, <2>1 DEF IInv, TypeOK
  <2>2. CASE g # f
    <3>1. flow'[g] = flow[g]
      BY <2>2 DEF IInv, TypeOK
    <3> QED
      BY <1>1, <1>4, <3>1 DEF IInv, FlowTyped
  <2> QED
    BY <2>1, <2>2
<1> QED
  BY <1>2, <1>3, <1>4 DEF IInv, TypeOK

(* A flow moves on, keeping what the program sent and where to.            *)
SameRequest(r, s) ==
    /\ r.net = s.net /\ r.payload = s.payload /\ r.name = s.name
    /\ r.want = s.want /\ r.dst = s.dst

LEMMA MovesRecord ==
    ASSUME IInv, NEW f \in Flows, flow[f] # Idle,
           NEW phase \in {"relayed", "answered", "dropped"},
           NEW got \in AddrTargets \cup {PublicDNS, None},
           Moves(f, phase, got)
    PROVE  \E r \in FlowRecord :
               /\ flow' = [flow EXCEPT ![f] = r]
               /\ r.phase = phase /\ r.got = got /\ SameRequest(r, flow[f])
<1> DEFINE q == [flow[f] EXCEPT !.phase = phase, !.got = got]
<1>1. flow[f] \in FlowRecord
  BY DEF IInv, TypeOK
<1>2. q \in FlowRecord
  BY <1>1 DEF FlowRecord
<1>3. q.phase = phase /\ q.got = got /\ SameRequest(q, flow[f])
  BY <1>1 DEF FlowRecord, SameRequest
<1>4. flow' = [flow EXCEPT ![f] = q]
  BY DEF Moves
<1> QED
  BY <1>2, <1>3, <1>4

LEMMA MappersUnchanged ==
    ASSUME IInv, UNCHANGED addrVars
    PROVE  AddrMapper!TypeOK' /\ AddrFacts!Occupied'
  BY DEF IInv, TypeOK, addrVars, AddrMapper!TypeOK, AddrFacts!Occupied, AddrFacts!Known

LEMMA DomainsUnchanged ==
    ASSUME IInv, UNCHANGED domVars
    PROVE  DomainMapper!TypeOK' /\ DomFacts!Occupied' /\ domRev' = domRev
  BY DEF IInv, TypeOK, domVars, DomainMapper!TypeOK, DomFacts!Occupied, DomFacts!Known

LEMMA MovesStep ==
    ASSUME IInv, NEW f \in Flows, flow[f] # Idle,
           NEW phase \in {"relayed", "answered", "dropped"},
           NEW got \in AddrTargets \cup {PublicDNS, None},
           Moves(f, phase, got),
           UNCHANGED <<addrVars, domVars, realIP, answers, supportUDP>>
    PROVE  IInv'
<1>1. PICK r \in FlowRecord :
          /\ flow' = [flow EXCEPT ![f] = r]
          /\ r.phase = phase /\ r.got = got /\ SameRequest(r, flow[f])
  BY MovesRecord
<1>2. FlowTyped(r)'
  BY <1>1 DEF IInv, FlowTyped, SameRequest
<1> QED
  BY <1>1, <1>2, MappersUnchanged, DomainsUnchanged, OneFlowChanges DEF IInv, TypeOK

(* Whatever an address of the pool stands for is a target.                 *)
LEMMA GetTyped ==
    ASSUME IInv
    PROVE  /\ \A a \in AddrMapper!Addrs : AddrMapper!Get(a) \in AddrTargets \cup {None}
           /\ UDPTarget \in AddrTargets \cup {None}
<1>1. AddrMapper!Addrs \subseteq AddrMapper!Prefix /\ 1 \in AddrMapper!Addrs
  BY ProjectionAssumption DEF AddrMapper!Addrs, AddrMapper!Prefix
<1> QED
  BY <1>1 DEF IInv, TypeOK, AddrMapper!TypeOK, AddrMapper!Get, UDPTarget, SourceIP

LEMMA HandleTCPStep ==
    ASSUME IInv, NEW f \in Flows, HandleTCP(f)
    PROVE  IInv'
<1>1. flow[f].dst \in AddrMapper!Addrs /\ flow[f] # Idle
  BY DEF IInv, FlowTyped, HandleTCP, Arrived, Sent
<1> QED
  BY <1>1, GetTyped, MovesStep DEF HandleTCP

LEMMA RelayUDPStep ==
    ASSUME IInv, NEW f \in Flows, RelayUDP(f) \/ UnmappedUDP(f)
    PROVE  IInv'
  BY GetTyped, MovesStep DEF RelayUDP, UnmappedUDP, Arrived, Sent

LEMMA HijackRecord ==
    ASSUME IInv, NEW f \in Flows, HijackDNS(f)
    PROVE  LET d == flow[f].name
               fake == DomainMapper!AllocAddr(d)
           IN  \E r \in FlowRecord :
                   /\ flow' = [flow EXCEPT ![f] = r]
                   /\ r.phase \in {"answered", "forwarding"}
                   /\ r.ans = fake /\ SameRequest(r, flow[f])
<1>1. flow[f] \in FlowRecord /\ flow[f].name \in Domains
  BY DEF IInv, TypeOK, FlowTyped, HijackDNS, Arrived, Sent
<1>2. DomainMapper!AllocAddr(flow[f].name) \in Nat
  BY <1>1, DomAlloc DEF IInv, TypeOK, HijackDNS, DomainMapper!Addrs
<1>3. CASE flow[f].payload = "AAAA"
  <2> DEFINE q == [flow[f] EXCEPT !.phase = "answered",
                                  !.ans = DomainMapper!AllocAddr(flow[f].name)]
  <2>1. q \in FlowRecord
    BY <1>1, <1>2 DEF FlowRecord
  <2>2. /\ q.phase = "answered" /\ q.ans = DomainMapper!AllocAddr(flow[f].name)
        /\ SameRequest(q, flow[f])
    BY <1>1 DEF FlowRecord, SameRequest
  <2>3. flow' = [flow EXCEPT ![f] = q]
    BY <1>3 DEF HijackDNS
  <2> QED
    BY <2>1, <2>2, <2>3
<1>4. CASE flow[f].payload = "A"
  <2> DEFINE q == [flow[f] EXCEPT !.phase = "forwarding",
                                  !.ans = DomainMapper!AllocAddr(flow[f].name),
                                  !.got = UDPTarget]
  <2>1. q \in FlowRecord
    BY <1>1, <1>2, GetTyped DEF FlowRecord
  <2>2. /\ q.phase = "forwarding" /\ q.ans = DomainMapper!AllocAddr(flow[f].name)
        /\ SameRequest(q, flow[f])
    BY <1>1 DEF FlowRecord, SameRequest
  <2>3. flow' = [flow EXCEPT ![f] = q]
    BY <1>4 DEF HijackDNS
  <2> QED
    BY <2>1, <2>2, <2>3
<1> QED
  BY <1>3, <1>4 DEF HijackDNS

LEMMA HijackStep ==
    ASSUME IInv, NEW f \in Flows, HijackDNS(f)
    PROVE  IInv'
<1> DEFINE d == flow[f].name
           fake == DomainMapper!AllocAddr(d)
<1>1. d \in Domains /\ DomainMapper!Alloc(d)
  BY DEF IInv, TypeOK, FlowTyped, HijackDNS, Arrived, Sent
<1>2. /\ DomainMapper!TypeOK' /\ DomFacts!Occupied'
      /\ fake \in DomainMapper!Addrs /\ domRev'[d] = fake
      /\ \A u \in Domains : domRev[u] # None => domRev'[u] = domRev[u]
  BY <1>1, DomAlloc DEF IInv, TypeOK
<1>3. PICK r \in FlowRecord :
          /\ flow' = [flow EXCEPT ![f] = r]
          /\ r.phase \in {"answered", "forwarding"}
          /\ r.ans = fake /\ SameRequest(r, flow[f])
  BY HijackRecord
<1>4. FlowTyped(r)'
  BY <1>1, <1>2, <1>3 DEF IInv, FlowTyped, SameRequest, HijackDNS, Arrived, Sent
<1>5. \A a \in answers' \ answers :
          a \in Domains \X DomainMapper!Addrs /\ domRev'[a[1]] = a[2]
  BY <1>1, <1>2 DEF HijackDNS
<1> QED
  BY <1>2, <1>3, <1>4, <1>5, MappersUnchanged, OneFlowChanges
     DEF HijackDNS, IInv, TypeOK

LEMMA AnswerRecord ==
    ASSUME IInv, NEW f \in Flows, Forwarding(f),
           flow' = [flow EXCEPT ![f].phase = "answered"]
    PROVE  \E r \in FlowRecord :
               /\ flow' = [flow EXCEPT ![f] = r]
               /\ r.phase = "answered" /\ SameRequest(r, flow[f])
<1> DEFINE q == [flow[f] EXCEPT !.phase = "answered"]
<1>1. flow[f] \in FlowRecord
  BY DEF IInv, TypeOK, Forwarding
<1>2. q \in FlowRecord
  BY <1>1 DEF FlowRecord
<1>3. q.phase = "answered" /\ SameRequest(q, flow[f])
  BY <1>1 DEF FlowRecord, SameRequest
<1> QED
  BY <1>2, <1>3

(* The four ways an A query ends: they differ in what they note.           *)
LEMMA AnswerStep ==
    ASSUME IInv, NEW f \in Flows, Forwarding(f),
           flow' = [flow EXCEPT ![f].phase = "answered"],
           UNCHANGED <<addrVars, domVars, supportUDP>>,
           answers' \subseteq answers \cup {<<flow[f].name, flow[f].ans>>},
           realIP' = realIP
             \/ realIP' = [realIP EXCEPT ![flow[f].ans] = flow[f].name]
    PROVE  IInv'
<1>1. /\ flow[f].name \in Domains /\ flow[f].ans \in DomainMapper!Addrs
      /\ domRev[flow[f].name] = flow[f].ans
  BY DEF IInv, FlowTyped, Forwarding
<1>2. PICK r \in FlowRecord :
          /\ flow' = [flow EXCEPT ![f] = r]
          /\ r.phase = "answered" /\ SameRequest(r, flow[f])
  BY AnswerRecord
<1>3. FlowTyped(r)'
  BY <1>2 DEF IInv, FlowTyped, SameRequest, Forwarding
<1>4. realIP' \in [DomainMapper!Addrs -> Domains \cup {None}]
  BY <1>1 DEF IInv, TypeOK
<1>5. \A a \in answers' \ answers :
          a \in Domains \X DomainMapper!Addrs /\ domRev[a[1]] = a[2]
  BY <1>1
<1>6. /\ AddrMapper!TypeOK' /\ AddrFacts!Occupied'
      /\ DomainMapper!TypeOK' /\ DomFacts!Occupied'
      /\ domRev' = domRev /\ supportUDP' = supportUDP
  BY MappersUnchanged, DomainsUnchanged
<1> QED
  BY <1>2, <1>3, <1>4, <1>5, <1>6, OneFlowChanges

LEMMA AnswersStep ==
    ASSUME IInv, NEW f \in Flows,
           RestoreRealIP(f) \/ AnswerWithoutRealIP(f) \/ PassOnEmptyAnswer(f)
    PROVE  IInv'
  BY AnswerStep DEF RestoreRealIP, AnswerWithoutRealIP, PassOnEmptyAnswer, AnswerFake

LEMMA FinishStep ==
    ASSUME IInv, NEW f \in Flows, Finish(f)
    PROVE  IInv'
  BY MappersUnchanged, DomainsUnchanged, OneFlowChanges DEF Finish, IInv, TypeOK

(* A flow that the tracer has just redirected.                             *)
LEMMA NewRecord ==
    ASSUME NEW net \in {"tcp", "udp", "icmp"},
           NEW payload \in {"data", "A", "AAAA", "otherDNS"},
           NEW name \in Domains \cup {None}, NEW want \in AddrTargets,
           NEW dst \in Nat \cup Domains
    PROVE  \E r \in FlowRecord :
               /\ r = New(net, payload, name, want, dst)
               /\ r.phase = "sent" /\ r.net = net /\ r.payload = payload
               /\ r.name = name /\ r.want = want /\ r.dst = dst
<1> DEFINE q == New(net, payload, name, want, dst)
<1>1. q \in FlowRecord
  BY DEF New, FlowRecord
<1>2. /\ q.phase = "sent" /\ q.net = net /\ q.payload = payload
      /\ q.name = name /\ q.want = want /\ q.dst = dst
  BY DEF New
<1> QED
  BY <1>1, <1>2

LEMMA RedirectStep ==
    ASSUME IInv, NEW f \in Flows, NEW net \in {"tcp", "udp"},
           NEW payload \in {"data", "A", "AAAA", "otherDNS"},
           NEW name \in Domains \cup {None}, payload # "data" => name \in Domains,
           NEW want \in AddrTargets, NEW target \in AddrTargets,
           AddrMapper!Alloc(target),
           flow' = [flow EXCEPT ![f] =
               New(net, payload, name, want, AddrMapper!AllocAddr(target))],
           UNCHANGED <<domVars, realIP, answers, supportUDP>>
    PROVE  IInv'
<1>1. /\ AddrMapper!TypeOK' /\ AddrFacts!Occupied'
      /\ AddrMapper!AllocAddr(target) \in AddrMapper!Addrs
  BY AddrAlloc DEF IInv, TypeOK
<1>2. AddrMapper!AllocAddr(target) \in Nat
  BY <1>1 DEF AddrMapper!Addrs
<1>3. PICK r \in FlowRecord :
          /\ r = New(net, payload, name, want, AddrMapper!AllocAddr(target))
          /\ r.phase = "sent" /\ r.net = net /\ r.payload = payload /\ r.name = name
          /\ r.want = want /\ r.dst = AddrMapper!AllocAddr(target)
  BY <1>2, NewRecord
<1>4. FlowTyped(r)'
  <2>1. r.dst \in AddrMapper!Addrs
    BY <1>1, <1>3
  <2> QED
    BY <1>3, <2>1 DEF FlowTyped
<1> QED
  BY <1>1, <1>3, <1>4, DomainsUnchanged, OneFlowChanges DEF IInv, TypeOK

LEMMA SendToIPStep ==
    ASSUME IInv, NEW f \in Flows, NEW net \in {"tcp", "udp"},
           NEW payload \in {"data", "A", "AAAA", "otherDNS"},
           NEW name \in Domains \cup {None}, payload # "data" => name \in Domains,
           NEW ip \in IPs, NEW port \in {Port, DNSPort},
           SendToIP(f, net, payload, name, ip, port)
    PROVE  IInv'
<1>1. <<ip, port>> \in AddrTargets
  BY DEF AddrTargets
<1> QED
  BY <1>1, RedirectStep DEF SendToIP

(* A name the program has a fake IP for is projected there.                *)
LEMMA AnswerKnown ==
    ASSUME IInv, NEW a \in answers
    PROVE  /\ a[1] \in Domains /\ a[2] \in DomainMapper!Addrs
           /\ domRev[a[1]] = a[2] /\ a[2] # None
  BY ProjectionAssumption DEF IInv, TypeOK, AnswersGiven, DomainMapper!Addrs

(* A fake IP the program was given has a domain behind it.                 *)
LEMMA FakeHasDomain ==
    ASSUME IInv, NEW a \in answers
    PROVE  /\ a[1] \in Domains /\ a[2] \in DomainMapper!Addrs
           /\ <<a[1], Port>> \in AddrTargets /\ DomainTarget(a[2], Port) \in AddrTargets
<1>1. /\ a[1] \in Domains /\ a[2] \in DomainMapper!Addrs
      /\ domRev[a[1]] = a[2] /\ a[2] # None
  BY AnswerKnown
<1>2. domMap[a[2]] # None
  BY <1>1 DEF IInv, DomFacts!Occupied, DomFacts!Known
<1>3. domMap[a[2]] \in Domains
  BY <1>1, <1>2, ProjectionAssumption
     DEF IInv, TypeOK, DomainMapper!TypeOK, DomainMapper!Prefix, DomainMapper!Addrs
<1> QED
  BY <1>1, <1>3 DEF AddrTargets, DomainTarget, DomainMapper!Get

LEMMA SendToDomainStep ==
    ASSUME IInv, NEW f \in Flows, NEW net \in {"tcp", "udp"}, NEW a \in answers,
           SendToDomain(f, net, a[1], a[2], Port)
    PROVE  IInv'
  BY FakeHasDomain, RedirectStep DEF SendToDomain

LEMMA SendICMPStep ==
    ASSUME IInv, NEW f \in Flows, NEW a \in answers, SendICMP(f, a[1], a[2])
    PROVE  IInv'
<1> DEFINE dst == IF realIP[a[2]] # None THEN realIP[a[2]] ELSE a[2]
           want == <<a[1], Port>>
<1>1. dst \in Nat \cup Domains /\ want \in AddrTargets
  BY FakeHasDomain DEF IInv, TypeOK, DomainMapper!Addrs
<1> HIDE DEF dst, want
<1>2. PICK r \in FlowRecord :
          /\ r = New("icmp", "data", None, want, dst)
          /\ r.phase = "sent" /\ r.net = "icmp" /\ r.payload = "data"
          /\ r.name = None /\ r.want = want /\ r.dst = dst
  BY <1>1, NewRecord
<1>3. FlowTyped(r)'
  BY <1>2 DEF FlowTyped
<1>4. flow' = [flow EXCEPT ![f] = r]
  BY <1>2 DEF SendICMP, dst, want
<1>5. /\ AddrMapper!TypeOK' /\ AddrFacts!Occupied'
      /\ DomainMapper!TypeOK' /\ DomFacts!Occupied' /\ domRev' = domRev
  BY MappersUnchanged, DomainsUnchanged DEF SendICMP
<1>6. /\ answers' = answers /\ supportUDP' = supportUDP
      /\ realIP' \in [DomainMapper!Addrs -> Domains \cup {None}]
  BY DEF SendICMP, IInv, TypeOK
<1> QED
  BY <1>3, <1>4, <1>5, <1>6, OneFlowChanges

LEMMA InitIInv == Init => IInv
<1> SUFFICES ASSUME Init
             PROVE  IInv
  OBVIOUS
<1>1. AddrMapper!TypeOK
  BY ProjectionAssumption
     DEF Init, AddrMapper!Init, AddrMapper!TypeOK, AddrMapper!Addrs, AddrMapper!Prefix
<1>2. DomainMapper!TypeOK
  BY ProjectionAssumption DEF Init, DomainMapper!Init, DomainMapper!TypeOK,
     DomainMapper!Addrs, DomainMapper!Prefix
<1>3. AddrFacts!Occupied /\ DomFacts!Occupied
  BY DEF Init, AddrMapper!Init, DomainMapper!Init, AddrFacts!Occupied,
         DomFacts!Occupied, AddrFacts!Known, DomFacts!Known
<1> QED
  BY <1>1, <1>2, <1>3 DEF Init, IInv, TypeOK, AnswersGiven

LEMMA StepIInv ==
    ASSUME IInv, [Next]_vars
    PROVE  IInv'
<1>1. ASSUME NEW f \in Flows, NEW ip \in IPs,
             \/ SendToIP(f, "tcp", "data", None, ip, Port)
             \/ SendToIP(f, "udp", "data", None, ip, Port)
             \/ \E d \in Domains, q \in {"A", "AAAA", "otherDNS"} :
                    SendToIP(f, "udp", q, d, ip, DNSPort)
      PROVE  IInv'
  BY <1>1, SendToIPStep
<1>2. ASSUME NEW f \in Flows, NEW a \in answers,
             \/ SendToDomain(f, "tcp", a[1], a[2], Port)
             \/ SendToDomain(f, "udp", a[1], a[2], Port)
             \/ SendICMP(f, a[1], a[2])
      PROVE  IInv'
  BY <1>2, SendToDomainStep, SendICMPStep
<1>3. ASSUME NEW f \in Flows,
             \/ Handle(f) \/ Finish(f)
             \/ RestoreRealIP(f) \/ AnswerWithoutRealIP(f) \/ PassOnEmptyAnswer(f)
      PROVE  IInv'
  BY <1>3, HandleTCPStep, RelayUDPStep, HijackStep, AnswersStep, FinishStep DEF Handle
<1>4. ASSUME UNCHANGED vars
      PROVE  IInv'
  <2>1. /\ AddrMapper!TypeOK' /\ AddrFacts!Occupied'
        /\ DomainMapper!TypeOK' /\ DomFacts!Occupied' /\ domRev' = domRev
    BY <1>4, MappersUnchanged, DomainsUnchanged DEF vars
  <2> QED
    BY <1>4, <2>1 DEF vars, IInv, TypeOK, FlowTyped, AnswersGiven
<1> QED
  BY <1>1, <1>2, <1>3, <1>4 DEF Next

(* The maps, the answers and the flows stay well formed, whether or not    *)
(* the pools are large enough for what the program uses.                   *)
THEOREM TypeCorrect == Spec => []TypeOK
<1>1. IInv => TypeOK
  BY DEF IInv
<1> QED
  BY <1>1, InitIInv, StepIInv, PTL DEF Spec

-----------------------------------------------------------------------------
(* Each mapper runs its own specification in here, so that what is proved  *)
(* of a mapper alone holds.                                                *)
LEMMA MapperSteps ==
    ASSUME IInv, [Next]_vars
    PROVE  /\ [AddrMapper!Next]_(AddrMapper!mapVars)
           /\ [DomainMapper!Next]_(DomainMapper!mapVars)
<1> USE DEF AddrMapper!mapVars, DomainMapper!mapVars, addrVars, domVars
<1>1. ASSUME NEW f \in Flows, NEW ip \in IPs, NEW net, NEW payload, NEW name,
             NEW port \in {Port, DNSPort}, SendToIP(f, net, payload, name, ip, port)
      PROVE  AddrMapper!Next /\ UNCHANGED domVars
  BY <1>1 DEF SendToIP, AddrTargets, AddrMapper!Next
<1>2. ASSUME NEW f \in Flows, NEW a \in answers, NEW net,
             SendToDomain(f, net, a[1], a[2], Port)
      PROVE  AddrMapper!Next /\ UNCHANGED domVars
  BY <1>2, FakeHasDomain DEF SendToDomain, AddrMapper!Next
<1>3. ASSUME NEW f \in Flows, HijackDNS(f)
      PROVE  DomainMapper!Next /\ UNCHANGED addrVars
  BY <1>3 DEF HijackDNS, Arrived, Sent, IInv, FlowTyped, DomainMapper!Next
<1>4. ASSUME NEW f \in Flows,
             \/ HandleTCP(f) \/ UnmappedUDP(f) \/ RelayUDP(f) \/ Finish(f)
             \/ RestoreRealIP(f) \/ AnswerWithoutRealIP(f) \/ PassOnEmptyAnswer(f)
             \/ \E a \in answers : SendICMP(f, a[1], a[2])
      PROVE  UNCHANGED <<addrVars, domVars>>
  BY <1>4 DEF HandleTCP, UnmappedUDP, RelayUDP, Finish, RestoreRealIP,
              AnswerWithoutRealIP, PassOnEmptyAnswer, SendICMP
<1>5. ASSUME UNCHANGED vars
      PROVE  UNCHANGED <<addrVars, domVars>>
  BY <1>5 DEF vars
<1> QED
  BY <1>1, <1>2, <1>3, <1>4, <1>5 DEF Next, Handle

LEMMA MappersRun == Spec => AddrMapper!Spec /\ DomainMapper!Spec
<1>1. Init => AddrMapper!Init /\ DomainMapper!Init
  BY DEF Init
<1> QED
  BY <1>1, InitIInv, StepIInv, MapperSteps, PTL
     DEF Spec, AddrMapper!Spec, DomainMapper!Spec

(* The instances the facts are about are the instances of Projection.      *)
LEMMA AddrSpecs == AddrMapper!Spec => AddrFacts!Spec
<1>1. AddrMapper!Init => AddrFacts!Init
  BY DEF AddrMapper!Init, AddrFacts!Init, AddrMapper!Prefix, AddrFacts!Prefix
<1>2. [AddrMapper!Next]_(AddrMapper!mapVars) => [AddrFacts!Next]_(AddrFacts!mapVars)
  BY DEF AddrFacts!Next, AddrMapper!Next, AddrFacts!Alloc, AddrMapper!Alloc,
         AddrFacts!AllocKnown, AddrMapper!AllocKnown,
         AddrFacts!AllocNew, AddrMapper!AllocNew, AddrFacts!Known, AddrMapper!Known,
         AddrFacts!mapVars, AddrMapper!mapVars, AddrFacts!NextAddr, AddrMapper!NextAddr,
         AddrFacts!Prefix, AddrMapper!Prefix
<1> QED
  BY <1>1, <1>2, PTL DEF AddrMapper!Spec, AddrFacts!Spec

LEMMA DomSpecs == DomainMapper!Spec => DomFacts!Spec
<1>1. DomainMapper!Init => DomFacts!Init
  BY DEF DomainMapper!Init, DomFacts!Init, DomainMapper!Prefix, DomFacts!Prefix
<1>2. [DomainMapper!Next]_(DomainMapper!mapVars) => [DomFacts!Next]_(DomFacts!mapVars)
  BY DEF DomFacts!Next, DomainMapper!Next, DomFacts!Alloc, DomainMapper!Alloc,
         DomFacts!AllocKnown, DomainMapper!AllocKnown,
         DomFacts!AllocNew, DomainMapper!AllocNew, DomFacts!Known, DomainMapper!Known,
         DomFacts!mapVars, DomainMapper!mapVars, DomFacts!NextAddr, DomainMapper!NextAddr,
         DomFacts!Prefix, DomainMapper!Prefix
<1> QED
  BY <1>1, <1>2, PTL DEF DomainMapper!Spec, DomFacts!Spec

RoundTrips == AddrMapper!RoundTrip /\ DomainMapper!RoundTrip

LEMMA FactsFit == PoolsFit => AddrFacts!Fits /\ DomFacts!Fits
<1>1. AddrMapper!Fits => AddrFacts!Fits
  BY DEF AddrFacts!Fits, AddrMapper!Fits, AddrFacts!IsFiniteSet, AddrMapper!IsFiniteSet,
         AddrFacts!Cardinality, AddrMapper!Cardinality
<1>2. DomainMapper!Fits => DomFacts!Fits
  BY DEF DomFacts!Fits, DomainMapper!Fits, DomFacts!IsFiniteSet, DomainMapper!IsFiniteSet,
         DomFacts!Cardinality, DomainMapper!Cardinality
<1> QED
  BY <1>1, <1>2 DEF PoolsFit

LEMMA ProjectionsReadBack == PoolsFit => (Spec => []RoundTrips)
<1> SUFFICES ASSUME PoolsFit
             PROVE  Spec => []RoundTrips
  OBVIOUS
<1>1. AddrFacts!Fits /\ DomFacts!Fits
  BY FactsFit
<1>2. AddrFacts!Spec => []AddrFacts!RoundTrip
  BY <1>1, ProjectionAssumption, AddrFacts!ProjectionInvertible
<1>3. DomFacts!Spec => []DomFacts!RoundTrip
  BY <1>1, ProjectionAssumption, DomFacts!ProjectionInvertible
<1>4. AddrFacts!RoundTrip => AddrMapper!RoundTrip
  BY DEF AddrFacts!RoundTrip, AddrMapper!RoundTrip, AddrFacts!Known, AddrMapper!Known
<1>5. DomFacts!RoundTrip => DomainMapper!RoundTrip
  BY DEF DomFacts!RoundTrip, DomainMapper!RoundTrip, DomFacts!Known, DomainMapper!Known
<1> QED
  BY <1>2, <1>3, <1>4, <1>5, MappersRun, AddrSpecs, DomSpecs, PTL DEF RoundTrips

LEMMA AddrDirectories == AddrFacts!ImplementsDirectory => AddrMapper!ImplementsDirectory
<1>1. /\ AddrFacts!Entries = AddrMapper!Entries /\ AddrFacts!Entries' = AddrMapper!Entries'
      /\ AddrFacts!Addrs = AddrMapper!Addrs
  BY DEF AddrFacts!Entries, AddrMapper!Entries, AddrFacts!Known, AddrMapper!Known, AddrFacts!Addrs, AddrMapper!Addrs
<1>2. AddrFacts!Directory!Init => AddrMapper!Directory!Init
  BY <1>1 DEF AddrFacts!Directory!Init, AddrMapper!Directory!Init
<1>3. [AddrFacts!Directory!Next]_(AddrFacts!Entries) => [AddrMapper!Directory!Next]_(AddrMapper!Entries)
  BY <1>1 DEF AddrFacts!Directory!Next, AddrMapper!Directory!Next, AddrFacts!Directory!Enter,
     AddrMapper!Directory!Enter
<1> QED
  BY <1>2, <1>3, PTL DEF AddrFacts!ImplementsDirectory, AddrMapper!ImplementsDirectory,
     AddrFacts!Directory!Spec, AddrMapper!Directory!Spec

LEMMA DomDirectories == DomFacts!ImplementsDirectory => DomainMapper!ImplementsDirectory
<1>1. /\ DomFacts!Entries = DomainMapper!Entries /\ DomFacts!Entries' = DomainMapper!Entries'
      /\ DomFacts!Addrs = DomainMapper!Addrs
  BY DEF DomFacts!Entries, DomainMapper!Entries, DomFacts!Known, DomainMapper!Known, DomFacts!Addrs, DomainMapper!Addrs
<1>2. DomFacts!Directory!Init => DomainMapper!Directory!Init
  BY <1>1 DEF DomFacts!Directory!Init, DomainMapper!Directory!Init
<1>3. [DomFacts!Directory!Next]_(DomFacts!Entries) => [DomainMapper!Directory!Next]_(DomainMapper!Entries)
  BY <1>1 DEF DomFacts!Directory!Next, DomainMapper!Directory!Next, DomFacts!Directory!Enter,
     DomainMapper!Directory!Enter
<1> QED
  BY <1>2, <1>3, PTL DEF DomFacts!ImplementsDirectory, DomainMapper!ImplementsDirectory,
     DomFacts!Directory!Spec, DomainMapper!Directory!Spec

(* Whatever the flows do, both mappers are directories that only grow.     *)
THEOREM Directories == PoolsFit => (Spec => DirectoriesOnlyGrow)
<1> SUFFICES ASSUME PoolsFit
             PROVE  Spec => DirectoriesOnlyGrow
  OBVIOUS
<1>1. AddrFacts!Fits /\ DomFacts!Fits
  BY FactsFit
<1>2. AddrFacts!Spec => AddrFacts!ImplementsDirectory
  BY <1>1, ProjectionAssumption, AddrFacts!Implements
<1>3. DomFacts!Spec => DomFacts!ImplementsDirectory
  BY <1>1, ProjectionAssumption, DomFacts!Implements
<1> QED
  BY <1>2, <1>3, MappersRun, AddrSpecs, DomSpecs, AddrDirectories, DomDirectories,
     PTL DEF DirectoriesOnlyGrow

-----------------------------------------------------------------------------
(* What the program is told and where its flows go stay true: a flow's     *)
(* projection is the one of its target, and realIPMapper files a name      *)
(* under the fake IP that is that name's.                                  *)
FlowTrue(r) ==
    /\ r.net # "icmp" => addrRev[r.want] = r.dst
    /\ r.net = "tcp" => /\ r.phase # "dropped"
                        /\ r.phase = "relayed" => r.got = r.want
    /\ r.net = "icmp" => r.dst \in {r.want[1]} \cup DomainMapper!Addrs
    /\ r.phase = "forwarding" => r.net = "udp"

RealIPsOwn ==
    \A x \in DomainMapper!Addrs : realIP[x] # None => domRev[realIP[x]] = x

Truthful ==
    /\ \A f \in Flows : flow[f] # Idle => FlowTrue(flow[f])
    /\ RealIPsOwn

(* A step of one flow that undoes no projection and misfiles no address.   *)
LEMMA OneFlowTrue ==
    ASSUME IInv, Truthful, NEW f \in Flows, NEW r \in FlowRecord \cup {Idle},
           flow' = [flow EXCEPT ![f] = r],
           \A t \in AddrTargets : addrRev[t] # None => addrRev'[t] = addrRev[t],
           RealIPsOwn',
           r # Idle => FlowTrue(r)'
    PROVE  Truthful'
<1> SUFFICES ASSUME NEW g \in Flows, flow'[g] # Idle
             PROVE  FlowTrue(flow[g])'
  BY DEF Truthful
<1>1. CASE g = f
  BY <1>1 DEF IInv, TypeOK
<1>2. CASE g # f
  <2>1. flow'[g] = flow[g] /\ flow[g] \in FlowRecord
    BY <1>2 DEF IInv, TypeOK
  <2>2. FlowTyped(flow[g]) /\ FlowTrue(flow[g])
    BY <2>1 DEF IInv, Truthful
  <2>3. flow[g].want \in AddrTargets
    BY <2>1 DEF FlowRecord
  <2>4. flow[g].net # "icmp" => addrRev[flow[g].want] # None
    BY <2>2, ProjectionAssumption DEF FlowTyped, FlowTrue, AddrMapper!Addrs
  <2> QED
    BY <2>1, <2>2, <2>3, <2>4 DEF FlowTrue
<1> QED
  BY <1>1, <1>2

LEMMA AddrsKept ==
    ASSUME UNCHANGED addrVars
    PROVE  \A t \in AddrTargets : addrRev[t] # None => addrRev'[t] = addrRev[t]
  BY DEF addrVars

LEMMA RealIPsKept ==
    ASSUME IInv, Truthful, realIP' = realIP,
           \A d \in Domains : domRev[d] # None => domRev'[d] = domRev[d]
    PROVE  RealIPsOwn'
<1> SUFFICES ASSUME NEW x \in DomainMapper!Addrs, realIP[x] # None
             PROVE  domRev'[realIP[x]] = x
  BY DEF RealIPsOwn
<1>1. realIP[x] \in Domains /\ domRev[realIP[x]] = x /\ x # None
  BY ProjectionAssumption DEF Truthful, RealIPsOwn, IInv, TypeOK, DomainMapper!Addrs
<1> QED
  BY <1>1

(* The proxy takes a connection to the target that its projection is of.   *)
LEMMA TargetReadBack ==
    ASSUME IInv, Truthful, RoundTrips, NEW f \in Flows, flow[f] # Idle,
           flow[f].net # "icmp"
    PROVE  /\ AddrMapper!Get(flow[f].dst) = flow[f].want
           /\ flow[f].want \in AddrTargets /\ flow[f].want # None
<1>1. flow[f].want \in AddrTargets
  BY DEF IInv, TypeOK, FlowRecord
<1>2. addrRev[flow[f].want] = flow[f].dst /\ flow[f].dst \in AddrMapper!Addrs
  BY DEF IInv, FlowTyped, Truthful, FlowTrue
<1>3. addrRev[flow[f].want] # None
  BY <1>2, ProjectionAssumption DEF AddrMapper!Addrs
<1> QED
  BY <1>1, <1>2, <1>3, ProjectionAssumption
     DEF RoundTrips, AddrMapper!RoundTrip, AddrMapper!Known, AddrMapper!Get

(* The name a fake IP was given for is the name behind it.                 *)
LEMMA NameReadBack ==
    ASSUME IInv, RoundTrips, NEW a \in answers
    PROVE  DomainMapper!Get(a[2]) = a[1]
<1>1. a[1] \in Domains /\ domRev[a[1]] = a[2] /\ a[2] # None
  BY AnswerKnown
<1> QED
  BY <1>1 DEF RoundTrips, DomainMapper!RoundTrip, DomainMapper!Known, DomainMapper!Get

-----------------------------------------------------------------------------
LEMMA HandleTCPTrue ==
    ASSUME IInv, Truthful, RoundTrips, NEW f \in Flows, HandleTCP(f)
    PROVE  Truthful'
<1>1. flow[f] # Idle /\ flow[f].net = "tcp"
  BY DEF HandleTCP, Arrived, Sent
<1>2. /\ flow[f].want \in AddrTargets /\ flow[f].want # None
      /\ Moves(f, "relayed", flow[f].want)
  BY <1>1, TargetReadBack DEF HandleTCP
<1>3. PICK r \in FlowRecord :
          /\ flow' = [flow EXCEPT ![f] = r]
          /\ r.phase = "relayed" /\ r.got = flow[f].want /\ SameRequest(r, flow[f])
  BY <1>1, <1>2, MovesRecord
<1>4. FlowTrue(r)'
  BY <1>1, <1>3 DEF Truthful, FlowTrue, SameRequest, HandleTCP, addrVars
<1> QED
  BY <1>3, <1>4, AddrsKept, RealIPsKept, OneFlowTrue DEF HandleTCP, domVars

LEMMA RelayUDPTrue ==
    ASSUME IInv, Truthful, NEW f \in Flows, RelayUDP(f) \/ UnmappedUDP(f)
    PROVE  Truthful'
<1>1. flow[f] # Idle /\ flow[f].net = "udp"
  BY DEF RelayUDP, UnmappedUDP, Arrived, Sent
<1>2. PICK phase \in {"relayed", "dropped"}, got \in AddrTargets \cup {PublicDNS, None} :
          Moves(f, phase, got)
  BY GetTyped DEF RelayUDP, UnmappedUDP
<1>3. PICK r \in FlowRecord :
          /\ flow' = [flow EXCEPT ![f] = r]
          /\ r.phase = phase /\ SameRequest(r, flow[f])
  BY <1>1, <1>2, MovesRecord
<1>4. FlowTrue(r)'
  BY <1>1, <1>3 DEF Truthful, FlowTrue, SameRequest, RelayUDP, UnmappedUDP, addrVars
<1> QED
  BY <1>3, <1>4, AddrsKept, RealIPsKept, OneFlowTrue DEF RelayUDP, UnmappedUDP, domVars

LEMMA HijackTrue ==
    ASSUME IInv, Truthful, NEW f \in Flows, HijackDNS(f)
    PROVE  Truthful'
<1>1. flow[f] # Idle /\ flow[f].net = "udp"
  BY DEF HijackDNS, Arrived, Sent
<1>2. PICK r \in FlowRecord :
          /\ flow' = [flow EXCEPT ![f] = r]
          /\ SameRequest(r, flow[f])
  BY HijackRecord
<1>3. FlowTrue(r)'
  BY <1>1, <1>2 DEF Truthful, FlowTrue, SameRequest, HijackDNS, addrVars
<1>4. \A d \in Domains : domRev[d] # None => domRev'[d] = domRev[d]
  BY DomAlloc DEF IInv, TypeOK, FlowTyped, HijackDNS, Arrived, Sent
<1> QED
  BY <1>2, <1>3, <1>4, AddrsKept, RealIPsKept, OneFlowTrue DEF HijackDNS

LEMMA AnswersTrue ==
    ASSUME IInv, Truthful, NEW f \in Flows,
           RestoreRealIP(f) \/ AnswerWithoutRealIP(f) \/ PassOnEmptyAnswer(f)
    PROVE  Truthful'
<1>1. /\ Forwarding(f) /\ flow' = [flow EXCEPT ![f].phase = "answered"]
      /\ UNCHANGED <<addrVars, domVars>>
  BY DEF RestoreRealIP, AnswerWithoutRealIP, PassOnEmptyAnswer, AnswerFake
<1>2. flow[f].net = "udp"
  BY <1>1 DEF Forwarding, Truthful, FlowTrue
<1>3. PICK r \in FlowRecord :
          /\ flow' = [flow EXCEPT ![f] = r]
          /\ r.phase = "answered" /\ SameRequest(r, flow[f])
  BY <1>1, AnswerRecord
<1>4. FlowTrue(r)'
  BY <1>1, <1>2, <1>3 DEF Truthful, FlowTrue, SameRequest, Forwarding, addrVars
<1>5. RealIPsOwn'
  <2>1. CASE realIP' = realIP
    BY <1>1, <2>1, RealIPsKept DEF domVars
  <2>2. CASE realIP' = [realIP EXCEPT ![flow[f].ans] = flow[f].name]
    <3>1. flow[f].ans \in DomainMapper!Addrs /\ domRev[flow[f].name] = flow[f].ans
      BY <1>1 DEF IInv, FlowTyped, Forwarding
    <3>2. realIP \in [DomainMapper!Addrs -> Domains \cup {None}]
      BY DEF IInv, TypeOK
    <3> QED
      BY <1>1, <2>2, <3>1, <3>2 DEF Truthful, RealIPsOwn, domVars
  <2> QED
    BY <2>1, <2>2 DEF RestoreRealIP, AnswerWithoutRealIP, PassOnEmptyAnswer
<1> QED
  BY <1>1, <1>3, <1>4, <1>5, AddrsKept, OneFlowTrue

LEMMA FinishTrue ==
    ASSUME IInv, Truthful, NEW f \in Flows, Finish(f)
    PROVE  Truthful'
  BY AddrsKept, RealIPsKept, OneFlowTrue DEF Finish, domVars

LEMMA RedirectTrue ==
    ASSUME IInv, Truthful, NEW f \in Flows, NEW net \in {"tcp", "udp"},
           NEW payload \in {"data", "A", "AAAA", "otherDNS"},
           NEW name \in Domains \cup {None}, NEW want \in AddrTargets,
           AddrMapper!Alloc(want),
           flow' = [flow EXCEPT ![f] =
               New(net, payload, name, want, AddrMapper!AllocAddr(want))],
           UNCHANGED <<domVars, realIP>>
    PROVE  Truthful'
<1>1. /\ AddrMapper!AllocAddr(want) \in AddrMapper!Addrs
      /\ addrRev'[want] = AddrMapper!AllocAddr(want)
      /\ \A t \in AddrTargets : addrRev[t] # None => addrRev'[t] = addrRev[t]
  BY AddrAlloc DEF IInv, TypeOK
<1>2. AddrMapper!AllocAddr(want) \in Nat
  BY <1>1 DEF AddrMapper!Addrs
<1>3. PICK r \in FlowRecord :
          /\ r = New(net, payload, name, want, AddrMapper!AllocAddr(want))
          /\ r.phase = "sent" /\ r.net = net /\ r.payload = payload /\ r.name = name
          /\ r.want = want /\ r.dst = AddrMapper!AllocAddr(want)
  BY <1>2, NewRecord
<1>4. FlowTrue(r)'
  <2>1. r.net # "icmp" /\ r.phase = "sent" /\ addrRev'[r.want] = r.dst
    BY <1>1, <1>3
  <2> QED
    BY <2>1 DEF FlowTrue
<1>5. RealIPsOwn'
  BY RealIPsKept DEF domVars
<1> QED
  BY <1>1, <1>3, <1>4, <1>5, OneFlowTrue

LEMMA SendToIPTrue ==
    ASSUME IInv, Truthful, NEW f \in Flows, NEW net \in {"tcp", "udp"},
           NEW payload \in {"data", "A", "AAAA", "otherDNS"},
           NEW name \in Domains \cup {None},
           NEW ip \in IPs, NEW port \in {Port, DNSPort},
           SendToIP(f, net, payload, name, ip, port)
    PROVE  Truthful'
<1>1. <<ip, port>> \in AddrTargets
  BY DEF AddrTargets
<1> QED
  BY <1>1, RedirectTrue DEF SendToIP

LEMMA SendToDomainTrue ==
    ASSUME IInv, Truthful, RoundTrips, NEW f \in Flows, NEW net \in {"tcp", "udp"},
           NEW a \in answers, SendToDomain(f, net, a[1], a[2], Port)
    PROVE  Truthful'
<1>1. DomainTarget(a[2], Port) = <<a[1], Port>> /\ <<a[1], Port>> \in AddrTargets
  BY NameReadBack, FakeHasDomain DEF DomainTarget
<1> QED
  BY <1>1, RedirectTrue DEF SendToDomain

(* The real address filed under a fake IP is that of the fake IP's name.   *)
LEMMA SendICMPTrue ==
    ASSUME IInv, Truthful, RoundTrips, NEW f \in Flows, NEW a \in answers,
           SendICMP(f, a[1], a[2])
    PROVE  Truthful'
<1> DEFINE dst == IF realIP[a[2]] # None THEN realIP[a[2]] ELSE a[2]
           want == <<a[1], Port>>
<1>1. dst \in Nat \cup Domains /\ want \in AddrTargets
  BY FakeHasDomain DEF IInv, TypeOK, DomainMapper!Addrs
<1>2. dst \in {want[1]} \cup DomainMapper!Addrs
  <2>1. CASE realIP[a[2]] # None
    <3>1. realIP[a[2]] \in Domains /\ domRev[realIP[a[2]]] = a[2] /\ a[2] # None
      BY <2>1, AnswerKnown DEF IInv, TypeOK, Truthful, RealIPsOwn
    <3>2. realIP[a[2]] = domMap[a[2]]
      BY <3>1 DEF RoundTrips, DomainMapper!RoundTrip, DomainMapper!Known
    <3> QED
      BY <2>1, <3>2, NameReadBack DEF DomainMapper!Get
  <2>2. CASE realIP[a[2]] = None
    BY <2>2, AnswerKnown
  <2> QED
    BY <2>1, <2>2
<1> HIDE DEF dst, want
<1>3. PICK r \in FlowRecord :
          /\ r = New("icmp", "data", None, want, dst)
          /\ r.phase = "sent" /\ r.net = "icmp" /\ r.payload = "data"
          /\ r.name = None /\ r.want = want /\ r.dst = dst
  BY <1>1, NewRecord
<1>4. FlowTrue(r)'
  <2>1. r.net = "icmp" /\ r.phase = "sent" /\ r.dst \in {r.want[1]} \cup DomainMapper!Addrs
    BY <1>2, <1>3
  <2> QED
    BY <2>1 DEF FlowTrue, DomainMapper!Addrs
<1>5. flow' = [flow EXCEPT ![f] = r]
  BY <1>3 DEF SendICMP, dst, want
<1>6. RealIPsOwn'
  BY RealIPsKept DEF SendICMP, domVars
<1>7. \A t \in AddrTargets : addrRev[t] # None => addrRev'[t] = addrRev[t]
  BY AddrsKept DEF SendICMP
<1> QED
  BY <1>4, <1>5, <1>6, <1>7, OneFlowTrue

LEMMA InitTruthful == Init => Truthful
  BY DEF Init, Truthful, RealIPsOwn

LEMMA StepTruthful ==
    ASSUME IInv, Truthful, RoundTrips, [Next]_vars
    PROVE  Truthful'
<1>1. ASSUME NEW f \in Flows, NEW ip \in IPs,
             \/ SendToIP(f, "tcp", "data", None, ip, Port)
             \/ SendToIP(f, "udp", "data", None, ip, Port)
             \/ \E d \in Domains, q \in {"A", "AAAA", "otherDNS"} :
                    SendToIP(f, "udp", q, d, ip, DNSPort)
      PROVE  Truthful'
  BY <1>1, SendToIPTrue
<1>2. ASSUME NEW f \in Flows, NEW a \in answers,
             \/ SendToDomain(f, "tcp", a[1], a[2], Port)
             \/ SendToDomain(f, "udp", a[1], a[2], Port)
             \/ SendICMP(f, a[1], a[2])
      PROVE  Truthful'
  BY <1>2, SendToDomainTrue, SendICMPTrue
<1>3. ASSUME NEW f \in Flows,
             \/ Handle(f) \/ Finish(f)
             \/ RestoreRealIP(f) \/ AnswerWithoutRealIP(f) \/ PassOnEmptyAnswer(f)
      PROVE  Truthful'
  BY <1>3, HandleTCPTrue, RelayUDPTrue, HijackTrue, AnswersTrue, FinishTrue DEF Handle
<1>4. ASSUME UNCHANGED vars
      PROVE  Truthful'
  BY <1>4 DEF vars, addrVars, domVars, Truthful, FlowTrue, RealIPsOwn
<1> QED
  BY <1>1, <1>2, <1>3, <1>4 DEF Next

LEMMA AlwaysTruthful == PoolsFit => (Spec => [](IInv /\ Truthful /\ RoundTrips))
<1> SUFFICES ASSUME PoolsFit
             PROVE  Spec => [](IInv /\ Truthful /\ RoundTrips)
  OBVIOUS
<1> QED
  BY InitIInv, StepIInv, InitTruthful, StepTruthful, ProjectionsReadBack, PTL DEF Spec

(* With pools that fit, a redirected connection is dialed to the target    *)
(* the program asked for.                                                  *)
THEOREM ConnectionsReachWanted == PoolsFit => (Spec => []TCPDialsWanted)
<1> SUFFICES ASSUME PoolsFit
             PROVE  Spec => []TCPDialsWanted
  OBVIOUS
<1>1. Truthful => TCPDialsWanted
  BY DEF Truthful, FlowTrue, TCPDialsWanted
<1> QED
  BY <1>1, AlwaysTruthful, PTL

(* A fake IP means the name it was given for, however long the program     *)
(* keeps it and whatever is projected in the meantime.                     *)
THEOREM AnswersRemainTrue == PoolsFit => (Spec => []AnswersStayTrue)
<1> SUFFICES ASSUME PoolsFit
             PROVE  Spec => []AnswersStayTrue
  OBVIOUS
<1>1. IInv /\ RoundTrips => AnswersStayTrue
  BY NameReadBack DEF AnswersStayTrue
<1> QED
  BY <1>1, AlwaysTruthful, PTL

(* A ping of a fake IP goes to the name's real address or to the fake one. *)
THEOREM PingsReachTheName == PoolsFit => (Spec => []ICMPReachesDomain)
<1> SUFFICES ASSUME PoolsFit
             PROVE  Spec => []ICMPReachesDomain
  OBVIOUS
<1>1. Truthful => ICMPReachesDomain
  BY DEF Truthful, FlowTrue, ICMPReachesDomain
<1> QED
  BY <1>1, AlwaysTruthful, PTL

=============================================================================
