--------------------------- MODULE Tracer_proofs ---------------------------
(***************************************************************************)
(* Tracer for any threads, descriptors, sockets and addresses and any      *)
(* number of calls.  The steps of one thread leave the tracer's picture of *)
(* every other thread true: they can only take a thread's own descriptors  *)
(* away.  So the invariant is one predicate per thread, and each action is *)
(* shown to keep the predicate of the thread that steps.                   *)
(***************************************************************************)
EXTENDS Tracer, TLAPS, WellFoundedInduction, NaturalsInduction

-----------------------------------------------------------------------------
(* Lemmas about the operators.                                             *)

(* The least of a set of numbers is one of them.                           *)
LEMMA MinIsMember ==
    ASSUME NEW S, S \subseteq Nat, S # {}
    PROVE  Min(S) \in S
<1> DEFINE R == {ss \in Nat \X Nat : ss[1] < ss[2]}
<1>1. IsWellFoundedOn(R, Nat)
  BY NatLessThanWellFounded DEF OpToRel
<1>2. PICK x \in S : \A y \in S : <<y, x>> \notin R
  <2> HIDE DEF R
  <2> QED
    BY <1>1, WFMin
<1>3. \A y \in S : x <= y
  <2> SUFFICES ASSUME NEW y \in S, y < x
               PROVE  FALSE
    OBVIOUS
  <2>1. <<y, x>> \in Nat \X Nat /\ <<y, x>>[1] = y /\ <<y, x>>[2] = x
    OBVIOUS
  <2>2. <<y, x>> \in R
    BY <2>1
  <2> QED
    BY <1>2, <2>2
<1> QED
  BY <1>3 DEF Min

(* A new descriptor was free.                                              *)
LEMMA NewFDFree ==
    ASSUME NEW t \in Threads, FreeFDs(t) # {}
    PROVE  Min(FreeFDs(t)) \in FDs /\ FDTable(t)[Min(FreeFDs(t))] = Nothing
<1>1. Min(FreeFDs(t)) \in FreeFDs(t)
  BY MinIsMember, TracerAssumption DEF FreeFDs
<1> QED
  BY <1>1 DEF FreeFDs

(* Seeing a thread changes what is known of standard descriptors only.     *)
LEMMA SeenKeeps ==
    ASSUME TypeOK, NEW t \in Threads
    PROVE  /\ Seen(t) \in [FDs -> Metas \cup {LocalSocket, Nothing}]
           /\ \A fd \in FDs \ Std : Seen(t)[fd] = socketInfo[t][fd]
  BY DEF TypeOK, Seen

(* The calls are told apart by their op.                                   *)
LEMMA CallKinds ==
    ASSUME NEW c, CallOK(c)
    PROVE  /\ c.op = "none" <=> c = Idle
           /\ c.op = "socket" => c \in SocketCalls
           /\ c.op = "fcntl" => c \in FcntlCalls
           /\ c.op = "close" => c \in CloseCalls
           /\ c.op = "dup2" => c \in Dup2Calls
           /\ c.op = "connect" => c \in ConnectCalls
  BY DEF CallOK, Idle, SocketCalls, FcntlCalls, CloseCalls, Dup2Calls, ConnectCalls

-----------------------------------------------------------------------------
(* What Poke does to an address, for every kind of socket.                 *)
LEMMA CarriedKinds ==
    ASSUME NEW meta, Carried(meta)
    PROVE  meta.family \in {"inet", "inet6"} /\ Expected(meta)
<1>1. meta.family \in {"inet", "inet6"}
  BY DEF Carried, Network
<1> QED
  BY <1>1 DEF Expected

LEMMA ProjectedTyped ==
    ASSUME NEW addr \in Addresses, NEW meta
    PROVE  /\ Projected(meta, addr) \in Addresses
           /\ Projected(meta, addr).host = "projection"
           /\ Projected(meta, addr).via = Target(addr)
           /\ Projected(meta, addr).fam = addr.fam
           /\ Carried(meta) => Projected(meta, addr).port = ProxyPort
<1>1. PortHackTo(meta) \in Nat
  BY DEF PortHackTo, ProxyPort
<1>2. Target(addr) \in Targets
  BY DEF Target, Targets, Addresses
<1>3. addr.fam \in {"inet", "inet6"}
  BY DEF Addresses
<1> QED
  BY <1>1, <1>2, <1>3 DEF Projected, Addresses, PortHackTo, WantedHosts

(* What may be in the program's memory after Poke.                         *)
LEMMA PokeCases ==
    ASSUME NEW addr \in Addresses, NEW meta
    PROVE  \/ Poke(opt, meta, addr) = addr
           \/ Poke(opt, meta, addr) = Projected(meta, addr)
           \/ /\ ~Carried(meta) /\ meta.family = "inet"
              /\ Poke(opt, meta, addr) \in Addresses
<1> DEFINE raw == [addr EXCEPT !.port = PortHackTo(meta),
                               !.host = IF Reserved(addr) /\ opt.realKnown
                                        THEN "real" ELSE @]
<1>1. HandleINet4(opt, meta, addr) \in {Nothing, Projected(meta, addr), raw}
  BY DEF HandleINet4
<1>2. HandleINet4(opt, meta, addr) = raw => ~Carried(meta) \/ raw = Projected(meta, addr)
                                            \/ raw = Nothing
  BY DEF HandleINet4
<1>3. raw \in Addresses
  <2>1. PortHackTo(meta) \in Nat
    BY DEF PortHackTo, ProxyPort
  <2> QED
    BY <2>1 DEF Addresses, WantedHosts
<1>4. HandleINet6(opt, meta, addr) \in {Nothing, Projected(meta, addr)}
  BY DEF HandleINet6
<1>5. addr.fam \in {"inet", "inet6"}
  BY DEF Addresses
<1>6. Expected(meta) /\ ~Carried(meta) => meta.family = "inet"
  BY DEF Expected
<1> HIDE DEF raw
<1> QED
  BY <1>1, <1>2, <1>3, <1>4, <1>5, <1>6, ProjectedTyped DEF Poke

LEMMA PokeTyped ==
    ASSUME NEW addr \in Addresses, NEW meta
    PROVE  Poke(opt, meta, addr) \in Addresses
  BY PokeCases, ProjectedTyped

-----------------------------------------------------------------------------
(* A buffer not used on a raw socket holds what the program wrote there or *)
(* its projection; after it was poked for a TCP or UDP socket that is to   *)
(* be redirected, it is the projection.                                    *)
BufferGood(b) ==
    ~b.raw => \/ b.addr = b.want
              \/ /\ b.addr.host = "projection" /\ b.addr.via = Target(b.want)
                 /\ b.addr.port = ProxyPort

PokedFor(meta, b) ==
    ~b.raw =>
        /\ Network(meta) = "tcp" /\ b.want.host \in {"public", "fake"}
               => b.addr.host = "projection"
        /\ Network(meta) = "udp" /\ b.want.port = DNSPort /\ ~opt.ignoreUDP
               => b.addr.host = "projection"

LEMMA PokedFields ==
    ASSUME NEW meta, NEW b \in Buffers
    PROVE  /\ Poked(meta, b) \in Buffers
           /\ Poked(meta, b).addr = Poke(opt, meta, b.addr)
           /\ Poked(meta, b).want = b.want
           /\ Poked(meta, b).raw = (b.raw \/ (meta.family # "local" /\ ~Carried(meta)))
<1>1. Poke(opt, meta, b.addr) \in Addresses
  BY PokeTyped DEF Buffers
<1>2. (b.raw \/ (meta.family # "local" /\ ~Carried(meta))) \in BOOLEAN
  OBVIOUS
<1> QED
  BY <1>1, <1>2 DEF Poked, Buffers

(* Addresses that are projections already are left alone.                  *)
LEMMA ProjectionsKept ==
    ASSUME NEW addr \in Addresses, NEW meta, Carried(meta),
           addr.host = "projection", addr.port = ProxyPort
    PROVE  Poke(opt, meta, addr) = addr
<1>1. IsLoopback(addr) /\ ~IsDNS(meta, addr)
  BY DEF IsLoopback, IsDNS, ProxyPort, DNSPort
<1>2. HandleINet4(opt, meta, addr) = Nothing
  BY <1>1 DEF HandleINet4, SkipsINet4
<1>3. HandleINet6(opt, meta, addr) = Nothing
  BY <1>1 DEF HandleINet6
<1> QED
  BY <1>2, <1>3 DEF Poke

(* TCP to the public and to domains, and DNS, is projected.                *)
LEMMA MustBeProjected ==
    ASSUME NEW addr \in Addresses, NEW meta,
           \/ Network(meta) = "tcp" /\ addr.host \in {"public", "fake"}
           \/ Network(meta) = "udp" /\ addr.port = DNSPort /\ ~opt.ignoreUDP
    PROVE  Poke(opt, meta, addr) = Projected(meta, addr)
<1>1. Carried(meta) /\ Expected(meta)
  BY CarriedKinds DEF Carried
<1>2. ~SkipsINet4(opt, meta, addr)
  BY DEF SkipsINet4, SkipsUDP, IsDNS, IsLoopback, DNSPort
<1>3. HandleINet4(opt, meta, addr) = Projected(meta, addr)
  BY <1>1, <1>2 DEF HandleINet4
<1>4. HandleINet6(opt, meta, addr) = Projected(meta, addr)
  BY DEF HandleINet6, SkipsUDP, IsDNS, IsLoopback, DNSPort
<1>5. Projected(meta, addr) # Nothing
  BY ProjectedTyped, TracerAssumption
<1>6. addr.fam \in {"inet", "inet6"}
  BY DEF Addresses
<1>7. ~(opt.ignoreUDP /\ Network(meta) = "udp")
  OBVIOUS
<1> QED
  BY <1>1, <1>3, <1>4, <1>5, <1>6, <1>7 DEF Poke

LEMMA PokedGood ==
    ASSUME NEW meta, NEW b \in Buffers, BufferGood(b)
    PROVE  BufferGood(Poked(meta, b)) /\ PokedFor(meta, Poked(meta, b))
<1> DEFINE p == Poked(meta, b)
<1>1. /\ p \in Buffers /\ p.addr = Poke(opt, meta, b.addr) /\ p.want = b.want
      /\ p.raw = (b.raw \/ (meta.family # "local" /\ ~Carried(meta)))
  BY PokedFields
<1> HIDE DEF p
<1> SUFFICES ASSUME ~p.raw
             PROVE  BufferGood(p) /\ PokedFor(meta, p)
  BY DEF BufferGood, PokedFor, p
<1>2. ~b.raw /\ (Carried(meta) \/ meta.family = "local")
  BY <1>1
<1>3. b.addr \in Addresses /\ b.want.host # "projection"
  BY TracerAssumption DEF Buffers, WantedAddresses, WantedHosts
<1>4. CASE b.addr = b.want
  <2>1. p.addr = b.addr \/ (p.addr = Projected(meta, b.addr) /\ Carried(meta))
    <3>1. meta.family = "local" => ~Expected(meta) /\ p.addr = b.addr
      BY <1>1 DEF Expected, Poke
    <3> QED
      BY <1>1, <1>2, <1>3, <3>1, PokeCases
  <2>2. BufferGood(p)
    BY <1>1, <1>3, <1>4, <2>1, ProjectedTyped DEF BufferGood
  <2>3. PokedFor(meta, p)
    BY <1>1, <1>2, <1>3, <1>4, MustBeProjected, ProjectedTyped DEF PokedFor
  <2> QED
    BY <2>2, <2>3
<1>5. CASE b.addr.host = "projection" /\ b.addr.via = Target(b.want)
           /\ b.addr.port = ProxyPort
  <2>1. p.addr = b.addr
    <3>1. CASE Carried(meta)
      BY <1>1, <1>3, <1>5, <3>1, ProjectionsKept
    <3>2. CASE meta.family = "local"
      BY <1>1, <3>2 DEF Expected, Poke
    <3> QED
      BY <1>2, <3>1, <3>2
  <2> QED
    BY <1>1, <1>5, <2>1 DEF BufferGood, PokedFor
<1> QED
  BY <1>2, <1>4, <1>5 DEF BufferGood

(* What a good buffer is good for.                                         *)
LEMMA GoodName ==
    ASSUME NEW b \in Buffers, BufferGood(b), ~b.raw
    PROVE  Named(b.addr) = Target(b.want)
<1>1. b.want.host # "projection"
  BY TracerAssumption DEF Buffers, WantedAddresses, WantedHosts
<1> QED
  BY <1>1 DEF BufferGood, Named

-----------------------------------------------------------------------------
(* Types.                                                                  *)
LEMMA InfoTyped ==
    ASSUME TypeOK, NEW t \in Threads,
           NEW info \in [FDs -> Metas \cup {LocalSocket, Nothing}], SetInfo(t, info)
    PROVE  /\ socketInfo' \in [Threads -> [FDs -> Metas \cup {LocalSocket, Nothing}]]
           /\ socketInfo'[t] = info
           /\ \A u \in Threads \ {t} : socketInfo'[u] = socketInfo[u]
  BY DEF TypeOK, SetInfo

LEMMA CallTyped ==
    ASSUME TypeOK, NEW t \in Threads, NEW c, CallOK(c), call' = [call EXCEPT ![t] = c]
    PROVE  /\ DOMAIN call' = Threads /\ \A u \in Threads : CallOK(call'[u])
           /\ call'[t] = c /\ \A u \in Threads \ {t} : call'[u] = call[u]
  BY DEF TypeOK

LEMMA StoreTyped ==
    ASSUME TypeOK, NEW t \in Threads,
           \/ \E meta \in Metas \cup {Nothing} : Save(t, "socket", meta)
           \/ \E args \in FcntlArgs \cup {Nothing} : Save(t, "fcntl", args)
           \/ UNCHANGED storehouse
    PROVE  /\ storehouse' \in [Threads -> [socket : Metas \cup {Nothing},
                                          fcntl : FcntlArgs \cup {Nothing}]]
           /\ \A u \in Threads \ {t} : storehouse'[u] = storehouse[u]
<1> DEFINE Rooms == [socket : Metas \cup {Nothing}, fcntl : FcntlArgs \cup {Nothing}]
<1>1. storehouse \in [Threads -> Rooms] /\ storehouse[t] \in Rooms
  BY DEF TypeOK
<1>2. ASSUME NEW meta \in Metas \cup {Nothing}, Save(t, "socket", meta)
      PROVE  \E room \in Rooms : storehouse' = [storehouse EXCEPT ![t] = room]
  <2> DEFINE room == [storehouse[t] EXCEPT !["socket"] = meta]
  <2>1. room \in Rooms
    BY <1>1
  <2>2. storehouse' = [storehouse EXCEPT ![t] = room]
    BY <1>2 DEF Save
  <2> QED
    BY <2>1, <2>2
<1>3. ASSUME NEW args \in FcntlArgs \cup {Nothing}, Save(t, "fcntl", args)
      PROVE  \E room \in Rooms : storehouse' = [storehouse EXCEPT ![t] = room]
  <2> DEFINE room == [storehouse[t] EXCEPT !["fcntl"] = args]
  <2>1. room \in Rooms
    BY <1>1
  <2>2. storehouse' = [storehouse EXCEPT ![t] = room]
    BY <1>3 DEF Save
  <2> QED
    BY <2>1, <2>2
<1> HIDE DEF Rooms
<1>4. storehouse' = storehouse \/ \E room \in Rooms : storehouse' = [storehouse EXCEPT ![t] = room]
  BY <1>2, <1>3
<1>5. storehouse' \in [Threads -> Rooms]
      /\ \A u \in Threads \ {t} : storehouse'[u] = storehouse[u]
  BY <1>1, <1>4
<1> QED
  BY <1>5 DEF Rooms

LEMMA SavedSocket ==
    ASSUME TypeOK, NEW t \in Threads, NEW meta, Save(t, "socket", meta)
    PROVE  storehouse'[t].socket = meta
  BY DEF TypeOK, Save

LEMMA SavedFcntl ==
    ASSUME TypeOK, NEW t \in Threads, NEW args, Save(t, "fcntl", args)
    PROVE  storehouse'[t].fcntl = args
  BY DEF TypeOK, Save

(* A call takes effect: its result is there, the rest of it stays.         *)
SameCall(c, d) ==
    /\ c.op = d.op
    /\ c.op = "socket" => c.meta = d.meta
    /\ c.op = "fcntl" => c.fd = d.fd /\ c.dup = d.dup
    /\ c.op \in {"close", "connect"} => c.fd = d.fd

LEMMA ReturnRecord ==
    ASSUME TypeOK, NEW t \in Threads, call[t] # Idle, NEW ret, Return(t, ret),
           call[t].op \in {"socket", "fcntl", "dup2"} => ret \in FDs \cup {Nothing},
           call[t].op = "close" => ret \in {0, Nothing},
           call[t].op = "connect" => ret \in FlowRecord \cup {Nothing}
    PROVE  \E c : /\ call' = [call EXCEPT ![t] = c]
                  /\ CallOK(c) /\ SameCall(c, call[t]) /\ c.done = TRUE /\ c.ret = ret
<1> DEFINE c == [call[t] EXCEPT !.done = TRUE, !.ret = ret]
<1>1. call' = [call EXCEPT ![t] = c]
  BY DEF Return
<1>2. CallOK(call[t])
  BY DEF TypeOK
<1>3. CASE call[t] \in SocketCalls
  <2>1. c \in SocketCalls /\ c.op = "socket"
    BY <1>3 DEF SocketCalls
  <2>2. SameCall(c, call[t]) /\ c.done = TRUE /\ c.ret = ret
    BY <1>3 DEF SocketCalls, SameCall
  <2> QED
    BY <1>1, <2>1, <2>2 DEF CallOK
<1>4. CASE call[t] \in FcntlCalls
  <2>1. c \in FcntlCalls /\ c.op = "fcntl"
    BY <1>4 DEF FcntlCalls
  <2>2. SameCall(c, call[t]) /\ c.done = TRUE /\ c.ret = ret
    BY <1>4 DEF FcntlCalls, SameCall
  <2> QED
    BY <1>1, <2>1, <2>2 DEF CallOK
<1>5. CASE call[t] \in CloseCalls
  <2>1. c \in CloseCalls /\ c.op = "close"
    BY <1>5 DEF CloseCalls
  <2>2. SameCall(c, call[t]) /\ c.done = TRUE /\ c.ret = ret
    BY <1>5 DEF CloseCalls, SameCall
  <2> QED
    BY <1>1, <2>1, <2>2 DEF CallOK
<1>6. CASE call[t] \in Dup2Calls
  <2>1. c \in Dup2Calls /\ c.op = "dup2"
    BY <1>6 DEF Dup2Calls
  <2>2. SameCall(c, call[t]) /\ c.done = TRUE /\ c.ret = ret
    BY <1>6 DEF Dup2Calls, SameCall
  <2> QED
    BY <1>1, <2>1, <2>2 DEF CallOK
<1>7. CASE call[t] \in ConnectCalls
  <2>1. c \in ConnectCalls /\ c.op = "connect"
    BY <1>7 DEF ConnectCalls
  <2>2. SameCall(c, call[t]) /\ c.done = TRUE /\ c.ret = ret
    BY <1>7 DEF ConnectCalls, SameCall
  <2> QED
    BY <1>1, <2>1, <2>2 DEF CallOK
<1> QED
  BY <1>2, <1>3, <1>4, <1>5, <1>6, <1>7 DEF CallOK

-----------------------------------------------------------------------------
(* The invariant.  A thread's own descriptors are those that carry its     *)
(* name in its process's table.                                            *)
Owned(t, fd) == Alive(t) /\ FDTable(t)[fd] # Nothing /\ FDTable(t)[fd].owner = t

What(t, fd) == FDTable(t)[fd].what

(* An owner is alive and in the process that has the descriptor.           *)
OwnersLive ==
    \A v \in Threads, fd \in FDs :
        fds[v][fd] # Nothing /\ fds[v][fd].owner # Nothing =>
            /\ table[fds[v][fd].owner] = v
            /\ fds[v][fd].what \in Metas /\ fd \notin Std

(* The descriptor a call just returned, which the tracer is about to note. *)
Returned(t, fd) == call[t].op \in {"socket", "fcntl"} /\ call[t].done /\ call[t].ret = fd

Closed(t, fd) == call[t].op = "close" /\ call[t].done /\ call[t].fd = fd

Tracked(t) ==
    \A fd \in FDs : Owned(t, fd) =>
        /\ ~Closed(t, fd)
        /\ ~Returned(t, fd) => socketInfo[t][fd] = What(t, fd)
        /\ Returned(t, fd) /\ call[t].op = "socket" => call[t].meta = What(t, fd)
        /\ Returned(t, fd) /\ call[t].op = "fcntl" =>
               /\ call[t].dup /\ call[t].fd \notin Std
               /\ socketInfo[t][call[t].fd] = What(t, fd)

ArgsSaved(t) ==
    /\ call[t].op = "socket" => storehouse[t].socket = call[t].meta
    /\ call[t].op = "fcntl" =>
           storehouse[t].fcntl = [fd |-> call[t].fd, dup |-> call[t].dup]

BufferOK(t) ==
    /\ buf[t] # Nothing => BufferGood(buf[t])
    /\ call[t].op = "connect" => buf[t] \in Buffers /\ BufferGood(buf[t])

(* Before a connect takes effect its address is poked for the very socket  *)
(* it will be made on, if that is the thread's own.                        *)
PokedInTime(t) ==
    call[t].op = "connect" /\ ~call[t].done /\ Owned(t, call[t].fd)
        => PokedFor(What(t, call[t].fd), buf[t])

FlowGood(f) ==
    f.followed =>
        /\ Named(f.got) = Target(f.want)
        /\ Network(f.meta) = "tcp" /\ f.want.host \in {"public", "fake"}
               => f.got.host = "projection"
        /\ Network(f.meta) = "udp" /\ f.want.port = DNSPort /\ ~opt.ignoreUDP
               => f.got.host = "projection"

ArrivedWell(t) ==
    call[t].op = "connect" /\ call[t].ret # Nothing
        => FlowGood(call[t].ret)

ThreadInv(t) ==
    /\ ~Alive(t) => call[t] = Idle
    /\ Tracked(t)
    /\ ArgsSaved(t)
    /\ BufferOK(t)
    /\ PokedInTime(t)
    /\ ArrivedWell(t)

IInv == TypeOK /\ OwnersLive /\ \A t \in Threads : ThreadInv(t)

(* What a step of one thread may do to another.                            *)
SameThread(u) ==
    /\ table'[u] = table[u] /\ call'[u] = call[u] /\ buf'[u] = buf[u]
    /\ socketInfo'[u] = socketInfo[u] /\ storehouse'[u] = storehouse[u]

OwnsNoMore(u) ==
    \A fd \in FDs : Owned(u, fd)' => Owned(u, fd) /\ What(u, fd)' = What(u, fd)

(* A thread that another one's step only takes descriptors from is as well *)
(* known as before.                                                        *)
LEMMA OtherThread ==
    ASSUME TypeOK, NEW u \in Threads, ThreadInv(u), SameThread(u), OwnsNoMore(u),
           opt' = opt
    PROVE  ThreadInv(u)'
<1>1. Tracked(u)'
  BY DEF ThreadInv, Tracked, SameThread, OwnsNoMore, Closed, Returned
<1>2. ArgsSaved(u)' /\ BufferOK(u)' /\ ArrivedWell(u)' /\ (~Alive(u) => call[u] = Idle)'
  BY DEF ThreadInv, SameThread, ArgsSaved, BufferOK, ArrivedWell, FlowGood, Alive
<1>3. PokedInTime(u)'
  <2> SUFFICES ASSUME call[u].op = "connect", ~call[u].done, Owned(u, call[u].fd)'
               PROVE  PokedFor(What(u, call[u].fd), buf[u])'
    BY DEF PokedInTime, SameThread
  <2>1. call[u].fd \in FDs
    BY CallKinds DEF TypeOK, ConnectCalls
  <2> QED
    BY <2>1 DEF ThreadInv, PokedInTime, OwnsNoMore, PokedFor, SameThread
<1> QED
  BY <1>1, <1>2, <1>3 DEF ThreadInv

LEMMA OneThread ==
    ASSUME IInv, NEW t \in Threads, opt' = opt,
           TypeOK', OwnersLive', ThreadInv(t)',
           \A u \in Threads \ {t} : SameThread(u) /\ OwnsNoMore(u)
    PROVE  IInv'
<1>1. ASSUME NEW u \in Threads PROVE ThreadInv(u)'
  BY OtherThread DEF IInv
<1> QED
  BY <1>1 DEF IInv

(* A thread's own descriptors are no standard ones, so looking at those    *)
(* first changes nothing about them.                                       *)
LEMMA OwnedIsAbove ==
    ASSUME TypeOK, OwnersLive, NEW t \in Threads, NEW fd \in FDs, Owned(t, fd)
    PROVE  /\ table[t] \in Threads /\ fd \notin Std /\ What(t, fd) \in Metas
           /\ Seen(t)[fd] = socketInfo[t][fd]
<1>1. table[t] \in Threads /\ t # Nothing
  BY TracerAssumption DEF TypeOK, Owned, Alive
<1>2. fd \notin Std /\ What(t, fd) \in Metas
  BY <1>1 DEF OwnersLive, Owned, What, FDTable
<1> QED
  BY <1>1, <1>2, SeenKeeps

-----------------------------------------------------------------------------
(* Entry stops.                                                            *)
LEMMA Entered ==
    ASSUME IInv, NEW t \in Threads, NEW c, CallOK(c), c # Idle, c.done = FALSE, Enter(t, c)
    PROVE  /\ call'[t] = c /\ Alive(t)' /\ Alive(t) /\ OwnersLive'
           /\ DOMAIN call' = Threads /\ \A u \in Threads : CallOK(call'[u])
           /\ \A u \in Threads \ {t} :
                  call'[u] = call[u] /\ table'[u] = table[u]
                  /\ socketInfo'[u] = socketInfo[u] /\ OwnsNoMore(u)
           /\ calls' \in 0..MaxCalls /\ opt' = opt
           /\ table' = table /\ fds' = fds
           /\ socketInfo' \in [Threads -> [FDs -> Metas \cup {LocalSocket, Nothing}]]
           /\ Tracked(t)'
           /\ \A fd \in FDs : Owned(t, fd) => Seen(t)[fd] = What(t, fd)
<1>1. TypeOK /\ OwnersLive /\ ThreadInv(t)
  BY DEF IInv
<1>2. call'[t] = c /\ DOMAIN call' = Threads /\ (\A u \in Threads : CallOK(call'[u]))
      /\ \A u \in Threads \ {t} : call'[u] = call[u]
  BY <1>1, CallTyped DEF Enter
<1>3. Seen(t) \in [FDs -> Metas \cup {LocalSocket, Nothing}]
  BY <1>1, SeenKeeps
<1>4. socketInfo' \in [Threads -> [FDs -> Metas \cup {LocalSocket, Nothing}]]
      /\ socketInfo'[t] = Seen(t)
      /\ \A u \in Threads \ {t} : socketInfo'[u] = socketInfo[u]
  BY <1>1, <1>3, InfoTyped DEF Enter
<1>5. table' = table /\ fds' = fds /\ opt' = opt /\ Alive(t) /\ call[t] = Idle
  BY DEF Enter
<1>6. calls' \in 0..MaxCalls
  BY <1>1, TracerAssumption DEF Enter, TypeOK
<1>7. \A u \in Threads, fd \in FDs :
          (Owned(u, fd)' <=> Owned(u, fd)) /\ What(u, fd)' = What(u, fd)
  BY <1>5 DEF Owned, What, Alive, FDTable
<1>8. OwnersLive' /\ Alive(t)'
  BY <1>1, <1>5 DEF OwnersLive, Alive
<1>9. \A u \in Threads : OwnsNoMore(u)
  BY <1>7 DEF OwnsNoMore
<1>10. ASSUME NEW fd \in FDs, Owned(t, fd)
       PROVE  Seen(t)[fd] = What(t, fd)
  <2>1. ~Returned(t, fd)
    BY <1>5 DEF Returned, Idle
  <2> QED
    BY <1>1, <1>10, <2>1, OwnedIsAbove DEF ThreadInv, Tracked
<1>11. Tracked(t)'
  <2>1. \A fd \in FDs : ~Closed(t, fd)' /\ ~Returned(t, fd)'
    BY <1>2 DEF Closed, Returned
  <2> QED
    BY <1>4, <1>7, <1>10, <2>1 DEF Tracked
<1> QED
  BY <1>2, <1>4, <1>5, <1>6, <1>8, <1>9, <1>10, <1>11

LEMMA StepEnterSocket ==
    ASSUME IInv, NEW t \in Threads, NEW meta \in Metas, EnterSocket(t, meta)
    PROVE  IInv'
<1> DEFINE new == [op |-> "socket", meta |-> meta, done |-> FALSE, ret |-> Nothing]
<1>1. PICK c : c = new
  OBVIOUS
<1>2. c \in SocketCalls /\ c.op = "socket" /\ c.done = FALSE /\ c.meta = meta
  BY <1>1 DEF SocketCalls
<1>3. Enter(t, c) /\ Save(t, "socket", meta) /\ buf' = buf
  BY <1>1 DEF EnterSocket
<1> HIDE DEF new
<1>4. TypeOK /\ ThreadInv(t) /\ CallOK(c) /\ c # Idle
  BY <1>2 DEF IInv, CallOK, Idle
<1>5. /\ call'[t] = c /\ Alive(t)' /\ Tracked(t)' /\ OwnersLive' /\ opt' = opt
      /\ \A u \in Threads \ {t} :
             call'[u] = call[u] /\ table'[u] = table[u]
             /\ socketInfo'[u] = socketInfo[u] /\ OwnsNoMore(u)
  BY <1>2, <1>3, <1>4, Entered
<1>6. storehouse'[t].socket = meta /\ \A u \in Threads \ {t} : storehouse'[u] = storehouse[u]
  BY <1>3, <1>4, SavedSocket, StoreTyped
<1>7. TypeOK'
  <2>1. storehouse' \in [Threads -> [socket : Metas \cup {Nothing},
                                     fcntl : FcntlArgs \cup {Nothing}]]
    BY <1>3, <1>4, StoreTyped
  <2>2. /\ DOMAIN call' = Threads /\ \A u \in Threads : CallOK(call'[u])
        /\ calls' \in 0..MaxCalls /\ table' = table /\ fds' = fds
        /\ socketInfo' \in [Threads -> [FDs -> Metas \cup {LocalSocket, Nothing}]]
    BY <1>2, <1>3, <1>4, Entered
  <2> QED
    BY <1>3, <1>4, <1>5, <2>1, <2>2 DEF TypeOK
<1>8. ThreadInv(t)'
  BY <1>2, <1>3, <1>4, <1>5, <1>6
  DEF ThreadInv, ArgsSaved, BufferOK, PokedInTime, ArrivedWell
<1> QED
  BY <1>3, <1>5, <1>6, <1>7, <1>8, OneThread DEF SameThread

LEMMA StepEnterFcntl ==
    ASSUME IInv, NEW t \in Threads, NEW fd \in FDs, NEW dup \in BOOLEAN, EnterFcntl(t, fd, dup)
    PROVE  IInv'
<1> DEFINE new == [op |-> "fcntl", fd |-> fd, dup |-> dup, done |-> FALSE, ret |-> Nothing]
<1>1. PICK c : c = new
  OBVIOUS
<1>2. PICK args : args = [fd |-> fd, dup |-> dup]
  OBVIOUS
<1>3. /\ c \in FcntlCalls /\ c.op = "fcntl" /\ c.done = FALSE /\ args \in FcntlArgs
      /\ args = [fd |-> c.fd, dup |-> c.dup]
  BY <1>1, <1>2 DEF FcntlCalls, FcntlArgs
<1>4. Enter(t, c) /\ Save(t, "fcntl", args) /\ buf' = buf
  BY <1>1, <1>2 DEF EnterFcntl
<1> HIDE DEF new
<1>5. TypeOK /\ ThreadInv(t) /\ CallOK(c) /\ c # Idle
  BY <1>3 DEF IInv, CallOK, Idle
<1>6. /\ call'[t] = c /\ Alive(t)' /\ Tracked(t)' /\ OwnersLive' /\ opt' = opt
      /\ \A u \in Threads \ {t} :
             call'[u] = call[u] /\ table'[u] = table[u]
             /\ socketInfo'[u] = socketInfo[u] /\ OwnsNoMore(u)
  BY <1>3, <1>4, <1>5, Entered
<1>7. storehouse'[t].fcntl = args /\ \A u \in Threads \ {t} : storehouse'[u] = storehouse[u]
  BY <1>3, <1>4, <1>5, SavedFcntl, StoreTyped
<1>8. TypeOK'
  <2>1. storehouse' \in [Threads -> [socket : Metas \cup {Nothing},
                                     fcntl : FcntlArgs \cup {Nothing}]]
    BY <1>3, <1>4, <1>5, StoreTyped
  <2>2. /\ DOMAIN call' = Threads /\ \A u \in Threads : CallOK(call'[u])
        /\ calls' \in 0..MaxCalls /\ table' = table /\ fds' = fds
        /\ socketInfo' \in [Threads -> [FDs -> Metas \cup {LocalSocket, Nothing}]]
    BY <1>3, <1>4, <1>5, Entered
  <2> QED
    BY <1>4, <1>5, <1>6, <2>1, <2>2 DEF TypeOK
<1>9. ThreadInv(t)'
  BY <1>3, <1>4, <1>5, <1>6, <1>7
  DEF ThreadInv, ArgsSaved, BufferOK, PokedInTime, ArrivedWell
<1> QED
  BY <1>4, <1>6, <1>7, <1>8, <1>9, OneThread DEF SameThread

(* close and dup2: nothing is saved, nothing poked.                        *)
LEMMA EnteredUnhandled ==
    ASSUME IInv, NEW t \in Threads, NEW c, CallOK(c), c.op \in {"close", "dup2"},
           c.done = FALSE, Enter(t, c), UNCHANGED <<storehouse, buf>>
    PROVE  IInv'
<1>1. TypeOK /\ ThreadInv(t) /\ c # Idle
  BY DEF IInv, Idle
<1>2. /\ call'[t] = c /\ Alive(t)' /\ Tracked(t)' /\ OwnersLive' /\ opt' = opt
      /\ \A u \in Threads \ {t} :
             call'[u] = call[u] /\ table'[u] = table[u]
             /\ socketInfo'[u] = socketInfo[u] /\ OwnsNoMore(u)
  BY <1>1, Entered
<1>3. TypeOK'
  <2>1. /\ DOMAIN call' = Threads /\ \A u \in Threads : CallOK(call'[u])
        /\ calls' \in 0..MaxCalls /\ table' = table /\ fds' = fds
        /\ socketInfo' \in [Threads -> [FDs -> Metas \cup {LocalSocket, Nothing}]]
    BY <1>1, Entered
  <2> QED
    BY <1>1, <1>2, <2>1 DEF TypeOK
<1>4. ThreadInv(t)'
  BY <1>1, <1>2 DEF ThreadInv, ArgsSaved, BufferOK, PokedInTime, ArrivedWell
<1> QED
  BY <1>2, <1>3, <1>4, OneThread DEF SameThread

LEMMA StepEnterClose ==
    ASSUME IInv, NEW t \in Threads, NEW fd \in FDs, EnterClose(t, fd)
    PROVE  IInv'
<1>1. PICK c : c = [op |-> "close", fd |-> fd, done |-> FALSE, ret |-> Nothing]
  OBVIOUS
<1>2. CallOK(c) /\ c.op = "close" /\ c.done = FALSE
  BY <1>1 DEF CallOK, CloseCalls
<1> QED
  BY <1>1, <1>2, EnteredUnhandled DEF EnterClose

LEMMA StepEnterDup2 ==
    ASSUME IInv, NEW t \in Threads, NEW fd \in FDs, NEW onto \in FDs, EnterDup2(t, fd, onto)
    PROVE  IInv'
<1>1. PICK c : c = [op |-> "dup2", fd |-> fd, onto |-> onto, done |-> FALSE, ret |-> Nothing]
  OBVIOUS
<1>2. CallOK(c) /\ c.op = "dup2" /\ c.done = FALSE
  BY <1>1 DEF CallOK, Dup2Calls
<1> QED
  BY <1>1, <1>2, EnteredUnhandled DEF EnterDup2

(* What poking a thread's buffer leaves of it.                             *)
PokedBuffer(t, meta) == buf' = IF meta = Nothing THEN buf
                               ELSE [buf EXCEPT ![t] = Poked(meta, @)]

LEMMA BufferPoked ==
    ASSUME TypeOK, NEW t \in Threads, BufferOK(t), buf[t] \in Buffers, BufferGood(buf[t]),
           NEW meta, PokedBuffer(t, meta)
    PROVE  /\ buf' \in [Threads -> Buffers \cup {Nothing}]
           /\ buf'[t] \in Buffers /\ BufferGood(buf'[t])
           /\ meta # Nothing => PokedFor(meta, buf'[t])
           /\ \A u \in Threads \ {t} : buf'[u] = buf[u]
<1>1. PICK b : b = Poked(meta, buf[t])
  OBVIOUS
<1>2. b \in Buffers /\ BufferGood(b) /\ PokedFor(meta, b)
  BY <1>1, PokedFields, PokedGood
<1>3. buf' = IF meta = Nothing THEN buf ELSE [buf EXCEPT ![t] = b]
  BY <1>1 DEF PokedBuffer
<1> QED
  BY <1>2, <1>3 DEF TypeOK

LEMMA StepEnterConnect ==
    ASSUME IInv, NEW t \in Threads, NEW fd \in FDs, EnterConnect(t, fd)
    PROVE  IInv'
<1>1. PICK c : c = [op |-> "connect", fd |-> fd, done |-> FALSE, ret |-> Nothing]
  OBVIOUS
<1>2. CallOK(c) /\ c.op = "connect" /\ c.done = FALSE /\ c.ret = Nothing /\ c.fd = fd /\ c # Idle
  BY <1>1 DEF CallOK, ConnectCalls, Idle
<1>3. Enter(t, c) /\ storehouse' = storehouse /\ PokedBuffer(t, Seen(t)[fd]) /\ buf[t] # Nothing
  BY <1>1 DEF EnterConnect, PokedBuffer
<1>4. TypeOK /\ OwnersLive /\ ThreadInv(t) /\ buf[t] \in Buffers /\ BufferGood(buf[t])
      /\ BufferOK(t)
  BY <1>3 DEF IInv, TypeOK, ThreadInv, BufferOK
<1>5. /\ call'[t] = c /\ Alive(t)' /\ Tracked(t)' /\ OwnersLive' /\ opt' = opt
      /\ \A u \in Threads \ {t} :
             call'[u] = call[u] /\ table'[u] = table[u]
             /\ socketInfo'[u] = socketInfo[u] /\ OwnsNoMore(u)
      /\ table' = table /\ fds' = fds
      /\ Owned(t, fd) => Seen(t)[fd] = What(t, fd)
  BY <1>2, <1>3, Entered
<1>6. /\ buf' \in [Threads -> Buffers \cup {Nothing}]
      /\ buf'[t] \in Buffers /\ BufferGood(buf'[t])
      /\ Seen(t)[fd] # Nothing => PokedFor(Seen(t)[fd], buf'[t])
      /\ \A u \in Threads \ {t} : buf'[u] = buf[u]
  BY <1>3, <1>4, BufferPoked
<1>7. TypeOK'
  <2>1. /\ DOMAIN call' = Threads /\ \A u \in Threads : CallOK(call'[u])
        /\ calls' \in 0..MaxCalls /\ table' = table /\ fds' = fds
        /\ socketInfo' \in [Threads -> [FDs -> Metas \cup {LocalSocket, Nothing}]]
    BY <1>2, <1>3, Entered
  <2> QED
    BY <1>3, <1>4, <1>5, <1>6, <2>1 DEF TypeOK
<1>8. PokedInTime(t)'
  <2>1. Owned(t, fd)' => Owned(t, fd) /\ What(t, fd)' = What(t, fd)
    BY <1>5 DEF Owned, What, Alive, FDTable
  <2>2. Owned(t, fd) => What(t, fd) # Nothing
    BY <1>4, OwnedIsAbove, TracerAssumption
  <2>3. Owned(t, fd) => PokedFor(What(t, fd), buf'[t])
    BY <1>5, <1>6, <2>2
  <2>4. ASSUME Owned(t, fd)'
        PROVE  PokedFor(What(t, fd), buf[t])'
    BY <1>5, <2>1, <2>3, <2>4 DEF PokedFor
  <2> QED
    BY <1>2, <1>5, <2>4 DEF PokedInTime
<1>9. ThreadInv(t)'
  BY <1>2, <1>3, <1>4, <1>5, <1>6, <1>8
  DEF ThreadInv, ArgsSaved, BufferOK, ArrivedWell, BufferGood
<1> QED
  BY <1>3, <1>5, <1>6, <1>7, <1>9, OneThread DEF SameThread

-----------------------------------------------------------------------------
(* Calls taking effect.                                                    *)
LEMMA SlotSet ==
    ASSUME IInv, NEW t \in Threads, Alive(t), NEW fd \in FDs, NEW to \in Opened \cup {Nothing},
           SetFD(t, fd, to), table' = table,
           to # Nothing /\ to.owner # Nothing =>
               to.owner = t /\ to.what \in Metas /\ fd \notin Std
    PROVE  /\ fds' \in [Threads -> [FDs -> Opened \cup {Nothing}]]
           /\ OwnersLive'
           /\ \A u \in Threads \ {t} : OwnsNoMore(u)
           /\ Alive(t)' /\ FDTable(t)'[fd] = to
           /\ \A x \in FDs \ {fd} :
                  (Owned(t, x)' <=> Owned(t, x)) /\ What(t, x)' = What(t, x)
<1>1. PICK v \in Threads : v = table[t]
  BY DEF IInv, TypeOK, Alive
<1>2. fds \in [Threads -> [FDs -> Opened \cup {Nothing}]] /\ OwnersLive
  BY DEF IInv, TypeOK
<1>3. fds' = [fds EXCEPT ![v][fd] = to]
  BY <1>1 DEF SetFD
<1>4. /\ fds' \in [Threads -> [FDs -> Opened \cup {Nothing}]]
      /\ fds'[v][fd] = to
      /\ \A w \in Threads, x \in FDs : w # v \/ x # fd => fds'[w][x] = fds[w][x]
  BY <1>2, <1>3
<1>5. OwnersLive'
  BY <1>1, <1>2, <1>4 DEF OwnersLive
<1>6. Alive(t)' /\ FDTable(t)'[fd] = to
  BY <1>1, <1>4 DEF Alive, FDTable
<1>7. ASSUME NEW x \in FDs \ {fd}
      PROVE  (Owned(t, x)' <=> Owned(t, x)) /\ What(t, x)' = What(t, x)
  BY <1>1, <1>4, <1>6 DEF Owned, What, FDTable, Alive
<1>8. ASSUME NEW u \in Threads \ {t} PROVE OwnsNoMore(u)
  <2> SUFFICES ASSUME NEW x \in FDs, Owned(u, x)'
               PROVE  Owned(u, x) /\ What(u, x)' = What(u, x)
    BY DEF OwnsNoMore
  <2>1. PICK w \in Threads : w = table[u]
    BY DEF IInv, TypeOK, Owned, Alive
  <2>2. w # v \/ x # fd
    BY <1>4, <2>1, TracerAssumption DEF Owned, FDTable
  <2>3. fds'[w][x] = fds[w][x]
    BY <1>4, <2>2
  <2> QED
    BY <2>1, <2>3 DEF Owned, What, FDTable, Alive
<1> QED
  BY <1>4, <1>5, <1>6, <1>7, <1>8

LEMMA Executed ==
    ASSUME IInv, NEW t \in Threads, call[t] # Idle, ~call[t].done,
           UNCHANGED <<table, buf, calls, opt, socketInfo, storehouse>>,
           NEW c, call' = [call EXCEPT ![t] = c], CallOK(c), SameCall(c, call[t]), c.done = TRUE,
           fds' \in [Threads -> [FDs -> Opened \cup {Nothing}]], OwnersLive',
           \A u \in Threads \ {t} : OwnsNoMore(u),
           Tracked(t)', c.op = "connect" /\ c.ret # Nothing => FlowGood(c.ret)
    PROVE  IInv'
<1>1. TypeOK /\ ThreadInv(t) /\ Alive(t)
  BY DEF IInv, ThreadInv
<1>2. /\ DOMAIN call' = Threads /\ \A u \in Threads : CallOK(call'[u])
      /\ call'[t] = c /\ \A u \in Threads \ {t} : call'[u] = call[u]
  BY <1>1, CallTyped
<1>3. TypeOK'
  BY <1>1, <1>2 DEF TypeOK
<1>4. ArgsSaved(t)' /\ BufferOK(t)' /\ PokedInTime(t)' /\ Alive(t)'
  BY <1>1, <1>2 DEF ThreadInv, ArgsSaved, BufferOK, PokedInTime, SameCall, Alive
<1>5. ArrivedWell(t)'
  BY <1>2 DEF ArrivedWell, FlowGood
<1>6. ThreadInv(t)'
  BY <1>4, <1>5 DEF ThreadInv
<1> QED
  BY <1>2, <1>3, <1>6, OneThread DEF SameThread

LEMMA StepExecuteSocket ==
    ASSUME IInv, NEW t \in Threads, ExecuteSocket(t),
           UNCHANGED <<table, buf, calls, opt, socketInfo, storehouse>>
    PROVE  IInv'
<1>1. PICK fd : fd = Min(FreeFDs(t))
  OBVIOUS
<1>2. TypeOK /\ OwnersLive /\ ThreadInv(t) /\ CallOK(call[t])
  BY DEF IInv, TypeOK
<1>3. call[t] # Idle /\ ~call[t].done /\ call[t].op = "socket" /\ Alive(t)
  BY <1>2 DEF ExecuteSocket, Executing, ThreadInv, Idle
<1>4. call[t] \in SocketCalls
  BY <1>2, <1>3, CallKinds
<1>5. fd \in FDs /\ FDTable(t)[fd] = Nothing
  BY <1>1, NewFDFree DEF ExecuteSocket
<1>6. PICK to : to = Open(call[t].meta, Own(t, fd))
  OBVIOUS
<1>7. to \in Opened /\ to.what = call[t].meta /\ call[t].meta \in Metas
      /\ (to.owner # Nothing => to.owner = t /\ fd \notin Std)
  BY <1>4, <1>6 DEF Open, Opened, Own, SocketCalls
<1>8. SetFD(t, fd, to) /\ Return(t, fd)
  BY <1>1, <1>6 DEF ExecuteSocket
<1>9. PICK c : /\ call' = [call EXCEPT ![t] = c]
               /\ CallOK(c) /\ SameCall(c, call[t]) /\ c.done = TRUE /\ c.ret = fd
  BY <1>2, <1>3, <1>5, <1>8, ReturnRecord
<1>10. call'[t] = c
  BY <1>2, <1>9, CallTyped
<1>11. /\ fds' \in [Threads -> [FDs -> Opened \cup {Nothing}]]
       /\ OwnersLive' /\ \A u \in Threads \ {t} : OwnsNoMore(u)
       /\ FDTable(t)'[fd] = to
       /\ \A x \in FDs \ {fd} :
              (Owned(t, x)' <=> Owned(t, x)) /\ What(t, x)' = What(t, x)
  BY <1>3, <1>5, <1>7, <1>8, SlotSet
<1>12. Tracked(t)'
  <2> SUFFICES ASSUME NEW x \in FDs, Owned(t, x)'
               PROVE  /\ ~Closed(t, x)'
                      /\ ~Returned(t, x)' => socketInfo'[t][x] = What(t, x)'
                      /\ Returned(t, x)' => c.meta = What(t, x)'
    BY <1>3, <1>9, <1>10 DEF Tracked, SameCall
  <2>1. ~Closed(t, x)' /\ (Returned(t, x)' <=> x = fd)
    BY <1>3, <1>9, <1>10 DEF Closed, Returned, SameCall
  <2>2. CASE x = fd
    BY <1>3, <1>7, <1>9, <1>11, <2>1, <2>2 DEF What, SameCall
  <2>3. CASE x # fd
    <3>1. ~Returned(t, x) /\ Owned(t, x)
      BY <1>3, <1>11, <2>3 DEF Returned
    <3> QED
      BY <1>2, <1>11, <2>1, <2>3, <3>1 DEF ThreadInv, Tracked
  <2> QED
    BY <2>2, <2>3
<1> QED
  BY <1>3, <1>9, <1>11, <1>12, Executed DEF SameCall

LEMMA StepExecuteDup ==
    ASSUME IInv, NEW t \in Threads, ExecuteDup(t),
           UNCHANGED <<table, buf, calls, opt, socketInfo, storehouse>>
    PROVE  IInv'
<1>1. PICK fd : fd = Min(FreeFDs(t))
  OBVIOUS
<1>2. TypeOK /\ OwnersLive /\ ThreadInv(t) /\ CallOK(call[t])
  BY DEF IInv, TypeOK
<1>3. call[t] # Idle /\ ~call[t].done /\ call[t].op = "fcntl" /\ Alive(t) /\ call[t].dup
  BY <1>2 DEF ExecuteDup, Executing, ThreadInv, Idle
<1>4. call[t].fd \in FDs
  BY <1>2, <1>3, CallKinds DEF FcntlCalls
<1>5. fd \in FDs /\ FDTable(t)[fd] = Nothing
  BY <1>1, NewFDFree DEF ExecuteDup
<1>6. PICK old : old = FDTable(t)[call[t].fd]
  OBVIOUS
<1>7. old # Nothing /\ old \in Opened
  BY <1>2, <1>3, <1>4, <1>6 DEF ExecuteDup, TypeOK, FDTable, Alive
<1>8. PICK to : to = Open(old.what, IF old.owner = t THEN Own(t, fd) ELSE Nothing)
  OBVIOUS
<1>9. /\ to \in Opened /\ to.what = old.what
      /\ to.owner # Nothing => to.owner = t /\ fd \notin Std /\ Owned(t, call[t].fd)
  BY <1>3, <1>6, <1>7, <1>8 DEF Open, Opened, Own, Owned
<1>10. to.owner # Nothing => to.what \in Metas /\ call[t].fd \notin Std
  BY <1>2, <1>4, <1>6, <1>9, OwnedIsAbove DEF What
<1>11. SetFD(t, fd, to) /\ Return(t, fd)
  BY <1>1, <1>6, <1>8 DEF ExecuteDup
<1>12. PICK c : /\ call' = [call EXCEPT ![t] = c]
                /\ CallOK(c) /\ SameCall(c, call[t]) /\ c.done = TRUE /\ c.ret = fd
  BY <1>2, <1>3, <1>5, <1>11, ReturnRecord
<1>13. call'[t] = c
  BY <1>2, <1>12, CallTyped
<1>14. /\ fds' \in [Threads -> [FDs -> Opened \cup {Nothing}]]
       /\ OwnersLive' /\ \A u \in Threads \ {t} : OwnsNoMore(u)
       /\ FDTable(t)'[fd] = to
       /\ \A x \in FDs \ {fd} :
              (Owned(t, x)' <=> Owned(t, x)) /\ What(t, x)' = What(t, x)
  BY <1>3, <1>5, <1>9, <1>10, <1>11, SlotSet
<1>15. Tracked(t)'
  <2> SUFFICES ASSUME NEW x \in FDs, Owned(t, x)'
               PROVE  /\ ~Closed(t, x)'
                      /\ ~Returned(t, x)' => socketInfo'[t][x] = What(t, x)'
                      /\ Returned(t, x)' =>
                             /\ c.dup /\ c.fd \notin Std
                             /\ socketInfo'[t][c.fd] = What(t, x)'
    BY <1>3, <1>12, <1>13 DEF Tracked, SameCall
  <2>1. ~Closed(t, x)' /\ (Returned(t, x)' <=> x = fd) /\ c.dup /\ c.fd = call[t].fd
    BY <1>3, <1>12, <1>13 DEF Closed, Returned, SameCall
  <2>2. \A y \in FDs : ~Returned(t, y)
    BY <1>3 DEF Returned
  <2>3. CASE x = fd
    <3>1. to.owner = t /\ t # Nothing /\ What(t, x)' = to.what
      BY <1>14, <2>3, TracerAssumption DEF Owned, What
    <3>2. socketInfo[t][call[t].fd] = What(t, call[t].fd)
      BY <1>2, <1>4, <1>9, <2>2, <3>1 DEF ThreadInv, Tracked
    <3> QED
      BY <1>6, <1>9, <1>10, <2>1, <2>3, <3>1, <3>2 DEF What
  <2>4. CASE x # fd
    <3>1. Owned(t, x)
      BY <1>14, <2>4
    <3> QED
      BY <1>2, <1>14, <2>1, <2>2, <2>4, <3>1 DEF ThreadInv, Tracked
  <2> QED
    BY <2>3, <2>4
<1> QED
  BY <1>3, <1>12, <1>14, <1>15, Executed DEF SameCall

LEMMA StepExecuteClose ==
    ASSUME IInv, NEW t \in Threads, ExecuteClose(t),
           UNCHANGED <<table, buf, calls, opt, socketInfo, storehouse>>
    PROVE  IInv'
<1>1. PICK fd : fd = call[t].fd
  OBVIOUS
<1>2. TypeOK /\ OwnersLive /\ ThreadInv(t) /\ CallOK(call[t])
  BY DEF IInv, TypeOK
<1>3. call[t] # Idle /\ ~call[t].done /\ call[t].op = "close" /\ Alive(t)
  BY <1>2 DEF ExecuteClose, Executing, ThreadInv, Idle
<1>4. fd \in FDs
  BY <1>1, <1>2, <1>3, CallKinds DEF CloseCalls
<1>5. SetFD(t, fd, Nothing) /\ Return(t, 0)
  BY <1>1 DEF ExecuteClose
<1>6. PICK c : /\ call' = [call EXCEPT ![t] = c]
               /\ CallOK(c) /\ SameCall(c, call[t]) /\ c.done = TRUE /\ c.ret = 0
  BY <1>2, <1>3, <1>5, ReturnRecord
<1>7. call'[t] = c
  BY <1>2, <1>6, CallTyped
<1>8. /\ fds' \in [Threads -> [FDs -> Opened \cup {Nothing}]]
      /\ OwnersLive' /\ \A u \in Threads \ {t} : OwnsNoMore(u)
      /\ FDTable(t)'[fd] = Nothing
      /\ \A x \in FDs \ {fd} :
             (Owned(t, x)' <=> Owned(t, x)) /\ What(t, x)' = What(t, x)
  BY <1>3, <1>4, <1>5, SlotSet
<1>9. Tracked(t)'
  <2>1. \A x \in FDs : /\ ~Returned(t, x) /\ ~Returned(t, x)'
                       /\ Closed(t, x)' => x = fd
    BY <1>1, <1>3, <1>6, <1>7 DEF Closed, Returned, SameCall
  <2>2. \A x \in FDs : Owned(t, x)' => x # fd
    BY <1>8 DEF Owned
  <2> QED
    BY <1>2, <1>8, <2>1, <2>2 DEF ThreadInv, Tracked
<1> QED
  BY <1>3, <1>6, <1>8, <1>9, Executed DEF SameCall

(* dup2 takes the descriptor it overwrites from its owner.                 *)
LEMMA StepExecuteDup2 ==
    ASSUME IInv, NEW t \in Threads, ExecuteDup2(t),
           UNCHANGED <<table, buf, calls, opt, socketInfo, storehouse>>
    PROVE  IInv'
<1>1. PICK fd : fd = call[t].onto
  OBVIOUS
<1>2. TypeOK /\ OwnersLive /\ ThreadInv(t) /\ CallOK(call[t])
  BY DEF IInv, TypeOK
<1>3. call[t] # Idle /\ ~call[t].done /\ call[t].op = "dup2" /\ Alive(t)
  BY <1>2 DEF ExecuteDup2, Executing, ThreadInv, Idle
<1>4. fd \in FDs /\ call[t].fd \in FDs
  BY <1>1, <1>2, <1>3, CallKinds DEF Dup2Calls
<1>5. PICK to : to = Open(FDTable(t)[call[t].fd].what, Nothing)
  OBVIOUS
<1>6. FDTable(t)[call[t].fd] \in Opened
  BY <1>2, <1>3, <1>4 DEF ExecuteDup2, TypeOK, FDTable, Alive
<1>7. to \in Opened /\ to.owner = Nothing
  BY <1>5, <1>6 DEF Open, Opened
<1>8. SetFD(t, fd, to) /\ Return(t, fd)
  BY <1>1, <1>5 DEF ExecuteDup2
<1>9. PICK c : /\ call' = [call EXCEPT ![t] = c]
               /\ CallOK(c) /\ SameCall(c, call[t]) /\ c.done = TRUE /\ c.ret = fd
  BY <1>2, <1>3, <1>4, <1>8, ReturnRecord
<1>10. call'[t] = c
  BY <1>2, <1>9, CallTyped
<1>11. /\ fds' \in [Threads -> [FDs -> Opened \cup {Nothing}]]
       /\ OwnersLive' /\ \A u \in Threads \ {t} : OwnsNoMore(u)
       /\ FDTable(t)'[fd] = to
       /\ \A x \in FDs \ {fd} :
              (Owned(t, x)' <=> Owned(t, x)) /\ What(t, x)' = What(t, x)
  BY <1>3, <1>4, <1>7, <1>8, SlotSet
<1>12. Tracked(t)'
  <2>1. \A x \in FDs : ~Returned(t, x) /\ ~Returned(t, x)' /\ ~Closed(t, x)'
    BY <1>3, <1>9, <1>10 DEF Closed, Returned, SameCall
  <2>2. \A x \in FDs : Owned(t, x)' => x # fd
    BY <1>7, <1>11, TracerAssumption DEF Owned
  <2> QED
    BY <1>2, <1>11, <2>1, <2>2 DEF ThreadInv, Tracked
<1> QED
  BY <1>3, <1>9, <1>11, <1>12, Executed DEF SameCall

(* A call that leaves the descriptors as they are.                         *)
LEMMA TablesKept ==
    ASSUME IInv, NEW t \in Threads, call[t] # Idle, ~call[t].done,
           UNCHANGED <<table, fds, buf, calls, opt, socketInfo, storehouse>>,
           NEW c, call' = [call EXCEPT ![t] = c], CallOK(c), SameCall(c, call[t]), c.done = TRUE,
           c.op # "close", c.ret \notin FDs \/ c.op \notin {"socket", "fcntl"},
           c.op = "connect" /\ c.ret # Nothing => FlowGood(c.ret)
    PROVE  IInv'
<1>1. TypeOK /\ OwnersLive /\ ThreadInv(t) /\ call'[t] = c
  BY CallTyped DEF IInv
<1>2. \A u \in Threads, fd \in FDs :
          (Owned(u, fd)' <=> Owned(u, fd)) /\ What(u, fd)' = What(u, fd)
  BY DEF Owned, What, Alive, FDTable
<1>3. fds' \in [Threads -> [FDs -> Opened \cup {Nothing}]] /\ OwnersLive'
      /\ \A u \in Threads : OwnsNoMore(u)
  BY <1>1, <1>2 DEF TypeOK, OwnersLive, OwnsNoMore
<1>4. Tracked(t)'
  <2>1. \A x \in FDs : ~Returned(t, x) /\ ~Returned(t, x)' /\ ~Closed(t, x)'
    BY <1>1 DEF Closed, Returned, SameCall
  <2> QED
    BY <1>1, <1>2, <2>1 DEF ThreadInv, Tracked
<1> QED
  BY <1>3, <1>4, Executed

LEMMA StepExecuteNothing ==
    ASSUME IInv, NEW t \in Threads, ExecuteNothing(t),
           UNCHANGED <<table, buf, calls, opt, socketInfo, storehouse>>
    PROVE  IInv'
<1>1. TypeOK /\ CallOK(call[t]) /\ call[t] # Idle /\ ~call[t].done /\ call[t].op # "close"
      /\ Return(t, Nothing) /\ fds' = fds
  BY DEF IInv, TypeOK, ExecuteNothing
<1>2. PICK c : /\ call' = [call EXCEPT ![t] = c]
               /\ CallOK(c) /\ SameCall(c, call[t]) /\ c.done = TRUE /\ c.ret = Nothing
  BY <1>1, ReturnRecord
<1>3. c.op # "close" /\ c.ret \notin FDs
  BY <1>1, <1>2, TracerAssumption DEF SameCall
<1> QED
  BY <1>1, <1>2, <1>3, TablesKept

LEMMA StepExecuteConnect ==
    ASSUME IInv, NEW t \in Threads, ExecuteConnect(t),
           UNCHANGED <<table, buf, calls, opt, socketInfo, storehouse>>
    PROVE  IInv'
<1>1. PICK fd, open : fd = call[t].fd /\ open = FDTable(t)[fd]
  OBVIOUS
<1>2. TypeOK /\ OwnersLive /\ ThreadInv(t) /\ CallOK(call[t])
  BY DEF IInv, TypeOK
<1>3. call[t] # Idle /\ ~call[t].done /\ call[t].op = "connect" /\ Alive(t)
  BY <1>2 DEF ExecuteConnect, Executing, ThreadInv, Idle
<1>4. fd \in FDs
  BY <1>1, <1>2, <1>3, CallKinds DEF ConnectCalls
<1>5. open # Nothing /\ open \in Opened /\ open.what \in Metas
  BY <1>1, <1>2, <1>3, <1>4 DEF ExecuteConnect, TypeOK, FDTable, Alive, Opened
<1>6. buf[t] \in Buffers /\ BufferGood(buf[t])
  BY <1>2, <1>3 DEF TypeOK, ThreadInv, BufferOK, ConnectCalls, Buffers
<1>7. PICK flow : flow = [meta |-> open.what,
                          followed |-> open.owner = t /\ ~buf[t].raw,
                          want |-> buf[t].want, got |-> buf[t].addr]
  OBVIOUS
<1>8. Return(t, flow) /\ fds' = fds
  BY <1>1, <1>7 DEF ExecuteConnect
<1>9. flow \in FlowRecord
  <2>1. (open.owner = t /\ ~buf[t].raw) \in BOOLEAN
    OBVIOUS
  <2>2. buf[t].want \in Wanted /\ buf[t].addr \in Addresses
    BY <1>6 DEF Buffers
  <2> QED
    BY <1>5, <1>7, <2>1, <2>2 DEF FlowRecord
<1>10. FlowGood(flow)
  <2> SUFFICES ASSUME flow.followed
               PROVE  FlowGood(flow)
    BY DEF FlowGood
  <2>1. open.owner = t /\ ~buf[t].raw
    BY <1>7
  <2>2. Owned(t, fd) /\ What(t, fd) = open.what
    BY <1>1, <1>3, <1>5, <2>1 DEF Owned, What
  <2>3. PokedFor(open.what, buf[t])
    BY <1>1, <1>2, <1>3, <2>2 DEF ThreadInv, PokedInTime
  <2>4. Named(buf[t].addr) = Target(buf[t].want)
    BY <1>6, <2>1, GoodName
  <2> QED
    BY <1>7, <2>1, <2>3, <2>4 DEF FlowGood, PokedFor
<1>11. PICK c : /\ call' = [call EXCEPT ![t] = c]
                /\ CallOK(c) /\ SameCall(c, call[t]) /\ c.done = TRUE /\ c.ret = flow
  BY <1>2, <1>3, <1>8, <1>9, ReturnRecord
<1> QED
  BY <1>3, <1>8, <1>10, <1>11, TablesKept DEF SameCall

LEMMA StepExecute ==
    ASSUME IInv, NEW t \in Threads, Execute(t)
    PROVE  IInv'
  BY StepExecuteSocket, StepExecuteDup, StepExecuteClose, StepExecuteDup2,
     StepExecuteConnect, StepExecuteNothing DEF Execute

-----------------------------------------------------------------------------
(* Exit stops.                                                             *)
LEMMA Exited ==
    ASSUME IInv, NEW t \in Threads, call[t] # Idle, call' = [call EXCEPT ![t] = Idle],
           UNCHANGED <<table, fds, calls, opt>>,
           NEW info \in [FDs -> Metas \cup {LocalSocket, Nothing}], SetInfo(t, info),
           \A fd \in FDs : Owned(t, fd) => info[fd] = What(t, fd),
           \/ \E meta \in Metas \cup {Nothing} : Save(t, "socket", meta)
           \/ \E args \in FcntlArgs \cup {Nothing} : Save(t, "fcntl", args)
           \/ UNCHANGED storehouse,
           buf' \in [Threads -> Buffers \cup {Nothing}],
           buf'[t] # Nothing => BufferGood(buf'[t]),
           \A u \in Threads \ {t} : buf'[u] = buf[u]
    PROVE  IInv'
<1>1. TypeOK /\ OwnersLive /\ ThreadInv(t) /\ Alive(t)
  BY DEF IInv, ThreadInv
<1>2. CallOK(Idle)
  BY DEF CallOK
<1>3. /\ DOMAIN call' = Threads /\ \A u \in Threads : CallOK(call'[u])
      /\ call'[t] = Idle /\ \A u \in Threads \ {t} : call'[u] = call[u]
  BY <1>1, <1>2, CallTyped
<1>4. /\ socketInfo' \in [Threads -> [FDs -> Metas \cup {LocalSocket, Nothing}]]
      /\ socketInfo'[t] = info
      /\ \A u \in Threads \ {t} : socketInfo'[u] = socketInfo[u]
  BY <1>1, InfoTyped
<1>5. /\ storehouse' \in [Threads -> [socket : Metas \cup {Nothing},
                                      fcntl : FcntlArgs \cup {Nothing}]]
      /\ \A u \in Threads \ {t} : storehouse'[u] = storehouse[u]
  BY <1>1, StoreTyped
<1>6. TypeOK'
  BY <1>1, <1>3, <1>4, <1>5 DEF TypeOK
<1>7. \A u \in Threads, fd \in FDs :
          (Owned(u, fd)' <=> Owned(u, fd)) /\ What(u, fd)' = What(u, fd)
  BY DEF Owned, What, Alive, FDTable
<1>8. OwnersLive' /\ \A u \in Threads : OwnsNoMore(u)
  BY <1>1, <1>7 DEF OwnersLive, OwnsNoMore
<1>9. call'[t].op = "none"
  BY <1>3 DEF Idle
<1>10. ThreadInv(t)'
  <2>1. Tracked(t)'
    BY <1>4, <1>7, <1>9 DEF Tracked, Closed, Returned
  <2>2. ArgsSaved(t)' /\ PokedInTime(t)' /\ ArrivedWell(t)' /\ (~Alive(t) => call[t] = Idle)'
    BY <1>3, <1>9 DEF ArgsSaved, PokedInTime, ArrivedWell, Alive
  <2>3. BufferOK(t)'
    BY <1>9 DEF BufferOK, BufferGood
  <2> QED
    BY <2>1, <2>2, <2>3 DEF ThreadInv
<1> QED
  BY <1>3, <1>4, <1>5, <1>6, <1>8, <1>10, OneThread DEF SameThread

(* What is known before the exit handler adds to it.                       *)
LEMMA AtExit ==
    ASSUME IInv, NEW t \in Threads
    PROVE  /\ TypeOK /\ OwnersLive /\ ThreadInv(t) /\ CallOK(call[t])
           /\ Seen(t) \in [FDs -> Metas \cup {LocalSocket, Nothing}]
           /\ buf[t] # Nothing => BufferGood(buf[t])
           /\ buf \in [Threads -> Buffers \cup {Nothing}]
           /\ \A fd \in FDs : Owned(t, fd) =>
                  /\ ~Closed(t, fd) /\ What(t, fd) \in Metas
                  /\ ~Returned(t, fd) => Seen(t)[fd] = What(t, fd)
<1>1. TypeOK /\ OwnersLive /\ ThreadInv(t) /\ CallOK(call[t])
  BY DEF IInv, TypeOK
<1>2. Seen(t) \in [FDs -> Metas \cup {LocalSocket, Nothing}]
  BY <1>1, SeenKeeps
<1>3. (buf[t] # Nothing => BufferGood(buf[t])) /\ buf \in [Threads -> Buffers \cup {Nothing}]
  BY <1>1 DEF ThreadInv, BufferOK, TypeOK
<1>4. ASSUME NEW fd \in FDs, Owned(t, fd)
      PROVE  /\ ~Closed(t, fd) /\ What(t, fd) \in Metas
             /\ ~Returned(t, fd) => Seen(t)[fd] = What(t, fd)
  BY <1>1, <1>4, OwnedIsAbove DEF ThreadInv, Tracked
<1> QED
  BY <1>1, <1>2, <1>3, <1>4

LEMMA StepExitSocket ==
    ASSUME IInv, NEW t \in Threads, ExitSocket(t)
    PROVE  IInv'
<1>1. /\ TypeOK /\ OwnersLive /\ ThreadInv(t) /\ CallOK(call[t])
      /\ Seen(t) \in [FDs -> Metas \cup {LocalSocket, Nothing}]
      /\ buf[t] # Nothing => BufferGood(buf[t])
      /\ buf \in [Threads -> Buffers \cup {Nothing}]
  BY AtExit
<1>2. /\ call[t].op = "socket" /\ call[t].done /\ call' = [call EXCEPT ![t] = Idle]
      /\ UNCHANGED <<table, fds, buf, calls, opt>> /\ Save(t, "socket", Nothing)
      /\ call[t] # Idle
  BY DEF ExitSocket, Exit, Remove, Save, Idle
<1>3. PICK meta, fd : meta = call[t].meta /\ fd = call[t].ret
  OBVIOUS
<1>4. meta \in Metas /\ meta # Nothing /\ fd \in FDs \cup {Nothing}
  BY <1>1, <1>2, <1>3, CallKinds, TracerAssumption DEF SocketCalls
<1>5. storehouse[t].socket = meta
  BY <1>1, <1>2, <1>3 DEF ThreadInv, ArgsSaved
<1>6. PICK info : info = IF fd # Nothing THEN [Seen(t) EXCEPT ![fd] = meta] ELSE Seen(t)
  OBVIOUS
<1>7. SetInfo(t, info)
  BY <1>3, <1>4, <1>5, <1>6 DEF ExitSocket
<1>8. info \in [FDs -> Metas \cup {LocalSocket, Nothing}]
  BY <1>1, <1>4, <1>6
<1>9. ASSUME NEW x \in FDs, Owned(t, x)
      PROVE  info[x] = What(t, x)
  <2>1. Returned(t, x) <=> x = fd
    BY <1>2, <1>3 DEF Returned
  <2>2. CASE x = fd
    <3>1. meta = What(t, x)
      BY <1>1, <1>2, <1>3, <1>9, <2>1, <2>2 DEF ThreadInv, Tracked
    <3> QED
      BY <1>1, <1>6, <2>2, <3>1, TracerAssumption
  <2>3. CASE x # fd
    <3>1. Seen(t)[x] = What(t, x)
      BY <1>9, <2>1, <2>3, AtExit
    <3> QED
      BY <1>1, <1>6, <2>3, <3>1
  <2> QED
    BY <2>2, <2>3
<1> QED
  BY <1>1, <1>2, <1>7, <1>8, <1>9, Exited

LEMMA StepExitFcntl ==
    ASSUME IInv, NEW t \in Threads, ExitFcntl(t)
    PROVE  IInv'
<1>1. /\ TypeOK /\ OwnersLive /\ ThreadInv(t) /\ CallOK(call[t])
      /\ Seen(t) \in [FDs -> Metas \cup {LocalSocket, Nothing}]
      /\ buf[t] # Nothing => BufferGood(buf[t])
      /\ buf \in [Threads -> Buffers \cup {Nothing}]
  BY AtExit
<1>2. /\ call[t].op = "fcntl" /\ call[t].done /\ call' = [call EXCEPT ![t] = Idle]
      /\ UNCHANGED <<table, fds, buf, calls, opt>> /\ Save(t, "fcntl", Nothing)
      /\ call[t] # Idle
  BY DEF ExitFcntl, Exit, Remove, Save, Idle
<1>3. PICK args, fd : args = [fd |-> call[t].fd, dup |-> call[t].dup] /\ fd = call[t].ret
  OBVIOUS
<1>4. /\ args \in FcntlArgs /\ args # Nothing /\ args.fd = call[t].fd /\ args.dup = call[t].dup
      /\ args.fd \in FDs /\ fd \in FDs \cup {Nothing}
  BY <1>1, <1>2, <1>3, CallKinds, TracerAssumption DEF FcntlCalls, FcntlArgs
<1>5. storehouse[t].fcntl = args
  BY <1>1, <1>2, <1>3 DEF ThreadInv, ArgsSaved
<1>6. PICK info : info = IF args.dup /\ Seen(t)[args.fd] # Nothing /\ fd # Nothing
                         THEN [Seen(t) EXCEPT ![fd] = Seen(t)[args.fd]] ELSE Seen(t)
  OBVIOUS
<1>7. SetInfo(t, info)
  BY <1>3, <1>4, <1>5, <1>6 DEF ExitFcntl
<1>8. info \in [FDs -> Metas \cup {LocalSocket, Nothing}]
  BY <1>1, <1>4, <1>6
<1>9. ASSUME NEW x \in FDs, Owned(t, x)
      PROVE  info[x] = What(t, x)
  <2>1. Returned(t, x) <=> x = fd
    BY <1>2, <1>3 DEF Returned
  <2>2. CASE x = fd
    <3>1. args.dup /\ args.fd \notin Std /\ socketInfo[t][args.fd] = What(t, x)
      BY <1>1, <1>2, <1>4, <1>9, <2>1, <2>2 DEF ThreadInv, Tracked
    <3>2. Seen(t)[args.fd] = What(t, x) /\ What(t, x) # Nothing /\ x # Nothing
      BY <1>1, <1>4, <1>9, <3>1, AtExit, SeenKeeps, TracerAssumption
    <3> QED
      BY <1>1, <1>6, <2>2, <3>1, <3>2
  <2>3. CASE x # fd
    <3>1. Seen(t)[x] = What(t, x)
      BY <1>9, <2>1, <2>3, AtExit
    <3> QED
      BY <1>1, <1>6, <2>3, <3>1
  <2> QED
    BY <2>2, <2>3
<1> QED
  BY <1>1, <1>2, <1>7, <1>8, <1>9, Exited

LEMMA StepExitClose ==
    ASSUME IInv, NEW t \in Threads, ExitClose(t)
    PROVE  IInv'
<1>1. /\ TypeOK /\ CallOK(call[t])
      /\ Seen(t) \in [FDs -> Metas \cup {LocalSocket, Nothing}]
      /\ buf[t] # Nothing => BufferGood(buf[t])
      /\ buf \in [Threads -> Buffers \cup {Nothing}]
  BY AtExit
<1>2. /\ call[t].op = "close" /\ call[t].done /\ call' = [call EXCEPT ![t] = Idle]
      /\ UNCHANGED <<table, fds, buf, calls, opt, storehouse>> /\ call[t] # Idle
  BY DEF ExitClose, Exit, Idle
<1>3. PICK info : info = [Seen(t) EXCEPT ![call[t].fd] = Nothing]
  OBVIOUS
<1>4. SetInfo(t, info) /\ info \in [FDs -> Metas \cup {LocalSocket, Nothing}]
  BY <1>1, <1>3 DEF ExitClose
<1>5. ASSUME NEW x \in FDs, Owned(t, x)
      PROVE  info[x] = What(t, x)
  <2>1. ~Returned(t, x) /\ x # call[t].fd
    BY <1>2, <1>5, AtExit DEF Returned, Closed
  <2>2. Seen(t)[x] = What(t, x)
    BY <1>5, <2>1, AtExit
  <2> QED
    BY <1>1, <1>3, <2>1, <2>2
<1> QED
  BY <1>1, <1>2, <1>4, <1>5, Exited

LEMMA StepExitOther ==
    ASSUME IInv, NEW t \in Threads, ExitOther(t)
    PROVE  IInv'
<1>1. /\ TypeOK /\ CallOK(call[t])
      /\ Seen(t) \in [FDs -> Metas \cup {LocalSocket, Nothing}]
      /\ buf[t] # Nothing => BufferGood(buf[t])
      /\ buf \in [Threads -> Buffers \cup {Nothing}]
  BY AtExit
<1>2. /\ call[t].op \in {"dup2", "connect"} /\ call' = [call EXCEPT ![t] = Idle]
      /\ UNCHANGED <<table, fds, buf, calls, opt, storehouse>> /\ call[t] # Idle
      /\ SetInfo(t, Seen(t))
  BY DEF ExitOther, Exit, Idle
<1>3. \A x \in FDs : Owned(t, x) => Seen(t)[x] = What(t, x)
  BY <1>2, AtExit DEF Returned
<1> QED
  BY <1>1, <1>2, <1>3, Exited

(* Nothing was returned, so nothing is missing from what is known.         *)
LEMMA StepExitAsEntry ==
    ASSUME IInv, NEW t \in Threads, ExitAsEntry(t)
    PROVE  IInv'
<1>1. /\ TypeOK /\ ThreadInv(t) /\ CallOK(call[t])
      /\ Seen(t) \in [FDs -> Metas \cup {LocalSocket, Nothing}]
      /\ buf[t] # Nothing => BufferGood(buf[t])
      /\ buf \in [Threads -> Buffers \cup {Nothing}]
  BY AtExit
<1>2. /\ call[t] # Idle /\ call[t].ret = Nothing /\ call' = [call EXCEPT ![t] = Idle]
      /\ UNCHANGED <<table, fds, calls, opt>> /\ SetInfo(t, Seen(t))
  BY DEF ExitAsEntry
<1>3. \A x \in FDs : Owned(t, x) => Seen(t)[x] = What(t, x)
  BY <1>2, AtExit, TracerAssumption DEF Returned
<1>4. \/ \E meta \in Metas \cup {Nothing} : Save(t, "socket", meta)
      \/ \E args \in FcntlArgs \cup {Nothing} : Save(t, "fcntl", args)
      \/ UNCHANGED storehouse
  <2>1. CASE call[t].op = "socket"
    <3>1. call[t].meta \in Metas /\ Save(t, "socket", call[t].meta)
      BY <1>1, <2>1, CallKinds DEF ExitAsEntry, SocketCalls
    <3> QED
      BY <3>1
  <2>2. CASE call[t].op = "fcntl"
    <3>1. PICK args : args = [fd |-> call[t].fd, dup |-> call[t].dup]
      OBVIOUS
    <3>2. args \in FcntlArgs /\ Save(t, "fcntl", args)
      BY <1>1, <2>2, <3>1, CallKinds DEF ExitAsEntry, FcntlCalls, FcntlArgs
    <3> QED
      BY <3>2
  <2>3. CASE call[t].op \notin {"socket", "fcntl"}
    BY <2>3 DEF ExitAsEntry
  <2> QED
    BY <2>1, <2>2, <2>3
<1>5. /\ buf' \in [Threads -> Buffers \cup {Nothing}]
      /\ buf'[t] # Nothing => BufferGood(buf'[t])
      /\ \A u \in Threads \ {t} : buf'[u] = buf[u]
  <2>1. CASE call[t].op = "connect"
    <3>1. PokedBuffer(t, Seen(t)[call[t].fd])
      BY <2>1 DEF ExitAsEntry, PokedBuffer
    <3>2. BufferOK(t) /\ buf[t] \in Buffers /\ BufferGood(buf[t])
      BY <1>1, <2>1 DEF ThreadInv, BufferOK
    <3> QED
      BY <1>1, <3>1, <3>2, BufferPoked
  <2>2. CASE call[t].op # "connect"
    <3>1. buf' = buf
      BY <2>2 DEF ExitAsEntry
    <3> QED
      BY <1>1, <3>1
  <2> QED
    BY <2>1, <2>2
<1> QED
  BY <1>1, <1>2, <1>3, <1>4, <1>5, Exited

-----------------------------------------------------------------------------
(* Steps between calls.                                                    *)
LEMMA StepFill ==
    ASSUME IInv, NEW t \in Threads, NEW a \in Wanted, Fill(t, a)
    PROVE  IInv'
<1>1. TypeOK /\ OwnersLive /\ ThreadInv(t) /\ call[t] = Idle
  BY DEF IInv, Fill
<1>2. PICK b : b = [addr |-> a, want |-> a, raw |-> FALSE]
  OBVIOUS
<1>3. a \in Addresses
  BY TracerAssumption DEF WantedAddresses, Addresses
<1>4. b \in Buffers /\ BufferGood(b)
  BY <1>2, <1>3 DEF Buffers, BufferGood
<1>5. buf' = [buf EXCEPT ![t] = b]
  BY <1>2 DEF Fill
<1>6. UNCHANGED <<table, fds, call, calls, opt, socketInfo, storehouse>>
  BY DEF Fill
<1>7. TypeOK'
  BY <1>1, <1>4, <1>5, <1>6 DEF TypeOK
<1>8. \A u \in Threads, fd \in FDs :
          (Owned(u, fd)' <=> Owned(u, fd)) /\ What(u, fd)' = What(u, fd)
  BY <1>6 DEF Owned, What, Alive, FDTable
<1>9. OwnersLive' /\ \A u \in Threads : OwnsNoMore(u)
  BY <1>1, <1>6, <1>8 DEF OwnersLive, OwnsNoMore
<1>10. \A u \in Threads \ {t} : SameThread(u)
  BY <1>1, <1>5, <1>6 DEF SameThread, TypeOK
<1>11. ThreadInv(t)'
  <2>1. buf'[t] = b
    BY <1>1, <1>5 DEF TypeOK
  <2>2. call'[t] = Idle /\ call'[t].op = "none"
    BY <1>1, <1>6 DEF Idle
  <2>3. Tracked(t)'
    BY <1>1, <1>6, <1>8, <2>2 DEF ThreadInv, Tracked, Closed, Returned
  <2>4. BufferOK(t)'
    BY <1>4, <2>1, <2>2 DEF BufferOK, BufferGood
  <2> QED
    BY <2>2, <2>3, <2>4 DEF ThreadInv, ArgsSaved, PokedInTime, ArrivedWell
<1> QED
  BY <1>6, <1>7, <1>9, <1>10, <1>11, OneThread

(* A thread begins, or one ends: it owns nothing at that moment.           *)
LEMMA Reborn ==
    ASSUME IInv, NEW u \in Threads, call[u] = Idle, TypeOK', OwnersLive', opt' = opt,
           UNCHANGED <<call, storehouse>>,
           \A fd \in FDs : ~Owned(u, fd)',
           buf'[u] \in {buf[u], Nothing},
           \A v \in Threads \ {u} :
               /\ table'[v] = table[v] /\ buf'[v] = buf[v] /\ socketInfo'[v] = socketInfo[v]
               /\ OwnsNoMore(v)
    PROVE  IInv'
<1>1. ThreadInv(u) /\ call'[u] = Idle /\ call'[u].op = "none"
  BY DEF IInv, Idle
<1>2. Tracked(u)'
  BY DEF Tracked
<1>3. BufferOK(u)'
  <2>1. buf'[u] # Nothing => BufferGood(buf'[u])
    BY <1>1 DEF ThreadInv, BufferOK
  <2> QED
    BY <1>1, <2>1 DEF BufferOK, BufferGood
<1>4. ThreadInv(u)'
  BY <1>1, <1>2, <1>3 DEF ThreadInv, ArgsSaved, PokedInTime, ArrivedWell
<1> QED
  BY <1>4, OneThread DEF SameThread

(* A thread that is not there owns nothing anywhere.                       *)
LEMMA DeadOwnNothing ==
    ASSUME IInv, NEW u \in Threads, ~Alive(u), NEW v \in Threads, NEW fd \in FDs,
           fds[v][fd] # Nothing
    PROVE  fds[v][fd].owner # u
  BY TracerAssumption DEF IInv, OwnersLive, Alive

LEMMA StepClone ==
    ASSUME IInv, NEW t \in Threads, NEW u \in Threads, Clone(t, u)
    PROVE  IInv'
<1>1. TypeOK /\ OwnersLive /\ ThreadInv(u) /\ ~Alive(u) /\ Alive(t) /\ call[u] = Idle
  BY DEF IInv, Clone, ThreadInv
<1>2. /\ UNCHANGED <<fds, call, buf, calls, opt, storehouse>>
      /\ table' = [table EXCEPT ![u] = table[t]] /\ SetInfo(u, Seen(u))
  BY DEF Clone
<1>3. Seen(u) \in [FDs -> Metas \cup {LocalSocket, Nothing}]
  BY <1>1, SeenKeeps
<1>4. /\ socketInfo' \in [Threads -> [FDs -> Metas \cup {LocalSocket, Nothing}]]
      /\ \A v \in Threads \ {u} : socketInfo'[v] = socketInfo[v]
  BY <1>1, <1>2, <1>3, InfoTyped
<1>5. /\ table' \in [Threads -> Threads \cup {Nothing}]
      /\ table'[u] = table[t] /\ table'[u] \in Threads
      /\ \A v \in Threads \ {u} : table'[v] = table[v]
  BY <1>1, <1>2 DEF TypeOK, Alive
<1>6. TypeOK'
  BY <1>1, <1>2, <1>4, <1>5 DEF TypeOK
<1>7. OwnersLive'
  <2> SUFFICES ASSUME NEW v \in Threads, NEW fd \in FDs,
                      fds[v][fd] # Nothing, fds[v][fd].owner # Nothing
               PROVE  /\ table'[fds[v][fd].owner] = v
                      /\ fds[v][fd].what \in Metas /\ fd \notin Std
    BY <1>2 DEF OwnersLive
  <2>1. fds[v][fd].owner \in Threads
    BY <1>1 DEF TypeOK, Opened
  <2> QED
    BY <1>1, <1>5, <2>1, DeadOwnNothing DEF OwnersLive
<1>8. \A fd \in FDs : ~Owned(u, fd)'
  BY <1>1, <1>2, <1>5, DeadOwnNothing DEF Owned, FDTable, Alive
<1>9. \A v \in Threads \ {u} : OwnsNoMore(v)
  BY <1>2, <1>5 DEF OwnsNoMore, Owned, What, FDTable, Alive
<1> QED
  BY <1>1, <1>2, <1>4, <1>5, <1>6, <1>7, <1>8, <1>9, Reborn

LEMMA StepFork ==
    ASSUME IInv, NEW t \in Threads, NEW u \in Threads, Fork(t, u)
    PROVE  IInv'
<1>1. TypeOK /\ OwnersLive /\ ThreadInv(u) /\ ~Alive(u) /\ Alive(t) /\ call[u] = Idle
  BY DEF IInv, Fork, ThreadInv
<1>2. PICK copy : copy = [fd \in FDs |-> Disowned(FDTable(t)[fd])]
  OBVIOUS
<1>3. /\ UNCHANGED <<call, buf, calls, opt, storehouse>>
      /\ table' = [table EXCEPT ![u] = u] /\ SetInfo(u, Seen(u))
      /\ fds' = [fds EXCEPT ![u] = copy]
      /\ \A v \in Threads : table[v] # u
  BY <1>2 DEF Fork
<1>4. Seen(u) \in [FDs -> Metas \cup {LocalSocket, Nothing}]
  BY <1>1, SeenKeeps
<1>5. /\ socketInfo' \in [Threads -> [FDs -> Metas \cup {LocalSocket, Nothing}]]
      /\ \A v \in Threads \ {u} : socketInfo'[v] = socketInfo[v]
  BY <1>1, <1>3, <1>4, InfoTyped
<1>6. /\ table' \in [Threads -> Threads \cup {Nothing}] /\ table'[u] = u
      /\ \A v \in Threads \ {u} : table'[v] = table[v]
  BY <1>1, <1>3 DEF TypeOK
<1>7. ASSUME NEW fd \in FDs
      PROVE  /\ copy[fd] \in Opened \cup {Nothing}
             /\ copy[fd] # Nothing => copy[fd].owner = Nothing
  <2>1. FDTable(t)[fd] \in Opened \cup {Nothing}
    BY <1>1 DEF TypeOK, FDTable, Alive
  <2> QED
    BY <1>2, <2>1 DEF Disowned, Open, Opened
<1>8. copy \in [FDs -> Opened \cup {Nothing}]
  BY <1>2, <1>7
<1>9. /\ fds' \in [Threads -> [FDs -> Opened \cup {Nothing}]] /\ fds'[u] = copy
      /\ \A v \in Threads \ {u} : fds'[v] = fds[v]
  BY <1>1, <1>3, <1>8 DEF TypeOK
<1>10. TypeOK'
  BY <1>1, <1>3, <1>5, <1>6, <1>9 DEF TypeOK
<1>11. OwnersLive'
  <2> SUFFICES ASSUME NEW v \in Threads, NEW fd \in FDs,
                      fds'[v][fd] # Nothing, fds'[v][fd].owner # Nothing
               PROVE  /\ table'[fds'[v][fd].owner] = v
                      /\ fds'[v][fd].what \in Metas /\ fd \notin Std
    BY DEF OwnersLive
  <2>1. v # u /\ fds'[v][fd] = fds[v][fd]
    BY <1>7, <1>9
  <2>2. fds[v][fd].owner \in Threads
    BY <1>1, <2>1 DEF TypeOK, Opened
  <2> QED
    BY <1>1, <1>6, <2>1, <2>2, DeadOwnNothing DEF OwnersLive
<1>12. \A fd \in FDs : ~Owned(u, fd)'
  BY <1>6, <1>7, <1>9, TracerAssumption DEF Owned, FDTable
<1>13. \A v \in Threads \ {u} : OwnsNoMore(v)
  <2> SUFFICES ASSUME NEW v \in Threads \ {u}, NEW fd \in FDs, Owned(v, fd)'
               PROVE  Owned(v, fd) /\ What(v, fd)' = What(v, fd)
    BY DEF OwnsNoMore
  <2>1. table[v] \in Threads \ {u}
    BY <1>1, <1>3, <1>6 DEF TypeOK, Owned, Alive
  <2> QED
    BY <1>6, <1>9, <2>1 DEF Owned, What, FDTable, Alive
<1> QED
  BY <1>1, <1>3, <1>5, <1>6, <1>10, <1>11, <1>12, <1>13, Reborn

LEMMA StepThreadExits ==
    ASSUME IInv, NEW t \in Threads, ThreadExits(t)
    PROVE  IInv'
<1>1. TypeOK /\ OwnersLive /\ Alive(t) /\ call[t] = Idle
  BY DEF IInv, ThreadExits
<1>2. /\ UNCHANGED <<call, calls, opt, storehouse>>
      /\ table' = [table EXCEPT ![t] = Nothing] /\ SetInfo(t, Seen(t))
      /\ buf' = [buf EXCEPT ![t] = Nothing]
  BY DEF ThreadExits
<1>3. Seen(t) \in [FDs -> Metas \cup {LocalSocket, Nothing}]
  BY <1>1, SeenKeeps
<1>4. /\ socketInfo' \in [Threads -> [FDs -> Metas \cup {LocalSocket, Nothing}]]
      /\ \A v \in Threads \ {t} : socketInfo'[v] = socketInfo[v]
  BY <1>1, <1>2, <1>3, InfoTyped
<1>5. /\ table' \in [Threads -> Threads \cup {Nothing}] /\ table'[t] = Nothing
      /\ \A v \in Threads \ {t} : table'[v] = table[v]
      /\ buf' \in [Threads -> Buffers \cup {Nothing}] /\ buf'[t] = Nothing
      /\ \A v \in Threads \ {t} : buf'[v] = buf[v]
  BY <1>1, <1>2 DEF TypeOK
<1>6. ASSUME NEW v \in Threads, NEW fd \in FDs
      PROVE  /\ fds'[v][fd] \in Opened \cup {Nothing}
             /\ fds'[v][fd] # Nothing /\ fds'[v][fd].owner # Nothing =>
                    fds'[v][fd] = fds[v][fd] /\ fds[v][fd].owner # t
  <2>1. fds'[v][fd] \in {Nothing, fds[v][fd], Disowned(fds[v][fd])}
    BY DEF ThreadExits
  <2>2. fds[v][fd] # Nothing /\ fds[v][fd].owner = t =>
            fds'[v][fd] \in {Nothing, Disowned(fds[v][fd])}
    BY DEF ThreadExits
  <2>3. fds[v][fd] \in Opened \cup {Nothing}
    BY <1>1 DEF TypeOK
  <2>4. Disowned(fds[v][fd]) \in Opened \cup {Nothing}
        /\ (Disowned(fds[v][fd]) # Nothing => Disowned(fds[v][fd]).owner = Nothing)
    BY <2>3 DEF Disowned, Open, Opened
  <2> QED
    BY <2>1, <2>2, <2>3, <2>4
<1>7. fds' \in [Threads -> [FDs -> Opened \cup {Nothing}]]
  <2>1. PICK entry : entry = [v \in Threads |-> [fd \in FDs |-> fds'[v][fd]]]
    OBVIOUS
  <2>2. fds' = entry
    BY <2>1 DEF ThreadExits
  <2> QED
    BY <1>6, <2>1, <2>2
<1>8. TypeOK'
  BY <1>1, <1>2, <1>4, <1>5, <1>7 DEF TypeOK
<1>9. OwnersLive'
  <2> SUFFICES ASSUME NEW v \in Threads, NEW fd \in FDs,
                      fds'[v][fd] # Nothing, fds'[v][fd].owner # Nothing
               PROVE  /\ table'[fds'[v][fd].owner] = v
                      /\ fds'[v][fd].what \in Metas /\ fd \notin Std
    BY DEF OwnersLive
  <2>1. fds'[v][fd] = fds[v][fd] /\ fds[v][fd].owner # t
    BY <1>6
  <2>2. fds[v][fd].owner \in Threads
    BY <1>1, <2>1 DEF TypeOK, Opened
  <2> QED
    BY <1>1, <1>5, <2>1, <2>2 DEF OwnersLive
<1>10. \A fd \in FDs : ~Owned(t, fd)'
  BY <1>5 DEF Owned, Alive
<1>11. \A v \in Threads \ {t} : OwnsNoMore(v)
  <2> SUFFICES ASSUME NEW v \in Threads \ {t}, NEW fd \in FDs, Owned(v, fd)'
               PROVE  Owned(v, fd) /\ What(v, fd)' = What(v, fd)
    BY DEF OwnsNoMore
  <2>1. table[v] \in Threads /\ table'[v] = table[v]
    BY <1>1, <1>5 DEF TypeOK, Owned, Alive
  <2>2. fds'[table[v]][fd] = fds[table[v]][fd]
    BY <1>6, <2>1, TracerAssumption DEF Owned, FDTable
  <2> QED
    BY <2>1, <2>2 DEF Owned, What, FDTable, Alive
<1> QED
  BY <1>1, <1>2, <1>4, <1>5, <1>8, <1>9, <1>10, <1>11, Reborn

-----------------------------------------------------------------------------
(* The invariant holds.                                                    *)
LEMMA InitIInv == Init => IInv
<1> SUFFICES ASSUME Init PROVE IInv
  OBVIOUS
<1>1. /\ \A t \in Threads : table[t] = IF t = Main THEN Main ELSE Nothing
      /\ \A t \in Threads, fd \in FDs :
             fds[t][fd] = IF t = Main /\ fd \in Std THEN Open(File, Nothing) ELSE Nothing
      /\ \A t \in Threads : call[t] = Idle /\ call[t].op = "none" /\ buf[t] = Nothing
  BY DEF Init, Idle
<1>2. TypeOK
  <2>1. table \in [Threads -> Threads \cup {Nothing}]
    BY TracerAssumption DEF Init
  <2>2. Open(File, Nothing) \in Opened
    BY DEF Open, Opened
  <2>3. fds \in [Threads -> [FDs -> Opened \cup {Nothing}]]
    BY <2>2 DEF Init
  <2>4. DOMAIN call = Threads /\ \A t \in Threads : CallOK(call[t])
    BY <1>1 DEF Init, CallOK
  <2>5. buf \in [Threads -> Buffers \cup {Nothing}] /\ calls \in 0..MaxCalls /\ opt \in Opts
    BY TracerAssumption DEF Init
  <2>6. socketInfo \in [Threads -> [FDs -> Metas \cup {LocalSocket, Nothing}]]
    BY DEF Init
  <2>7. storehouse \in [Threads -> [socket : Metas \cup {Nothing},
                                    fcntl : FcntlArgs \cup {Nothing}]]
    BY DEF Init
  <2> QED
    BY <2>1, <2>3, <2>4, <2>5, <2>6, <2>7 DEF TypeOK
<1>3. \A v \in Threads, fd \in FDs : fds[v][fd] # Nothing => fds[v][fd].owner = Nothing
  BY <1>1 DEF Open
<1>4. OwnersLive
  BY <1>3 DEF OwnersLive
<1>5. ASSUME NEW t \in Threads PROVE ThreadInv(t)
  <2>1. \A fd \in FDs : ~Owned(t, fd)
    BY <1>2, <1>3, TracerAssumption DEF Owned, FDTable, Alive, TypeOK
  <2>2. Tracked(t)
    BY <2>1 DEF Tracked
  <2> QED
    BY <1>1, <2>2 DEF ThreadInv, ArgsSaved, BufferOK, PokedInTime, ArrivedWell
<1> QED
  BY <1>2, <1>4, <1>5 DEF IInv

LEMMA StepIInv == IInv /\ [Next]_vars => IInv'
<1> SUFFICES ASSUME IInv, [Next]_vars PROVE IInv'
  OBVIOUS
<1>1. ASSUME NEW t \in Threads, Execute(t) PROVE IInv'
  BY <1>1, StepExecute
<1>2. ASSUME NEW t \in Threads, ExitSocket(t) PROVE IInv'
  BY <1>2, StepExitSocket
<1>3. ASSUME NEW t \in Threads, ExitFcntl(t) PROVE IInv'
  BY <1>3, StepExitFcntl
<1>4. ASSUME NEW t \in Threads, ExitClose(t) PROVE IInv'
  BY <1>4, StepExitClose
<1>5. ASSUME NEW t \in Threads, ExitOther(t) PROVE IInv'
  BY <1>5, StepExitOther
<1>6. ASSUME NEW t \in Threads, ExitAsEntry(t) PROVE IInv'
  BY <1>6, StepExitAsEntry
<1>7. ASSUME NEW t \in Threads, ThreadExits(t) PROVE IInv'
  BY <1>7, StepThreadExits
<1>8. ASSUME NEW t \in Threads, NEW m \in Metas, EnterSocket(t, m) PROVE IInv'
  BY <1>8, StepEnterSocket
<1>9. ASSUME NEW t \in Threads, NEW fd \in FDs,
             \/ \E dup \in BOOLEAN : EnterFcntl(t, fd, dup)
             \/ EnterClose(t, fd) \/ EnterConnect(t, fd)
             \/ \E onto \in FDs : EnterDup2(t, fd, onto)
      PROVE  IInv'
  BY <1>9, StepEnterFcntl, StepEnterClose, StepEnterConnect, StepEnterDup2
<1>10. ASSUME NEW t \in Threads, NEW a \in Wanted, Fill(t, a) PROVE IInv'
  BY <1>10, StepFill
<1>11. ASSUME NEW t \in Threads, NEW u \in Threads, Clone(t, u) \/ Fork(t, u) PROVE IInv'
  BY <1>11, StepClone, StepFork
<1>12. CASE UNCHANGED vars
  BY <1>12 DEF vars, kernelVars, IInv, TypeOK, OwnersLive, ThreadInv, Tracked, Owned, What,
     Alive, FDTable, Closed, Returned, ArgsSaved, BufferOK, PokedInTime, PokedFor,
     ArrivedWell, FlowGood
<1> QED
  BY <1>1, <1>2, <1>3, <1>4, <1>5, <1>6, <1>7, <1>8, <1>9, <1>10, <1>11, <1>12 DEF Next

LEMMA Invariant == Spec => []IInv
  BY InitIInv, StepIInv, PTL DEF Spec

-----------------------------------------------------------------------------
(* The tracer's records and the kernel's have their types, whatever the    *)
(* traced program does.                                                    *)
THEOREM TypeCorrect == Spec => []TypeOK
<1>1. IInv => TypeOK
  BY DEF IInv
<1> QED
  BY <1>1, Invariant, PTL

(* Whatever other threads do, however calls overlap, and whichever thread  *)
(* ids are used again: of what a thread made itself the tracer's picture   *)
(* is the kernel's at every entry stop.                                    *)
THEOREM SocketsAreKnown == Spec => []OwnSocketsTracked
<1>1. IInv => OwnSocketsTracked
  <2> SUFFICES ASSUME IInv, NEW t \in Threads, Alive(t), call[t] = Idle, NEW fd \in FDs,
                      FDTable(t)[fd] # Nothing, FDTable(t)[fd].owner = t
               PROVE  socketInfo[t][fd] = FDTable(t)[fd].what
    BY DEF OwnSocketsTracked
  <2>1. Owned(t, fd) /\ ~Returned(t, fd) /\ Tracked(t)
    BY DEF Owned, Returned, Idle, IInv, ThreadInv
  <2> QED
    BY <2>1 DEF Tracked, What
<1> QED
  BY <1>1, Invariant, PTL

(* An exit stop finds the arguments of its own call.                       *)
THEOREM ArgumentsMatch == Spec => []ArgsOfThisCall
<1>1. IInv => ArgsOfThisCall
  BY DEF IInv, ThreadInv, ArgsSaved, ArgsOfThisCall
<1> QED
  BY <1>1, Invariant, PTL

LEMMA GoodFlows == IInv => \A f \in Flows : FlowGood(f)
  BY DEF IInv, ThreadInv, ArrivedWell, Flows

(* Of a thread's own sockets above the standard descriptors, and from a    *)
(* buffer that no raw socket was given, TCP and UDP leave to the address   *)
(* the program meant or to the projection allocated for it, however often  *)
(* the buffer was poked before (tracer/stop_handler.go:327-348).           *)
THEOREM FlowsAreNamed == Spec => []NamesWanted
<1>1. IInv => NamesWanted
  BY GoodFlows DEF NamesWanted, Followed, FlowGood
<1> QED
  BY <1>1, Invariant, PTL

(* No TCP connection to the public or to a domain goes out directly.       *)
THEOREM TCPIsRedirected == Spec => []NoDirectTCP
<1>1. IInv => NoDirectTCP
  BY GoodFlows DEF NoDirectTCP, Followed, FlowGood
<1> QED
  BY <1>1, Invariant, PTL

(* Every DNS query goes to the proxy, wherever the server is.              *)
THEOREM DNSIsRedirected == Spec => []DNSHijacked
<1>1. IInv => DNSHijacked
  BY GoodFlows DEF DNSHijacked, Followed, FlowGood
<1> QED
  BY <1>1, Invariant, PTL

=============================================================================
