------------------------------- MODULE Tracer -------------------------------
(***************************************************************************)
(* tracer.Tracer: the ptrace loop that learns what each descriptor of the  *)
(* traced program is and rewrites the addresses the program passes.        *)
(*                                                                         *)
(* The truth is in the kernel: descriptor tables, shared by the threads of *)
(* a process and copied by fork.  The tracer has only what it saw: at the  *)
(* entry stop of a call its arguments, at the exit stop its result, both   *)
(* under the thread's id.  It handles one stop at a time, but the calls of *)
(* different threads overlap: between a thread's entry stop, the call's    *)
(* effect and its exit stop, other threads run.                            *)
(*                                                                         *)
(* A thread keeps the address it passes in a buffer of its own and may     *)
(* pass the same buffer again, after the tracer poked it.                  *)
(***************************************************************************)
EXTENDS Redirect, FiniteSets, FiniteSetsExt

CONSTANTS
    Threads,     \* thread ids
    Main,        \* the thread gg started; its exit ends the trace
    FDs,         \* descriptors
    Std,         \* those recorded as no sockets at a thread's first stop
    Metas,       \* the sockets the program creates
    Wanted,      \* the addresses it wants to reach
    Opts,        \* the options gg may be run with
    MaxCalls     \* bound: calls the program makes

(* What the program may pass, and what it may find in its buffer then.     *)
WantedHosts == {"public", "private", "loopback", "fake"}

WantedAddresses ==
    [fam : {"inet", "inet6"}, host : WantedHosts, port : Nat, via : {Nothing}]

Targets == (WantedHosts \cup {"domain", "real", "projection"}) \X Nat

Addresses == [fam : {"inet", "inet6"}, host : WantedHosts \cup {"real", "projection"},
              port : Nat, via : {Nothing} \cup Targets]

FcntlArgs == [fd : FDs, dup : BOOLEAN]

ASSUME TracerAssumption ==
    /\ Main \in Threads
    /\ FDs \subseteq Nat /\ IsFiniteSet(FDs)
    /\ Std \subseteq FDs /\ 0 \in Std
    /\ Metas \subseteq [family : STRING, type : Nat, protocol : STRING]
    /\ Wanted \subseteq WantedAddresses
    /\ MaxCalls \in Nat /\ Opts \subseteq Options
    /\ Nothing \notin Threads /\ Nothing \notin FDs /\ Nothing \notin Metas
    /\ Nothing \notin FcntlArgs /\ Nothing \notin Addresses

VARIABLES
    (* the traced program and the kernel *)
    table,        \* thread -> the thread that names its descriptor table
    fds,          \* that name -> descriptor -> what is open there
    call,         \* thread -> the call it is in
    buf,          \* thread -> the address it passes, and the one it meant
    calls,        \* how many calls were made
    (* the tracer *)
    opt,          \* its options, fixed for a run
    socketInfo,   \* thread -> descriptor -> metadata
    storehouse    \* thread -> call -> arguments saved at its entry stop

kernelVars == <<table, fds, call, buf, calls>>
vars == <<kernelVars, opt, socketInfo, storehouse>>

File == Meta("file", 0, "none")    \* open, and not a socket the program made

(* owner is the thread through whose calls alone the tracer could follow   *)
(* the descriptor; Nothing if there is none (inherited or made by dup2, or *)
(* a standard descriptor: closing 0 makes the tracer record them all as no *)
(* sockets again, whatever the program has opened there since).            *)
Open(what, owner) == [what |-> what, owner |-> owner]

Own(t, fd) == IF fd \in Std THEN Nothing ELSE t

Idle == [op |-> "none"]

Alive(t) == table[t] # Nothing

FDTable(t) == fds[table[t]]

(* A call, from its entry stop to its exit stop; done once it took effect. *)
SocketCalls ==
    [op : {"socket"}, meta : Metas, done : BOOLEAN, ret : FDs \cup {Nothing}]
FcntlCalls == [op : {"fcntl"}, fd : FDs, dup : BOOLEAN, done : BOOLEAN,
               ret : FDs \cup {Nothing}]
CloseCalls == [op : {"close"}, fd : FDs, done : BOOLEAN, ret : {0, Nothing}]
Dup2Calls == [op : {"dup2"}, fd : FDs, onto : FDs, done : BOOLEAN,
              ret : FDs \cup {Nothing}]

(* A packet on its way; followed if what it is sent from could be.         *)
FlowRecord == [meta : Metas, followed : BOOLEAN, want : Wanted, got : Addresses]

ConnectCalls ==
    [op : {"connect"}, fd : FDs, done : BOOLEAN, ret : FlowRecord \cup {Nothing}]

CallOK(c) ==
    \/ c = Idle
    \/ c.op = "socket" /\ c \in SocketCalls
    \/ c.op = "fcntl" /\ c \in FcntlCalls
    \/ c.op = "close" /\ c \in CloseCalls
    \/ c.op = "dup2" /\ c \in Dup2Calls
    \/ c.op = "connect" /\ c \in ConnectCalls

Buffers == [addr : Addresses, want : Wanted, raw : BOOLEAN]

Opened == [what : Metas \cup {File}, owner : Threads \cup {Nothing}]

TypeOK ==
    /\ table \in [Threads -> Threads \cup {Nothing}]
    /\ fds \in [Threads -> [FDs -> Opened \cup {Nothing}]]
    /\ DOMAIN call = Threads /\ \A t \in Threads : CallOK(call[t])
    /\ buf \in [Threads -> Buffers \cup {Nothing}]
    /\ calls \in 0..MaxCalls
    /\ opt \in Opts
    /\ socketInfo \in [Threads -> [FDs -> Metas \cup {LocalSocket, Nothing}]]
    /\ storehouse \in [Threads -> [socket : Metas \cup {Nothing},
                                   fcntl : FcntlArgs \cup {Nothing}]]

Init ==
    /\ table = [t \in Threads |-> IF t = Main THEN Main ELSE Nothing]
    /\ fds = [t \in Threads |-> [fd \in FDs |->
                 IF t = Main /\ fd \in Std THEN Open(File, Nothing) ELSE Nothing]]
    /\ call = [t \in Threads |-> Idle]
    /\ buf = [t \in Threads |-> Nothing]
    /\ calls = 0
    /\ opt \in Opts
    /\ socketInfo = [t \in Threads |-> [fd \in FDs |-> Nothing]]
    /\ storehouse = [t \in Threads |-> [socket |-> Nothing, fcntl |-> Nothing]]

-----------------------------------------------------------------------------
(* Before it looks at a stop, trace() makes sure of the standard           *)
(* descriptors: without metadata of descriptor 0 it records them all.      *)
Seen(t) ==
    IF socketInfo[t][0] = Nothing
    THEN [fd \in FDs |-> IF fd \in Std THEN LocalSocket ELSE socketInfo[t][fd]]
    ELSE socketInfo[t]

SetInfo(t, info) == socketInfo' = [socketInfo EXCEPT ![t] = info]

Save(t, nr, args) == storehouse' = [storehouse EXCEPT ![t][nr] = args]

Remove(t, nr) == storehouse' = [storehouse EXCEPT ![t][nr] = Nothing]

Enter(t, c) ==
    /\ Alive(t)
    /\ call[t] = Idle
    /\ calls < MaxCalls
    /\ calls' = calls + 1
    /\ call' = [call EXCEPT ![t] = c]
    /\ SetInfo(t, Seen(t))
    /\ UNCHANGED <<table, fds, opt>>

(* Faulty variant: arguments already in the storehouse are kept.           *)
EnterSocket_KeepsOld(t, meta) ==
    /\ Enter(t, [op |-> "socket", meta |-> meta, done |-> FALSE, ret |-> Nothing])
    /\ storehouse' = [storehouse EXCEPT ![t].socket = IF @ = Nothing THEN meta ELSE @]
    /\ UNCHANGED buf

EnterSocket(t, meta) ==
    /\ Enter(t, [op |-> "socket", meta |-> meta, done |-> FALSE, ret |-> Nothing])
    /\ Save(t, "socket", meta)
    /\ UNCHANGED buf

(* A program passes descriptors that are open when it makes the call;      *)
(* another thread may close them before the call takes effect.             *)
Uses(t, fd) == Alive(t) /\ FDTable(t)[fd] # Nothing

(* Faulty variant: the storehouse has one place per thread.                *)
EnterFcntl_OnePlace(t, fd, dup) ==
    /\ Uses(t, fd)
    /\ Enter(t, [op |-> "fcntl", fd |-> fd, dup |-> dup, done |-> FALSE, ret |-> Nothing])
    /\ Save(t, "socket", [fd |-> fd, dup |-> dup])
    /\ UNCHANGED buf

(* fcntl, with F_DUPFD or F_DUPFD_CLOEXEC or with another command.         *)
EnterFcntl(t, fd, dup) ==
    /\ Uses(t, fd)
    /\ Enter(t, [op |-> "fcntl", fd |-> fd, dup |-> dup, done |-> FALSE, ret |-> Nothing])
    /\ Save(t, "fcntl", [fd |-> fd, dup |-> dup])
    /\ UNCHANGED buf

EnterClose(t, fd) ==
    /\ Uses(t, fd)
    /\ Enter(t, [op |-> "close", fd |-> fd, done |-> FALSE, ret |-> Nothing])
    /\ UNCHANGED <<storehouse, buf>>

(* dup2 and its like are not among the calls the tracer handles.           *)
EnterDup2(t, fd, onto) ==
    /\ Uses(t, fd) /\ fd # onto
    /\ Enter(t, [op |-> "dup2", fd |-> fd, onto |-> onto, done |-> FALSE, ret |-> Nothing])
    /\ UNCHANGED <<storehouse, buf>>

(* A buffer that was used on a socket carrying neither TCP nor UDP is      *)
(* marked: its port is gone.                                               *)
Poked(meta, b) ==
    [b EXCEPT !.addr = Poke(opt, meta, @),
              !.raw = b.raw \/ (meta.family # "local" /\ ~Carried(meta))]

(* connect, sendto and sendmsg with an address, which differ in where the  *)
(* address is found.                                                       *)
EnterConnect(t, fd) ==
    /\ buf[t] # Nothing
    /\ Uses(t, fd)
    /\ Enter(t, [op |-> "connect", fd |-> fd, done |-> FALSE, ret |-> Nothing])
    /\ LET meta == Seen(t)[fd]
       IN  buf' = IF meta = Nothing THEN buf
                  ELSE [buf EXCEPT ![t] = Poked(meta, @)]
    /\ UNCHANGED storehouse

-----------------------------------------------------------------------------
(* The kernel carries the call out; socket and fcntl return the lowest     *)
(* free descriptor, or fail (here: with no effect and ret Nothing).        *)
FreeFDs(t) == {fd \in FDs : FDTable(t)[fd] = Nothing}

SetFD(t, fd, to) == fds' = [fds EXCEPT ![table[t]][fd] = to]

Return(t, ret) ==
    call' = [call EXCEPT ![t].done = TRUE, ![t].ret = ret]

Executing(t, op) == call[t].op = op /\ ~call[t].done

ExecuteSocket(t) ==
    /\ Executing(t, "socket")
    /\ FreeFDs(t) # {}
    /\ SetFD(t, Min(FreeFDs(t)), Open(call[t].meta, Own(t, Min(FreeFDs(t)))))
    /\ Return(t, Min(FreeFDs(t)))

(* A copy is the calling thread's own if the original is.                  *)
ExecuteDup(t) ==
    /\ Executing(t, "fcntl")
    /\ call[t].dup
    /\ FreeFDs(t) # {} /\ FDTable(t)[call[t].fd] # Nothing
    /\ LET old == FDTable(t)[call[t].fd]
       IN  SetFD(t, Min(FreeFDs(t)),
                 Open(old.what, IF old.owner = t THEN Own(t, Min(FreeFDs(t)))
                                                 ELSE Nothing))
    /\ Return(t, Min(FreeFDs(t)))

ExecuteClose(t) ==
    /\ Executing(t, "close")
    /\ SetFD(t, call[t].fd, Nothing)
    /\ Return(t, 0)

ExecuteDup2(t) ==
    /\ Executing(t, "dup2")
    /\ FDTable(t)[call[t].fd] # Nothing
    /\ SetFD(t, call[t].onto, Open(FDTable(t)[call[t].fd].what, Nothing))
    /\ Return(t, call[t].onto)

(* The packet goes to the address that is in the buffer now.               *)
ExecuteConnect(t) ==
    /\ Executing(t, "connect")
    /\ LET open == FDTable(t)[call[t].fd]
       IN  /\ open # Nothing /\ open.what # File
           /\ open.what.family = buf[t].addr.fam
           /\ Return(t, [meta |-> open.what,
                         followed |-> open.owner = t /\ ~buf[t].raw,
                         want |-> buf[t].want, got |-> buf[t].addr])
    /\ UNCHANGED fds

(* The call fails, or it is a command without effect on descriptors.       *)
ExecuteNothing(t) ==
    /\ call[t] # Idle /\ ~call[t].done
    /\ call[t].op # "close"
    /\ Return(t, Nothing)
    /\ UNCHANGED fds

Execute(t) ==
    /\ \/ ExecuteSocket(t) \/ ExecuteDup(t) \/ ExecuteClose(t) \/ ExecuteDup2(t)
       \/ ExecuteConnect(t) \/ ExecuteNothing(t)
    /\ UNCHANGED <<table, buf, calls, opt, socketInfo, storehouse>>

-----------------------------------------------------------------------------
(* The exit stop.  returnValueInt takes -EPERM for the descriptor -1; what *)
(* is recorded there no program that looks at its results ever uses.       *)
Exit(t, op) ==
    /\ call[t].op = op
    /\ call[t].done
    /\ call' = [call EXCEPT ![t] = Idle]
    /\ UNCHANGED <<table, fds, buf, calls, opt>>

ExitSocket(t) ==
    /\ Exit(t, "socket")
    /\ LET meta == storehouse[t].socket
           fd == call[t].ret
       IN  SetInfo(t, IF meta # Nothing /\ fd # Nothing
                      THEN [Seen(t) EXCEPT ![fd] = meta] ELSE Seen(t))
    /\ Remove(t, "socket")

ExitFcntl(t) ==
    /\ Exit(t, "fcntl")
    /\ LET args == storehouse[t].fcntl
           copies == /\ args # Nothing
                     /\ args.dup
                     /\ Seen(t)[args.fd] # Nothing
                     /\ call[t].ret # Nothing
       IN  SetInfo(t, IF copies
                      THEN [Seen(t) EXCEPT ![call[t].ret] = Seen(t)[args.fd]]
                      ELSE Seen(t))
    /\ Remove(t, "fcntl")

(* "we do not need to know if it succeeded"                                *)
ExitClose(t) ==
    /\ Exit(t, "close")
    /\ SetInfo(t, [Seen(t) EXCEPT ![call[t].fd] = Nothing])
    /\ UNCHANGED storehouse

ExitOther(t) ==
    /\ \E op \in {"dup2", "connect"} : Exit(t, op)
    /\ SetInfo(t, Seen(t))
    /\ UNCHANGED storehouse

(* A call that the kernel refuses with ENOSYS (a seccomp filter may) looks *)
(* like an entry at its exit stop: isEntryStop tests for that value.       *)
ExitAsEntry(t) ==
    /\ call[t] # Idle /\ call[t].done /\ call[t].ret = Nothing
    /\ call' = [call EXCEPT ![t] = Idle]
    /\ SetInfo(t, Seen(t))
    /\ CASE call[t].op = "socket" -> Save(t, "socket", call[t].meta)
         [] call[t].op = "fcntl" ->
                Save(t, "fcntl", [fd |-> call[t].fd, dup |-> call[t].dup])
         [] OTHER -> UNCHANGED storehouse
    /\ LET meta == Seen(t)[call[t].fd]
       IN  buf' = IF call[t].op = "connect" /\ meta # Nothing
                  THEN [buf EXCEPT ![t] = Poked(meta, @)] ELSE buf
    /\ UNCHANGED <<table, fds, calls, opt>>

-----------------------------------------------------------------------------
(* The program writes an address into the thread's buffer.                 *)
Fill(t, a) ==
    /\ Alive(t) /\ call[t] = Idle
    /\ buf' = [buf EXCEPT ![t] = [addr |-> a, want |-> a, raw |-> FALSE]]
    /\ UNCHANGED <<table, fds, call, calls, opt, socketInfo, storehouse>>

Disowned(open) == IF open = Nothing THEN Nothing ELSE Open(open.what, Nothing)

(* clone of a thread that shares the descriptors, and fork.  The stops     *)
(* they cause carry no call the tracer handles, but it sees the thread.    *)
Clone(t, u) ==
    /\ Alive(t) /\ call[t] = Idle /\ ~Alive(u)
    /\ table' = [table EXCEPT ![u] = table[t]]
    /\ SetInfo(u, Seen(u))
    /\ UNCHANGED <<fds, call, buf, calls, opt, storehouse>>

Fork(t, u) ==
    /\ Alive(t) /\ call[t] = Idle /\ ~Alive(u)
    /\ \A v \in Threads : table[v] # u
    /\ table' = [table EXCEPT ![u] = u]
    /\ fds' = [fds EXCEPT ![u] = [fd \in FDs |-> Disowned(FDTable(t)[fd])]]
    /\ SetInfo(u, Seen(u))
    /\ UNCHANGED <<call, buf, calls, opt, storehouse>>

(* Faulty variant: a thread's exit discards its process's metadata.        *)
ThreadExits_Process(t) ==
    /\ Alive(t) /\ t # Main
    /\ call[t] = Idle
    /\ table' = [table EXCEPT ![t] = Nothing]
    /\ SetInfo(table[t], [fd \in FDs |-> Nothing])
    /\ buf' = [buf EXCEPT ![t] = Nothing]
    /\ UNCHANGED <<fds, call, calls, opt, storehouse>>

(* A thread exits between calls, and its id is free to be used again.      *)
(* The kernel closes what only the exiting process had open.               *)
(* removeProcessSocketInfo deletes an empty map only, and after Seen(t)    *)
(* the map is not empty: the metadata of the old thread stays.             *)
ThreadExits(t) ==
    /\ Alive(t) /\ t # Main
    /\ call[t] = Idle
    /\ table' = [table EXCEPT ![t] = Nothing]
    /\ SetInfo(t, Seen(t))
    /\ buf' = [buf EXCEPT ![t] = Nothing]
    /\ fds' = [v \in Threads |-> [fd \in FDs |->
                  IF \A u \in Threads \ {t} : table[u] # v THEN Nothing
                  ELSE IF fds[v][fd] # Nothing /\ fds[v][fd].owner = t
                       THEN Disowned(fds[v][fd]) ELSE fds[v][fd]]]
    /\ UNCHANGED <<call, calls, opt, storehouse>>

-----------------------------------------------------------------------------
Next ==
    \/ \E t \in Threads :
           \/ Execute(t)
           \/ ExitSocket(t) \/ ExitFcntl(t) \/ ExitClose(t) \/ ExitOther(t)
           \/ ExitAsEntry(t) \/ ThreadExits(t)
    \/ \E t \in Threads, m \in Metas : EnterSocket(t, m)
    \/ \E t \in Threads, fd \in FDs :
           \/ \E dup \in BOOLEAN : EnterFcntl(t, fd, dup)
           \/ EnterClose(t, fd) \/ EnterConnect(t, fd)
           \/ \E onto \in FDs : EnterDup2(t, fd, onto)
    \/ \E t \in Threads, a \in Wanted : Fill(t, a)
    \/ \E t, u \in Threads : Clone(t, u) \/ Fork(t, u)

Spec == Init /\ [][Next]_vars

-----------------------------------------------------------------------------
(* Of a socket that its thread made by socket or by fcntl, above the       *)
(* standard descriptors, and that no call of another thread and no dup2    *)
(* put there, the tracer knows what it is whenever that thread is about to *)
(* make a call: whatever the other threads, their exits and the reuse of   *)
(* thread ids did meanwhile.                                               *)
OwnSocketsTracked ==
    \A t \in Threads : Alive(t) /\ call[t] = Idle =>
        \A fd \in FDs :
            FDTable(t)[fd] # Nothing /\ FDTable(t)[fd].owner = t
                => socketInfo[t][fd] = FDTable(t)[fd].what

(* The exit handler pairs a result with the arguments of the same call,    *)
(* although an exit taken for an entry leaves arguments behind.            *)
ArgsOfThisCall ==
    \A t \in Threads :
        /\ call[t].op = "socket" => storehouse[t].socket = call[t].meta
        /\ call[t].op = "fcntl" =>
               storehouse[t].fcntl = [fd |-> call[t].fd, dup |-> call[t].dup]

(* The connects and sends that have just taken effect, and those among     *)
(* them on a thread's own sockets and from a buffer not used on a raw one. *)
Flows == {call[t].ret : t \in {u \in Threads : /\ call[u].op = "connect"
                                              /\ call[u].ret # Nothing}}

Followed(network) == {f \in Flows : f.followed /\ Network(f.meta) \in network}

(* The address to which TCP or UDP leaves is the one the program meant, or *)
(* the projection allocated for that very target, even when it comes from  *)
(* a buffer that was already poked, for another kind of socket or twice    *)
(* for one call: a projection that were projected again would stand for    *)
(* gg's own listener.  For TCP the proxy reads the target back from this   *)
(* address (TCPDialsWanted), for UDP it does not (UDPReachesWanted).       *)
NamesWanted ==
    \A f \in Followed({"tcp", "udp"}) : Named(f.got) = Target(f.want)

(* TCP to a public address or to a domain never goes out directly.         *)
NoDirectTCP ==
    \A f \in Followed({"tcp"}) :
        f.want.host \in {"public", "fake"} => f.got.host = "projection"

(* DNS is hijacked wherever the server is, loopback and private addresses  *)
(* included, unless UDP is switched off.                                   *)
DNSHijacked ==
    \A f \in Followed({"udp"}) :
        f.want.port = DNSPort /\ ~opt.ignoreUDP => f.got.host = "projection"

(* README_en.md: "Just prefix any command with gg to redirect its traffic  *)
(* through a modern proxy".  TCP to a public address is redirected,        *)
(* whichever thread of the program connects the socket.                    *)
TrafficRedirected ==
    \A f \in Flows :
        Network(f.meta) = "tcp" /\ f.want.host = "public"
            => f.got.host = "projection"

=============================================================================
