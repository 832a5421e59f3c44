------------------------------ MODULE MCTracer ------------------------------
(* Tracer for TLC.  MCSpec is two instances in one: threads that share and *)
(* copy descriptors, and one thread with many sockets and addresses.       *)
EXTENDS Tracer, TLC

CONSTANTS t1, t2

TwoThreads == {t1, t2}

ThreeFDs == 0..2
TwoFDs == 0..1
MCStd == {0}

TCP4 == Meta("inet", SOCK_STREAM, "none")
UDP4 == Meta("inet", SOCK_DGRAM, "none")
ICMP4 == Meta("inet", SOCK_RAW, "icmp")
TCP6 == Meta("inet6", SOCK_STREAM, "tcp")

TCPOnly == {TCP4}
TwoSockets == {TCP4, UDP4}
AllSockets == {TCP4, UDP4, ICMP4, TCP6}

OneAddress == {Addr("inet", "public", 80)}
MixedAddresses ==
    {Addr("inet", "public", 80), Addr("inet", "public", 0), Addr("inet", "fake", 80),
     Addr("inet", "private", DNSPort), Addr("inet", "loopback", DNSPort),
     Addr("inet6", "fake", 80)}

(* At most one option differs from the usual ones.                         *)
Usual == [ignoreUDP |-> FALSE, ignorePrivateAddr |-> TRUE, supportUDP |-> TRUE,
          realKnown |-> TRUE]
SomeOptions == {Usual, [Usual EXCEPT !.ignoreUDP = TRUE],
                [Usual EXCEPT !.ignorePrivateAddr = FALSE],
                [Usual EXCEPT !.supportUDP = FALSE]}

Defaults == {Usual}

(* The option tells the instances apart: without addresses none matters.   *)
Descriptors == [Usual EXCEPT !.realKnown = FALSE]

MixedOptions == SomeOptions \cup {Descriptors}

(* Without addresses the two kinds of sockets differ in name only, so that  *)
(* the first one there is may be called TCP4.                              *)
Known(meta) ==
    \E t \in Threads :
        \/ storehouse[t].socket = meta
        \/ \E fd \in FDs :
              \/ socketInfo[t][fd] = meta
              \/ fds[t][fd] # Nothing /\ fds[t][fd].what = meta

Kinds == IF \E meta \in TwoSockets : Known(meta) THEN TwoSockets ELSE TCPOnly

(* Steps are left out, none added: without addresses nobody starts a thread *)
(* before there is a call to differ over, and with them there is only Main. *)
Scenario ==
    IF opt = Descriptors
    THEN /\ UNCHANGED buf
         /\ calls = 0 => table' = table
         /\ \A t \in Threads :
               call[t] = Idle =>
                   /\ call'[t].op = "socket" => call'[t].meta \in Kinds
                   /\ call'[t].op = "dup2" => t = Main
                   /\ call'[t].op = "fcntl" => call'[t].dup \/ t = Main
    ELSE /\ \A t \in Threads \ {Main} : table'[t] = Nothing
         /\ call'[Main].op # "dup2"
         /\ call'[Main].op = "fcntl" => call'[Main].dup

MCSpec == Init /\ [][Next /\ Scenario]_vars

=============================================================================
