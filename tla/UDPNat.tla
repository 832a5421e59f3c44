------------------------------- MODULE UDPNat -------------------------------
(***************************************************************************)
(* The UDP association table of the proxy: UDPConnMapping of               *)
(* proxy/udp_conn.go with GetOrBuildUDPConn and relayUDP of proxy/udp.go.  *)
(*                                                                         *)
(* ListenUDP starts a goroutine per datagram.  The first one of a client   *)
(* leaves a placeholder in the table and dials without the lock; the       *)
(* others of that client wait for the placeholder's Establishing channel   *)
(* to be closed and look again.  A dialed socket gets a relay goroutine,   *)
(* which takes the association down when its read loop ends.               *)
(*                                                                         *)
(* A section under UDPConnMapping's mutex is one action.  Everything the   *)
(* goroutines do between two sections is a separate action: they           *)
(* interleave.  A datagram's goroutine, the placeholder it may insert, the *)
(* socket it may dial and the relay it may start have the datagram's name. *)
(***************************************************************************)
EXTENDS Naturals, FiniteSets

CONSTANTS
    Clients,      \* lAddr: source addresses of the traced program's sockets
    Datagrams,    \* the datagrams received, one goroutine each
    Free          \* no entry in the table; also: no client, no socket

(* An entry of the table: who inserted it, and whether it has a socket.    *)
Entries == [by : Datagrams, up : BOOLEAN]

ASSUME FreeAssumption == Free \notin Datagrams \cup Clients \cup Entries

VARIABLES
    nm,        \* UDPConnMapping.nm: client -> its entry, or Free
    from,      \* the client a datagram came from
    pc,        \* where its goroutine is
    awaits,    \* the entry it found in the table
    rc,        \* whose socket it is going to write to
    signalled, \* the placeholder's Establishing channel is closed
    sock,      \* the socket it dialed
    relay,     \* where that socket's relay goroutine is
    crashed    \* Close was called on a placeholder, whose PacketConn is nil

vars == <<nm, from, pc, awaits, rc, signalled, sock, relay, crashed>>

(* Faulty variant: NewUDPConn(nil) again.                                  *)
Association_Unfilled(d) == [by |-> d, up |-> FALSE]

(* NewUDPConn(nil) and NewUDPConn(c): a placeholder and an association.    *)
Placeholder(d) == [by |-> d, up |-> FALSE]
Association(d) == [by |-> d, up |-> TRUE]

TypeOK ==
    /\ nm \in [Clients -> Entries \cup {Free}]
    /\ from \in [Datagrams -> Clients \cup {Free}]
    /\ pc \in [Datagrams -> {"none", "lookup", "dial", "dialErr", "dialed", "await",
                             "countdown", "send", "sent", "failed"}]
    /\ awaits \in [Datagrams -> Entries \cup {Free}]
    /\ rc \in [Datagrams -> Datagrams \cup {Free}]
    /\ signalled \in [Datagrams -> BOOLEAN]
    /\ sock \in [Datagrams -> {"none", "open", "closed"}]
    /\ relay \in [Datagrams -> {"none", "read", "ended", "done"}]
    /\ crashed \in BOOLEAN

Init ==
    /\ nm = [l \in Clients |-> Free]
    /\ from = [d \in Datagrams |-> Free]
    /\ pc = [d \in Datagrams |-> "none"]
    /\ awaits = [d \in Datagrams |-> Free]
    /\ rc = [d \in Datagrams |-> Free]
    /\ signalled = [d \in Datagrams |-> FALSE]
    /\ sock = [d \in Datagrams |-> "none"]
    /\ relay = [d \in Datagrams |-> "none"]
    /\ crashed = FALSE

Goto(d, step) == pc' = [pc EXCEPT ![d] = step]

-----------------------------------------------------------------------------
(* ListenUDP read a datagram of client l and started its goroutine.        *)
Receive(d, l) ==
    /\ pc[d] = "none"
    /\ from' = [from EXCEPT ![d] = l]
    /\ Goto(d, "lookup")
    /\ UNCHANGED <<nm, awaits, rc, signalled, sock, relay, crashed>>

(* Faulty variant: dials without a placeholder in the table.               *)
Build_NoPlaceholder(d) ==
    /\ pc[d] = "lookup"
    /\ nm[from[d]] = Free
    /\ Goto(d, "dial")
    /\ UNCHANGED <<nm, from, awaits, rc, signalled, sock, relay, crashed>>

(* No entry: insert a placeholder and dial.                                *)
Build(d) ==
    /\ pc[d] = "lookup"
    /\ nm[from[d]] = Free
    /\ nm' = [nm EXCEPT ![from[d]] = Placeholder(d)]
    /\ Goto(d, "dial")
    /\ UNCHANGED <<from, awaits, rc, signalled, sock, relay, crashed>>

(* Faulty variant: keyed by IP, which is 127.0.0.1 for every client.       *)
Found_ByIP(d) ==
    /\ pc[d] = "lookup"
    /\ \E l \in Clients :
          nm[l] # Free /\ awaits' = [awaits EXCEPT ![d] = nm[l]]
    /\ Goto(d, "await")
    /\ UNCHANGED <<nm, from, rc, signalled, sock, relay, crashed>>

(* An entry: take the pointer out of the table and wait on it, unlocked.   *)
Found(d) ==
    /\ pc[d] = "lookup"
    /\ nm[from[d]] # Free
    /\ awaits' = [awaits EXCEPT ![d] = nm[from[d]]]
    /\ Goto(d, "await")
    /\ UNCHANGED <<nm, from, rc, signalled, sock, relay, crashed>>

DialFails(d) ==
    /\ pc[d] = "dial"
    /\ Goto(d, "dialErr")
    /\ UNCHANGED <<nm, from, awaits, rc, signalled, sock, relay, crashed>>

DialSucceeds(d) ==
    /\ pc[d] = "dial"
    /\ sock' = [sock EXCEPT ![d] = "open"]
    /\ Goto(d, "dialed")
    /\ UNCHANGED <<nm, from, awaits, rc, signalled, relay, crashed>>

(* Faulty variants of Remove: the socket is not closed; nobody is woken.   *)
RemoveAndSet_NoClose(l, entry) ==
    LET old == nm[l]
    IN  /\ nm' = [nm EXCEPT ![l] = entry]
        /\ signalled' = IF old # Free /\ ~old.up
                        THEN [signalled EXCEPT ![old.by] = TRUE] ELSE signalled
        /\ UNCHANGED <<sock, crashed>>

RemoveAndSet_NoSignal(l, entry) ==
    LET old == nm[l]
    IN  /\ nm' = [nm EXCEPT ![l] = entry]
        /\ sock' = IF old # Free /\ old.up
                   THEN [sock EXCEPT ![old.by] = "closed"] ELSE sock
        /\ UNCHANGED <<signalled, crashed>>

(* UDPConnMapping.Remove(l), then the table holds entry for l (Free when   *)
(* nothing is inserted after it).  An entry whose channel is closed is     *)
(* taken for an association and closed; else its channel is closed.        *)
RemoveAndSet(l, entry) ==
    LET old == nm[l]
        established == old # Free /\ (old.up \/ signalled[old.by])
        establishing == old # Free /\ ~established
    IN  /\ nm' = [nm EXCEPT ![l] = entry]
        /\ sock' = IF established /\ old.up
                   THEN [sock EXCEPT ![old.by] = "closed"] ELSE sock
        /\ crashed' = IF established /\ ~old.up THEN TRUE ELSE crashed
        /\ signalled' = IF establishing
                        THEN [signalled EXCEPT ![old.by] = TRUE] ELSE signalled

(* The dial failed: wake those who wait, and report the error.             *)
Abandon(d) ==
    /\ pc[d] = "dialErr"
    /\ RemoveAndSet(from[d], Free)
    /\ Goto(d, "failed")
    /\ UNCHANGED <<from, awaits, rc, relay>>

(* The socket replaces the placeholder, those who wait are woken, and the  *)
(* relay starts.                                                           *)
Publish(d) ==
    /\ pc[d] = "dialed"
    /\ RemoveAndSet(from[d], Association(d))
    /\ rc' = [rc EXCEPT ![d] = d]
    /\ relay' = [relay EXCEPT ![d] = "read"]
    /\ Goto(d, "countdown")
    /\ UNCHANGED <<from, awaits>>

(* <-conn.Establishing.  A placeholder's PacketConn is nil: look again.    *)
Retry(d) ==
    /\ pc[d] = "await"
    /\ ~awaits[d].up /\ signalled[awaits[d].by]
    /\ awaits' = [awaits EXCEPT ![d] = Free]
    /\ Goto(d, "lookup")
    /\ UNCHANGED <<nm, from, rc, signalled, sock, relay, crashed>>

Established(d) ==
    /\ pc[d] = "await"
    /\ awaits[d].up
    /\ rc' = [rc EXCEPT ![d] = awaits[d].by]
    /\ awaits' = [awaits EXCEPT ![d] = Free]
    /\ Goto(d, "countdown")
    /\ UNCHANGED <<nm, from, signalled, sock, relay, crashed>>

(* SetReadDeadline, whose error is ignored.                                *)
Countdown(d) ==
    /\ pc[d] = "countdown"
    /\ Goto(d, "send")
    /\ UNCHANGED <<nm, from, awaits, rc, signalled, sock, relay, crashed>>

(* rc.WriteTo: the relay may have closed the socket by now; resolving the  *)
(* target or writing may fail on an open one too.                          *)
Send(d) ==
    /\ pc[d] = "send"
    /\ \/ sock[rc[d]] = "open" /\ Goto(d, "sent")
       \/ Goto(d, "failed")
    /\ UNCHANGED <<nm, from, awaits, rc, signalled, sock, relay, crashed>>

-----------------------------------------------------------------------------
(* relayUDP returned: the read deadline passed, the socket failed, or the  *)
(* client could not be written to.                                         *)
RelayEnds(d) ==
    /\ relay[d] = "read"
    /\ relay' = [relay EXCEPT ![d] = "ended"]
    /\ UNCHANGED <<nm, from, pc, awaits, rc, signalled, sock, crashed>>

(* The goroutine then removes whatever is in the table for its client.     *)
RelayRemoves(d) ==
    /\ relay[d] = "ended"
    /\ RemoveAndSet(from[d], Free)
    /\ relay' = [relay EXCEPT ![d] = "done"]
    /\ UNCHANGED <<from, pc, awaits, rc>>

-----------------------------------------------------------------------------
(* The steps of the goroutine handling d that it takes by itself.          *)
Handle(d) ==
    \/ Build(d) \/ Found(d) \/ DialFails(d) \/ DialSucceeds(d)
    \/ Abandon(d) \/ Publish(d) \/ Retry(d) \/ Established(d)
    \/ Countdown(d) \/ Send(d)

Next ==
    \/ \E d \in Datagrams, l \in Clients : Receive(d, l)
    \/ \E d \in Datagrams : Handle(d) \/ RelayEnds(d) \/ RelayRemoves(d)

Spec == Init /\ [][Next]_vars

(* Go schedules every runnable goroutine and a dial returns.  Nothing      *)
(* makes datagrams come, or a relay's read loop end.                       *)
Fairness ==
    \A d \in Datagrams : WF_vars(Handle(d)) /\ WF_vars(RelayRemoves(d))

FairSpec == Spec /\ Fairness

-----------------------------------------------------------------------------
Building(d) == pc[d] \in {"dial", "dialErr", "dialed"}
Relaying(d) == relay[d] \in {"read", "ended"}

(* However many datagrams of a client arrive while the first one's dial is *)
(* under way, one dial and one socket serve them all.                      *)
OneSocketPerClient ==
    \A d, e \in Datagrams :
        /\ from[d] = from[e] /\ from[d] # Free
        /\ Building(d) \/ sock[d] = "open"
        /\ Building(e) \/ sock[e] = "open"
        => d = e

(* An open socket is about to be published, or it is in the table and its  *)
(* relay will close it: sockets do not leak.                               *)
NoOrphanSocket ==
    \A d \in Datagrams : sock[d] = "open" =>
        \/ pc[d] = "dialed"
        \/ Relaying(d) /\ nm[from[d]] = Association(d)

(* Remove deletes the entry under the client's key, whoever made it.  It   *)
(* never closes a socket that another goroutine's relay still reads.       *)
RelayKeepsSocket == \A d \in Datagrams : relay[d] = "read" => sock[d] = "open"

(* Nobody waits on a placeholder that nobody is going to signal.           *)
NoLostWakeup ==
    \A d \in Datagrams :
        pc[d] = "await" /\ ~awaits[d].up /\ ~signalled[awaits[d].by]
            => Building(awaits[d].by)

(* A datagram leaves through a socket of its own client, so that the       *)
(* answers go back to the socket that asked.                               *)
OwnSocket ==
    \A d \in Datagrams : rc[d] # Free => from[rc[d]] = from[d]

(* Remove is never called on an entry that was signalled but holds no      *)
(* socket.                                                                 *)
NoNilClose == ~crashed

(* Every datagram is written or dropped with an error.                     *)
DatagramHandled ==
    \A d \in Datagrams : pc[d] = "lookup" ~> pc[d] \in {"sent", "failed"}

(* When the relay's loop ends its socket is closed, so that the next       *)
(* datagram of the client can dial a new one.                              *)
SocketClosed ==
    \A d \in Datagrams : relay[d] = "ended" ~> sock[d] = "closed"

-----------------------------------------------------------------------------
(* The table, the goroutines and the sockets agree.  Each conjunct is      *)
(* disturbed by a step of some other goroutine than the one it is about,   *)
(* and together they are inductive: the properties above follow.           *)

(* A goroutine that dials has its placeholder in the table, unsignalled; a *)
(* relay has its association there, and a socket.                          *)
HoldersHoldEntry ==
    \A d \in Datagrams :
        /\ Building(d) => nm[from[d]] = Placeholder(d)
        /\ Relaying(d) => nm[from[d]] = Association(d) /\ sock[d] = "open"

(* Conversely each entry has a goroutine that will take it down.           *)
EntriesHaveHolder ==
    \A l \in Clients : nm[l] # Free =>
        /\ from[nm[l].by] = l
        /\ IF nm[l].up THEN Relaying(nm[l].by) ELSE Building(nm[l].by)

Past(d) == pc[d] \in {"countdown", "send", "sent", "failed"}

(* A datagram's socket, relay and signal come in this order.               *)
LifeCycle ==
    \A d \in Datagrams :
        /\ from[d] = Free <=> pc[d] = "none"
        /\ sock[d] = "open" => pc[d] = "dialed" \/ Relaying(d)
        /\ pc[d] = "dialed" => sock[d] = "open"
        /\ sock[d] # "none" => pc[d] = "dialed" \/ Past(d)
        /\ relay[d] # "none" => Past(d)
        /\ signalled[d] => Past(d)

(* Whatever a goroutine took out of the table belongs to its client.       *)
PointersKeepClient ==
    \A d \in Datagrams :
        /\ pc[d] = "await" =>
              /\ awaits[d] # Free
              /\ from[awaits[d].by] = from[d]
              /\ awaits[d].up \/ signalled[awaits[d].by] \/ Building(awaits[d].by)
        /\ rc[d] # Free => from[rc[d]] = from[d] /\ from[d] # Free

TableAgrees ==
    /\ HoldersHoldEntry
    /\ EntriesHaveHolder
    /\ LifeCycle
    /\ PointersKeepClient
    /\ NoNilClose

-----------------------------------------------------------------------------
(* What a client sees of all this is a session that is free, claimed by    *)
(* the goroutine that dials, or carried by one socket.  The mapping uses   *)
(* the goroutines and the sockets only: that the table, which the code     *)
(* consults, agrees with them is what is to be shown.                      *)
Session(l) ==
    LET mine == {d \in Datagrams : from[d] = l}
        holders == {d \in mine : Building(d) \/ sock[d] = "open"}
    IN  IF holders = {} THEN Free
        ELSE LET d == CHOOSE h \in holders : TRUE
             IN  [by |-> d, up |-> sock[d] = "open"]

Sessions == INSTANCE UDPSession WITH
    session <- [l \in Clients |-> Session(l)],
    spent <- {d \in Datagrams : pc[d] \notin {"none", "lookup", "await"}}

ImplementsSessions == Sessions!Spec

=============================================================================
