-------------------------- MODULE Lifecycle_proofs ---------------------------
(* What a relayed connection and a run of gg promise, for every set of exit  *)
(* codes and any number of chunks: first the relay by itself, then that a    *)
(* run implements it, and at last how a run ends.                            *)
EXTENDS Lifecycle, SequenceTheorems, TLAPS

-----------------------------------------------------------------------------
(* The relay of a connection delivers what it was given.                     *)

(* What a copier holds is the next chunk of its own direction.               *)
Holding ==
  \A d \in Dir : copier[d] = "writing" =>
    buf[d] = <<d, Len(got[d]) + 1>> /\ Unread(d)

(* Before the node is dialed nothing has moved or ended.                     *)
NotStarted ==
  phase \in {"none", "accepted"} =>
    \A d \in Dir :
      /\ copier[d] \in {"idle", "ended"}
      /\ got[d] = <<>> /\ ~told[d]
      /\ d = "down" => sent[d] = 0

(* While the relay runs, a copy that ended well met the end of its stream.   *)
EndedWell ==
  phase = "relaying" =>
    \A d \in Dir :
      copier[d] = "ended" /\ ~failed[d] => source[d] # "open" /\ ~Unread(d)

(* Whoever is told that a stream is over will not be contradicted: its       *)
(* sending end is done, or the handler has closed both.                      *)
ToldTruly ==
  \A d \in Dir : told[d] /\ ~failed[d] =>
    ~Unread(d) /\ (source[d] # "open" \/ phase \in {"closed", "cut"})

InOrder ==
  \A d \in Dir :
    /\ got[d] = [i \in 1..Len(got[d]) |-> <<d, i>>]
    /\ Len(got[d]) <= sent[d]

RelayInv == RelayTypeOK /\ InOrder /\ Holding /\ NotStarted /\ EndedWell /\ ToldTruly

USE MaxChunksAssumption DEF Slot

(* One more chunk in order.                                                  *)
LEMMA AppendNext ==
  ASSUME NEW d \in Dir, NEW s \in Seq(Chunk),
         s = [i \in 1..Len(s) |-> <<d, i>>], <<d, Len(s) + 1>> \in Chunk
  PROVE  /\ Append(s, <<d, Len(s) + 1>>) \in Seq(Chunk)
         /\ Len(Append(s, <<d, Len(s) + 1>>)) = Len(s) + 1
         /\ Append(s, <<d, Len(s) + 1>>) = [i \in 1..Len(s) + 1 |-> <<d, i>>]
<1> DEFINE next == <<d, Len(s) + 1>>
           t == Append(s, next)
<1>1. t \in Seq(Chunk) /\ Len(t) = Len(s) + 1
  BY AppendProperties
<1>2. \A i \in 1..Len(s) + 1 : t[i] = <<d, i>>
  <2> TAKE i \in 1..Len(s) + 1
  <2>1. CASE i = Len(s) + 1
    BY <2>1, AppendProperties
  <2>2. CASE i # Len(s) + 1
    <3>1. i \in 1..Len(s)
      BY <2>2, LenProperties
    <3>2. t[i] = s[i]
      BY <3>1, AppendProperties
    <3> QED BY <3>1, <3>2
  <2> QED BY <2>1, <2>2
<1>3. t = [i \in 1..Len(t) |-> t[i]]
  BY <1>1, LenProperties
<1> QED BY <1>1, <1>2, <1>3

LEMMA InitRelayInv == RelayInit => RelayInv
  BY DEF RelayInit, RelayInv, RelayTypeOK, InOrder, Holding, NotStarted, EndedWell,
         ToldTruly, Dir, Unread

(* Each action keeps the invariant.                                          *)
LEMMA SendKeeps == ASSUME RelayInv, NEW d \in Dir, Send(d) PROVE RelayInv'
<1> USE DEF RelayInv, RelayTypeOK, Send, Connected
<1>1. RelayTypeOK'
  BY DEF Dir
<1>2. InOrder'
  BY DEF InOrder
<1>3. Holding' /\ NotStarted' /\ EndedWell' /\ ToldTruly'
  BY DEF Holding, NotStarted, EndedWell, ToldTruly, Unread, Dir
<1> QED BY <1>1, <1>2, <1>3

LEMMA ShutKeeps == ASSUME RelayInv, NEW d \in Dir, Shut(d) \/ Reset(d) PROVE RelayInv'
<1> USE DEF RelayInv, RelayTypeOK, Shut, Reset, Connected
<1>1. RelayTypeOK'
  OBVIOUS
<1>2. InOrder'
  BY DEF InOrder
<1>3. Holding' /\ NotStarted' /\ EndedWell' /\ ToldTruly'
  BY DEF Holding, NotStarted, EndedWell, ToldTruly, Unread, Dir
<1> QED BY <1>1, <1>2, <1>3

LEMMA HandlerKeeps ==
  ASSUME RelayInv, Accept \/ HandlerFails \/ DialSucceeds PROVE RelayInv'
<1> USE DEF RelayInv, RelayTypeOK, Accept, HandlerFails, DialSucceeds
<1>1. RelayTypeOK'
  BY DEF Dir
<1>2. InOrder'
  BY DEF InOrder
<1>3. Holding' /\ NotStarted' /\ EndedWell' /\ ToldTruly'
  BY DEF Holding, NotStarted, EndedWell, ToldTruly, Unread, Dir
<1> QED BY <1>1, <1>2, <1>3

LEMMA ReadKeeps == ASSUME RelayInv, NEW d \in Dir, Read(d) PROVE RelayInv'
<1> USE DEF RelayInv, RelayTypeOK, Read
<1>0. Len(got[d]) \in Nat /\ <<d, Len(got[d]) + 1>> \in Chunk
  BY LenProperties DEF Unread, Chunk, Dir
<1>1. RelayTypeOK'
  BY <1>0
<1>2. InOrder'
  BY DEF InOrder
<1>3. Holding'
  BY <1>0 DEF Holding, Unread
<1>4. NotStarted' /\ EndedWell' /\ ToldTruly'
  BY DEF NotStarted, EndedWell, ToldTruly, Unread
<1> QED BY <1>1, <1>2, <1>3, <1>4

LEMMA WriteKeeps == ASSUME RelayInv, NEW d \in Dir, Write(d) PROVE RelayInv'
<1> USE DEF RelayInv, RelayTypeOK, Write
<1> DEFINE next == <<d, Len(got[d]) + 1>>
<1>0. /\ got[d] \in Seq(Chunk) /\ Len(got[d]) \in Nat
      /\ buf[d] = next /\ next \in Chunk
      /\ got[d] = [i \in 1..Len(got[d]) |-> <<d, i>>]
      /\ Len(got[d]) < sent[d]
  <2>1. got[d] \in Seq(Chunk) /\ Len(got[d]) \in Nat /\ sent[d] \in 0..MaxChunks
    BY LenProperties
  <2>2. buf[d] = next /\ Len(got[d]) < sent[d]
    BY DEF Holding, Unread
  <2>3. next \in Chunk
    BY <2>1, <2>2 DEF Chunk
  <2>4. got[d] = [i \in 1..Len(got[d]) |-> <<d, i>>]
    BY DEF InOrder
  <2> QED BY <2>1, <2>2, <2>3, <2>4
<1>1. got' = [got EXCEPT ![d] = Append(got[d], next)]
  BY <1>0
<1> HIDE DEF Write
<1>2. /\ got'[d] \in Seq(Chunk) /\ Len(got'[d]) = Len(got[d]) + 1
      /\ got'[d] = [i \in 1..Len(got'[d]) |-> <<d, i>>]
  BY <1>0, <1>1, AppendNext
<1>3. \A e \in Dir \ {d} : got'[e] = got[e]
  BY <1>1
<1>4. RelayTypeOK'
  BY <1>1, <1>2 DEF Write
<1>5. InOrder'
  <2> SUFFICES ASSUME NEW e \in Dir
               PROVE  /\ got'[e] = [i \in 1..Len(got'[e]) |-> <<e, i>>]
                      /\ Len(got'[e]) <= sent'[e]
    BY DEF InOrder
  <2>0. sent' = sent /\ sent[d] \in Nat
    BY DEF Write
  <2>1. CASE e = d
    <3>1. Len(got'[d]) <= sent'[d]
      BY <1>0, <1>2, <2>0
    <3>2. got'[d] = [i \in 1..Len(got'[d]) |-> <<d, i>>]
      BY <1>2
    <3> QED BY <2>1, <3>1, <3>2, Zenon
  <2>2. CASE e # d
    BY <1>3, <2>0, <2>2 DEF InOrder
  <2> QED BY <2>1, <2>2
<1>6. Holding' /\ NotStarted' /\ EndedWell' /\ ToldTruly'
  BY <1>0, <1>2, <1>3 DEF Holding, NotStarted, EndedWell, ToldTruly, Unread, Dir, Write
<1> QED BY <1>4, <1>5, <1>6

LEMMA EndKeeps ==
  ASSUME RelayInv, NEW d \in Dir, EndOfFile(d) \/ CopyFails(d) PROVE RelayInv'
<1> USE DEF RelayInv, RelayTypeOK, EndOfFile, CopyFails, CloseWrite
<1>1. RelayTypeOK'
  OBVIOUS
<1>2. InOrder'
  BY DEF InOrder
<1>3. Holding' /\ NotStarted' /\ EndedWell' /\ ToldTruly'
  BY DEF Holding, NotStarted, EndedWell, ToldTruly, Unread, Dir
<1> QED BY <1>1, <1>2, <1>3

LEMMA ReturnKeeps == ASSUME RelayInv, Return \/ Cut PROVE RelayInv'
<1> USE DEF RelayInv, RelayTypeOK, Return, Cut, Ended
<1>1. RelayTypeOK'
  BY DEF Dir
<1>2. InOrder'
  BY DEF InOrder
<1>3. Holding' /\ NotStarted' /\ EndedWell'
  BY DEF Holding, NotStarted, EndedWell, Unread
<1>4. ToldTruly'
  BY DEF ToldTruly, EndedWell, Unread
<1> QED BY <1>1, <1>2, <1>3, <1>4

LEMMA NextKeeps == RelayInv /\ [RelayNext]_relayVars => RelayInv'
<1> SUFFICES ASSUME RelayInv, [RelayNext]_relayVars PROVE RelayInv'
  OBVIOUS
<1>1. CASE RelayNext
  BY <1>1, SendKeeps, ShutKeeps, HandlerKeeps, ReadKeeps, WriteKeeps, EndKeeps,
     ReturnKeeps DEF RelayNext, Handle, Copy
<1>2. CASE UNCHANGED relayVars
  BY <1>2 DEF relayVars, RelayInv, RelayTypeOK, InOrder, Holding, NotStarted,
              EndedWell, ToldTruly, Unread
<1> QED BY <1>1, <1>2

LEMMA RelayInvIntact == RelayInv => StreamsIntact
<1> SUFFICES ASSUME RelayInv, NEW d \in Dir
             PROVE  /\ got[d] = [i \in 1..Len(got[d]) |-> <<d, i>>]
                    /\ Len(got[d]) <= sent[d]
                    /\ told[d] /\ ~failed[d] => Len(got[d]) = sent[d]
  BY DEF StreamsIntact
<1>1. got[d] = [i \in 1..Len(got[d]) |-> <<d, i>>] /\ Len(got[d]) <= sent[d]
  BY DEF RelayInv, InOrder
<1>2. Len(got[d]) \in Nat /\ sent[d] \in Nat
  BY LenProperties DEF RelayInv, RelayTypeOK
<1>3. told[d] /\ ~failed[d] => ~(Len(got[d]) < sent[d])
  BY DEF RelayInv, ToldTruly, Unread
<1> QED BY <1>1, <1>2, <1>3

(* For any number of chunks, what arrives is what was sent, in order, and    *)
(* who is told without an error that a stream is over has all of it: in      *)
(* every interleaving of the two copies of RelayTCP (proxy/tcp.go:45) with   *)
(* both ends and the end of gg.                                              *)
THEOREM RelayDelivers == RelaySpec => []StreamsIntact
  BY InitRelayInv, NextKeeps, RelayInvIntact, PTL DEF RelaySpec

-----------------------------------------------------------------------------
(* Seen from its connection, a run is a relay that is cut at some time.      *)

USE CodesAssumption

LEMMA SocketsClosed == ClosesSockets => [RelayNext]_relayVars
<1> SUFFICES ASSUME ClosesSockets PROVE [RelayNext]_relayVars
  OBVIOUS
<1>1. CASE Connected("up") /\ source["up"] = "open"
  <2>1. Shut("up") \/ Reset("up")
    BY <1>1 DEF ClosesSockets, Shut, Reset
  <2> QED BY <2>1 DEF RelayNext, Dir
<1>2. CASE ~(Connected("up") /\ source["up"] = "open")
  BY <1>2 DEF ClosesSockets, relayVars
<1> QED BY <1>1, <1>2

LEMMA LeftOrClosed == \A other : Leaves(other) => [RelayNext]_relayVars
  BY SocketsClosed DEF Leaves

LEMMA StepIsRelay == [Next]_vars => [RelayNext]_relayVars
<1> SUFFICES ASSUME [Next]_vars PROVE [RelayNext]_relayVars
  OBVIOUS
<1>1. CASE ListenTCP \/ ListenUDP \/ ServeFails
  BY <1>1 DEF ListenTCP, ListenUDP, ServeFails
<1>2. CASE AcceptsNil \/ ClosesTwice \/ NoPort
  BY <1>2 DEF AcceptsNil, ClosesTwice, NoPort, Crash, GGEnds, RelayNext
<1>3. CASE StartProcess \/ StartFails \/ Attach \/ SeeExit \/ SeeCancel \/ TraceCloses
  BY <1>3 DEF StartProcess, StartFails, Attach, SeeExit, SeeCancel, TraceCloses
<1>4. CASE Kill \/ Fork \/ ProgramEnds \/ ChildEnds
  BY <1>4, LeftOrClosed DEF Kill, Fork, ProgramEnds, ChildEnds, relayVars
<1>5. CASE Caller \/ Signal
  BY <1>5 DEF Caller, Wake, NewReturns, WaitReturns, Signal, GGEnds, RelayNext
<1>6. CASE Connect \/ UseConnection \/ Remote \/ Relay
  BY <1>6 DEF Connect, UseConnection, Remote, Relay, RelayNext, Dir
<1>7. CASE UNCHANGED vars
  BY <1>7 DEF vars
<1> QED
  BY <1>1, <1>2, <1>3, <1>4, <1>5, <1>6, <1>7 DEF Next, Tracing, Program

(* The composition implements the relay alone, so what is proved of the      *)
(* relay holds in a run of gg: whatever the program, the tracer and signals  *)
(* do, and whenever gg ends.                                                 *)
THEOREM RunRelays == Spec => RelaySpec
  BY StepIsRelay, PTL DEF Spec, RelaySpec, Init

(* Streams arrive in order and whole in every run (proxy/tcp.go:45).         *)
THEOREM RunDelivers == Spec => []StreamsIntact
  BY RunRelays, RelayDelivers, PTL

-----------------------------------------------------------------------------
(* How a run ends.                                                           *)

LifeTypeOK ==
  /\ serve \in {"tcp", "udp", "serving", "failed", "closing", "over"}
  /\ listener \in {"none", "open", "closed"}
  /\ main \in {"sleeping", "starting", "waiting"} \cup Ends
  /\ tracing \in {"none", "start", "startFailed", "attach", "trace", "returned",
                  "closing", "over"}
  /\ closed \in BOOLEAN
  /\ exitCode \in Statuses \cup {0, 1}
  /\ exitErr \in {None, "listen", "start", "trace", "canceled"}
  /\ cancelled \in BOOLEAN
  /\ program \in {"none", "running", "detached", "ended", "killed"}
  /\ status \in Statuses \cup {0}
  /\ child \in {"none", "running", "ended"}

(* What trace() has left for Wait to return.                                 *)
Outcome ==
  \/ exitErr = "trace"
  \/ program = "ended" /\ exitErr = None /\ exitCode = status
  \/ cancelled /\ exitErr = "canceled" /\ exitCode = 1

(* The process gg started is there once it is started.  When trace() has     *)
(* returned without an error it is gone, and after an error it is killed     *)
(* before the goroutine goes on, be it let go by PtraceDetach or not.  A     *)
(* failure of listening may only turn no error into one.                     *)
TakesCare ==
  /\ tracing \in {"none", "start", "startFailed"} => program = "none"
  /\ tracing = "returned" /\ exitErr = None => ~Alive
  /\ tracing = "closing" => ~Alive
  /\ tracing = "over" /\ main \notin {"crashed", "signalled"} => ~Alive
  /\ program = "killed" => tracing \in {"closing", "over"}

(* While the listeners are well only the tracing goroutine stores a result   *)
(* and closes closed, in this order.                                         *)
LifeInv ==
  /\ LifeTypeOK
  /\ TakesCare
  /\ main = "sleeping" => tracing = "none"
  /\ Listening =>
       /\ tracing \in {"returned", "closing"} \/ closed => Outcome
       /\ closed => tracing = "over"
  /\ main \in {"exited", "fatal"} => closed
  /\ main = "exited" => exitErr \in {None, "canceled"}

LEMMA InitLife == Init => LifeInv
  BY DEF Init, LifeInv, LifeTypeOK, TakesCare, Alive, Listening

LEMMA NextLife == LifeInv /\ [Next]_vars => LifeInv'
<1> SUFFICES ASSUME LifeInv, [Next]_vars PROVE LifeInv'
  OBVIOUS
<1> USE DEF LifeInv, LifeTypeOK, TakesCare, Alive, Listening, Outcome, Statuses, Ends
<1>1. CASE ~Over /\ ListenTCP
  BY <1>1 DEF ListenTCP
<1>2. CASE ~Over /\ ListenUDP
  BY <1>2 DEF ListenUDP
<1>3. CASE ~Over /\ ServeFails
  <2>0. closed' \in BOOLEAN
    BY <1>3, Zenon DEF ServeFails, CloseClosed
  <2>1. LifeTypeOK'
    <3>1. serve' \in {"closing", "over"}
      BY <1>3 DEF ServeFails
    <3>2. exitErr' \in {None, "listen", "start", "trace", "canceled"}
      BY <1>3 DEF ServeFails
    <3>3. exitCode' \in Statuses \cup {0, 1}
      BY <1>3 DEF ServeFails
    <3>4. UNCHANGED <<listener, main, tracing, cancelled, program, status, child>>
      BY <1>3 DEF ServeFails
    <3> QED BY <2>0, <3>1, <3>2, <3>3, <3>4
  <2>2. serve' \notin {"tcp", "udp", "serving"}
    BY <1>3 DEF ServeFails
  <2>3. UNCHANGED <<program, tracing, main>> /\ main \notin {"exited", "fatal"}
    BY <1>3 DEF ServeFails, Over
  <2>4. exitErr' = None => exitErr = None
    BY <1>3 DEF ServeFails
  <2> QED BY <2>1, <2>2, <2>3, <2>4
<1>4. CASE ~Over /\ (AcceptsNil \/ ClosesTwice \/ NoPort)
  BY <1>4 DEF AcceptsNil, ClosesTwice, NoPort, Crash, GGEnds, Stopped
<1>5. CASE ~Over /\ (StartProcess \/ StartFails)
  BY <1>5 DEF StartProcess, StartFails, Over
<1>6. CASE ~Over /\ Attach
  BY <1>6 DEF Attach, TraceReturns, Over
<1>7. CASE ~Over /\ (SeeExit \/ SeeCancel)
  BY <1>7 DEF SeeExit, SeeCancel, TraceReturns, Gone, Over
<1>8. CASE ~Over /\ Kill
  BY <1>8 DEF Kill, Over
<1>9. CASE ~Over /\ TraceCloses
  BY <1>9 DEF TraceCloses, CloseClosed, Over
<1>10. CASE ~Over /\ Caller
  <2>0. main \notin Ends
    BY <1>10 DEF Over
  <2>1. CASE Wake
    BY <1>10, <2>1 DEF Wake
  <2>2. CASE NewReturns
    <3>1. UNCHANGED <<serve, listener, tracing, closed, exitCode, exitErr,
                      cancelled, program, status, child>>
      BY <2>2 DEF NewReturns
    <3>2. main' \in {"waiting", "newFailed"}
      BY <2>2 DEF NewReturns, GGEnds
    <3> QED BY <2>0, <3>1, <3>2
  <2>3. CASE WaitReturns
    <3>1. UNCHANGED <<serve, listener, tracing, closed, exitCode, exitErr,
                      cancelled, program, status, child>>
      BY <2>3 DEF WaitReturns
    <3>2. /\ closed /\ main' \in {"exited", "fatal"}
          /\ main' = "exited" => exitErr \in {None, "canceled"}
      BY <2>3 DEF WaitReturns, GGEnds
    <3> QED BY <2>0, <3>1, <3>2
  <2> QED BY <1>10, <2>1, <2>2, <2>3 DEF Caller
<1>11. CASE ~Over /\ Signal
  <2>1. CASE UNCHANGED <<serve, listener, main, tracing, closed, exitCode, exitErr,
                         program, status, child>>
             /\ ~cancelled /\ cancelled' = TRUE
    BY <2>1
  <2>2. CASE main' = "signalled" /\ Stopped
    BY <2>2 DEF Stopped
  <2> QED BY <1>11, <2>1, <2>2 DEF Signal, GGEnds
<1>12. CASE ~Over /\ (Fork \/ ProgramEnds \/ ChildEnds)
  BY <1>12 DEF Fork, ProgramEnds, ChildEnds, Over
<1>13. CASE UNCHANGED lifeVars
  BY <1>13 DEF lifeVars
<1> QED
  BY <1>1, <1>2, <1>3, <1>4, <1>5, <1>6, <1>7, <1>8, <1>9, <1>10, <1>11, <1>12,
     <1>13 DEF Next, Tracing, Program, Connect, UseConnection, Remote, Relay, vars

LEMMA LifeAlways == Spec => []LifeInv
  BY InitLife, NextLife, PTL DEF Spec

(* Every variable keeps to its values, in every run.                         *)
THEOREM RunTypeCorrect == Spec => []TypeOK
<1>1. RelaySpec => []RelayTypeOK
  <2>1. RelayInv => RelayTypeOK
    BY DEF RelayInv
  <2> QED BY <2>1, InitRelayInv, NextKeeps, PTL DEF RelaySpec
<1>2. LifeInv /\ RelayTypeOK => TypeOK
  BY DEF LifeInv, LifeTypeOK, TypeOK
<1> QED BY <1>1, <1>2, RunRelays, LifeAlways, PTL

(* gg exits with the program's own status, or with 1 after a signal, unless  *)
(* listening has failed: Wait reads what the tracing goroutine stored last   *)
(* (tracer/tracer.go:83-89).                                                 *)
THEOREM StatusPassedOn == Spec => []ExitStatusPassedOn
<1>1. LifeInv => ExitStatusPassedOn
  BY DEF LifeInv, Outcome, ExitStatusPassedOn
<1> QED BY <1>1, LifeAlways, PTL

(* The process gg started outlives neither the tracer's thread nor the wait  *)
(* for its end, whichever way trace() has returned; only a crash, a signal   *)
(* during the start or listeners that failed leave it behind                 *)
(* (tracer/tracer.go:86).  What it has forked may run on.                    *)
THEOREM ProcessNeverLeft == Spec => []ProcessNotLeft
<1>1. LifeInv => ProcessNotLeft
  BY DEF LifeInv, TakesCare, ProcessNotLeft
<1> QED BY <1>1, LifeAlways, PTL

=============================================================================
