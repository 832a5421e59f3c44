--------------------------- MODULE UDPNat_proofs ---------------------------
(***************************************************************************)
(* UDPNat for any number of clients and datagrams: TableAgrees is          *)
(* inductive, and the safety properties follow from it.                    *)
(***************************************************************************)
EXTENDS UDPNat, TLAPS

USE FreeAssumption

IInv == TypeOK /\ TableAgrees

LEMMA InitIInv == Init => IInv
  BY DEF Init, IInv, TypeOK, TableAgrees, HoldersHoldEntry, EntriesHaveHolder,
         LifeCycle, PointersKeepClient, NoNilClose, Building, Relaying, Past

(* A goroutine whose step is enabled has a client.                         *)
LEMMA HasClient ==
    ASSUME IInv, NEW d \in Datagrams, pc[d] # "none"
    PROVE  from[d] \in Clients
  BY DEF IInv, TypeOK, TableAgrees, LifeCycle

LEMMA ReceiveStep ==
    ASSUME IInv, NEW d \in Datagrams, NEW l \in Clients, Receive(d, l)
    PROVE  IInv'
<1>1. TypeOK'
  BY DEF IInv, TypeOK, Receive, Goto
<1>2. HoldersHoldEntry' /\ EntriesHaveHolder'
  BY DEF IInv, TypeOK, TableAgrees, HoldersHoldEntry, EntriesHaveHolder, LifeCycle,
         Receive, Goto, Building, Relaying, Past
<1>3. LifeCycle'
  BY DEF IInv, TypeOK, TableAgrees, LifeCycle, Receive, Goto, Relaying, Past
<1>4. PointersKeepClient'
  BY DEF IInv, TypeOK, TableAgrees, LifeCycle, PointersKeepClient, Receive, Goto,
         Building, Entries
<1> QED
  BY <1>1, <1>2, <1>3, <1>4 DEF IInv, TableAgrees, NoNilClose, Receive

(* The two kinds of entries, told apart without looking into them.         *)
LEMMA EntryKinds ==
    ASSUME NEW d \in Datagrams
    PROVE  /\ Placeholder(d) \in Entries /\ Association(d) \in Entries
           /\ Placeholder(d) # Free /\ Association(d) # Free
           /\ Placeholder(d).by = d /\ ~Placeholder(d).up
           /\ Association(d).by = d /\ Association(d).up
<1>1. Placeholder(d) \in Entries /\ Association(d) \in Entries
  BY DEF Placeholder, Association, Entries
<1>2. Free \notin Entries
  OBVIOUS
<1> QED
  BY <1>1, <1>2 DEF Placeholder, Association

(* A placeholder that was never signalled: Remove signals it, nothing more. *)
LEMMA RemovePlaceholder ==
    ASSUME IInv, NEW d \in Datagrams, Building(d), NEW entry,
           RemoveAndSet(from[d], entry)
    PROVE  /\ nm' = [nm EXCEPT ![from[d]] = entry]
           /\ signalled' = [signalled EXCEPT ![d] = TRUE]
           /\ UNCHANGED <<sock, crashed>>
<1>1. nm[from[d]] = Placeholder(d) /\ ~signalled[d] /\ nm[from[d]] # Free
  BY EntryKinds DEF IInv, TableAgrees, HoldersHoldEntry, LifeCycle, Building, Past
<1> QED
  BY <1>1, EntryKinds DEF RemoveAndSet

(* An association with its relay: Remove closes the socket, nothing more.  *)
LEMMA RemoveAssociation ==
    ASSUME IInv, NEW d \in Datagrams, Relaying(d), NEW entry,
           RemoveAndSet(from[d], entry)
    PROVE  /\ nm' = [nm EXCEPT ![from[d]] = entry]
           /\ sock' = [sock EXCEPT ![d] = "closed"]
           /\ UNCHANGED <<signalled, crashed>>
<1>1. nm[from[d]] = Association(d) /\ nm[from[d]] # Free
  BY EntryKinds DEF IInv, TableAgrees, HoldersHoldEntry
<1> QED
  BY <1>1, EntryKinds DEF RemoveAndSet

LEMMA BuildStep ==
    ASSUME IInv, NEW d \in Datagrams, Build(d)
    PROVE  IInv'
<1>1. TypeOK'
  BY HasClient, EntryKinds DEF IInv, TypeOK, TableAgrees, Build, Goto, Building, Relaying
<1>2. HoldersHoldEntry'
  BY HasClient, EntryKinds DEF IInv, TypeOK, TableAgrees, HoldersHoldEntry, EntriesHaveHolder, LifeCycle,
         Build, Goto, Building, Relaying, Past
<1>3. EntriesHaveHolder'
  BY HasClient, EntryKinds DEF IInv, TypeOK, TableAgrees, HoldersHoldEntry, EntriesHaveHolder, LifeCycle,
         Build, Goto, Building, Relaying, Past
<1>4. LifeCycle'
  BY HasClient, EntryKinds DEF IInv, TypeOK, TableAgrees, HoldersHoldEntry, LifeCycle, Build, Goto, Building, Relaying, Past
<1>5. PointersKeepClient'
  BY HasClient, EntryKinds DEF IInv, TypeOK, TableAgrees, HoldersHoldEntry, EntriesHaveHolder, LifeCycle,
         PointersKeepClient, Build, Goto, Building, Relaying, Past
<1> QED
  BY <1>1, <1>2, <1>3, <1>4, <1>5 DEF IInv, TableAgrees, NoNilClose, Build

LEMMA DialFailsStep ==
    ASSUME IInv, NEW d \in Datagrams, DialFails(d)
    PROVE  IInv'
<1>1. TypeOK'
  BY HasClient, EntryKinds DEF IInv, TypeOK, TableAgrees, DialFails, Goto, Building, Relaying
<1>2. HoldersHoldEntry'
  BY HasClient, EntryKinds DEF IInv, TypeOK, TableAgrees, HoldersHoldEntry, EntriesHaveHolder, LifeCycle,
         DialFails, Goto, Building, Relaying, Past
<1>3. EntriesHaveHolder'
  BY HasClient, EntryKinds DEF IInv, TypeOK, TableAgrees, HoldersHoldEntry, EntriesHaveHolder, LifeCycle,
         DialFails, Goto, Building, Relaying, Past
<1>4. LifeCycle'
  BY HasClient, EntryKinds DEF IInv, TypeOK, TableAgrees, HoldersHoldEntry, LifeCycle, DialFails, Goto, Building, Relaying, Past
<1>5. PointersKeepClient'
  BY HasClient, EntryKinds DEF IInv, TypeOK, TableAgrees, HoldersHoldEntry, EntriesHaveHolder, LifeCycle,
         PointersKeepClient, DialFails, Goto, Building, Relaying, Past
<1> QED
  BY <1>1, <1>2, <1>3, <1>4, <1>5 DEF IInv, TableAgrees, NoNilClose, DialFails

LEMMA DialSucceedsStep ==
    ASSUME IInv, NEW d \in Datagrams, DialSucceeds(d)
    PROVE  IInv'
<1>1. TypeOK'
  BY HasClient, EntryKinds DEF IInv, TypeOK, TableAgrees, DialSucceeds, Goto, Building, Relaying
<1>2. HoldersHoldEntry'
  BY HasClient, EntryKinds DEF IInv, TypeOK, TableAgrees, HoldersHoldEntry, EntriesHaveHolder, LifeCycle,
         DialSucceeds, Goto, Building, Relaying, Past
<1>3. EntriesHaveHolder'
  BY HasClient, EntryKinds DEF IInv, TypeOK, TableAgrees, HoldersHoldEntry, EntriesHaveHolder, LifeCycle,
         DialSucceeds, Goto, Building, Relaying, Past
<1>4. LifeCycle'
  BY HasClient, EntryKinds DEF IInv, TypeOK, TableAgrees, HoldersHoldEntry, LifeCycle, DialSucceeds, Goto, Building, Relaying, Past
<1>5. PointersKeepClient'
  BY HasClient, EntryKinds DEF IInv, TypeOK, TableAgrees, HoldersHoldEntry, EntriesHaveHolder, LifeCycle,
         PointersKeepClient, DialSucceeds, Goto, Building, Relaying, Past
<1> QED
  BY <1>1, <1>2, <1>3, <1>4, <1>5 DEF IInv, TableAgrees, NoNilClose, DialSucceeds

LEMMA AbandonStep ==
    ASSUME IInv, NEW d \in Datagrams, Abandon(d)
    PROVE  IInv'
<1>0. /\ nm' = [nm EXCEPT ![from[d]] = Free]
      /\ signalled' = [signalled EXCEPT ![d] = TRUE]
      /\ UNCHANGED <<sock, crashed>>
  BY RemovePlaceholder DEF Abandon, Building
<1>1. TypeOK'
  BY <1>0, HasClient, EntryKinds DEF IInv, TypeOK, TableAgrees, Abandon, Goto, Building, Relaying
<1>2. HoldersHoldEntry'
  BY <1>0, HasClient, EntryKinds DEF IInv, TypeOK, TableAgrees, HoldersHoldEntry, EntriesHaveHolder, LifeCycle,
         Abandon, Goto, Building, Relaying, Past
<1>3. EntriesHaveHolder'
  BY <1>0, HasClient, EntryKinds DEF IInv, TypeOK, TableAgrees, HoldersHoldEntry, EntriesHaveHolder, LifeCycle,
         Abandon, Goto, Building, Relaying, Past
<1>4. LifeCycle'
  BY <1>0, HasClient, EntryKinds DEF IInv, TypeOK, TableAgrees, HoldersHoldEntry, LifeCycle, Abandon, Goto, Building, Relaying, Past
<1>5. PointersKeepClient'
  BY <1>0, HasClient, EntryKinds DEF IInv, TypeOK, TableAgrees, HoldersHoldEntry, EntriesHaveHolder, LifeCycle,
         PointersKeepClient, Abandon, Goto, Building, Relaying, Past
<1> QED
  BY <1>0, <1>1, <1>2, <1>3, <1>4, <1>5 DEF IInv, TableAgrees, NoNilClose, Abandon

LEMMA PublishStep ==
    ASSUME IInv, NEW d \in Datagrams, Publish(d)
    PROVE  IInv'
<1>0. /\ nm' = [nm EXCEPT ![from[d]] = Association(d)]
      /\ signalled' = [signalled EXCEPT ![d] = TRUE]
      /\ UNCHANGED <<sock, crashed>>
  BY RemovePlaceholder DEF Publish, Building
<1>1. TypeOK'
  BY <1>0, HasClient, EntryKinds DEF IInv, TypeOK, TableAgrees, Publish, Goto, Building, Relaying
<1>2. HoldersHoldEntry'
  BY <1>0, HasClient, EntryKinds DEF IInv, TypeOK, TableAgrees, HoldersHoldEntry, EntriesHaveHolder, LifeCycle,
         Publish, Goto, Building, Relaying, Past
<1>3. EntriesHaveHolder'
  BY <1>0, HasClient, EntryKinds DEF IInv, TypeOK, TableAgrees, HoldersHoldEntry, EntriesHaveHolder, LifeCycle,
         Publish, Goto, Building, Relaying, Past
<1>4. LifeCycle'
  BY <1>0, HasClient, EntryKinds DEF IInv, TypeOK, TableAgrees, HoldersHoldEntry, LifeCycle, Publish, Goto, Building, Relaying, Past
<1>5. PointersKeepClient'
  BY <1>0, HasClient, EntryKinds DEF IInv, TypeOK, TableAgrees, HoldersHoldEntry, EntriesHaveHolder, LifeCycle,
         PointersKeepClient, Publish, Goto, Building, Relaying, Past
<1> QED
  BY <1>0, <1>1, <1>2, <1>3, <1>4, <1>5 DEF IInv, TableAgrees, NoNilClose, Publish

(* Steps on the way to Build, and after the dial: they touch the table,    *)
(* sockets and signals only to look at them.                               *)
LEMMA LocalStep ==
    ASSUME IInv, NEW d \in Datagrams, NEW s,
           pc' = [pc EXCEPT ![d] = s],
           pc[d] \in {"lookup", "await", "countdown", "send"},
           s \in {"lookup", "await", "countdown", "send", "sent", "failed"},
           Past(d) => s \in {"send", "sent", "failed"},
           UNCHANGED <<nm, from, signalled, sock, relay, crashed>>
    PROVE  HoldersHoldEntry' /\ EntriesHaveHolder' /\ LifeCycle' /\ NoNilClose'
<1>1. \A e \in Datagrams : Building(e)' = Building(e) /\ Relaying(e)' = Relaying(e)
  BY DEF IInv, TypeOK, Building, Relaying
<1>2. HoldersHoldEntry' /\ EntriesHaveHolder'
  BY <1>1 DEF IInv, TypeOK, TableAgrees, HoldersHoldEntry, EntriesHaveHolder, Entries,
              Placeholder, Association
<1>3. LifeCycle'
  BY <1>1 DEF IInv, TypeOK, TableAgrees, LifeCycle, Past
<1> QED
  BY <1>2, <1>3 DEF IInv, TableAgrees, NoNilClose

LEMMA FoundStep ==
    ASSUME IInv, NEW d \in Datagrams, Found(d)
    PROVE  IInv'
<1>1. TypeOK'
  BY HasClient DEF IInv, TypeOK, Found, Goto
<1>2. PointersKeepClient'
  BY HasClient DEF IInv, TypeOK, TableAgrees, EntriesHaveHolder, PointersKeepClient,
                   Found, Goto, Building
<1> QED
  BY <1>1, <1>2, LocalStep DEF IInv, TableAgrees, Found, Goto, Past

LEMMA RetryStep ==
    ASSUME IInv, NEW d \in Datagrams, Retry(d)
    PROVE  IInv'
<1>1. TypeOK'
  BY DEF IInv, TypeOK, Retry, Goto
<1>2. PointersKeepClient'
  BY DEF IInv, TypeOK, TableAgrees, PointersKeepClient, Retry, Goto, Building
<1> QED
  BY <1>1, <1>2, LocalStep DEF IInv, TableAgrees, Retry, Goto, Past

LEMMA EstablishedStep ==
    ASSUME IInv, NEW d \in Datagrams, Established(d)
    PROVE  IInv'
<1>1. awaits[d] \in Entries /\ from[awaits[d].by] = from[d] /\ from[d] # Free
  BY HasClient DEF IInv, TypeOK, TableAgrees, PointersKeepClient, Established
<1>2. TypeOK'
  BY <1>1 DEF IInv, TypeOK, Established, Goto, Entries
<1>3. PointersKeepClient'
  BY <1>1 DEF IInv, TypeOK, TableAgrees, PointersKeepClient, Established, Goto,
              Building
<1> QED
  BY <1>2, <1>3, LocalStep DEF IInv, TableAgrees, Established, Goto, Past

LEMMA CountdownStep ==
    ASSUME IInv, NEW d \in Datagrams, Countdown(d)
    PROVE  IInv'
<1>1. TypeOK'
  BY DEF IInv, TypeOK, Countdown, Goto
<1>2. PointersKeepClient'
  BY DEF IInv, TypeOK, TableAgrees, PointersKeepClient, Countdown, Goto, Building
<1> QED
  BY <1>1, <1>2, LocalStep DEF IInv, TableAgrees, Countdown, Goto, Past

LEMMA SendStep ==
    ASSUME IInv, NEW d \in Datagrams, Send(d)
    PROVE  IInv'
<1>1. PICK s \in {"sent", "failed"} : pc' = [pc EXCEPT ![d] = s]
  BY DEF Send, Goto
<1>2. TypeOK'
  BY <1>1 DEF IInv, TypeOK, Send
<1>3. PointersKeepClient'
  BY <1>1 DEF IInv, TypeOK, TableAgrees, PointersKeepClient, Send, Building
<1> QED
  BY <1>1, <1>2, <1>3, LocalStep DEF IInv, TableAgrees, Send, Past

LEMMA RelayEndsStep ==
    ASSUME IInv, NEW d \in Datagrams, RelayEnds(d)
    PROVE  IInv'
<1>1. TypeOK'
  BY HasClient, EntryKinds DEF IInv, TypeOK, TableAgrees, RelayEnds, Goto, Building, Relaying
<1>2. HoldersHoldEntry'
  BY HasClient, EntryKinds DEF IInv, TypeOK, TableAgrees, HoldersHoldEntry, EntriesHaveHolder, LifeCycle,
         RelayEnds, Goto, Building, Relaying, Past
<1>3. EntriesHaveHolder'
  BY HasClient, EntryKinds DEF IInv, TypeOK, TableAgrees, HoldersHoldEntry, EntriesHaveHolder, LifeCycle,
         RelayEnds, Goto, Building, Relaying, Past
<1>4. LifeCycle'
  BY HasClient, EntryKinds DEF IInv, TypeOK, TableAgrees, HoldersHoldEntry, LifeCycle, RelayEnds, Goto, Building, Relaying, Past
<1>5. PointersKeepClient'
  BY HasClient, EntryKinds DEF IInv, TypeOK, TableAgrees, HoldersHoldEntry, EntriesHaveHolder, LifeCycle,
         PointersKeepClient, RelayEnds, Goto, Building, Relaying, Past
<1> QED
  BY <1>1, <1>2, <1>3, <1>4, <1>5 DEF IInv, TableAgrees, NoNilClose, RelayEnds

LEMMA RelayRemovesStep ==
    ASSUME IInv, NEW d \in Datagrams, RelayRemoves(d)
    PROVE  IInv'
<1>0. /\ nm' = [nm EXCEPT ![from[d]] = Free]
      /\ sock' = [sock EXCEPT ![d] = "closed"]
      /\ UNCHANGED <<signalled, crashed>>
  BY RemoveAssociation DEF RelayRemoves, Relaying
<1>1. TypeOK'
  BY <1>0, HasClient, EntryKinds DEF IInv, TypeOK, TableAgrees, RelayRemoves, Goto, Building, Relaying
<1>2. HoldersHoldEntry'
  BY <1>0, HasClient, EntryKinds DEF IInv, TypeOK, TableAgrees, HoldersHoldEntry, EntriesHaveHolder, LifeCycle,
         RelayRemoves, Goto, Building, Relaying, Past
<1>3. EntriesHaveHolder'
  BY <1>0, HasClient, EntryKinds DEF IInv, TypeOK, TableAgrees, HoldersHoldEntry, EntriesHaveHolder, LifeCycle,
         RelayRemoves, Goto, Building, Relaying, Past
<1>4. LifeCycle'
  BY <1>0, HasClient, EntryKinds DEF IInv, TypeOK, TableAgrees, HoldersHoldEntry, LifeCycle, RelayRemoves, Goto, Building, Relaying, Past
<1>5. PointersKeepClient'
  BY <1>0, HasClient, EntryKinds DEF IInv, TypeOK, TableAgrees, HoldersHoldEntry, EntriesHaveHolder, LifeCycle,
         PointersKeepClient, RelayRemoves, Goto, Building, Relaying, Past
<1> QED
  BY <1>0, <1>1, <1>2, <1>3, <1>4, <1>5 DEF IInv, TableAgrees, NoNilClose, RelayRemoves

-----------------------------------------------------------------------------
LEMMA StepIInv ==
    ASSUME IInv, [Next]_vars
    PROVE  IInv'
<1>1. ASSUME NEW d \in Datagrams, Handle(d)
      PROVE  IInv'
  BY <1>1, BuildStep, FoundStep, DialFailsStep, DialSucceedsStep, AbandonStep,
     PublishStep, RetryStep, EstablishedStep, CountdownStep, SendStep DEF Handle
<1>2. ASSUME UNCHANGED vars
      PROVE  IInv'
  BY <1>2 DEF vars, IInv, TypeOK, TableAgrees, HoldersHoldEntry, EntriesHaveHolder,
              LifeCycle, PointersKeepClient, NoNilClose, Building, Relaying, Past
<1> QED
  BY <1>1, <1>2, ReceiveStep, RelayEndsStep, RelayRemovesStep DEF Next

(* The table, the goroutines and the sockets agree in every reachable      *)
(* state, whatever the number of clients and datagrams.                    *)
THEOREM TableAlwaysAgrees == Spec => [](TypeOK /\ TableAgrees)
<1>1. IInv <=> TypeOK /\ TableAgrees
  BY DEF IInv
<1> QED
  BY <1>1, InitIInv, StepIInv, PTL DEF Spec

LEMMA IInvSingle == IInv => OneSocketPerClient
<1> SUFFICES ASSUME IInv,
                    NEW d \in Datagrams, NEW e \in Datagrams,
                    from[d] = from[e],
                    Building(d) \/ sock[d] = "open",
                    Building(e) \/ sock[e] = "open"
             PROVE  d = e
  BY DEF OneSocketPerClient
<1>1. \A h \in {d, e} : nm[from[h]] \in {Placeholder(h), Association(h)}
  BY DEF IInv, TableAgrees, HoldersHoldEntry, LifeCycle, Building
<1> QED
  BY <1>1, EntryKinds

(* The single-flight table: a client has one dial or one socket at a time. *)
THEOREM SingleFlight == Spec => []OneSocketPerClient
  BY IInvSingle, InitIInv, StepIInv, PTL DEF Spec

(* No socket leaks: every open socket has the relay that will close it, or *)
(* the datagram that is about to start one.                                *)
THEOREM SocketsAreOwned == Spec => []NoOrphanSocket
<1>1. IInv => NoOrphanSocket
  BY DEF IInv, TableAgrees, HoldersHoldEntry, LifeCycle, NoOrphanSocket
<1> QED
  BY <1>1, InitIInv, StepIInv, PTL DEF Spec

(* A relay never finds its socket closed or its entry taken by another.    *)
THEOREM RelaysKeepSockets == Spec => []RelayKeepsSocket
<1>1. IInv => RelayKeepsSocket
  BY DEF IInv, TableAgrees, HoldersHoldEntry, Relaying, RelayKeepsSocket
<1> QED
  BY <1>1, InitIInv, StepIInv, PTL DEF Spec

(* A datagram waits only for a dial that is still going to signal it.      *)
THEOREM WaitersAreWoken == Spec => []NoLostWakeup
<1>1. IInv => NoLostWakeup
  BY DEF IInv, TableAgrees, PointersKeepClient, NoLostWakeup
<1> QED
  BY <1>1, InitIInv, StepIInv, PTL DEF Spec

(* A datagram leaves through the socket of its own client.                 *)
THEOREM DatagramsKeepApart == Spec => []OwnSocket
<1>1. IInv => OwnSocket
  BY DEF IInv, TableAgrees, PointersKeepClient, OwnSocket
<1> QED
  BY <1>1, InitIInv, StepIInv, PTL DEF Spec

-----------------------------------------------------------------------------
(* The table implements UDPSession.  A client's session is in the hands of *)
(* the one datagram that dials for it or has an open socket.               *)
Holds(d) == Building(d) \/ sock[d] = "open"

SessionsOfHolders ==
    \A l \in Clients :
        /\ (\A d \in Datagrams : from[d] = l => ~Holds(d)) => Session(l) = Free
        /\ \A d \in Datagrams : from[d] = l /\ Holds(d)
               => Session(l) = [by |-> d, up |-> sock[d] = "open"]

LEMMA SessionOfHolder == IInv => SessionsOfHolders
<1> SUFFICES ASSUME IInv, NEW l \in Clients
             PROVE  /\ (\A d \in Datagrams : from[d] = l => ~Holds(d)) => Session(l) = Free
                    /\ \A d \in Datagrams : from[d] = l /\ Holds(d)
                           => Session(l) = [by |-> d, up |-> sock[d] = "open"]
  BY DEF SessionsOfHolders
<1> DEFINE holders == {d \in {e \in Datagrams : from[e] = l} : Holds(d)}
<1>1. Session(l) = IF holders = {} THEN Free
                   ELSE [by |-> CHOOSE h \in holders : TRUE,
                         up |-> sock[CHOOSE h \in holders : TRUE] = "open"]
  BY DEF Session, Holds
<1>2. ASSUME NEW d \in holders
      PROVE  (CHOOSE h \in holders : TRUE) = d
  <2>1. OneSocketPerClient
    BY IInvSingle
  <2>2. \A e \in holders : e = d
    BY <2>1, HasClient DEF OneSocketPerClient, Holds, IInv, TypeOK, TableAgrees, LifeCycle,
       Building, Past
  <2> QED
    BY <2>2
<1> QED
  BY <1>1, <1>2

LEMMA SessionOfHolderNext == IInv' => SessionsOfHolders'
  BY SessionOfHolder, PTL

(* The variables of UDPSession under the mapping.                          *)
Held == [l \in Clients |-> Session(l)]

Spent == {d \in Datagrams : pc[d] \notin {"none", "lookup", "await"}}

(* A step that leaves the holders of a client alone leaves its session.    *)
LEMMA SessionKept ==
    ASSUME IInv, IInv', NEW l \in Clients,
           \A d \in Datagrams :
               /\ Holds(d)' /\ from'[d] = l <=> Holds(d) /\ from[d] = l
               /\ Holds(d) /\ from[d] = l => sock'[d] = sock[d]
    PROVE  Session(l)' = Session(l)
<1>1. SessionsOfHolders /\ SessionsOfHolders'
  BY SessionOfHolder, SessionOfHolderNext
<1>2. CASE \E d \in Datagrams : Holds(d) /\ from[d] = l
  <2>1. PICK d \in Datagrams : Holds(d) /\ from[d] = l
    BY <1>2
  <2>2. Session(l) = [by |-> d, up |-> sock[d] = "open"]
    BY <1>1, <2>1 DEF SessionsOfHolders
  <2>3. Session(l)' = [by |-> d, up |-> sock'[d] = "open"]
    BY <1>1, <2>1 DEF SessionsOfHolders
  <2> QED
    BY <2>1, <2>2, <2>3
<1>3. CASE \A d \in Datagrams : ~(Holds(d) /\ from[d] = l)
  <2>1. Session(l) = Free
    BY <1>1, <1>3 DEF SessionsOfHolders
  <2>2. Session(l)' = Free
    BY <1>1, <1>3 DEF SessionsOfHolders
  <2> QED
    BY <2>1, <2>2
<1> QED
  BY <1>2, <1>3

(* A goroutine's step towards a dial or after it, which no session sees.   *)
LEMMA UnseenStep ==
    ASSUME IInv, IInv', NEW d \in Datagrams, NEW s,
           pc' = [pc EXCEPT ![d] = s],
           Building(d) <=> s \in {"dial", "dialErr", "dialed"},
           UNCHANGED <<from, sock>>
    PROVE  UNCHANGED Held
<1>1. \A e \in Datagrams : Holds(e)' <=> Holds(e)
  BY DEF IInv, TypeOK, Holds, Building
<1> QED
  BY <1>1, SessionKept DEF Held

LEMMA SpentGrows ==
    ASSUME IInv, NEW d \in Datagrams, NEW s, pc' = [pc EXCEPT ![d] = s],
           s \notin {"none", "lookup", "await"}
    PROVE  Spent' = Spent \cup {d}
  BY DEF IInv, TypeOK, Spent

LEMMA ReceiveUnseen ==
    ASSUME IInv, IInv', NEW d \in Datagrams, NEW l \in Clients, Receive(d, l)
    PROVE  UNCHANGED <<Held, Spent>>
<1>1. \A e \in Datagrams : Holds(e)' <=> Holds(e)
  BY DEF IInv, TypeOK, Holds, Building, Receive, Goto
<1>2. \A e \in Datagrams : Holds(e) => from'[e] = from[e]
  BY DEF IInv, TypeOK, TableAgrees, LifeCycle, Holds, Building, Past, Receive, Goto
<1>3. UNCHANGED Held
  BY <1>1, <1>2, SessionKept DEF Held, Receive
<1>4. UNCHANGED Spent
  BY DEF IInv, TypeOK, Spent, Receive, Goto
<1> QED
  BY <1>3, <1>4

(* Only one client's holders are touched by the steps that remain.         *)
LEMMA OtherSessionsKept ==
    ASSUME IInv, IInv', NEW d \in Datagrams, pc[d] # "none", from' = from,
           \A e \in Datagrams \ {d} : pc'[e] = pc[e] /\ sock'[e] = sock[e]
    PROVE  \A l \in Clients \ {from[d]} : Session(l)' = Session(l)
<1>1. \A e \in Datagrams \ {d} : Holds(e)' <=> Holds(e)
  BY DEF Holds, Building
<1> QED
  BY <1>1, SessionKept

LEMMA HolderIsSession ==
    ASSUME IInv, NEW d \in Datagrams, Holds(d)
    PROVE  /\ from[d] \in Clients
           /\ Held[from[d]] = [by |-> d, up |-> sock[d] = "open"]
           /\ Held[from[d]] \in Entries /\ Held[from[d]] # Free
<1>1. from[d] \in Clients
  BY HasClient DEF Holds, Building, IInv, TableAgrees, LifeCycle, Past
<1>2. Held[from[d]] = [by |-> d, up |-> sock[d] = "open"]
  BY <1>1, SessionOfHolder DEF SessionsOfHolders, Held
<1>3. [by |-> d, up |-> TRUE] \in Entries /\ [by |-> d, up |-> FALSE] \in Entries
  BY DEF Entries
<1>4. Held[from[d]] \in Entries
  <2>1. CASE sock[d] = "open"
    BY <1>2, <1>3, <2>1
  <2>2. CASE sock[d] # "open"
    BY <1>2, <1>3, <2>2
  <2> QED
    BY <2>1, <2>2
<1> QED
  BY <1>1, <1>2, <1>4

LEMMA BuildClaims ==
    ASSUME IInv, IInv', NEW d \in Datagrams, Build(d)
    PROVE  \E l \in Clients : Sessions!Claim(l, d)
<1>1. from[d] \in Clients /\ from' = from
  BY HasClient DEF Build
<1>2. Held[from[d]] = Free
  <2>1. \A e \in Datagrams : from[e] = from[d] => ~Holds(e)
    BY EntryKinds DEF IInv, TableAgrees, HoldersHoldEntry, LifeCycle, Holds, Build, Building
  <2> QED
    BY <1>1, <2>1, SessionOfHolder DEF SessionsOfHolders, Held
<1>3. Session(from[d])' = [by |-> d, up |-> FALSE]
  <2>1. Building(d)' /\ sock'[d] # "open"
    BY DEF IInv, TypeOK, TableAgrees, LifeCycle, Build, Goto, Building, Relaying, Past
  <2> QED
    BY <1>1, <2>1, SessionOfHolderNext DEF SessionsOfHolders, Holds
<1>4. \A l \in Clients \ {from[d]} : Session(l)' = Session(l)
  BY OtherSessionsKept DEF Build, Goto, IInv, TypeOK
<1>5. Held' = [Held EXCEPT ![from[d]] = [by |-> d, up |-> FALSE]]
  BY <1>1, <1>3, <1>4 DEF Held
<1>6. d \notin Spent /\ Spent' = Spent \cup {d}
  BY SpentGrows DEF Build, Goto, Spent
<1> QED
  BY <1>1, <1>2, <1>5, <1>6 DEF Sessions!Claim, Held, Spent

LEMMA OpenedEntry ==
    ASSUME NEW d \in Datagrams, NEW entry \in Entries, entry.by = d
    PROVE  [entry EXCEPT !.up = TRUE] = [by |-> d, up |-> TRUE]
<1> DEFINE opened == [entry EXCEPT !.up = TRUE]
<1>1. opened \in Entries
  BY DEF Entries
<1>2. opened.up = TRUE /\ opened.by = d
  BY DEF Entries
<1> HIDE DEF opened
<1>3. opened = [by |-> opened.by, up |-> opened.up]
  BY <1>1 DEF Entries
<1>4. opened = [by |-> d, up |-> TRUE]
  BY <1>2, <1>3
<1> QED
  BY <1>4 DEF opened

LEMMA DialOpens ==
    ASSUME IInv, IInv', NEW d \in Datagrams, DialSucceeds(d)
    PROVE  \E l \in Clients : Sessions!Open(l)
<1>1. from[d] \in Clients /\ from' = from /\ Building(d)
  BY HasClient DEF DialSucceeds, Building
<1>2. sock[d] # "open"
  BY DEF IInv, TableAgrees, LifeCycle, DialSucceeds, Past
<1>3. Held[from[d]] = [by |-> d, up |-> FALSE] /\ Held[from[d]] # Free
  BY <1>1, <1>2, HolderIsSession DEF Holds
<1>4. Session(from[d])' = [by |-> d, up |-> TRUE]
  <2>1. sock'[d] = "open"
    BY DEF IInv, TypeOK, DialSucceeds
  <2> QED
    BY <1>1, <2>1, SessionOfHolderNext DEF SessionsOfHolders, Holds
<1>5. \A l \in Clients \ {from[d]} : Session(l)' = Session(l)
  BY OtherSessionsKept DEF DialSucceeds, Goto, IInv, TypeOK
<1>6. Held' = [Held EXCEPT ![from[d]].up = TRUE]
  <2>1. Held' = [Held EXCEPT ![from[d]] = [by |-> d, up |-> TRUE]]
    BY <1>1, <1>4, <1>5 DEF Held
  <2>2. [Held[from[d]] EXCEPT !.up = TRUE] = [by |-> d, up |-> TRUE]
    <3>1. Held[from[d]] \in Entries
      BY <1>1, HolderIsSession DEF Holds
    <3>2. Held[from[d]].by = d
      BY <1>3
    <3> HIDE DEF Held
    <3> QED
      BY <3>1, <3>2, OpenedEntry
  <2>3. Held = [l \in Clients |-> Held[l]]
    BY DEF Held
  <2> QED
    BY <1>1, <2>1, <2>2, <2>3
<1>7. UNCHANGED Spent
  BY DEF IInv, TypeOK, Spent, DialSucceeds, Goto
<1>8. ~Held[from[d]].up
  BY <1>3
<1> QED
  BY <1>1, <1>3, <1>6, <1>7, <1>8 DEF Sessions!Open, Held, Spent

(* The holder gives up, or its relay closes the socket.                    *)
LEMMA HolderEnds ==
    ASSUME IInv, IInv', NEW d \in Datagrams, Holds(d), from' = from, ~Holds(d)',
           \A e \in Datagrams \ {d} : pc'[e] = pc[e] /\ sock'[e] = sock[e],
           Spent' = Spent
    PROVE  \E l \in Clients : Sessions!End(l)
<1>1. from[d] \in Clients /\ Held[from[d]] # Free
  BY HolderIsSession
<1>2. \A e \in Datagrams : from'[e] = from[d] => ~Holds(e)'
  <2> SUFFICES ASSUME NEW e \in Datagrams, from[e] = from[d], e # d, Holds(e)'
               PROVE  FALSE
    OBVIOUS
  <2>1. Holds(e)
    BY DEF Holds, Building
  <2> QED
    BY <1>1, <2>1, IInvSingle DEF OneSocketPerClient, Holds, IInv
<1>3. Session(from[d])' = Free
  BY <1>1, <1>2, SessionOfHolderNext DEF SessionsOfHolders
<1>4. \A l \in Clients \ {from[d]} : Session(l)' = Session(l)
  BY OtherSessionsKept DEF Holds, Building, IInv, TableAgrees, LifeCycle, Past
<1>5. Held' = [Held EXCEPT ![from[d]] = Free]
  BY <1>1, <1>3, <1>4 DEF Held
<1> QED
  BY <1>1, <1>5 DEF Sessions!End, Held, Spent

LEMMA AbandonEnds ==
    ASSUME IInv, IInv', NEW d \in Datagrams, Abandon(d)
    PROVE  \E l \in Clients : Sessions!End(l)
<1>1. Building(d) /\ UNCHANGED sock
  BY RemovePlaceholder DEF Abandon, Building
<1>2. ~Holds(d)'
  BY <1>1 DEF IInv, TypeOK, TableAgrees, LifeCycle, Abandon, Goto, Holds, Building, Relaying, Past
<1>3. Spent' = Spent
  BY DEF IInv, TypeOK, Spent, Abandon, Goto
<1> QED
  BY <1>1, <1>2, <1>3, HolderEnds DEF IInv, TypeOK, Abandon, Goto, Holds

LEMMA RemovalEnds ==
    ASSUME IInv, IInv', NEW d \in Datagrams, RelayRemoves(d)
    PROVE  \E l \in Clients : Sessions!End(l)
<1>1. Relaying(d) /\ sock' = [sock EXCEPT ![d] = "closed"]
  BY RemoveAssociation DEF RelayRemoves, Relaying
<1>2. sock[d] = "open" /\ Past(d)
  BY <1>1 DEF IInv, TableAgrees, HoldersHoldEntry, LifeCycle, Relaying
<1>3. ~Holds(d)'
  BY <1>1, <1>2 DEF IInv, TypeOK, RelayRemoves, Holds, Building, Past
<1>4. Spent' = Spent
  BY DEF Spent, RelayRemoves
<1> QED
  BY <1>1, <1>2, <1>3, <1>4, HolderEnds DEF IInv, TypeOK, RelayRemoves, Holds

(* The steps between critical sections that no client can tell apart.      *)
LEMMA PublishUnseen ==
    ASSUME IInv, IInv', NEW d \in Datagrams, Publish(d)
    PROVE  UNCHANGED <<Held, Spent>>
<1>1. Building(d) /\ UNCHANGED sock
  BY RemovePlaceholder DEF Publish, Building
<1>2. \A e \in Datagrams : Holds(e)' <=> Holds(e)
  BY <1>1 DEF IInv, TypeOK, TableAgrees, LifeCycle, Publish, Goto, Holds, Building
<1>3. UNCHANGED Held
  BY <1>1, <1>2, SessionKept DEF Held, Publish
<1>4. UNCHANGED Spent
  BY DEF IInv, TypeOK, Spent, Publish, Goto
<1> QED
  BY <1>3, <1>4

LEMMA WaitingUnseen ==
    ASSUME IInv, IInv', NEW d \in Datagrams,
           Found(d) \/ DialFails(d) \/ Retry(d) \/ Countdown(d) \/ Send(d)
    PROVE  UNCHANGED <<Held, Spent>>
<1>1. PICK s : /\ pc' = [pc EXCEPT ![d] = s]
               /\ Building(d) <=> s \in {"dial", "dialErr", "dialed"}
               /\ d \in Spent <=> s \notin {"none", "lookup", "await"}
               /\ UNCHANGED <<from, sock>>
  BY DEF Found, DialFails, Retry, Countdown, Send, Goto, Building, Spent
<1>2. UNCHANGED Held
  BY <1>1, UnseenStep
<1>3. UNCHANGED Spent
  BY <1>1 DEF IInv, TypeOK, Spent
<1> QED
  BY <1>2, <1>3

LEMMA EstablishedJoins ==
    ASSUME IInv, IInv', NEW d \in Datagrams, Established(d)
    PROVE  Sessions!Join(d)
<1>1. UNCHANGED Held
  BY UnseenStep DEF Established, Goto, Building
<1>2. d \notin Spent /\ Spent' = Spent \cup {d}
  BY SpentGrows DEF Established, Goto, Spent
<1> QED
  BY <1>1, <1>2 DEF Sessions!Join, Held, Spent

LEMMA InitImplements == Init => Sessions!Init
<1> SUFFICES ASSUME Init PROVE Sessions!Init
  OBVIOUS
<1>1. \A d \in Datagrams : ~Holds(d)
  BY DEF Init, Holds, Building
<1>2. \A l \in Clients : Session(l) = Free
  BY <1>1, InitIInv, SessionOfHolder DEF SessionsOfHolders
<1> QED
  BY <1>2 DEF Init, Sessions!Init

LEMMA StepImplements ==
    ASSUME IInv, IInv', [Next]_vars
    PROVE  [Sessions!Next]_<<Held, Spent>>
<1>1. ASSUME NEW d \in Datagrams, Handle(d)
      PROVE  Sessions!Next \/ UNCHANGED <<Held, Spent>>
  BY <1>1, BuildClaims, DialOpens, AbandonEnds, PublishUnseen, WaitingUnseen,
     EstablishedJoins DEF Handle, Sessions!Next
<1>2. ASSUME NEW d \in Datagrams, RelayRemoves(d)
      PROVE  Sessions!Next
  BY <1>2, RemovalEnds DEF Sessions!Next
<1>3. ASSUME UNCHANGED <<nm, from, pc, sock>>
      PROVE  UNCHANGED <<Held, Spent>>
  BY <1>3 DEF Held, Session, Building, Spent
<1>4. UNCHANGED vars \/ (\E d \in Datagrams : RelayEnds(d)) => UNCHANGED <<nm, from, pc, sock>>
  BY DEF vars, RelayEnds
<1> QED
  BY <1>1, <1>2, <1>3, <1>4, ReceiveUnseen DEF Next

(* The association table implements the sessions that clients are promised *)
(* (the safety of UDPSession), whatever the number of clients, datagrams   *)
(* and dials under way.                                                    *)
THEOREM TableImplementsSessions == Spec => ImplementsSessions
<1>1. [Sessions!Next]_<<Held, Spent>> => [Sessions!Next]_<<[l \in Clients |-> Session(l)],
             {d \in Datagrams : pc[d] \notin {"none", "lookup", "await"}}>>
  BY DEF Held, Spent
<1> QED
  BY <1>1, InitImplements, StepImplements, InitIInv, StepIInv, PTL
  DEF Spec, ImplementsSessions, Sessions!Spec

=============================================================================
