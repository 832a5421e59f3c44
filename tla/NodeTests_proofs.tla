-------------------------- MODULE NodeTests_proofs --------------------------
(***************************************************************************)
(* NodeTests for any number of nodes and slots.  The argument is one of    *)
(* counting: the nodes that passed or still may are never more than the    *)
(* slots, because until the first of them sends itself they all hold one,  *)
(* and from then on no other node joins them.                              *)
(***************************************************************************)
EXTENDS NodeTests, FiniteSetTheorems, TLAPS

USE NodesAssumption

Candidates == {n \in Nodes : pc[n] \in {"request", "passes", "send", "reported"}}

Reported == {n \in Nodes : pc[n] = "reported"}

Typed ==
    /\ mode \in {"first", "latencies"}
    /\ pc \in [Nodes -> {"start"} \cup Working \cup Ended]
    /\ cancelled \in BOOLEAN
    /\ result \in Seq(IF mode = "first" THEN Nodes ELSE Verdict)

(* Nobody sends before the context is cancelled, and a node that is called *)
(* off has another one to thank for it.                                    *)
CancelledBySender ==
    /\ \A n \in Nodes : pc[n] \in {"skipped", "doomed", "send"} => cancelled
    /\ \A n \in Nodes : mode = "first" /\ pc[n] = "reported" => cancelled
    /\ cancelled => \E n \in Nodes : pc[n] \in {"send", "reported"}
    /\ mode = "latencies" => ~cancelled

Counted ==
    /\ Cardinality(InSlot) <= Slots
    /\ mode = "first" => Cardinality(Candidates) <= Slots
    /\ Len(result) = Cardinality(Reported)

(* What the list of testLatencies holds, and what was returned.            *)
ListComplete ==
    mode = "latencies" =>
        \A n \in Nodes : pc[n] = "reported" => \E i \in 1..Len(result) : result[i].node = n

Returned ==
    ret # <<>> =>
        /\ \A n \in Nodes : pc[n] \in Ended
        /\ mode = "latencies" => ret = <<result>>
        /\ mode = "first" /\ result # <<>> => ret = <<Head(result)>>
        /\ mode = "first" /\ result = <<>> => ret = <<None>>

OnlyOwnEnds ==
    /\ mode = "latencies" => \A n \in Nodes : pc[n] \notin {"failed", "skipped"}

IInv ==
    /\ Typed
    /\ CancelledBySender
    /\ Counted
    /\ ListComplete
    /\ Returned
    /\ OnlyOwnEnds

(* Sets of nodes are finite, and the smaller one has fewer of them.        *)
LEMMA Sizes ==
    ASSUME NEW S \in SUBSET Nodes, NEW T \in SUBSET S
    PROVE  /\ IsFiniteSet(S) /\ IsFiniteSet(T)
           /\ Cardinality(S) \in Nat /\ Cardinality(T) \in Nat
           /\ Cardinality(T) <= Cardinality(S)
<1>1. IsFiniteSet(S) /\ IsFiniteSet(T)
  BY FS_Subset
<1> QED
  BY <1>1, FS_Subset, FS_CardinalityType

LEMMA OneMore ==
    ASSUME NEW S \in SUBSET Nodes, NEW n \in Nodes
    PROVE  /\ Cardinality(S) \in Nat
           /\ Cardinality(S \cup {n}) =
                 IF n \in S THEN Cardinality(S) ELSE Cardinality(S) + 1
<1>1. IsFiniteSet(S)
  BY FS_Subset
<1> QED
  BY <1>1, FS_AddElement, FS_CardinalityType

LEMMA InitIInv == Init => IInv
<1> SUFFICES ASSUME Init PROVE IInv
  OBVIOUS
<1>1. InSlot = {} /\ Candidates = {} /\ Reported = {}
  BY DEF Init, InSlot, Candidates, Reported, Working
<1>2. Cardinality({}) = 0
  BY FS_EmptySet
<1>3. Counted
  BY <1>1, <1>2 DEF Counted, Init
<1>4. Typed
  <2>1. \A S : <<>> \in Seq(S)
    OBVIOUS
  <2> QED
    BY <2>1 DEF Init, Typed
<1>5. CancelledBySender /\ ListComplete /\ Returned /\ OnlyOwnEnds
  BY DEF Init, CancelledBySender, ListComplete, Returned, OnlyOwnEnds
<1> QED
  BY <1>3, <1>4, <1>5 DEF IInv

(* Once it has returned nothing moves: all goroutines have ended.          *)
LEMMA RunningMoves ==
    ASSUME IInv, NEW n \in Nodes, Step(n)
    PROVE  ret = <<>>
<1>1. pc[n] \in {"start"} \cup Working
  BY DEF Step, Skip, Acquire, TestPasses, TestFails, Cancel, Send, Failed, Measure, Working
<1>2. ~(\A m \in Nodes : pc[m] \in Ended)
  BY <1>1 DEF Working, Ended
<1> QED
  BY <1>2 DEF IInv, Returned

(* The counts after a step that moves a goroutine without reporting it.    *)
LEMMA NothingReported ==
    ASSUME IInv, NEW n \in Nodes, NEW step \in {"start"} \cup Working \cup Ended,
           pc' = [pc EXCEPT ![n] = step], UNCHANGED <<mode, result>>,
           step # "reported", pc[n] # "reported",
           step \in Working => pc[n] \in Working,
           step \in {"request", "passes", "send"} =>
               pc[n] \in {"request", "passes", "send"}
    PROVE  Counted'
<1>1. InSlot' \subseteq InSlot /\ Candidates' \subseteq Candidates /\ Reported' = Reported
  BY DEF IInv, Typed, InSlot, Candidates, Reported
<1>2. InSlot \subseteq Nodes /\ Candidates \subseteq Nodes /\ Reported \subseteq Nodes
  BY DEF InSlot, Candidates, Reported
<1>3. Cardinality(InSlot') <= Slots
  BY <1>1, <1>2, Sizes DEF IInv, Counted
<1>4. mode = "first" => Cardinality(Candidates') <= Slots
  BY <1>1, <1>2, Sizes DEF IInv, Counted
<1> QED
  BY <1>1, <1>3, <1>4 DEF IInv, Counted

LEMMA AcquireStep ==
    ASSUME IInv, NEW n \in Nodes, Acquire(n)
    PROVE  IInv'
<1> DEFINE step == IF cancelled THEN "doomed" ELSE "request"
<1>1. pc' = [pc EXCEPT ![n] = step] /\ pc[n] = "start"
      /\ UNCHANGED <<mode, cancelled, result, ret>>
  BY DEF Acquire, Goto
<1>2. InSlot' = InSlot \cup {n} /\ n \notin InSlot /\ Reported' = Reported
  BY <1>1 DEF IInv, Typed, InSlot, Reported, Working
<1>3. Cardinality(InSlot') <= Slots
  <2>1. InSlot \in SUBSET Nodes
    BY DEF InSlot
  <2> QED
    BY <1>2, <2>1, OneMore DEF Acquire
<1>4. mode = "first" => Cardinality(Candidates') <= Slots
  <2>1. CASE cancelled
    BY <2>1, <1>1 DEF IInv, Typed, Counted, Candidates
  <2>2. CASE ~cancelled
    <3>1. mode = "first" => Candidates' \subseteq InSlot'
      BY <2>2, <1>1 DEF IInv, Typed, CancelledBySender, Candidates, InSlot, Working
    <3>2. InSlot' \in SUBSET Nodes
      BY DEF InSlot
    <3> QED
      BY <1>3, <3>1, <3>2, Sizes
  <2> QED
    BY <2>1, <2>2
<1>5. Counted'
  BY <1>1, <1>2, <1>3, <1>4 DEF IInv, Counted
<1>6. Typed'
  BY <1>1 DEF IInv, Typed, Working
<1>7. CancelledBySender'
  BY <1>1 DEF IInv, Typed, CancelledBySender
<1>8. ret = <<>>
  BY RunningMoves DEF Step
<1>9. ListComplete' /\ Returned' /\ OnlyOwnEnds'
  BY <1>1, <1>8 DEF IInv, Typed, ListComplete, Returned, OnlyOwnEnds
<1> QED
  BY <1>5, <1>6, <1>7, <1>9 DEF IInv

LEMMA TestStep ==
    ASSUME IInv, NEW n \in Nodes, TestPasses(n) \/ TestFails(n)
    PROVE  IInv'
<1>1. PICK step \in {"passes", "fails"} :
          /\ pc' = [pc EXCEPT ![n] = step]
          /\ pc[n] \in {"request", "doomed"}
          /\ step = "passes" => pc[n] = "request"
          /\ UNCHANGED <<mode, cancelled, result, ret>>
  BY DEF TestPasses, TestFails, Goto
<1>2. Counted'
  BY <1>1, NothingReported DEF Working
<1>3. Typed' /\ CancelledBySender'
  BY <1>1 DEF IInv, Typed, CancelledBySender, Working
<1>4. ret = <<>>
  BY RunningMoves DEF Step
<1>5. ListComplete' /\ Returned' /\ OnlyOwnEnds'
  BY <1>1, <1>4 DEF IInv, Typed, ListComplete, Returned, OnlyOwnEnds
<1> QED
  BY <1>2, <1>3, <1>5 DEF IInv

(* Leaving without a result, or on the way to one.                         *)
LEMMA MoveOnStep ==
    ASSUME IInv, NEW n \in Nodes, Skip(n) \/ Cancel(n) \/ Failed(n)
    PROVE  IInv'
<1>1. PICK step \in {"skipped", "send", "failed"} :
          /\ mode = "first"
          /\ pc' = [pc EXCEPT ![n] = step]
          /\ pc[n] \in {"start", "passes", "fails"}
          /\ step = "skipped" => cancelled /\ UNCHANGED cancelled
          /\ step = "send" => pc[n] = "passes" /\ cancelled'
          /\ step = "failed" => UNCHANGED cancelled
          /\ UNCHANGED <<mode, result, ret>>
  BY DEF Skip, Cancel, Failed, Goto
<1>2. Counted'
  BY <1>1, NothingReported DEF Working, Ended
<1>3. Typed'
  BY <1>1 DEF IInv, Typed, Working, Ended
<1>4. CancelledBySender'
  BY <1>1 DEF IInv, Typed, CancelledBySender
<1>5. ret = <<>>
  BY RunningMoves DEF Step
<1>6. ListComplete' /\ Returned' /\ OnlyOwnEnds'
  BY <1>1, <1>5 DEF IInv, Typed, ListComplete, Returned, OnlyOwnEnds
<1> QED
  BY <1>2, <1>3, <1>4, <1>6 DEF IInv

(* Reporting keeps the candidates and adds to both sides of the count.     *)
LEMMA ReportStep ==
    ASSUME IInv, NEW n \in Nodes, Send(n) \/ Measure(n)
    PROVE  IInv'
<1> DEFINE item == IF mode = "first" THEN n ELSE [node |-> n, ok |-> pc[n] = "passes"]
<1>1. /\ pc' = [pc EXCEPT ![n] = "reported"]
      /\ pc[n] \in {"send", "passes", "fails"}
      /\ pc[n] = "send" <=> mode = "first"
      /\ result' = Append(result, item)
      /\ UNCHANGED <<mode, cancelled, ret>>
  <2>1. CASE Send(n)
    <3>1. mode = "first"
      BY <2>1 DEF IInv, Typed, CancelledBySender, Send
    <3> QED
      BY <2>1, <3>1 DEF Send, Goto
  <2>2. CASE Measure(n)
    BY <2>2 DEF Measure, Goto
  <2> QED
    BY <2>1, <2>2
<1>2. /\ item \in IF mode = "first" THEN Nodes ELSE Verdict
      /\ mode = "latencies" => item.node = n
  BY DEF IInv, Typed, Verdict
<1> HIDE DEF item
<1>3. Typed'
  BY <1>1, <1>2 DEF IInv, Typed, Ended
<1>4. /\ Len(result') = Len(result) + 1
      /\ result'[Len(result')] = item
      /\ \A i \in 1..Len(result) : result'[i] = result[i]
      /\ Len(result) \in Nat
  BY <1>1, <1>2 DEF IInv, Typed
<1>5. Counted'
  <2>1. /\ InSlot' \subseteq InSlot
        /\ mode = "first" => Candidates' = Candidates
        /\ Reported' = Reported \cup {n}
        /\ n \notin Reported
    BY <1>1 DEF IInv, Typed, InSlot, Candidates, Reported, Working
  <2>2. InSlot \in SUBSET Nodes /\ Reported \in SUBSET Nodes
    BY DEF InSlot, Reported
  <2>3. Cardinality(InSlot') <= Slots
    BY <2>1, <2>2, Sizes DEF IInv, Counted
  <2>4. Cardinality(Reported') = Cardinality(Reported) + 1
    BY <2>1, <2>2, OneMore
  <2> QED
    BY <1>1, <1>4, <2>1, <2>3, <2>4 DEF IInv, Counted
<1>6. CancelledBySender'
  BY <1>1 DEF IInv, Typed, CancelledBySender
<1>7. ListComplete'
  <2> SUFFICES ASSUME mode = "latencies", NEW m \in Nodes, pc'[m] = "reported"
               PROVE  \E i \in 1..Len(result') : result'[i].node = m
    BY <1>1 DEF ListComplete
  <2>1. CASE m = n
    BY <2>1, <1>2, <1>4
  <2>2. CASE m # n
    BY <2>2, <1>1, <1>4 DEF IInv, Typed, ListComplete
  <2> QED
    BY <2>1, <2>2
<1>8. ret = <<>>
  BY RunningMoves DEF Step
<1>9. Returned' /\ OnlyOwnEnds'
  BY <1>1, <1>8 DEF IInv, Typed, Returned, OnlyOwnEnds
<1> QED
  BY <1>3, <1>5, <1>6, <1>7, <1>9 DEF IInv

LEMMA ReturnStep == IInv /\ Return => IInv'
<1> SUFFICES ASSUME IInv, Return PROVE IInv'
  OBVIOUS
<1>1. Counted'
  BY DEF IInv, Counted, InSlot, Candidates, Reported, Return
<1>2. Returned'
  BY DEF Returned, Return, Ended
<1> QED
  BY <1>1, <1>2 DEF IInv, Typed, CancelledBySender, ListComplete, OnlyOwnEnds, Return

LEMMA NextIInv == IInv /\ [Next]_vars => IInv'
<1> SUFFICES ASSUME IInv, [Next]_vars PROVE IInv'
  OBVIOUS
<1>1. CASE UNCHANGED vars
  BY <1>1 DEF vars, IInv, Typed, CancelledBySender, Counted, ListComplete, Returned,
              OnlyOwnEnds, InSlot, Candidates, Reported
<1>2. CASE Return
  BY <1>2, ReturnStep
<1>3. ASSUME NEW n \in Nodes, Step(n) PROVE IInv'
  BY <1>3, AcquireStep, TestStep, MoveOnStep, ReportStep DEF Step
<1> QED
  BY <1>1, <1>2, <1>3 DEF Next

LEMMA Invariant == Spec => []IInv
  BY InitIInv, NextIInv, PTL DEF Spec

(* The types of the channel, of the list and of what is returned, and that *)
(* no more nodes are tested at a time than there are slots.                *)
THEOREM TypeCorrect == Spec => []TypeOK
<1>1. ASSUME IInv PROVE TypeOK
  <2>1. ret \in {<<>>} \cup {<<r>> : r \in Nodes \cup {None} \cup {result}}
    <3>1. mode = "first" /\ result # <<>> => Head(result) \in Nodes
      BY <1>1 DEF IInv, Typed
    <3>2. ret = <<>> \/ ret = <<result>> \/ ret = <<None>>
          \/ (mode = "first" /\ result # <<>> /\ ret = <<Head(result)>>)
      BY <1>1 DEF IInv, Typed, Returned
    <3> QED
      BY <3>1, <3>2
  <2> QED
    BY <1>1, <2>1 DEF IInv, Typed, Counted, TypeOK
<1> QED
  BY <1>1, Invariant, PTL

(* Whatever the number of nodes, and however their goroutines and the      *)
(* cancellation overlap, a node that passed finds room in the channel.     *)
THEOREM RoomForEveryPass == Spec => []SendNeverBlocks
<1>1. ASSUME IInv PROVE SendNeverBlocks
  <2> SUFFICES ASSUME NEW n \in Nodes, pc[n] = "send" PROVE Len(result) < Slots
    BY DEF SendNeverBlocks
  <2>1. mode = "first"
    BY <1>1 DEF IInv, Typed, CancelledBySender
  <2>2. n \notin Reported /\ Reported \cup {n} \subseteq Candidates
        /\ Reported \in SUBSET Nodes /\ Candidates \in SUBSET Nodes
    BY DEF Reported, Candidates
  <2>3. Cardinality(Reported \cup {n}) = Cardinality(Reported) + 1
        /\ Cardinality(Reported) \in Nat
    BY <2>2, OneMore
  <2>4. Cardinality(Reported \cup {n}) <= Cardinality(Candidates)
        /\ Cardinality(Candidates) \in Nat
    BY <2>2, Sizes
  <2> QED
    BY <1>1, <2>1, <2>3, <2>4 DEF IInv, Counted
<1> QED
  BY <1>1, Invariant, PTL

(* firstAvailableDialer gives up only when every single node failed.       *)
THEOREM NoneOverlooked == Spec => []NoneMeansAllFailed
<1>1. ASSUME IInv PROVE NoneMeansAllFailed
  <2> SUFFICES ASSUME mode = "first", ret = <<None>>, NEW n \in Nodes
               PROVE  pc[n] = "failed"
    BY DEF NoneMeansAllFailed
  <2>1. ret # <<>>
    OBVIOUS
  <2>2. result = <<>>
    BY <1>1, <2>1 DEF IInv, Typed, Returned
  <2>3. Reported = {}
    <3>1. IsFiniteSet(Reported) /\ Cardinality(Reported) = 0
      BY <1>1, <2>2, FS_Subset DEF IInv, Counted, Reported
    <3> QED
      BY <3>1, FS_EmptySet
  <2>4. \A m \in Nodes : pc[m] \in Ended /\ pc[m] # "reported"
    BY <1>1, <2>1, <2>3 DEF IInv, Returned, Reported
  <2>5. ~cancelled
    BY <1>1, <2>4 DEF IInv, CancelledBySender, Ended
  <2> QED
    BY <1>1, <2>4, <2>5 DEF IInv, CancelledBySender, Ended
<1> QED
  BY <1>1, Invariant, PTL

(* The list testLatencies returns has every node in it exactly once.       *)
THEOREM AllMeasured == Spec => []EachMeasuredOnce
<1>1. ASSUME IInv PROVE EachMeasuredOnce
  <2> SUFFICES ASSUME mode = "latencies", ret # <<>>
               PROVE  /\ Len(ret[1]) = Cardinality(Nodes)
                      /\ \A n \in Nodes : \E i \in 1..Len(ret[1]) : ret[1][i].node = n
    BY DEF EachMeasuredOnce
  <2>1. \A n \in Nodes : pc[n] = "reported"
    BY <1>1 DEF IInv, Returned, OnlyOwnEnds, Ended
  <2>2. Reported = Nodes
    BY <2>1 DEF Reported
  <2>3. ret[1] = result
    BY <1>1 DEF IInv, Returned
  <2> QED
    BY <1>1, <2>1, <2>2, <2>3 DEF IInv, Counted, ListComplete
<1> QED
  BY <1>1, Invariant, PTL

=============================================================================
