----------------------------- MODULE NodeTests -----------------------------
(***************************************************************************)
(* How cmd/dialer.go tests the nodes of a subscription, a goroutine each,  *)
(* Slots of them at a time: firstAvailableDialer, which calls the rest off *)
(* as soon as one node passes, and testLatencies, which waits for all.     *)
(*                                                                         *)
(* firstAvailableDialer collects passing nodes in a channel that nobody    *)
(* reads before every goroutine has ended, so a full channel would block   *)
(* its sender, and the caller behind it, for ever.                         *)
(***************************************************************************)
EXTENDS Naturals, Sequences, FiniteSets

CONSTANTS
    Nodes,    \* the nodes of the subscription
    Slots,    \* cap(concurrency), and of the result channel
    None      \* no node

ASSUME NodesAssumption ==
    /\ IsFiniteSet(Nodes) /\ None \notin Nodes
    /\ Slots \in Nat \ {0}

VARIABLES
    mode,         \* which of the two functions runs
    pc,           \* where a node's goroutine is
    cancelled,    \* the context of firstAvailableDialer
    result,       \* the channel, or the list of testLatencies
    ret           \* what the function returned, with <<>> before it has

vars == <<mode, pc, cancelled, result, ret>>

(* A goroutine that has left the semaphore: its node was not tested,       *)
(* failed, or is in the result.                                            *)
Ended == {"skipped", "failed", "reported"}

Working == {"request", "doomed", "fails", "passes", "send"}

Verdict == [node : Nodes, ok : BOOLEAN]

InSlot == {n \in Nodes : pc[n] \in Working}

(* The types of the variables; the semaphore is within its capacity.       *)
TypeOK ==
    /\ mode \in {"first", "latencies"}
    /\ pc \in [Nodes -> {"start"} \cup Working \cup Ended]
    /\ Cardinality(InSlot) <= Slots
    /\ cancelled \in BOOLEAN
    /\ result \in Seq(IF mode = "first" THEN Nodes ELSE Verdict)
    /\ ret \in {<<>>} \cup {<<r>> : r \in Nodes \cup {None} \cup {result}}

Init ==
    /\ mode \in {"first", "latencies"}
    /\ pc = [n \in Nodes |-> "start"]
    /\ cancelled = FALSE
    /\ result = <<>>
    /\ ret = <<>>

Goto(n, step) == pc' = [pc EXCEPT ![n] = step]

-----------------------------------------------------------------------------
(* The select may take either branch when both are ready.  A request that  *)
(* is made with a cancelled context fails; one that is under way when the  *)
(* context is cancelled may still be answered.                             *)
Skip(n) ==
    /\ pc[n] = "start"
    /\ mode = "first" /\ cancelled
    /\ Goto(n, "skipped")
    /\ UNCHANGED <<mode, cancelled, result, ret>>

(* Faulty variant: the slot is taken without waiting for a free one.       *)
Acquire_NoWait(n) ==
    /\ pc[n] = "start"
    /\ Goto(n, IF cancelled THEN "doomed" ELSE "request")
    /\ UNCHANGED <<mode, cancelled, result, ret>>

Acquire(n) ==
    /\ pc[n] = "start"
    /\ Cardinality(InSlot) < Slots
    /\ Goto(n, IF cancelled THEN "doomed" ELSE "request")
    /\ UNCHANGED <<mode, cancelled, result, ret>>

(* Dialer.Test: the request is answered with the right status; or not.     *)
TestPasses(n) ==
    /\ pc[n] = "request"
    /\ Goto(n, "passes")
    /\ UNCHANGED <<mode, cancelled, result, ret>>

TestFails(n) ==
    /\ pc[n] \in {"request", "doomed"}
    /\ Goto(n, "fails")
    /\ UNCHANGED <<mode, cancelled, result, ret>>

(* Faulty variants: nothing is called off; a failure calls off the rest.   *)
Cancel_Forgotten(n) ==
    /\ mode = "first"
    /\ pc[n] = "passes"
    /\ Goto(n, "send")
    /\ UNCHANGED <<mode, cancelled, result, ret>>

Failed_Cancels(n) ==
    /\ mode = "first"
    /\ pc[n] = "fails"
    /\ cancelled' = TRUE
    /\ Goto(n, "failed")
    /\ UNCHANGED <<mode, result, ret>>

(* firstAvailableDialer: a node that passes first calls off the others and *)
(* then sends itself; one that fails just leaves.                          *)
Cancel(n) ==
    /\ mode = "first"
    /\ pc[n] = "passes"
    /\ cancelled' = TRUE
    /\ Goto(n, "send")
    /\ UNCHANGED <<mode, result, ret>>

Send(n) ==
    /\ pc[n] = "send"
    /\ Len(result) < Slots
    /\ result' = Append(result, n)
    /\ Goto(n, "reported")
    /\ UNCHANGED <<mode, cancelled, ret>>

Failed(n) ==
    /\ mode = "first"
    /\ pc[n] = "fails"
    /\ Goto(n, "failed")
    /\ UNCHANGED <<mode, cancelled, result, ret>>

(* Faulty variant: as above, only nodes that pass are reported.            *)
Measure_PassingOnly(n) ==
    /\ mode = "latencies"
    /\ pc[n] \in {"passes", "fails"}
    /\ result' = IF pc[n] = "passes" THEN Append(result, [node |-> n, ok |-> TRUE])
                                     ELSE result
    /\ Goto(n, "reported")
    /\ UNCHANGED <<mode, cancelled, ret>>

(* testLatencies: every node is appended, under the mutex, those that fail *)
(* with the latency -1.                                                    *)
Measure(n) ==
    /\ mode = "latencies"
    /\ pc[n] \in {"passes", "fails"}
    /\ result' = Append(result, [node |-> n, ok |-> pc[n] = "passes"])
    /\ Goto(n, "reported")
    /\ UNCHANGED <<mode, cancelled, ret>>

(* wg.Wait returned.                                                       *)
Return ==
    /\ ret = <<>>
    /\ \A n \in Nodes : pc[n] \in Ended
    /\ ret' = CASE mode = "latencies" -> <<result>>
                [] mode = "first" /\ result # <<>> -> <<Head(result)>>
                [] OTHER -> <<None>>
    /\ UNCHANGED <<mode, pc, cancelled, result>>

-----------------------------------------------------------------------------
Step(n) ==
    \/ Skip(n) \/ Acquire(n) \/ TestPasses(n) \/ TestFails(n)
    \/ Cancel(n) \/ Send(n) \/ Failed(n) \/ Measure(n)

Next == Return \/ \E n \in Nodes : Step(n)

Spec == Init /\ [][Next]_vars

(* Goroutines are scheduled, a freed slot goes to those who wait in turn   *)
(* (there are finitely many), and a test ends by its timeout.              *)
FairSpec == Spec /\ WF_vars(Return) /\ \A n \in Nodes : WF_vars(Step(n))

-----------------------------------------------------------------------------
(* The channel always has room for a node that passed: the slots bound how *)
(* many can pass before the first of them calls the others off.            *)
SendNeverBlocks == \A n \in Nodes : pc[n] = "send" => Len(result) < Slots

(* No node is returned only when all of them were tested and failed, and   *)
(* none was called off by a test that did not succeed after all.           *)
NoneMeansAllFailed ==
    mode = "first" /\ ret = <<None>> => \A n \in Nodes : pc[n] = "failed"

(* testLatencies reports every node once, however the goroutines overlap.  *)
EachMeasuredOnce ==
    mode = "latencies" /\ ret # <<>> =>
        /\ Len(ret[1]) = Cardinality(Nodes)
        /\ \A n \in Nodes : \E i \in 1..Len(ret[1]) : ret[1][i].node = n

(* Both functions return.                                                  *)
Returns == <>(ret # <<>>)

=============================================================================
