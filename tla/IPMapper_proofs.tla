-------------------------- MODULE IPMapper_proofs --------------------------
(***************************************************************************)
(* What IPMapper guarantees for every pool and every set of targets.       *)
(* The typing and ForwardInverse need no bound on the targets; RoundTrip   *)
(* and the refinement need Fits, and an invariant that counts: the last    *)
(* allocated offset is the number of targets allocated so far, hence a     *)
(* pool that fits never wraps.                                             *)
(***************************************************************************)
EXTENDS IPMapper, FiniteSetTheorems, TLAPS

USE PoolAssumption

(* The address a new target gets is one of the pool's.                     *)
LEMMA NextAddrInPool ==
    ASSUME TypeOK
    PROVE  /\ NextAddr \in Addrs /\ NextAddr \in Prefix
           /\ NextAddr # NoAddr
  BY DEF TypeOK, NextAddr, Addrs, Prefix

(* The address of a known target stands for something, if only for the     *)
(* target that a wrapped pool put there later.                             *)
Occupied == \A t \in Targets : Known(t) => mapper[revMapper[t]] # NoTarget

(* What a caller of Alloc gets and what it leaves alone.                   *)
LEMMA AllocStep ==
    ASSUME TypeOK, Occupied, NEW t \in Targets, Alloc(t)
    PROVE  /\ TypeOK' /\ Occupied'
           /\ AllocAddr(t) \in Addrs
           /\ revMapper'[t] = AllocAddr(t)
           /\ \A u \in Targets : Known(u) => revMapper'[u] = revMapper[u]
<1>1. CASE AllocKnown(t)
  BY <1>1 DEF AllocKnown, Known, AllocAddr, mapVars, TypeOK, Occupied
<1>2. CASE AllocNew(t)
  <2>1. AllocAddr(t) = NextAddr /\ NextAddr \in Addrs /\ NextAddr \in Prefix
    BY <1>2, NextAddrInPool DEF AllocNew, AllocAddr
  <2>2. TypeOK'
    BY <1>2, <2>1 DEF AllocNew, TypeOK
  <2>3. ASSUME NEW u \in Targets, Known(u)'
        PROVE  mapper'[revMapper'[u]] # NoTarget
    <3>1. CASE u = t
      BY <1>2, <2>1, <3>1 DEF AllocNew, TypeOK
    <3>2. CASE u # t
      <4>1. revMapper'[u] = revMapper[u] /\ revMapper[u] \in Prefix
        BY <1>2, <2>3, <3>2 DEF AllocNew, TypeOK, Known, Addrs, Prefix
      <4>2. mapper[revMapper[u]] # NoTarget
        BY <2>3, <4>1 DEF Occupied, Known
      <4> QED
        BY <1>2, <2>1, <4>1, <4>2 DEF AllocNew, TypeOK
    <3> QED
      BY <3>1, <3>2
  <2> QED
    BY <1>2, <2>1, <2>2, <2>3 DEF AllocNew, Known, TypeOK, Occupied
<1> QED
  BY <1>1, <1>2 DEF Alloc

LEMMA InitTypeOK == Init => TypeOK
  BY DEF Init, TypeOK, Addrs, Prefix

LEMMA StepTypeOK ==
    ASSUME TypeOK, [Next]_mapVars
    PROVE  TypeOK'
<1>1. ASSUME NEW t \in Targets, AllocNew(t)
      PROVE  TypeOK'
  BY <1>1, NextAddrInPool DEF AllocNew, TypeOK
<1>2. ASSUME UNCHANGED mapVars
      PROVE  TypeOK'
  BY <1>2 DEF mapVars, TypeOK
<1> QED
  BY <1>1, <1>2 DEF Next, Alloc, AllocKnown

(* The maps stay well formed.                                              *)
THEOREM TypeCorrect == Spec => []TypeOK
  BY InitTypeOK, StepTypeOK, PTL DEF Spec

-----------------------------------------------------------------------------
LEMMA StepForwardInverse ==
    ASSUME TypeOK, ForwardInverse, [Next]_mapVars
    PROVE  ForwardInverse'
<1>1. ASSUME NEW t \in Targets, AllocNew(t)
      PROVE  ForwardInverse'
  <2> SUFFICES ASSUME NEW a \in Prefix, mapper'[a] # NoTarget
               PROVE  revMapper'[mapper'[a]] = a
    BY DEF ForwardInverse
  <2>1. CASE a = NextAddr
    BY <1>1, <2>1, NextAddrInPool DEF AllocNew, TypeOK
  <2>2. CASE a # NextAddr
    <3>1. mapper'[a] = mapper[a]
      BY <1>1, <2>2 DEF AllocNew, TypeOK
    <3>2. revMapper[mapper[a]] = a /\ mapper[a] \in Targets
      BY <3>1 DEF ForwardInverse, TypeOK
    <3>3. mapper[a] # t
      BY <1>1, <3>2 DEF AllocNew, Known, Prefix
    <3> QED
      BY <1>1, <3>1, <3>2, <3>3 DEF AllocNew, TypeOK
  <2> QED
    BY <2>1, <2>2
<1>2. ASSUME UNCHANGED mapVars
      PROVE  ForwardInverse'
  BY <1>2 DEF mapVars, ForwardInverse
<1> QED
  BY <1>1, <1>2 DEF Next, Alloc, AllocKnown

(* Even a pool that wrapped never reports a target at an address that is   *)
(* not that target's own.                                                  *)
THEOREM NeverMisreports == Spec => []ForwardInverse
<1>1. Init => ForwardInverse
  BY DEF Init, ForwardInverse
<1> QED
  BY <1>1, TypeCorrect, StepForwardInverse, PTL DEF Spec

(* Once projected, a target keeps its address for good.                    *)
THEOREM Sticky == Spec => StickyProjection
<1>1. ASSUME TypeOK, [Next]_mapVars
      PROVE  [\A t \in Targets : Known(t) => revMapper'[t] = revMapper[t]]_mapVars
  <2>1. ASSUME NEW u \in Targets, AllocNew(u)
        PROVE  \A t \in Targets : Known(t) => revMapper'[t] = revMapper[t]
    BY <2>1 DEF AllocNew, Known, TypeOK
  <2> QED
    BY <1>1, <2>1 DEF Next, Alloc, AllocKnown
<1> QED
  BY <1>1, TypeCorrect, PTL DEF Spec, StickyProjection

-----------------------------------------------------------------------------
KnownTargets == {t \in Targets : Known(t)}

(* How many addresses were handed out, read off lastAlloc.                 *)
Used == IF lastAlloc \in Addrs THEN lastAlloc ELSE 0

(* Allocation counts upward from 1 and has not wrapped.                    *)
Counted ==
    /\ Cardinality(KnownTargets) = Used
    /\ \A t \in KnownTargets : revMapper[t] <= Used

FitsInv == TypeOK /\ Counted /\ RoundTrip

LEMMA InitFitsInv == Init => FitsInv
<1> SUFFICES ASSUME Init
             PROVE  FitsInv
  OBVIOUS
<1>1. KnownTargets = {}
  BY DEF Init, KnownTargets, Known
<1>2. Cardinality(KnownTargets) = 0
  BY <1>1, FS_EmptySet
<1>3. Used = 0
  BY DEF Init, Used, Addrs
<1> QED
  BY <1>1, <1>2, <1>3, InitTypeOK DEF FitsInv, Counted, RoundTrip, KnownTargets

(* While the pool fits, a new target gets the address after the last one.  *)
LEMMA NoWrap ==
    ASSUME Fits, FitsInv, NEW t \in Targets, AllocNew(t)
    PROVE  /\ NextAddr = Used + 1
           /\ Used + 1 \in Addrs
           /\ KnownTargets' = KnownTargets \cup {t}
           /\ Cardinality(KnownTargets') = Used + 1
<1>1. t \notin KnownTargets /\ KnownTargets \subseteq Targets
  BY DEF KnownTargets, AllocNew
<1>2. KnownTargets' = KnownTargets \cup {t}
  BY NextAddrInPool DEF KnownTargets, Known, AllocNew, FitsInv, TypeOK
<1>3. IsFiniteSet(KnownTargets) /\ IsFiniteSet(Targets)
  BY <1>1, FS_Subset DEF Fits
<1>4. Cardinality(KnownTargets') = Used + 1
  BY <1>1, <1>2, <1>3, FS_AddElement DEF FitsInv, Counted
<1>5. Cardinality(KnownTargets') <= Cardinality(Targets)
  <2>1. KnownTargets' \subseteq Targets
    BY <1>1, <1>2
  <2> QED
    BY <2>1, <1>3, FS_Subset
<1>6. Used \in Nat /\ Cardinality(Targets) \in Nat
  BY <1>3, FS_CardinalityType DEF Used, Addrs
<1>7. Used + 1 \in Addrs
  BY <1>4, <1>5, <1>6 DEF Fits, Addrs
<1>8. NextAddr = Used + 1
  BY <1>7 DEF NextAddr, Used, Addrs, Prefix, FitsInv, TypeOK
<1> QED
  BY <1>2, <1>4, <1>7, <1>8

LEMMA StepFitsInv ==
    ASSUME Fits, FitsInv, [Next]_mapVars
    PROVE  FitsInv'
<1>1. ASSUME NEW t \in Targets, AllocNew(t)
      PROVE  FitsInv'
  <2>0. /\ NextAddr = Used + 1 /\ Used + 1 \in Addrs
        /\ KnownTargets' = KnownTargets \cup {t}
        /\ Cardinality(KnownTargets') = Used + 1
    BY <1>1, NoWrap
  <2>1. TypeOK /\ TypeOK'
    BY <1>1, StepTypeOK DEF FitsInv, Next, Alloc
  <2>2. Used' = Used + 1
    BY <1>1, <2>0 DEF AllocNew, Used, Addrs
  <2>3. Counted'
    <3>1. ASSUME NEW u \in KnownTargets'
          PROVE  revMapper'[u] <= Used'
      <4>1. CASE u = t
        BY <4>1, <1>1, <2>1, <2>2, <2>0 DEF AllocNew, TypeOK, Addrs
      <4>2. CASE u # t
        <5>1. u \in KnownTargets /\ revMapper'[u] = revMapper[u]
          BY <1>1, <2>1, <3>1, <4>2, <2>0 DEF AllocNew, TypeOK, KnownTargets
        <5>2. revMapper[u] <= Used /\ revMapper[u] \in Addrs
          BY <2>1, <5>1 DEF FitsInv, Counted, TypeOK, KnownTargets, Known
        <5> QED
          BY <1>1, <2>2, <5>1, <5>2, <2>0 DEF Addrs, Used
      <4> QED
        BY <4>1, <4>2
    <3> QED
      BY <1>1, <2>2, <3>1, <2>0 DEF Counted
  <2>4. RoundTrip'
    <3> SUFFICES ASSUME NEW u \in Targets, u \in KnownTargets'
                 PROVE  mapper'[revMapper'[u]] = u
      BY DEF RoundTrip, KnownTargets
    <3>1. CASE u = t
      BY <3>1, <1>1, <2>1, NextAddrInPool DEF AllocNew, TypeOK
    <3>2. CASE u # t
      <4>1. u \in KnownTargets /\ revMapper'[u] = revMapper[u]
        BY <1>1, <2>1, <3>2, <2>0 DEF AllocNew, TypeOK
      <4>2. revMapper[u] <= Used /\ revMapper[u] \in Addrs
        BY <2>1, <4>1 DEF FitsInv, Counted, TypeOK, KnownTargets, Known
      <4>3. revMapper[u] # NextAddr
        BY <1>1, <4>2, <2>0 DEF Addrs, Used
      <4>4. mapper[revMapper[u]] = u
        BY <4>1 DEF FitsInv, RoundTrip, KnownTargets
      <4> QED
        BY <1>1, <2>1, <4>1, <4>2, <4>3, <4>4 DEF AllocNew, TypeOK, Addrs, Prefix
    <3> QED
      BY <3>1, <3>2
  <2> QED
    BY <2>1, <2>3, <2>4 DEF FitsInv
<1>2. ASSUME UNCHANGED mapVars
      PROVE  FitsInv'
  <2>1. KnownTargets' = KnownTargets /\ Used' = Used
    BY <1>2 DEF mapVars, KnownTargets, Known, Used
  <2>2. Counted' /\ RoundTrip' /\ TypeOK'
    BY <1>2, <2>1, StepTypeOK
    DEF mapVars, FitsInv, Counted, RoundTrip, Known
  <2> QED
    BY <2>2 DEF FitsInv
<1> QED
  BY <1>1, <1>2 DEF Next, Alloc, AllocKnown

(* A projection reads back as its target, in a pool of any size that has   *)
(* an address for every target.                                            *)
THEOREM ProjectionInvertible == Fits => (Spec => []RoundTrip)
<1> SUFFICES ASSUME Fits
             PROVE  Spec => []RoundTrip
  OBVIOUS
<1>1. FitsInv => RoundTrip
  BY DEF FitsInv
<1> QED
  BY <1>1, InitFitsInv, StepFitsInv, PTL DEF Spec

-----------------------------------------------------------------------------
(* A pool that fits implements the directory its callers assume.           *)
THEOREM Implements == Fits => (Spec => ImplementsDirectory)
<1> SUFFICES ASSUME Fits
             PROVE  Spec => ImplementsDirectory
  OBVIOUS
<1>1. Init => Directory!Init
  BY DEF Init, Directory!Init, Entries, Known
<1>2. ASSUME FitsInv, FitsInv', [Next]_mapVars
      PROVE  [Directory!Next]_Entries
  <2>1. ASSUME NEW t \in Targets, AllocNew(t)
        PROVE  Directory!Enter(t, NextAddr)
    <3>1. \A e \in Entries : e[1] # t /\ e[2] # NextAddr
      <4> SUFFICES ASSUME NEW u \in Targets, Known(u)
                   PROVE  u # t /\ revMapper[u] # NextAddr
        BY DEF Entries
      <4>1. u # t
        BY <2>1 DEF AllocNew
      <4>2. revMapper[u] <= Used /\ revMapper[u] \in Addrs
        BY <1>2 DEF FitsInv, Counted, TypeOK, KnownTargets, Known
      <4> QED
        BY <1>2, <2>1, <4>1, <4>2, NoWrap DEF Addrs, Used
    <3>2. Entries' = Entries \cup {<<t, NextAddr>>}
      <4>1. \A u \in Targets : u # t => revMapper'[u] = revMapper[u]
        BY <1>2, <2>1 DEF AllocNew, FitsInv, TypeOK
      <4>2. revMapper'[t] = NextAddr /\ NextAddr # NoAddr
        BY <1>2, <2>1, NextAddrInPool DEF AllocNew, FitsInv, TypeOK
      <4> QED
        BY <2>1, <4>1, <4>2 DEF Entries, Known, AllocNew
    <3> QED
      BY <3>1, <3>2 DEF Directory!Enter
  <2>2. ASSUME UNCHANGED mapVars
        PROVE  UNCHANGED Entries
    BY <2>2 DEF mapVars, Entries, Known
  <2>3. NextAddr \in Addrs
    BY <1>2, NextAddrInPool DEF FitsInv
  <2> QED
    BY <1>2, <2>1, <2>2, <2>3 DEF Next, Alloc, AllocKnown, Directory!Next
<1> QED
  BY <1>1, <1>2, InitFitsInv, StepFitsInv, PTL DEF Spec, ImplementsDirectory, Directory!Spec

=============================================================================
