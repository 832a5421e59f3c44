------------------------------ MODULE IPMapper ------------------------------
(***************************************************************************)
(* LoopbackMapper and ReservedMapper of proxy/ip_mapper.go: the allocator  *)
(* that stands a private address in for a target, so that a socket of the  *)
(* traced program can be pointed at the proxy and the proxy can tell from  *)
(* the address alone where the program wanted to go.                       *)
(*                                                                         *)
(* The two Go types are one algorithm over two pools, so they are one      *)
(* module.  An address is its offset in the pool's prefix: 127.0.0.0 (or   *)
(* 198.18.0.0) is 0 and the last address of the prefix is Last (2^24-1, or *)
(* 2^17-1).  Both maps are total here, with NoTarget for Go's "" and       *)
(* NoAddr for a missing key.  Callers hold Proxy.mutex, so a call is one   *)
(* step.                                                                   *)
(***************************************************************************)
EXTENDS Integers, FiniteSets

CONSTANTS
    Targets,    \* what may be projected: "host:port" strings, or domains
    NoTarget,   \* Get of an address that stands for nothing
    NoAddr,     \* revMapper has no entry for the target
    Last,       \* offset of the last address of the prefix
    Start       \* offset of the initial lastAlloc

(* The pool has an allocatable address; lastAlloc starts on the address    *)
(* before the first one (198.18.0.0) or outside the prefix (126.0.0.0).    *)
ASSUME PoolAssumption ==
    /\ Last \in Nat \ {0}
    /\ Start = 0 \/ (Start \in Int /\ Start < -1)
    /\ NoTarget \notin Targets
    /\ NoAddr \notin Int

VARIABLES mapper, revMapper, lastAlloc

mapVars == <<mapper, revMapper, lastAlloc>>

Prefix == 0..Last

Addrs == 1..Last    \* what Alloc can return

TypeOK ==
    /\ mapper \in [Prefix -> Targets \cup {NoTarget}]
    /\ revMapper \in [Targets -> Addrs \cup {NoAddr}]
    /\ lastAlloc \in {Start} \cup Addrs

Init ==
    /\ mapper = [a \in Prefix |-> NoTarget]
    /\ revMapper = [t \in Targets |-> NoAddr]
    /\ lastAlloc = Start

Known(target) == revMapper[target] # NoAddr

(* Faulty variant: the wrap at the end of the prefix is forgotten.         *)
NextAddr_NoWrap == lastAlloc + 1

(* Faulty variant: counting starts over with every target.                 *)
NextAddr_Restarts == 1

(* lastAlloc.Next(), wrapped to the first address when it left the prefix. *)
NextAddr == IF lastAlloc + 1 \in Prefix THEN lastAlloc + 1 ELSE 1

(* The address a call of Alloc(target) returns.                            *)
AllocAddr(target) == IF Known(target) THEN revMapper[target] ELSE NextAddr

AllocKnown(target) ==
    /\ Known(target)
    /\ UNCHANGED mapVars

(* Faulty variant: the target is not looked up in revMapper first.         *)
AllocNew_Unchecked(target) ==
    /\ lastAlloc' = NextAddr
    /\ mapper' = [mapper EXCEPT ![NextAddr] = target]
    /\ revMapper' = [revMapper EXCEPT ![target] = NextAddr]

(* A wrapped allocation overwrites mapper, and only mapper: the target     *)
(* that had the address keeps it in revMapper.                             *)
AllocNew(target) ==
    /\ ~Known(target)
    /\ lastAlloc' = NextAddr
    /\ mapper' = [mapper EXCEPT ![NextAddr] = target]
    /\ revMapper' = [revMapper EXCEPT ![target] = NextAddr]

Alloc(target) == AllocKnown(target) \/ AllocNew(target)

Get(addr) == mapper[addr]

Next == \E target \in Targets : Alloc(target)

Spec == Init /\ [][Next]_mapVars

-----------------------------------------------------------------------------
(* Whatever an address stands for was given that very address: even after  *)
(* the pool wrapped and overwrote, Get never returns a target whose        *)
(* projection is somewhere else.                                           *)
ForwardInverse ==
    \A a \in Prefix : mapper[a] # NoTarget => revMapper[mapper[a]] = a

(* A target never moves: the program may keep an address it was given (in  *)
(* a resolver cache, in a connected socket) for as long as it runs.        *)
StickyProjection ==
    [][\A t \in Targets : Known(t) => revMapper'[t] = revMapper[t]]_mapVars

(* The projection is invertible: the address handed out for a target reads *)
(* back as that target.  It holds while the pool has room for all targets. *)
RoundTrip ==
    \A t \in Targets : Known(t) => mapper[revMapper[t]] = t

Fits == IsFiniteSet(Targets) /\ Cardinality(Targets) <= Last

-----------------------------------------------------------------------------
(* What the callers of the mapper rely on, as a specification of its own:  *)
(* a directory of projections that only grows and never reuses an address. *)
Entries == {<<t, revMapper[t]>> : t \in {u \in Targets : Known(u)}}

Directory == INSTANCE AddressDirectory
                 WITH Names <- Targets, Addresses <- Addrs, entries <- Entries

ImplementsDirectory == Directory!Spec

=============================================================================
