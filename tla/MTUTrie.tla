------------------------------ MODULE MTUTrie -------------------------------
(* The lookup of a local address's MTU (infra/ip_mtu_trie): a trie over the  *)
(* networks of the interfaces, whose chains without a fork are contracted    *)
(* into jumps (infra/trie), and the loop that walks it.  A node is the       *)
(* string of bits that leads to it.  There is a trie for IPv4 and one for    *)
(* IPv6; the module is about either.                                         *)
EXTENDS Integers, Sequences, SequencesExt

CONSTANTS Bits,         \* the length of an address
          MaxNetworks,  \* bound: networks on the interfaces
          MTUOf(_),     \* the MTU of a network's interface
          None

ASSUME BitsAssumption == Bits \in Nat \ {0} /\ MaxNetworks \in Nat

MTU == 65535

Address == [1..Bits -> {0, 1}]

\* IPToBin(ip)[:ones]
Network == UNION {[1..ones -> {0, 1}] : ones \in 0..Bits}

VARIABLES dict,     \* the networks, the strings the trie is made of
          ip,       \* the address looked up
          built,    \* Match: the string built so far, which leads to node p
          prefix,   \* Match: the longest network met
          mtu       \* what GetMTU returns, None before

vars == <<dict, ip, built, prefix, mtu>>

Init ==
  /\ dict \in {Range(nets) : nets \in [1..MaxNetworks -> Network]}
  /\ ip \in Address
  /\ built = <<>>
  /\ prefix = <<>>
  /\ mtu = None

-----------------------------------------------------------------------------
\* New

Node(n) == \E d \in dict : IsPrefix(n, d)

\* The empty string leaves no mark on the root.
End(n) == n \in dict /\ n # <<>>

\* Faulty variant: a chain runs through the end of a string.
Stops_Fork(n) == Node(Append(n, 0)) <=> Node(Append(n, 1))

\* Where a contracted chain stops.
Stops(n) == End(n) \/ (Node(Append(n, 0)) /\ Node(Append(n, 1)))

\* The node that the edges from n with first bit b lead to.  makeJump contracts
\* a chain of nodes into one edge with the whole string.
Reached(n, b) ==
  {m \in Network : /\ Node(m) /\ Stops(m)
                   /\ IsPrefix(Append(n, b), m)
                   /\ \A k \in Len(n) + 1 .. Len(m) - 1 : ~Stops(SubSeq(m, 1, k))}

-----------------------------------------------------------------------------
\* Match and GetMTU

\* What the string at the address's next bit leads to.  A network is no longer
\* than an address, so a jump never goes beyond its end.
Fitting ==
  IF Len(built) < Bits
  THEN {m \in Reached(built, ip[Len(built) + 1]) : IsPrefix(m, ip)}
  ELSE {}

\* One round of the loop.
Follow ==
  /\ mtu = None
  /\ \E m \in Fitting :
       /\ built' = m
       /\ prefix' = IF End(m) THEN m ELSE prefix
  /\ UNCHANGED <<dict, ip, mtu>>

\* An interface may allow more than a datagram can have (lo: 65536).
Size(n) == IF n \in dict /\ MTUOf(n) < MTU THEN MTUOf(n) ELSE MTU

\* The loop ends: the address is used up, or no edge or no jump fits.  Match
\* returns prefix, and GetMTU looks it up.
Finish ==
  /\ mtu = None
  /\ Fitting = {}
  /\ mtu' = Size(prefix)
  /\ UNCHANGED <<dict, ip, built, prefix>>

Next == Follow \/ Finish

Spec == Init /\ [][Next]_vars

-----------------------------------------------------------------------------
\* GetMTU answers with the MTU of the interface whose network is the longest
\* to contain the address, and never with more than a datagram can have.  That
\* holds although Match does not see the nodes within a jump: no network may
\* end there (infra/trie/trie.go:58, 102).
MTUOfLongest ==
  mtu # None =>
    LET Containing == {d \in dict : IsPrefix(d, ip)}
    IN  \/ Containing = {} /\ mtu = MTU
        \/ \E d \in Containing :
             /\ \A e \in Containing : Len(e) <= Len(d)
             /\ mtu = IF MTUOf(d) < MTU THEN MTUOf(d) ELSE MTU
=============================================================================
