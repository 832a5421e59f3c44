--------------------------- MODULE MTUTrie_proofs ----------------------------
(* The MTU lookup, for addresses of any length and any set of networks.  The *)
(* walk keeps to the address, and no network that contains it lies between   *)
(* the ends of a jump, so the last network met is the longest so far.        *)
EXTENDS MTUTrie, SequenceTheorems, WellFoundedInduction, NaturalsInduction, TLAPS

Binary == Seq({0, 1})

-----------------------------------------------------------------------------
(* Strings.                                                                  *)

LEMMA NetworkStrings ==
  ASSUME NEW m \in Network
  PROVE  m \in Binary /\ Len(m) \in 0..Bits
<1>1. PICK ones \in 0..Bits : m \in [1..ones -> {0, 1}]
  BY DEF Network
<1>2. ones \in Nat
  BY BitsAssumption
<1> QED BY <1>1, <1>2, IsASeq DEF Binary

LEMMA StringsAreNetworks ==
  ASSUME NEW m \in Binary, Len(m) <= Bits
  PROVE  m \in Network
<1>1. Len(m) \in 0..Bits /\ m \in [1..Len(m) -> {0, 1}]
  BY BitsAssumption, LenProperties DEF Binary
<1> QED BY <1>1 DEF Network

(* A prefix agrees at every place it has.                                    *)
LEMMA PrefixAgrees ==
  ASSUME NEW s \in Binary, NEW t \in Binary
  PROVE  IsPrefix(s, t) <=> Len(s) <= Len(t) /\ \A i \in 1..Len(s) : s[i] = t[i]
<1>1. Len(s) \in Nat /\ Len(t) \in Nat
  BY LenProperties DEF Binary
<1>2. CASE Len(s) <= Len(t)
  <2>1. /\ SubSeq(s, 1, Len(s)) \in Seq({0, 1}) /\ Len(SubSeq(s, 1, Len(s))) = Len(s)
        /\ \A i \in 1..Len(s) : SubSeq(s, 1, Len(s))[i] = s[i]
    BY <1>1 DEF Binary
  <2>2. /\ SubSeq(t, 1, Len(s)) \in Seq({0, 1}) /\ Len(SubSeq(t, 1, Len(s))) = Len(s)
        /\ \A i \in 1..Len(s) : SubSeq(t, 1, Len(s))[i] = t[i]
    BY <1>1, <1>2 DEF Binary
  <2> QED BY <1>2, <2>1, <2>2, SeqEqual DEF IsPrefix
<1>3. CASE ~(Len(s) <= Len(t))
  BY <1>3 DEF IsPrefix
<1> QED BY <1>2, <1>3

LEMMA Truncated ==
  ASSUME NEW d \in Binary, NEW k \in 0..Len(d)
  PROVE  /\ SubSeq(d, 1, k) \in Binary /\ Len(SubSeq(d, 1, k)) = k
         /\ \A i \in 1..k : SubSeq(d, 1, k)[i] = d[i]
         /\ IsPrefix(SubSeq(d, 1, k), d)
<1>1. Len(d) \in Nat /\ k \in Nat /\ k <= Len(d)
  BY LenProperties DEF Binary
<1>2. PICK s : s = SubSeq(d, 1, k)
  OBVIOUS
<1>3. s \in Binary /\ Len(s) = k /\ \A i \in 1..k : s[i] = d[i]
  BY <1>1, <1>2 DEF Binary
<1>4. IsPrefix(s, d)
  BY <1>1, <1>3, PrefixAgrees
<1> QED BY <1>2, <1>3, <1>4

(* The least of a set of numbers.                                            *)
LEMMA Least ==
  ASSUME NEW S, S \subseteq Nat, S # {}
  PROVE  \E x \in S : \A y \in S : x <= y
<1> DEFINE R == {ss \in Nat \X Nat : ss[1] < ss[2]}
<1>1. IsWellFoundedOn(R, Nat)
  BY NatLessThanWellFounded DEF OpToRel
<1>2. PICK x \in S : \A y \in S : <<y, x>> \notin R
  <2> HIDE DEF R
  <2> QED BY <1>1, WFMin
<1>3. ASSUME NEW y \in S PROVE x <= y
  <2>1. <<y, x>> \in Nat \X Nat /\ <<y, x>>[1] = y /\ <<y, x>>[2] = x
    OBVIOUS
  <2> QED BY <1>2, <2>1
<1> QED BY <1>3

-----------------------------------------------------------------------------
(* What the contracted edges keep.                                           *)

(* A jump passes no network, and it is not missed by an address that one     *)
(* further down contains.                                                    *)
LEMMA JumpsPassNothing ==
  ASSUME NEW n \in Binary, NEW b \in {0, 1}, dict \subseteq Network,
         NEW m \in Reached(n, b), NEW d \in dict, IsPrefix(d, m), d # m
  PROVE  Len(d) <= Len(n)
<1>1. m \in Binary /\ d \in Binary /\ Len(d) \in Nat /\ Len(m) \in Nat /\ Len(n) \in Nat
  BY NetworkStrings, LenProperties DEF Reached, Binary
<1> SUFFICES ASSUME Len(d) > Len(n) PROVE FALSE
  BY <1>1
<1>2. Len(d) <= Len(m) /\ \A i \in 1..Len(d) : d[i] = m[i]
  BY <1>1, PrefixAgrees
<1>3. Len(d) # Len(m)
  BY <1>1, <1>2, SeqEqual DEF Binary
<1>4. SubSeq(m, 1, Len(d)) = d
  <2>1. /\ SubSeq(m, 1, Len(d)) \in Binary /\ Len(SubSeq(m, 1, Len(d))) = Len(d)
        /\ \A i \in 1..Len(d) : SubSeq(m, 1, Len(d))[i] = m[i]
    BY <1>1, <1>2, Truncated
  <2> QED BY <1>1, <1>2, <2>1, SeqEqual DEF Binary
<1>5. Stops(d)
  <2>1. d # <<>>
    BY <1>1
  <2> QED BY <2>1 DEF Stops, End
<1>6. Len(d) \in Len(n) + 1 .. Len(m) - 1
  BY <1>1, <1>2, <1>3
<1> QED BY <1>4, <1>5, <1>6 DEF Reached

LEMMA SomeJumpFits ==
  ASSUME NEW n \in Binary, dict \subseteq Network, NEW d \in dict,
         NEW a \in Binary, IsPrefix(n, a), IsPrefix(d, a), Len(n) < Len(d)
  PROVE  \E m \in Reached(n, a[Len(n) + 1]) : IsPrefix(m, a)
<1>1. /\ d \in Binary /\ Len(d) \in 0..Bits /\ Len(d) \in Nat /\ Len(n) \in Nat
      /\ Len(a) \in Nat /\ Len(d) <= Len(a) /\ \A i \in 1..Len(d) : d[i] = a[i]
      /\ Len(n) <= Len(a) /\ \A i \in 1..Len(n) : n[i] = a[i]
  BY NetworkStrings, PrefixAgrees, LenProperties DEF Binary
<1> DEFINE S == {k \in Len(n) + 1 .. Len(d) : Stops(SubSeq(d, 1, k))}
<1>2. Len(d) \in S
  <2>1. SubSeq(d, 1, Len(d)) = d
    BY <1>1, Truncated, SeqEqual DEF Binary
  <2>2. d # <<>>
    BY <1>1
  <2>3. Len(d) \in Len(n) + 1 .. Len(d)
    BY <1>1
  <2>4. Stops(d)
    BY <2>2 DEF Stops, End
  <2> QED BY <2>1, <2>3, <2>4
<1>3. PICK k \in S : \A j \in S : k <= j
  <2>1. S \subseteq Nat
    BY <1>1
  <2> HIDE DEF S
  <2> QED BY <1>2, <2>1, Least
<1>4. k \in Len(n) + 1 .. Len(d) /\ k \in 0..Len(d)
  BY <1>1
<1>5. PICK m : m = SubSeq(d, 1, k)
  OBVIOUS
<1>6. /\ m \in Binary /\ Len(m) = k /\ \A i \in 1..k : m[i] = d[i]
      /\ IsPrefix(m, d)
  BY <1>1, <1>4, <1>5, Truncated
<1>7. m \in Network /\ Node(m) /\ Stops(m) /\ IsPrefix(m, a)
  <2>1. m \in Network
    <3>1. Len(m) <= Bits
      BY <1>1, <1>4, <1>6, BitsAssumption
    <3> QED BY <1>6, <3>1, StringsAreNetworks
  <2>2. IsPrefix(m, a)
    BY <1>1, <1>4, <1>6, PrefixAgrees
  <2> QED BY <1>5, <1>6, <2>1, <2>2 DEF Node
<1>8. IsPrefix(Append(n, a[Len(n) + 1]), m)
  <2>1. a[Len(n) + 1] \in {0, 1}
    BY <1>1, <1>4, ElementOfSeq DEF Binary
  <2>2. PICK s : s = Append(n, a[Len(n) + 1])
    OBVIOUS
  <2>3. /\ s \in Binary /\ Len(s) = Len(n) + 1 /\ s[Len(n) + 1] = a[Len(n) + 1]
        /\ \A i \in 1..Len(n) : s[i] = n[i]
    BY <2>1, <2>2, AppendProperties DEF Binary
  <2>4. \A i \in 1..Len(s) : s[i] = m[i]
    BY <1>1, <1>4, <1>6, <2>3
  <2>5. Len(s) <= Len(m)
    BY <1>1, <1>4, <1>6, <2>3
  <2> QED BY <1>6, <2>2, <2>3, <2>4, <2>5, PrefixAgrees
<1>9. ASSUME NEW j \in Len(n) + 1 .. Len(m) - 1
      PROVE  ~Stops(SubSeq(m, 1, j))
  <2>1. j \in 0..k /\ j \in 0..Len(d) /\ j \in Len(n) + 1 .. Len(d) /\ j < k
    BY <1>1, <1>4, <1>6
  <2>2. SubSeq(m, 1, j) = SubSeq(d, 1, j)
    BY <1>1, <1>4, <1>6, <2>1, Truncated, SeqEqual DEF Binary
  <2>3. j \notin S
    BY <1>1, <1>3, <1>4, <2>1
  <2> QED BY <2>1, <2>2, <2>3
<1>10. m \in Reached(n, a[Len(n) + 1])
  BY <1>7, <1>8, <1>9 DEF Reached
<1> QED BY <1>7, <1>10

-----------------------------------------------------------------------------
(* The walk.                                                                 *)

Typed ==
  /\ dict \subseteq Network
  /\ ip \in Binary /\ Len(ip) = Bits
  /\ built \in Binary /\ prefix \in Binary

(* The walk is on the address, and has met every network so far.             *)
OnTheWay ==
  /\ IsPrefix(built, ip)
  /\ prefix \in dict \cup {<<>>} /\ IsPrefix(prefix, ip)
  /\ \A d \in dict : IsPrefix(d, ip) /\ Len(d) <= Len(built) => Len(d) <= Len(prefix)

Answered ==
  mtu # None =>
    /\ mtu = Size(prefix)
    /\ \A d \in dict : IsPrefix(d, ip) => Len(d) <= Len(prefix)

IInv == Typed /\ OnTheWay /\ Answered

LEMMA EmptyPrefix ==
  <<>> \in Binary /\ Len(<<>>) = 0 /\ \A s \in Binary : IsPrefix(<<>>, s)
<1>1. <<>> \in Binary /\ Len(<<>>) = 0
  BY DEF Binary
<1>2. \A s \in Binary : Len(s) \in Nat
  BY LenProperties DEF Binary
<1> QED BY <1>1, <1>2, PrefixAgrees

LEMMA InitIInv == Init => IInv
<1> SUFFICES ASSUME Init PROVE IInv
  OBVIOUS
<1>1. dict \subseteq Network
  <2>1. PICK nets \in [1..MaxNetworks -> Network] : dict = Range(nets)
    BY DEF Init
  <2> QED BY <2>1 DEF Range
<1>2. ip \in Binary /\ Len(ip) = Bits
  <2>1. ip \in [1..Bits -> {0, 1}] /\ Bits \in Nat
    BY BitsAssumption DEF Init, Address
  <2> QED BY <2>1 DEF Binary
<1>3. \A d \in dict : Len(d) \in Nat
  BY <1>1, NetworkStrings, BitsAssumption
<1> QED BY <1>1, <1>2, <1>3, EmptyPrefix DEF Init, IInv, Typed, OnTheWay, Answered

LEMMA FollowKeeps == ASSUME IInv, Follow PROVE IInv'
<1>1. PICK m \in Fitting : built' = m /\ prefix' = IF End(m) THEN m ELSE prefix
  BY DEF Follow
<1>2. /\ mtu = None /\ mtu' = None /\ dict' = dict /\ ip' = ip
      /\ dict \subseteq Network /\ ip \in Binary /\ built \in Binary /\ prefix \in Binary
      /\ IsPrefix(built, ip) /\ Len(ip) = Bits
  BY DEF Follow, IInv, Typed, OnTheWay
<1>3. Len(built) \in Nat /\ Len(built) < Bits
  BY <1>1, <1>2, LenProperties DEF Fitting, Binary
<1>4. PICK b : b = ip[Len(built) + 1]
  OBVIOUS
<1>5. m \in Reached(built, b) /\ IsPrefix(m, ip) /\ b \in {0, 1}
  BY <1>1, <1>2, <1>3, <1>4, ElementOfSeq, BitsAssumption DEF Fitting, Binary
<1>6. m \in Binary /\ Len(m) \in Nat /\ Len(prefix) \in Nat
  BY <1>2, <1>5, NetworkStrings, LenProperties DEF Reached, Binary
<1>7. Typed'
  BY <1>1, <1>2, <1>6 DEF Typed
<1>8. Len(built) <= Len(m)
  <2>1. PICK s : s = Append(built, b)
    OBVIOUS
  <2>2. s \in Binary /\ Len(s) = Len(built) + 1 /\ IsPrefix(s, m)
    BY <1>2, <1>5, <2>1, AppendProperties DEF Reached, Binary
  <2> QED BY <1>3, <1>6, <2>2 DEF IsPrefix
<1>9. ASSUME NEW d \in dict, IsPrefix(d, ip), Len(d) <= Len(m)
      PROVE  Len(d) <= Len(prefix')
  <2>1. d \in Binary /\ Len(d) \in Nat
    BY <1>2, NetworkStrings, LenProperties DEF Binary
  <2>2. IsPrefix(d, m)
    <3>1. /\ \A i \in 1..Len(d) : d[i] = ip[i]
          /\ \A i \in 1..Len(m) : m[i] = ip[i]
      BY <1>2, <1>5, <1>6, <1>9, <2>1, PrefixAgrees
    <3>2. \A i \in 1..Len(d) : d[i] = m[i]
      BY <1>6, <1>9, <2>1, <3>1
    <3> QED BY <1>6, <1>9, <2>1, <3>2, PrefixAgrees
  <2>3. CASE d = m
    <3>1. CASE End(m)
      BY <1>1, <2>1, <2>3, <3>1
    <3>2. CASE ~End(m)
      BY <1>1, <1>6, <2>3, <3>2, EmptyPrefix DEF End
    <3> QED BY <3>1, <3>2
  <2>4. CASE d # m
    <3>1. Len(d) <= Len(built)
      BY <1>2, <1>5, <2>2, <2>4, JumpsPassNothing
    <3>2. Len(d) <= Len(prefix)
      BY <1>9, <3>1 DEF IInv, OnTheWay
    <3>3. prefix' = prefix \/ prefix' = m
      BY <1>1
    <3> QED BY <1>9, <3>2, <3>3
  <2> QED BY <2>3, <2>4
<1>10. OnTheWay'
  BY <1>1, <1>2, <1>5, <1>9 DEF IInv, OnTheWay, End
<1>11. Answered'
  BY <1>2 DEF Answered
<1> QED BY <1>7, <1>10, <1>11 DEF IInv

LEMMA FinishKeeps == ASSUME IInv, Finish PROVE IInv'
<1>1. /\ UNCHANGED <<dict, ip, built, prefix>> /\ mtu' = Size(prefix) /\ Fitting = {}
      /\ dict \subseteq Network /\ ip \in Binary /\ built \in Binary
      /\ IsPrefix(built, ip) /\ Len(ip) = Bits
  BY DEF Finish, IInv, Typed, OnTheWay
<1>2. ASSUME NEW d \in dict, IsPrefix(d, ip)
      PROVE  Len(d) <= Len(built)
  <2>1. d \in Binary /\ Len(d) \in Nat /\ Len(d) <= Bits /\ Len(built) \in Nat
    BY <1>1, NetworkStrings, LenProperties, BitsAssumption DEF Binary
  <2> SUFFICES ASSUME Len(built) < Len(d) PROVE FALSE
    BY <2>1
  <2>2. \E m \in Reached(built, ip[Len(built) + 1]) : IsPrefix(m, ip)
    BY <1>1, <1>2, SomeJumpFits
  <2>3. Len(built) < Bits
    BY <2>1, BitsAssumption
  <2> QED BY <1>1, <2>2, <2>3 DEF Fitting
<1>3. \A d \in dict : IsPrefix(d, ip) => Len(d) <= Len(prefix)
  BY <1>2 DEF IInv, OnTheWay
<1>4. Typed' /\ OnTheWay'
  BY <1>1 DEF IInv, Typed, OnTheWay
<1>5. Answered'
  BY <1>1, <1>3 DEF Answered, Size
<1> QED BY <1>4, <1>5 DEF IInv

LEMMA NextKeeps == IInv /\ [Next]_vars => IInv'
<1>1. IInv /\ UNCHANGED vars => IInv'
  BY DEF vars, IInv, Typed, OnTheWay, Answered, Size
<1> QED BY <1>1, FollowKeeps, FinishKeeps DEF Next

-----------------------------------------------------------------------------
(* GetMTU takes the longest of the networks that contain the address, and    *)
(* cuts off what no datagram can have: for every address and all networks,   *)
(* whatever the contraction of the trie.                                     *)
THEOREM LongestWins == Spec => []MTUOfLongest
<1>1. IInv => MTUOfLongest
  <2> DEFINE Containing == {d \in dict : IsPrefix(d, ip)}
  <2> SUFFICES ASSUME IInv, mtu # None
               PROVE  \/ Containing = {} /\ mtu = MTU
                      \/ \E d \in Containing :
                           /\ \A e \in Containing : Len(e) <= Len(d)
                           /\ mtu = IF MTUOf(d) < MTU THEN MTUOf(d) ELSE MTU
    BY DEF MTUOfLongest
  <2>1. /\ mtu = Size(prefix) /\ prefix \in dict \cup {<<>>} /\ IsPrefix(prefix, ip)
        /\ \A d \in Containing : Len(d) <= Len(prefix)
    BY DEF IInv, Answered, OnTheWay
  <2>2. CASE prefix \in dict
    BY <2>1, <2>2 DEF Size
  <2>3. CASE prefix \notin dict
    <3>1. prefix = <<>> /\ mtu = MTU
      BY <2>1, <2>3 DEF Size
    <3>2. ASSUME NEW d \in Containing PROVE FALSE
      <4>1. d \in Binary /\ Len(d) <= 0 /\ d \in dict
        BY <2>1, <3>1, EmptyPrefix, NetworkStrings DEF IInv, Typed
      <4>2. d = <<>>
        BY <4>1, EmptySeq DEF Binary
      <4> QED BY <2>3, <3>1, <4>1, <4>2
    <3> QED BY <3>1, <3>2
  <2> QED BY <2>2, <2>3
<1>2. Spec => []IInv
  BY InitIInv, NextKeeps, PTL DEF Spec
<1> QED BY <1>1, <1>2, PTL

=============================================================================
