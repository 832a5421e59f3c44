-------------------------- MODULE AddressDirectory --------------------------
(***************************************************************************)
(* The promise behind proxy.AllocProjection and proxy.GetProjection: names *)
(* are entered once, each at an address nobody else has, and an entry is   *)
(* never changed or removed.  proxy/ip_mapper.go keeps the promise as long *)
(* as its pool does not wrap.                                              *)
(***************************************************************************)
CONSTANTS Names, Addresses

VARIABLE entries    \* a set of <<name, address>> pairs

Init == entries = {}

Enter(n, a) ==
    /\ \A e \in entries : e[1] # n /\ e[2] # a
    /\ entries' = entries \cup {<<n, a>>}

Next == \E n \in Names, a \in Addresses : Enter(n, a)

Spec == Init /\ [][Next]_entries

=============================================================================
