----------------------------- MODULE UDPSession -----------------------------
(***************************************************************************)
(* What the UDP side of proxy promises a client: its session is claimed by *)
(* one datagram at a time, carried by the socket that datagram dialed, and *)
(* may end and start over with a later datagram.                           *)
(***************************************************************************)
CONSTANTS Clients, Datagrams, Free

VARIABLES
    session,    \* client -> Free, or who claimed it and whether it is up
    spent       \* datagrams that cannot claim a session any more

Init ==
    /\ session = [l \in Clients |-> Free]
    /\ spent = {}

Claim(l, d) ==
    /\ session[l] = Free
    /\ d \notin spent
    /\ session' = [session EXCEPT ![l] = [by |-> d, up |-> FALSE]]
    /\ spent' = spent \cup {d}

Open(l) ==
    /\ session[l] # Free
    /\ ~session[l].up
    /\ session' = [session EXCEPT ![l].up = TRUE]
    /\ UNCHANGED spent

(* The dial failed, or the socket was closed.                              *)
End(l) ==
    /\ session[l] # Free
    /\ session' = [session EXCEPT ![l] = Free]
    /\ UNCHANGED spent

(* A datagram that joins a session another one opened.                     *)
Join(d) ==
    /\ d \notin spent
    /\ spent' = spent \cup {d}
    /\ UNCHANGED session

Next ==
    \/ \E l \in Clients : Open(l) \/ End(l) \/ \E d \in Datagrams : Claim(l, d)
    \/ \E d \in Datagrams : Join(d)

Spec == Init /\ [][Next]_<<session, spent>>

=============================================================================
