------------------------------ MODULE MCUDPNat ------------------------------
(* UDPNat with two clients and three datagrams: enough for one to build,   *)
(* one to wait for it and one to come after the relay.                     *)
EXTENDS UDPNat

CONSTANTS l1, l2, m1, m2, m3

MCClients == {l1, l2}
MCDatagrams == {m1, m2, m3}

=============================================================================
