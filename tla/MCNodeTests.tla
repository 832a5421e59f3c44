---------------------------- MODULE MCNodeTests ----------------------------
(* Four nodes over two slots: two pass while two wait for a slot.          *)
EXTENDS NodeTests

CONSTANTS n1, n2, n3, n4

MCNodes == {n1, n2, n3, n4}

=============================================================================
