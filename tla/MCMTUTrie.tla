----------------------------- MODULE MCMTUTrie ------------------------------
(* Instances of MTUTrie for TLC. *)
EXTENDS MTUTrie

\* A different one for every network, and one, of the network that contains
\* the address 0..., above what a datagram can have.
MCMTUOf(n) ==
  IF n = <<0>>
  THEN 65536
  ELSE 1000 + FoldSeq(LAMBDA bit, number : 2 * number + bit, 1, n)
=============================================================================
