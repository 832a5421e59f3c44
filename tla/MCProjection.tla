---------------------------- MODULE MCProjection ----------------------------
(* Projection with a few flows, names and addresses.                       *)
EXTENDS Projection

CONSTANTS f1, f2, ip1, ip2, d1, d2

MCFlows == {f1, f2}
MCOneIP == {ip1}
MCIPs == {ip1, ip2}
MCOneDomain == {d1}
MCDomains == {d1, d2}

MCAddrStart == -3
MCDomStart == 0

=============================================================================
