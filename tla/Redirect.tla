------------------------------ MODULE Redirect ------------------------------
(***************************************************************************)
(* The decision of tracer/stop_handler.go: given what a socket was created *)
(* as and the address the program passes, which address the tracer pokes   *)
(* in its place, if any.  Pure operators, no state.                        *)
(*                                                                         *)
(* Addresses are classes: one public, one private and one loopback host,   *)
(* one reserved IP ("fake") that stands for the domain "domain" and whose  *)
(* real address is "real", and the projections that AllocProjection        *)
(* returns.  A projection is a loopback address and carries in "via" the   *)
(* target it was allocated for.  What the proxy then makes of it, which is *)
(* not the same for TCP, UDP and DNS, is in Projection.                    *)
(***************************************************************************)
EXTENDS Integers

CONSTANT Nothing    \* no address poked, no projection

ProxyPort == 1      \* the proxy's TCP and UDP listeners share a port number
DNSPort == 53

(* Kernel constants whose bits network() tests.                            *)
SOCK_STREAM == 1
SOCK_DGRAM == 2
SOCK_RAW == 3

Bits(type, mask) ==
    CASE mask = SOCK_STREAM -> type % 2 = 1
      [] mask = SOCK_DGRAM -> (type \div 2) % 2 = 1
      [] mask = SOCK_RAW -> type % 4 = 3

Meta(family, type, protocol) ==
    [family |-> family, type |-> type, protocol |-> protocol]

(* What each descriptor 0, 1, 2 is recorded as.                            *)
LocalSocket == Meta("local", SOCK_RAW, "none")

(* network(): "" when the socket carries neither TCP nor UDP.  SOCK_RAW    *)
(* has the SOCK_STREAM bit, so a raw socket is judged as a stream.         *)
Network(meta) ==
    LET inet == meta.family \in {"inet", "inet6"}
        stream == Bits(meta.type, SOCK_STREAM)
        dgram == ~stream /\ Bits(meta.type, SOCK_DGRAM)
    IN  CASE inet /\ stream /\ meta.protocol \in {"none", "tcp"} -> "tcp"
          [] inet /\ dgram /\ meta.protocol \in {"none", "udp", "udplite"} -> "udp"
          [] OTHER -> ""

Carried(meta) == Network(meta) \in {"tcp", "udp"}

(* Faulty variant: IPv6 sockets are not expected.                          *)
Expected_INet4(meta) == meta.family = "inet"

(* checkSocket, for a descriptor the tracer has metadata of.               *)
Expected(meta) ==
    \/ meta.family = "inet"
    \/ meta.family = "inet6" /\ Carried(meta)

PortHackTo(meta) == IF Carried(meta) THEN ProxyPort ELSE 0

-----------------------------------------------------------------------------
Addr(fam, host, port) == [fam |-> fam, host |-> host, port |-> port, via |-> Nothing]

IsLoopback(addr) == addr.host \in {"loopback", "projection"}

Reserved(addr) == addr.host = "fake"

(* The "host:port" that is projected; a reserved IP gives its domain.      *)
Target(addr) == <<IF Reserved(addr) THEN "domain" ELSE addr.host, addr.port>>

Projected(meta, addr) ==
    [fam |-> addr.fam, host |-> "projection", port |-> PortHackTo(meta),
     via |-> Target(addr)]

IsDNS(meta, addr) == Network(meta) = "udp" /\ addr.port = DNSPort

(* Both handlers leave alone: UDP to port 0, which resolvers use to probe  *)
(* for routes, and UDP other than DNS when the node does not relay it.     *)
SkipsUDP(opt, meta, addr) ==
    /\ Network(meta) = "udp"
    /\ addr.port = 0 \/ (~opt.supportUDP /\ addr.port # DNSPort)

(* Faulty variants: projections are projected again; DNS is no exception.  *)
SkipsINet4_NoLoopback(opt, meta, addr) ==
    \/ SkipsUDP(opt, meta, addr)
    \/ /\ Carried(meta)
       /\ opt.ignorePrivateAddr /\ addr.host = "private"
       /\ ~IsDNS(meta, addr)

SkipsINet4_EvenDNS(opt, meta, addr) ==
    \/ SkipsUDP(opt, meta, addr)
    \/ /\ Carried(meta)
       /\ IsLoopback(addr) \/ (opt.ignorePrivateAddr /\ addr.host = "private")

(* A loopback or a private address is the program's own business.          *)
SkipsINet4(opt, meta, addr) ==
    \/ SkipsUDP(opt, meta, addr)
    \/ /\ Carried(meta)
       /\ IsLoopback(addr) \/ (opt.ignorePrivateAddr /\ addr.host = "private")
       /\ ~IsDNS(meta, addr)

(* Sockets that are neither TCP nor UDP get the real IP for a fake one, if *)
(* a DNS answer told it; their port is always poked to 0.                  *)
HandleINet4(opt, meta, addr) ==
    CASE SkipsINet4(opt, meta, addr) -> Nothing
      [] ~SkipsINet4(opt, meta, addr) /\ Carried(meta) -> Projected(meta, addr)
      [] OTHER -> [addr EXCEPT !.port = PortHackTo(meta),
                               !.host = IF Reserved(addr) /\ opt.realKnown
                                        THEN "real" ELSE @]

(* No test of private addresses here, in either of their notations.        *)
HandleINet6(opt, meta, addr) ==
    IF \/ SkipsUDP(opt, meta, addr)
       \/ IsLoopback(addr) /\ ~IsDNS(meta, addr)
    THEN Nothing
    ELSE Projected(meta, addr)

(* The address part of entryHandler: what is left in the program's memory. *)
Poke(opt, meta, addr) ==
    LET poked == CASE ~Expected(meta) -> Nothing
                   [] Expected(meta) /\ opt.ignoreUDP /\ Network(meta) = "udp" -> Nothing
                   [] OTHER -> CASE addr.fam = "inet" -> HandleINet4(opt, meta, addr)
                                 [] addr.fam = "inet6" -> HandleINet6(opt, meta, addr)
                                 [] OTHER -> Nothing
    IN  IF poked = Nothing THEN addr ELSE poked

(* The target that an address stands for: a projection for the one it was  *)
(* allocated for, any other address for itself.                            *)
Named(addr) == IF addr.host = "projection" THEN addr.via ELSE Target(addr)

Options == [ignoreUDP : BOOLEAN, ignorePrivateAddr : BOOLEAN,
            supportUDP : BOOLEAN, realKnown : BOOLEAN]

=============================================================================
