SPECIFICATION Spec
CONSTANTS
    f1 = f1
    f2 = f2
    ip1 = ip1
    ip2 = ip2
    d1 = d1
    d2 = d2
    Flows <- MCFlows
    IPs <- MCIPs
    Domains <- MCOneDomain
    Port = 80
    None = None
    AddrLast = 4
    AddrStart <- MCAddrStart
    DomLast = 2
    DomStart <- MCDomStart
INVARIANT UDPReachesWanted
