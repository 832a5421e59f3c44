SPECIFICATION FairSpec
CONSTANTS
    f1 = f1
    f2 = f2
    ip1 = ip1
    ip2 = ip2
    d1 = d1
    d2 = d2
    Flows <- MCFlows
    IPs <- MCOneIP
    Domains <- MCDomains
    Port = 80
    None = None
    AddrLast = 4
    AddrStart <- MCAddrStart
    DomLast = 2
    DomStart <- MCDomStart
INVARIANTS
    TypeOK
    TCPDialsWanted
    AnswersStayTrue
    ICMPReachesDomain
PROPERTIES
    DirectoriesOnlyGrow
    HandledRegardless
