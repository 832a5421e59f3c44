SPECIFICATION FairSpec
CONSTANTS
    l1 = l1
    l2 = l2
    m1 = m1
    m2 = m2
    m3 = m3
    Clients <- MCClients
    Datagrams <- MCDatagrams
    Free = Free
CHECK_DEADLOCK FALSE
INVARIANTS
    OneSocketPerClient
    NoOrphanSocket
    RelayKeepsSocket
    NoLostWakeup
    OwnSocket
    TableAgrees
PROPERTIES
    DatagramHandled
    SocketClosed
    ImplementsSessions
