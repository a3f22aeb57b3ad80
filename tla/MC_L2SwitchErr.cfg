CONSTANTS
    A = A
    B = B
    C = C
    h1 = h1
    h2 = h2
    Device = {A, B}
    PortNo = {1, 2}
    MAC = {h1, h2}
    HostAt <- MC_HostAt2
    Trunks <- MC_Trunks2
    Wild = Wild
    Controller = Controller
    Flood = Flood
    Broadcast = Broadcast
    NoNode = NoNode
    NoPort = NoPort
    Traffic <- MC_Traffic
    TopologyFirst = FALSE
    MaxFailures = 2
    MaxSendErrors = 1
SPECIFICATION Spec
INVARIANTS
    TypeOK
    TableMissPreserved
    ForwardingSound
