CONSTANTS
    A = A
    B = B
    C = C
    h1 = h1
    h2 = h2
    Device = {A, B, C}
    PortNo = {1, 2}
    MAC = {h1, h2}
    HostAt <- MC_HostAt
    Trunks <- MC_Trunks
    Wild = Wild
    Controller = Controller
    Flood = Flood
    Broadcast = Broadcast
    NoNode = NoNode
    NoPort = NoPort
    Traffic <- MC_Traffic1
    TopologyFirst = FALSE
    MaxFailures = 1
    MaxSendErrors = 0
SPECIFICATION Spec
INVARIANTS
    TypeOK
    TableMissPreserved
    ForwardingSound
    CleanupRemovesTarget
