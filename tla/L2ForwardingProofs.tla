------------------------- MODULE L2ForwardingProofs -------------------------
(***************************************************************************)
(* Proof that the L2 policy never installs a flow that delivers a host's  *)
(* traffic to another host's port (ForwardingSound), for every topology  *)
(* and every interleaving of the sessions, failures and recoveries, send  *)
(* errors and either order of the glue.                                   *)
(***************************************************************************)
EXTENDS L2SwitchProofs

USE ConstantsAssumption

\* An ADD is sound when its output port is a trunk port or its destination's port.
AddSound(m) ==
    \/ <<m.to, m.out>> \in TrunkPorts
    \/ m.dst \in MAC /\ <<m.to, m.out>> = HostAt[m.dst]

SoundMsg == {m \in Msg : m.cmd = "add" => AddSound(m)}

OutboxSound == \A x \in Device : outbox[x] \in Seq(SoundMsg)

(***************************************************************************)
(* The physical network as the glue sees it: a port with a PORT_STATUS    *)
(* pending or a topology update due is down; both ends of a link fail and *)
(* recover together; and a link whose ports are up is known to the finder *)
(* (the IsEdge test that keeps learning off trunk ports relies on it).    *)
(***************************************************************************)
DownInv ==
    /\ \A x \in Device : \A p \in inbox[x] : <<x, p>> \in down
    /\ \A x \in Device : topoDue[x] # NoPort => <<x, topoDue[x]>> \in down
    /\ \A l \in Trunks : l \subseteq down \/ l \cap down = {}
    /\ \A l \in Trunks : l \cap down = {} => l \in links

(***************************************************************************)
(* What the finder (not under src/, modelled from spec 4.4) guarantees the *)
(* policy: it places each host only at the host's own port.  This is a    *)
(* conjunct of the inductive invariant, the fact about the environment    *)
(* ProcessPacket's finder.Node lookup relies on.                          *)
(***************************************************************************)
NodeLearnedAtHost == \A m \in MAC : node[m] \in {NoNode, HostAt[m]}

FwdInv == TypeM /\ DownInv /\ NodeLearnedAtHost /\ OutboxSound /\ ForwardingSound

\* A sequence of messages whose ADDs are all sound is a sequence of sound messages.
LEMMA SeqSound ==
    ASSUME NEW q \in Seq(Msg), \A i \in 1..Len(q) : q[i].cmd = "add" => AddSound(q[i])
    PROVE  q \in Seq(SoundMsg)
BY DEF SoundMsg

\* flood and packetout send no ADD.
LEMMA FloodSound ==
    ASSUME NEW d \in Device, NEW p \in PortNo, NEW s \in MAC, NEW t \in MAC \cup {Broadcast}
    PROVE  flood(d, p, s, t) \in Seq(SoundMsg)
<1>1. flood(d, p, s, t) \in Seq(Msg)
  BY FloodType, MaskedSeqType
<1>2. flood(d, p, s, t)[1] \in SoundMsg
  BY <1>1 DEF flood, SoundMsg
<1>. QED
  BY <1>2 DEF flood

LEMMA PacketoutSound ==
    ASSUME NEW e \in Location, NEW s \in MAC, NEW t \in MAC
    PROVE  packetout(e, s, t) \in Seq(SoundMsg)
<1>1. packetout(e, s, t) \in Seq(Msg)
  BY PacketoutType, MaskedSeqType
<1>2. packetout(e, s, t)[1] \in SoundMsg
  BY <1>1 DEF packetout, SoundMsg
<1>. QED
  BY <1>2 DEF packetout

\* setFlowRule on the destination's switch, out of the destination's port.
LEMMA SetFlowRuleSound ==
    ASSUME NEW i \in PortNo, NEW s \in MAC, NEW t \in MAC
    PROVE  setFlowRule(HostAt[t][1], i, HostAt[t][2], s, t) \in Seq(SoundMsg)
<1>1. HostAt[t] \in Device \X PortNo
  BY DEF Location
<1>2. setFlowRule(HostAt[t][1], i, HostAt[t][2], s, t) \in Seq(Msg)
  BY <1>1, SetFlowRuleType, MaskedSeqType
<1>3. AddSound(installFlow(HostAt[t][1], i, HostAt[t][2], s, t))
  BY <1>1 DEF AddSound, installFlow
<1>4. installFlow(HostAt[t][1], i, HostAt[t][2], s, t) \in SoundMsg
  BY <1>2, <1>3 DEF setFlowRule, SoundMsg
<1>. QED
  BY <1>4 DEF setFlowRule

\* localSwitching: the destination is on the ingress switch.
LEMMA LocalSwitchingSound ==
    ASSUME NEW p \in PortNo, NEW s \in MAC, NEW t \in MAC
    PROVE  localSwitching(HostAt[t][1], p, s, t, HostAt[t]) \in Seq(SoundMsg)
<1>1. HostAt[t] \in Location
  OBVIOUS
<1>. QED
  BY <1>1, SetFlowRuleSound, PacketoutSound, ConcatProperties DEF localSwitching

(***************************************************************************)
(* switching: every hop's FLOW_MOD goes to the switch a known link leaves  *)
(* from and outputs into that link (v[0]); the last one outputs to the     *)
(* destination's port.                                                     *)
(***************************************************************************)
LEMMA SwitchingSound ==
    ASSUME NEW lnk \in SUBSET Trunks, NEW a, NEW b, NEW path \in ShortestPaths(lnk, a, b),
           NEW p \in PortNo, NEW s \in MAC, NEW t \in MAC
    PROVE  switching(p, s, t, HostAt[t], path) \in Seq(SoundMsg)
<1> DEFINE L == Len(path)
           hopIn(k) == IF k = 1 THEN p ELSE path[k - 1][2][2]
           hop(k) == installFlow(path[k][1][1], hopIn(k), path[k][1][2], s, t)
           hops == [j \in 1..(2 * L) |-> hop((j + 1) \div 2)]
<1>1. PICK n \in 1..(Cardinality(Device) - 1) : path \in [1..n -> Hops(lnk)]
  BY DEF ShortestPaths, Paths
<1>2. path \in Seq(Location \X Location) /\ L >= 1
  BY PathType
<1>3. ASSUME NEW k \in 1..L PROVE hop(k) \in SoundMsg
  <2>1. path[k] \in Hops(lnk)
    BY <1>1
  <2>2. path[k][1] \in TrunkPorts /\ path[k][1] \in Location
    BY <2>1 DEF Hops, TrunkPorts
  <2>3. <<path[k][1][1], path[k][1][2]>> = path[k][1]
    BY <2>2 DEF Location
  <2>4. hop(k) \in Msg
    <3>1. hopIn(k) \in PortNo
      <4>1. CASE k = 1
        BY <4>1
      <4>2. CASE k # 1
        <5>1. k - 1 \in 1..L
          BY <4>2
        <5>2. path[k - 1] \in Location \X Location
          BY <5>1, <1>2
        <5>. QED
          BY <4>2, <5>2 DEF Location
      <4>. QED
        BY <4>1, <4>2
    <3>2. path[k][1][1] \in Device /\ path[k][1][2] \in PortNo
      BY <2>2 DEF Location
    <3>3. hop(k) \in AddMsg
      BY <3>1, <3>2 DEF installFlow, AddMsg
    <3>. QED
      BY <3>3 DEF Msg
  <2>5. <<hop(k).to, hop(k).out>> = path[k][1]
    <3>1. hop(k).to = path[k][1][1] /\ hop(k).out = path[k][1][2]
      BY DEF installFlow
    <3>. QED
      BY <2>3, <3>1
  <2>6. AddSound(hop(k))
    <3>1. <<hop(k).to, hop(k).out>> \in TrunkPorts
      BY <2>2, <2>5
    <3>. QED
      BY <3>1 DEF AddSound
  <2>. QED
    BY <2>4, <2>6 DEF SoundMsg
<1>4. hops \in Seq(SoundMsg)
  <2>1. \A j \in 1..(2 * L) : (j + 1) \div 2 \in 1..L
    BY <1>2
  <2>. QED
    BY <1>2, <1>3, <2>1
<1>5. setFlowRule(HostAt[t][1], path[L][2][2], HostAt[t][2], s, t) \in Seq(SoundMsg)
  <2>1. path[L][2][2] \in PortNo
    BY <1>2 DEF Location
  <2>. QED
    BY <2>1, SetFlowRuleSound
<1>6. packetout(HostAt[t], s, t) \in Seq(SoundMsg)
  BY PacketoutSound
<1>. QED
  BY <1>4, <1>5, <1>6, ConcatProperties DEF switching

\* cleanup sends DELETEs only.
LEMMA RemoveAllFlowsSound ==
    ASSUME NEW ord \in Orderings(Device)
    PROVE  removeAllFlows(ord) \in Seq(SoundMsg)
<1> DEFINE R == removeAllFlows(ord)
<1>1. R \in Seq(Msg)
  BY RemoveAllFlowsType, MaskedSeqType
<1>2. \A i \in 1..Len(R) : R[i].cmd = "delete"
  <2>1. ord \in Seq(Device)
    BY OrderingType
  <2>2. Len(R) = Len(ord)
    BY <2>1 DEF removeAllFlows
  <2>. QED
    BY <2>1, <2>2 DEF removeAllFlows, removeFlow
<1>. QED
  BY <1>1, <1>2 DEF SoundMsg

LEMMA RemoveNodeFlowsSound ==
    ASSUME NEW X \in SUBSET MAC, NEW ns \in Orderings(X),
           NEW ords \in [1..Len(ns) -> Orderings(Device)]
    PROVE  removeNodeFlows(ns, ords) \in Seq(SoundMsg)
<1> DEFINE N == 2 * Cardinality(Device)
           K == Len(ns)
           R == removeNodeFlows(ns, ords)
<1>1. N \in Nat /\ N >= 1
  <2>1. Cardinality(Device) \in Nat /\ Cardinality(Device) # 0
    BY FS_CardinalityType, FS_EmptySet
  <2>. QED
    BY <2>1
<1>2. ns \in Seq(X) /\ K \in Nat
  BY OrderingType, FS_Subset
<1>3. R \in Seq(Msg)
  BY RemoveNodeFlowsType, MaskedSeqType
<1>4. ASSUME NEW j \in 1..Len(R) PROVE R[j].cmd = "delete"
  <2> DEFINE k == ((j - 1) \div N) + 1
             r == ((j - 1) % N) + 1
  <2>1. Len(R) = N * K
    BY <1>1, <1>2 DEF removeNodeFlows
  <2>2. k \in 1..K /\ r \in 1..N
    BY <1>1, <1>2, <2>1, DivModBounds
  <2>3. ns[k] \in MAC /\ ords[k] \in Orderings(Device)
    BY <1>2, <2>2
  <2>4. Len(ords[k]) = Cardinality(Device)
    BY <2>3, OrderingType
  <2>5. R[j] = removeFlowRules(ns[k], ords[k])[r]
    BY <2>1, <1>1, <1>2 DEF removeNodeFlows
  <2>6. r \in 1..(2 * Len(ords[k]))
    BY <2>2, <2>4
  <2>7. removeFlowRules(ns[k], ords[k])[r].cmd = "delete"
    BY <2>6 DEF removeFlowRules, removeFlow
  <2>. QED
    BY <2>5, <2>7
<1>. QED
  BY <1>3, <1>4, SeqSound


-----------------------------------------------------------------------------
(***************************************************************************)
(* Learning.  A packet that comes in by an inter-switch port comes in by a *)
(* link whose ports are up (the port is up and links fail whole), and such *)
(* a link is known to the finder, so IsEdge holds and nothing is learned.  *)
(***************************************************************************)
LEMMA NoLearnOnTrunk ==
    ASSUME DownInv, NEW d \in Device, NEW p \in PortNo, NEW s \in MAC,
           <<d, p>> \notin down, ArrivesOnTrunk(d, p, s)
    PROVE  IsEdge(links, <<d, p>>)
<1>1. PICK l \in Trunks : <<d, p>> \in l
  BY DEF ArrivesOnTrunk
<1>2. l \cap down = {}
  BY <1>1 DEF DownInv
<1>3. l \in links
  BY <1>2 DEF DownInv
<1>. QED
  BY <1>1, <1>3 DEF IsEdge

\* Learn places the source of a packet the switch can raise at its own port.
LEMMA LearnAtHost ==
    ASSUME TypeM, DownInv, NodeLearnedAtHost,
           NEW d \in Device, NEW p \in PortNo, NEW s \in MAC, <<d, p>> \notin down,
           HostAt[s] = <<d, p>> \/ ArrivesOnTrunk(d, p, s)
    PROVE  \A m \in MAC : Learn(node, links, d, p, s)[m] \in {NoNode, HostAt[m]}
<1>1. CASE IsEdge(links, <<d, p>>)
  BY <1>1 DEF Learn, NodeLearnedAtHost
<1>2. CASE ~IsEdge(links, <<d, p>>)
  <2>1. HostAt[s] = <<d, p>>
    BY <1>2, NoLearnOnTrunk
  <2>. QED
    BY <1>2, <2>1 DEF Learn, NodeLearnedAtHost, TypeM, TypeOK
<1>. QED
  BY <1>1, <1>2

(***************************************************************************)
(* ProcessPacket: the destination the finder returns is the destination's *)
(* own port, so localSwitching and switching install sound flows.         *)
(***************************************************************************)
LEMMA ProcessPacketFwd ==
    ASSUME FwdInv, NEW d \in Device, NEW p \in PortNo, NEW st \in Traffic,
           ProcessPacket(d, p, st[1], st[2])
    PROVE  FwdInv'
<1> DEFINE s == st[1]
           t == st[2]
           nd == Learn(node, links, d, p, s)
           dstNode == IF t \in MAC THEN nd[t] ELSE NoNode
           Sends(msgs) == outbox' = [outbox EXCEPT ![d] = msgs]
<1>1. s \in MAC /\ t \in MAC \cup {Broadcast}
  OBVIOUS
<1>2. \A m \in MAC : nd[m] \in {NoNode, HostAt[m]}
  BY <1>1, LearnAtHost DEF ProcessPacket, FwdInv
<1>3. dstNode # NoNode => t \in MAC /\ dstNode = HostAt[t]
  BY <1>2
<1>4. \E msgs \in Seq(SoundMsg) : Sends(msgs)
  <2>1. CASE dstNode = NoNode \/ isBroadcast(t)
    <3>1. Sends(flood(d, p, s, t))
      BY <2>1 DEF ProcessPacket, isBroadcast
    <3>. QED
      BY <1>1, <3>1, FloodSound
  <2>2. CASE dstNode # NoNode /\ ~isBroadcast(t) /\ dstNode[1] = d
    <3>1. Sends(localSwitching(d, p, s, t, dstNode))
      BY <2>2 DEF ProcessPacket
    <3>2. t \in MAC /\ dstNode = HostAt[t]
      BY <2>2, <1>3
    <3>3. localSwitching(HostAt[t][1], p, s, t, HostAt[t]) \in Seq(SoundMsg)
      BY <1>1, <3>2, LocalSwitchingSound
    <3>. QED
      BY <2>2, <3>1, <3>2, <3>3
  <2>3. CASE /\ dstNode # NoNode /\ ~isBroadcast(t) /\ dstNode[1] # d
             /\ ShortestPaths(links, d, dstNode[1]) = {}
    <3>1. Sends(<<>>)
      BY <2>3 DEF ProcessPacket
    <3>2. <<>> \in Seq(SoundMsg)
      OBVIOUS
    <3>. QED
      BY <3>1, <3>2, Zenon
  <2>4. CASE /\ dstNode # NoNode /\ ~isBroadcast(t) /\ dstNode[1] # d
             /\ ShortestPaths(links, d, dstNode[1]) # {}
    <3>1. PICK path \in ShortestPaths(links, d, dstNode[1]) :
                 Sends(switching(p, s, t, dstNode, path))
      BY <2>4 DEF ProcessPacket
    <3>2. t \in MAC /\ dstNode = HostAt[t]
      BY <2>4, <1>3
    <3>3. links \subseteq Trunks
      BY DEF FwdInv, TypeM, TypeOK
    <3>4. switching(p, s, t, HostAt[t], path) \in Seq(SoundMsg)
      BY <1>1, <3>2, <3>3, SwitchingSound
    <3>. QED
      BY <3>1, <3>2, <3>4
  <2>. QED
    BY <2>1, <2>2, <2>3, <2>4
<1>5. OutboxSound'
  BY <1>4 DEF FwdInv, OutboxSound, TypeM, TypeOK
<1>6. NodeLearnedAtHost'
  BY <1>2 DEF ProcessPacket, NodeLearnedAtHost
<1>7. DownInv' /\ ForwardingSound'
  BY DEF ProcessPacket, DownInv, ForwardingSound, FwdInv
<1>8. TypeM'
  BY ProcessPacketType DEF FwdInv
<1>. QED
  BY <1>5, <1>6, <1>7, <1>8 DEF FwdInv

(***************************************************************************)
(* ProcessEvent queues DELETEs only; the topology update it may do first  *)
(* removes only links through the port that went down, and forgets only   *)
(* hosts, so the finder still knows every link whose ports are up.        *)
(***************************************************************************)
LEMMA ProcessEventFwd ==
    ASSUME FwdInv, NEW d \in Device, ProcessEvent(d)
    PROVE  FwdInv'
<1> DEFINE nd(q) == IF TopologyFirst THEN NodesWithout(node, <<d, q>>) ELSE node
<1>1. PICK p \in inbox[d] :
        /\ \/ \E ord \in Orderings(Device) :
                  outbox' = [outbox EXCEPT ![d] = removeAllFlows(ord)]
           \/ \E ns \in Orderings(NodesAt(nd(p), <<d, p>>)) :
              \E ords \in [1..Len(ns) -> Orderings(Device)] :
                  outbox' = [outbox EXCEPT ![d] = removeNodeFlows(ns, ords)]
        /\ links' = IF TopologyFirst THEN LinksWithout(links, <<d, p>>) ELSE links
        /\ node' = nd(p)
        /\ topoDue' = [topoDue EXCEPT ![d] = IF TopologyFirst THEN NoPort ELSE p]
        /\ inbox' = [inbox EXCEPT ![d] = @ \ {p}]
        /\ UNCHANGED <<table, down>>
  BY DEF ProcessEvent
<1>2. \E msgs \in Seq(SoundMsg) : outbox' = [outbox EXCEPT ![d] = msgs]
  <2>1. CASE \E ord \in Orderings(Device) :
               outbox' = [outbox EXCEPT ![d] = removeAllFlows(ord)]
    <3>1. PICK ord \in Orderings(Device) : outbox' = [outbox EXCEPT ![d] = removeAllFlows(ord)]
      BY <2>1
    <3>. QED
      BY <3>1, RemoveAllFlowsSound
  <2>2. CASE \E ns \in Orderings(NodesAt(nd(p), <<d, p>>)) :
             \E ords \in [1..Len(ns) -> Orderings(Device)] :
                 outbox' = [outbox EXCEPT ![d] = removeNodeFlows(ns, ords)]
    <3>1. NodesAt(nd(p), <<d, p>>) \in SUBSET MAC
      BY DEF NodesAt
    <3>2. PICK ns \in Orderings(NodesAt(nd(p), <<d, p>>)) :
             \E ords \in [1..Len(ns) -> Orderings(Device)] :
                 outbox' = [outbox EXCEPT ![d] = removeNodeFlows(ns, ords)]
      BY <2>2
    <3>3. PICK ords \in [1..Len(ns) -> Orderings(Device)] :
                 outbox' = [outbox EXCEPT ![d] = removeNodeFlows(ns, ords)]
      BY <3>2
    <3>4. removeNodeFlows(ns, ords) \in Seq(SoundMsg)
      BY <3>1, RemoveNodeFlowsSound
    <3>. QED
      BY <3>3, <3>4
  <2>. QED
    BY <1>1, <2>1, <2>2
<1>3. OutboxSound'
  BY <1>2 DEF FwdInv, OutboxSound, TypeM, TypeOK
<1>4. NodeLearnedAtHost'
  BY <1>1 DEF FwdInv, NodeLearnedAtHost, NodesWithout
<1>5. <<d, p>> \in down
  BY DEF FwdInv, DownInv
<1>6. DownInv'
  <2>1. \A x \in Device : \A q \in inbox'[x] : <<x, q>> \in down'
    <3>1. SUFFICES ASSUME NEW x \in Device, NEW q \in inbox'[x] PROVE <<x, q>> \in down
      BY <1>1
    <3>2. inbox' = [inbox EXCEPT ![d] = inbox[d] \ {p}]
      BY <1>1
    <3>3. q \in inbox[x]
      BY <3>2 DEF FwdInv, TypeM, TypeOK
    <3>. QED
      BY <3>3 DEF FwdInv, DownInv
  <2>2. \A x \in Device : topoDue'[x] # NoPort => <<x, topoDue'[x]>> \in down'
    BY <1>1, <1>5 DEF FwdInv, DownInv, TypeM, TypeOK
  <2>3. \A l \in Trunks : l \cap down' = {} => l \in links'
    BY <1>1, <1>5 DEF FwdInv, DownInv, LinksWithout
  <2>. QED
    BY <1>1, <2>1, <2>2, <2>3 DEF FwdInv, DownInv
<1>7. ForwardingSound'
  BY <1>1 DEF FwdInv, ForwardingSound
<1>8. TypeM'
  BY ProcessEventType DEF FwdInv
<1>. QED
  BY <1>3, <1>4, <1>6, <1>7, <1>8 DEF FwdInv

\* The forwarding entries of table tbl of switch x are sound.
TableSound(x, tbl) ==
    \A r \in tbl : r.cookie = 0 => \/ <<x, r.out>> \in TrunkPorts
                                   \/ r.dst \in MAC /\ <<x, r.out>> = HostAt[r.dst]

\* Applying a sound message to a switch's table keeps its entries sound.
LEMMA ApplySound ==
    ASSUME NEW x \in Device, NEW tbl, NEW m \in SoundMsg, m.to = x, TableSound(x, tbl)
    PROVE  TableSound(x, ApplyMsg(tbl, m))
<1> USE DEF TableSound
<1>1. CASE m.cmd = "add"
  <2>1. AddSound(m)
    BY <1>1 DEF SoundMsg
  <2>. QED
    BY <1>1, <2>1 DEF ApplyMsg, AddSound
<1>2. CASE m.cmd # "add"
  <2>1. ApplyMsg(tbl, m) \subseteq tbl
    BY <1>2 DEF ApplyMsg
  <2>. QED
    BY <2>1
<1>. QED
  BY <1>1, <1>2

\* SendMessage applies the head of the outbox, a sound message.
LEMMA SendMessageFwd ==
    ASSUME FwdInv, NEW d \in Device, SendMessage(d)
    PROVE  FwdInv'
<1> DEFINE m == Head(outbox[d])
<1>1. outbox[d] \in Seq(SoundMsg) /\ outbox[d] # <<>>
  BY DEF FwdInv, OutboxSound, SendMessage
<1>2. m \in SoundMsg /\ Tail(outbox[d]) \in Seq(SoundMsg)
  BY <1>1, HeadTailProperties
<1>3. m.to \in Device
  BY <1>2 DEF SoundMsg, Msg, AddMsg, DelMsg, OutMsg
<1>4. table' = [table EXCEPT ![m.to] = ApplyMsg(table[m.to], m)]
  BY DEF SendMessage
<1>5. ForwardingSound'
  <2>1. SUFFICES ASSUME NEW x \in Device PROVE TableSound(x, table'[x])
    BY DEF ForwardingSound, TableSound
  <2>2. CASE x # m.to
    BY <1>4, <2>2 DEF FwdInv, ForwardingSound, TableSound, TypeM, TypeOK
  <2>3. CASE x = m.to
    <3>1. table'[x] = ApplyMsg(table[x], m)
      BY <1>3, <1>4, <2>3 DEF FwdInv, TypeM, TypeOK
    <3>2. TableSound(x, table[x])
      BY DEF FwdInv, ForwardingSound, TableSound
    <3>3. TableSound(x, ApplyMsg(table[x], m))
      BY <1>2, <2>3, <3>2, ApplySound
    <3>. QED
      BY <3>1, <3>3
  <2>. QED
    BY <2>2, <2>3
<1>6. OutboxSound'
  BY <1>2 DEF SendMessage, FwdInv, OutboxSound, TypeM, TypeOK
<1>7. DownInv' /\ NodeLearnedAtHost'
  BY DEF SendMessage, FwdInv, DownInv, NodeLearnedAtHost
<1>8. TypeM'
  BY SendMessageType DEF FwdInv
<1>. QED
  BY <1>5, <1>6, <1>7, <1>8 DEF FwdInv

\* A failed send skips a suffix of the sound messages still pending.
LEMMA SendFailureFwd ==
    ASSUME FwdInv, NEW d \in Device, SendFailure(d)
    PROVE  FwdInv'
<1> DEFINE rest == Tail(outbox[d])
<1>1. outbox[d] \in Seq(SoundMsg) /\ outbox[d] # <<>>
  BY DEF FwdInv, OutboxSound, SendFailure
<1>2. rest \in Seq(SoundMsg)
  BY <1>1, HeadTailProperties
<1>3. PICK k \in 0..Len(rest) : outbox' = [outbox EXCEPT ![d] = SubSeq(rest, k + 1, Len(rest))]
  BY DEF SendFailure
<1>4. SubSeq(rest, k + 1, Len(rest)) \in Seq(SoundMsg)
  BY <1>2, SubSeqProperties
<1>5. OutboxSound'
  BY <1>3, <1>4 DEF FwdInv, OutboxSound, TypeM, TypeOK
<1>6. DownInv' /\ NodeLearnedAtHost' /\ ForwardingSound'
  BY DEF SendFailure, FwdInv, DownInv, NodeLearnedAtHost, ForwardingSound
<1>7. TypeM'
  BY SendFailureType DEF FwdInv
<1>. QED
  BY <1>5, <1>6, <1>7 DEF FwdInv

\* The glue's topology update after the handler: the port is down.
LEMMA TopologyUpdateFwd ==
    ASSUME FwdInv, NEW d \in Device, TopologyUpdate(d)
    PROVE  FwdInv'
<1>1. <<d, topoDue[d]>> \in down
  BY DEF TopologyUpdate, FwdInv, DownInv
<1>2. \A l \in Trunks : l \cap down' = {} => l \in links'
  BY <1>1 DEF TopologyUpdate, FwdInv, DownInv, LinksWithout
<1>3. \A x \in Device : topoDue'[x] # NoPort => <<x, topoDue'[x]>> \in down'
  BY DEF TopologyUpdate, FwdInv, DownInv, TypeM, TypeOK
<1>4. DownInv'
  BY <1>2, <1>3 DEF TopologyUpdate, FwdInv, DownInv
<1>5. NodeLearnedAtHost' /\ OutboxSound' /\ ForwardingSound'
  BY DEF TopologyUpdate, FwdInv, NodeLearnedAtHost, NodesWithout, OutboxSound, ForwardingSound
<1>6. TypeM'
  BY TopologyUpdateType DEF FwdInv
<1>. QED
  BY <1>4, <1>5, <1>6 DEF FwdInv

(***************************************************************************)
(* The environment changes only the ports that are down and the pending   *)
(* PORT_STATUS reports (and, on a link's recovery, the finder's links).   *)
(* A host port is on no link, and two links share no port.                *)
(***************************************************************************)
LEMMA FailPortFwd ==
    ASSUME FwdInv, NEW loc \in Location, FailPort(loc)
    PROVE  FwdInv'
<1>1. \A l \in Trunks : loc \notin l
  BY DEF FailPort, HostPorts
<1>2. loc = <<loc[1], loc[2]>> /\ loc[1] \in Device
  BY DEF Location
<1>3. \A x \in Device : \A q \in inbox'[x] : <<x, q>> \in down'
  <2>1. SUFFICES ASSUME NEW x \in Device, NEW q \in inbox'[x] PROVE <<x, q>> \in down'
    OBVIOUS
  <2>2. q \in inbox[x] \/ (x = loc[1] /\ q = loc[2])
    BY <1>2 DEF FailPort, FwdInv, TypeM, TypeOK
  <2>3. down \subseteq down' /\ loc \in down'
    BY DEF FailPort
  <2>4. CASE q \in inbox[x]
    BY <2>3, <2>4 DEF FwdInv, DownInv
  <2>5. CASE x = loc[1] /\ q = loc[2]
    BY <1>2, <2>3, <2>5
  <2>. QED
    BY <2>2, <2>4, <2>5
<1>4. DownInv'
  BY <1>1, <1>3 DEF FailPort, FwdInv, DownInv
<1>5. TypeM'
  BY EnvironmentType DEF FwdInv
<1>. QED
  BY <1>4, <1>5 DEF FailPort, FwdInv, NodeLearnedAtHost, OutboxSound, ForwardingSound

LEMMA FailLinkFwd ==
    ASSUME FwdInv, NEW l \in Trunks, FailLink(l)
    PROVE  FwdInv'
<1>1. l \subseteq Location /\ l # {}
  <2>1. l \subseteq Location /\ Cardinality(l) = 2
    OBVIOUS
  <2>2. l # {}
    <3>1. SUFFICES ASSUME l = {} PROVE FALSE
      OBVIOUS
    <3>2. Cardinality(l) = 0
      BY <3>1, FS_EmptySet
    <3>. QED
      BY <2>1, <3>2
  <2>. QED
    BY <2>1, <2>2
<1>2. \A x \in Device : \A q \in inbox'[x] : <<x, q>> \in down'
  <2>1. SUFFICES ASSUME NEW x \in Device, NEW q \in inbox'[x] PROVE <<x, q>> \in down'
    OBVIOUS
  <2>2. CASE q \in inbox[x]
    BY <2>2 DEF FailLink, FwdInv, DownInv
  <2>3. CASE q \notin inbox[x]
    <3>1. PICK u \in l : u[1] = x /\ q = u[2]
      BY <2>3 DEF FailLink
    <3>2. u = <<x, q>>
      BY <1>1, <3>1 DEF Location
    <3>. QED
      BY <3>2 DEF FailLink
  <2>. QED
    BY <2>2, <2>3
<1>3. \A l2 \in Trunks : l2 # l => l2 \cap down' = l2 \cap down
  BY DEF FailLink
<1>4. \A l2 \in Trunks : l2 \subseteq down' \/ l2 \cap down' = {}
  BY <1>3 DEF FailLink, FwdInv, DownInv
<1>5. \A l2 \in Trunks : l2 \cap down' = {} => l2 \in links'
  BY <1>1, <1>3 DEF FailLink, FwdInv, DownInv
<1>6. DownInv'
  BY <1>2, <1>4, <1>5 DEF FailLink, FwdInv, DownInv
<1>7. TypeM'
  BY EnvironmentType DEF FwdInv
<1>. QED
  BY <1>6, <1>7 DEF FailLink, FwdInv, NodeLearnedAtHost, OutboxSound, ForwardingSound

LEMMA RecoverPortFwd ==
    ASSUME FwdInv, NEW loc \in Location, RecoverPort(loc)
    PROVE  FwdInv'
<1>1. \A l \in Trunks : loc \notin l
  BY DEF RecoverPort, HostPorts
<1>2. loc = <<loc[1], loc[2]>> /\ loc[2] \in PortNo
  BY DEF Location
<1>3. loc[2] \notin inbox[loc[1]] /\ topoDue[loc[1]] = NoPort
  BY DEF RecoverPort, Handled, Idle
<1>4. \A x \in Device : \A q \in inbox'[x] : <<x, q>> \in down'
  <2>1. SUFFICES ASSUME NEW x \in Device, NEW q \in inbox'[x] PROVE <<x, q>> \in down'
    OBVIOUS
  <2>2. q \in inbox[x] /\ down' = down \ {loc}
    BY DEF RecoverPort
  <2>3. <<x, q>> # loc
    BY <1>2, <1>3, <2>2
  <2>. QED
    BY <2>2, <2>3 DEF FwdInv, DownInv
<1>5. \A x \in Device : topoDue'[x] # NoPort => <<x, topoDue'[x]>> \in down'
  BY <1>2, <1>3 DEF RecoverPort, FwdInv, DownInv
<1>6. DownInv'
  BY <1>1, <1>4, <1>5 DEF RecoverPort, FwdInv, DownInv
<1>7. TypeM'
  BY EnvironmentType DEF FwdInv
<1>. QED
  BY <1>6, <1>7 DEF RecoverPort, FwdInv, NodeLearnedAtHost, OutboxSound, ForwardingSound

LEMMA RecoverLinkFwd ==
    ASSUME FwdInv, NEW l \in Trunks, RecoverLink(l)
    PROVE  FwdInv'
<1>1. \A x \in Device : \A q \in inbox'[x] : <<x, q>> \in down'
  <2>1. SUFFICES ASSUME NEW x \in Device, NEW q \in inbox'[x] PROVE <<x, q>> \in down'
    OBVIOUS
  <2>2. <<x, q>> \notin l
    BY DEF RecoverLink, Handled
  <2>. QED
    BY <2>2 DEF RecoverLink, FwdInv, DownInv
<1>2. \A x \in Device : topoDue'[x] # NoPort => <<x, topoDue'[x]>> \in down'
  <2>1. SUFFICES ASSUME NEW x \in Device, topoDue'[x] # NoPort PROVE <<x, topoDue'[x]>> \in down'
    OBVIOUS
  <2>2. <<x, topoDue[x]>> \notin l
    BY <2>1 DEF RecoverLink, Handled, Idle
  <2>. QED
    BY <2>1, <2>2 DEF RecoverLink, FwdInv, DownInv
<1>3. \A l2 \in Trunks : l2 # l => l2 \cap down' = l2 \cap down
  BY DEF RecoverLink
<1>4. DownInv'
  BY <1>1, <1>2, <1>3 DEF RecoverLink, FwdInv, DownInv
<1>5. TypeM'
  BY EnvironmentType DEF FwdInv
<1>. QED
  BY <1>4, <1>5 DEF RecoverLink, FwdInv, NodeLearnedAtHost, OutboxSound, ForwardingSound

\* Every step keeps FwdInv.
LEMMA NextFwd == FwdInv /\ [Next]_vars => FwdInv'
<1> SUFFICES ASSUME FwdInv, [Next]_vars PROVE FwdInv'
  OBVIOUS
<1>1. CASE \E d \in Device, p \in PortNo, st \in Traffic : ProcessPacket(d, p, st[1], st[2])
  BY <1>1, ProcessPacketFwd
<1>2. CASE \E d \in Device : ProcessEvent(d)
  BY <1>2, ProcessEventFwd
<1>3. CASE \E d \in Device : SendMessage(d)
  BY <1>3, SendMessageFwd
<1>4. CASE \E d \in Device : SendFailure(d)
  BY <1>4, SendFailureFwd
<1>5. CASE \E d \in Device : TopologyUpdate(d)
  BY <1>5, TopologyUpdateFwd
<1>6. CASE \E loc \in Location : FailPort(loc) \/ RecoverPort(loc)
  BY <1>6, FailPortFwd, RecoverPortFwd
<1>7. CASE \E l \in Trunks : FailLink(l) \/ RecoverLink(l)
  BY <1>7, FailLinkFwd, RecoverLinkFwd
<1>8. CASE UNCHANGED vars
  BY <1>8 DEF vars, FwdInv, TypeM, TypeOK, OutboxMasked, DownInv, NodeLearnedAtHost,
             OutboxSound, ForwardingSound
<1>. QED
  BY <1>1, <1>2, <1>3, <1>4, <1>5, <1>6, <1>7, <1>8 DEF Next

\* In the initial state nothing is down or learned and only table-miss entries exist.
LEMMA InitFwd == Init => FwdInv
<1> SUFFICES ASSUME Init PROVE FwdInv
  OBVIOUS
<1>1. TypeM
  BY InitType
<1>2. DownInv /\ NodeLearnedAtHost /\ OutboxSound
  BY DEF Init, DownInv, NodeLearnedAtHost, OutboxSound
<1>3. ForwardingSound
  BY DEF Init, ForwardingSound, TableMiss
<1>. QED
  BY <1>1, <1>2, <1>3 DEF FwdInv

(***************************************************************************)
(* switching and localSwitching (flowParam.outPort): in every reachable   *)
(* state every forwarding entry of every switch sends into an inter-switch *)
(* link or out of its destination's own port.                             *)
(***************************************************************************)
THEOREM ForwardingSafe == Spec => []ForwardingSound
<1>1. FwdInv => ForwardingSound
  BY DEF FwdInv
<1>. QED
  BY InitFwd, NextFwd, <1>1, PTL DEF Spec
=============================================================================




