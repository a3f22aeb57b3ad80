--------------------------- MODULE L2SwitchProofs ---------------------------
(***************************************************************************)
(* Proofs about the L2 forwarding policy (L2Switch) for every value of the *)
(* constants that satisfies ConstantsAssumption: the type invariant, and   *)
(* cookie safety (no interleaving of sessions ever removes a table-miss    *)
(* entry).                                                                 *)
(***************************************************************************)
EXTENDS L2Switch, TLAPS, SequenceTheorems, FiniteSetTheorems

USE ConstantsAssumption

(***************************************************************************)
(* The messages a handler may have pending: its ADDs and PACKET_OUTs, and  *)
(* DELETEs that carry the cookie mask (removeFlow sets CookieMask 1<<63).  *)
(***************************************************************************)
MaskedMsg == AddMsg \cup {m \in DelMsg : m.mask = 1} \cup OutMsg

OutboxMasked == \A x \in Device : outbox[x] \in Seq(MaskedMsg)


\* The type invariant with the pending messages' masks.
TypeM == TypeOK /\ OutboxMasked

\* The messages the handlers build are messages.
LEMMA MaskedSeqType == Seq(MaskedMsg) \subseteq Seq(Msg)
<1>1. MaskedMsg \subseteq Msg
  BY DEF MaskedMsg, Msg
<1>. QED
  BY <1>1

(***************************************************************************)
(* The messages the handlers build are sequences of well-formed messages. *)
(***************************************************************************)
LEMMA OrderingType ==
    ASSUME NEW S, IsFiniteSet(S), NEW ord \in Orderings(S)
    PROVE  /\ ord \in Seq(S)
           /\ Len(ord) = Cardinality(S)
           /\ DOMAIN ord = 1..Cardinality(S)
<1>1. Cardinality(S) \in Nat
  BY FS_CardinalityType
<1>2. ord \in [1..Cardinality(S) -> S]
  BY DEF Orderings, SetToSeqs
<1>. QED
  BY <1>1, <1>2

\* flood builds one well-formed PACKET_OUT.
LEMMA FloodType ==
    ASSUME NEW d \in Device, NEW p \in PortNo, NEW s \in MAC, NEW t \in MAC \cup {Broadcast}
    PROVE  flood(d, p, s, t) \in Seq(MaskedMsg)
BY DEF flood, MaskedMsg, OutMsg

\* packetout builds one well-formed PACKET_OUT through the egress port.
LEMMA PacketoutType ==
    ASSUME NEW e \in Location, NEW s \in MAC, NEW t \in MAC
    PROVE  packetout(e, s, t) \in Seq(MaskedMsg)
BY DEF packetout, MaskedMsg, OutMsg, Location

\* setFlowRule builds two well-formed FLOW_MOD(ADD)s.
LEMMA SetFlowRuleType ==
    ASSUME NEW x \in Device, NEW i \in PortNo, NEW o \in PortNo, NEW s \in MAC, NEW t \in MAC
    PROVE  setFlowRule(x, i, o, s, t) \in Seq(MaskedMsg)
BY DEF setFlowRule, installFlow, MaskedMsg, AddMsg

\* localSwitching builds well-formed messages.
LEMMA LocalSwitchingType ==
    ASSUME NEW d \in Device, NEW p \in PortNo, NEW s \in MAC, NEW t \in MAC, NEW e \in Location
    PROVE  localSwitching(d, p, s, t, e) \in Seq(MaskedMsg)
<1>1. setFlowRule(d, p, e[2], s, t) \in Seq(MaskedMsg)
  BY SetFlowRuleType DEF Location
<1>2. packetout(e, s, t) \in Seq(MaskedMsg)
  BY PacketoutType
<1>. QED
  BY <1>1, <1>2, ConcatProperties DEF localSwitching

\* switching builds well-formed messages along any path of known links.
LEMMA SwitchingType ==
    ASSUME NEW p \in PortNo, NEW s \in MAC, NEW t \in MAC, NEW e \in Location,
           NEW path \in Seq(Location \X Location), Len(path) >= 1
    PROVE  switching(p, s, t, e, path) \in Seq(MaskedMsg)
<1> DEFINE L == Len(path)
           hopIn(k) == IF k = 1 THEN p ELSE path[k - 1][2][2]
           hop(k) == installFlow(path[k][1][1], hopIn(k), path[k][1][2], s, t)
           hops == [j \in 1..(2 * L) |-> hop((j + 1) \div 2)]
<1>1. ASSUME NEW k \in 1..L PROVE hop(k) \in MaskedMsg
  <2>1. hopIn(k) \in PortNo
    BY DEF Location
  <2>2. path[k] \in Location \X Location
    OBVIOUS
  <2>. QED
    BY <2>1, <2>2 DEF installFlow, MaskedMsg, AddMsg, Location
<1>2. hops \in Seq(MaskedMsg)
  <2>1. \A j \in 1..(2 * L) : (j + 1) \div 2 \in 1..L
    OBVIOUS
  <2>. QED
    BY <1>1, <2>1
<1>3. setFlowRule(e[1], path[L][2][2], e[2], s, t) \in Seq(MaskedMsg)
  <2>1. path[L] \in Location \X Location
    OBVIOUS
  <2>. QED
    BY <2>1, SetFlowRuleType DEF Location
<1>4. packetout(e, s, t) \in Seq(MaskedMsg)
  BY PacketoutType
<1>. QED
  BY <1>2, <1>3, <1>4, ConcatProperties DEF switching

\* removeAllFlows builds one masked wildcard delete per device.
LEMMA RemoveAllFlowsType ==
    ASSUME NEW ord \in Orderings(Device)
    PROVE  removeAllFlows(ord) \in Seq(MaskedMsg)
<1>1. ord \in Seq(Device)
  BY OrderingType
<1>. QED
  BY <1>1 DEF removeAllFlows, removeFlow, MaskedMsg, DelMsg

\* removeFlowRules builds two masked deletes per device.
LEMMA RemoveFlowRulesType ==
    ASSUME NEW m \in MAC, NEW ord \in Orderings(Device)
    PROVE  /\ removeFlowRules(m, ord) \in Seq(MaskedMsg)
           /\ Len(removeFlowRules(m, ord)) = 2 * Cardinality(Device)
<1> DEFINE N == 2 * Cardinality(Device)
<1>1. ord \in [1..Cardinality(Device) -> Device] /\ Len(ord) = Cardinality(Device)
      /\ Cardinality(Device) \in Nat
  BY OrderingType, FS_CardinalityType
<1>2. \A j \in 1..N : (j + 1) \div 2 \in 1..Cardinality(Device)
  BY <1>1
<1>3. ASSUME NEW j \in 1..N PROVE removeFlowRules(m, ord)[j] \in MaskedMsg
  <2>1. ord[(j + 1) \div 2] \in Device
    BY <1>1, <1>2
  <2>. QED
    BY <2>1, <1>1 DEF removeFlowRules, removeFlow, MaskedMsg, DelMsg
<1>4. removeFlowRules(m, ord) \in [1..N -> MaskedMsg]
  BY <1>1, <1>3 DEF removeFlowRules
<1>. QED
  BY <1>1, <1>4

(***************************************************************************)
(* Arithmetic of the flattened per-node cleanup sequence: position j of a  *)
(* sequence of K blocks of N messages is message (j-1)%N+1 of block        *)
(* (j-1)\div N+1.                                                          *)
(***************************************************************************)
LEMMA DivModBounds ==
    ASSUME NEW N \in Nat, N >= 1, NEW K \in Nat, NEW j \in 1..(N * K)
    PROVE  /\ ((j - 1) \div N) + 1 \in 1..K
           /\ ((j - 1) % N) + 1 \in 1..N
<1>1. (j - 1) % N \in 0..(N - 1)
  BY Z3
<1>2. (j - 1) \div N \in Nat
  BY Z3
<1>3. j - 1 = N * ((j - 1) \div N) + ((j - 1) % N)
  BY Z3
<1>4. (j - 1) \div N < K
  <2>1. SUFFICES ASSUME (j - 1) \div N >= K PROVE FALSE
    BY <1>2
  <2>2. N * ((j - 1) \div N) >= N * K
    BY <2>1, <1>2, Z3
  <2>. QED
    BY <2>2, <1>1, <1>3, Z3
<1>. QED
  BY <1>1, <1>2, <1>4

\* cleanup's node loop builds masked deletes only.
LEMMA RemoveNodeFlowsType ==
    ASSUME NEW X \in SUBSET MAC, NEW ns \in Orderings(X),
           NEW ords \in [1..Len(ns) -> Orderings(Device)]
    PROVE  removeNodeFlows(ns, ords) \in Seq(MaskedMsg)
<1> DEFINE N == 2 * Cardinality(Device)
           K == Len(ns)
<1>1. N \in Nat /\ N >= 1
  <2>1. Cardinality(Device) \in Nat /\ Cardinality(Device) # 0
    BY FS_CardinalityType, FS_EmptySet
  <2>. QED
    BY <2>1
<1>2. ns \in Seq(X) /\ K \in Nat
  BY OrderingType, FS_Subset
<1>3. ASSUME NEW j \in 1..(N * K)
      PROVE  /\ ((j - 1) \div N) + 1 \in 1..K
             /\ ((j - 1) % N) + 1 \in 1..N
  BY <1>1, <1>2, DivModBounds
<1>4. ASSUME NEW j \in 1..(N * K)
      PROVE  removeFlowRules(ns[((j - 1) \div N) + 1], ords[((j - 1) \div N) + 1])[((j - 1) % N) + 1] \in MaskedMsg
  <2> DEFINE k == ((j - 1) \div N) + 1
             r == ((j - 1) % N) + 1
  <2>1. ns[k] \in MAC /\ ords[k] \in Orderings(Device)
    BY <1>2, <1>3
  <2>2. removeFlowRules(ns[k], ords[k]) \in Seq(MaskedMsg) /\ Len(removeFlowRules(ns[k], ords[k])) = N
    BY <2>1, RemoveFlowRulesType
  <2>. QED
    BY <2>2, <1>3
<1>5. removeNodeFlows(ns, ords) \in [1..(N * K) -> MaskedMsg]
  BY <1>4 DEF removeNodeFlows
<1>6. N * K \in Nat
  BY <1>1, <1>2
<1>. QED
  BY <1>5, <1>6
(***************************************************************************)
(* A FLOW_MOD applied to a well-formed table leaves a well-formed table.   *)
(***************************************************************************)
LEMMA ApplyMsgType ==
    ASSUME NEW tbl \in SUBSET Rule, NEW m \in Msg
    PROVE  ApplyMsg(tbl, m) \in SUBSET Rule
<1>1. CASE m.cmd = "add"
  <2>1. m \in AddMsg
    BY <1>1 DEF Msg, DelMsg, OutMsg
  <2>2. [in |-> m.in, src |-> m.src, dst |-> m.dst, out |-> m.out, cookie |-> 0] \in Rule
    BY <2>1 DEF AddMsg, Rule
  <2>. QED
    BY <1>1, <2>2 DEF ApplyMsg
<1>2. CASE m.cmd = "delete"
  BY <1>2 DEF ApplyMsg
<1>3. CASE m.cmd # "add" /\ m.cmd # "delete"
  BY <1>3 DEF ApplyMsg
<1>. QED
  BY <1>1, <1>2, <1>3

(***************************************************************************)
(* Finder.Path returns a nonempty sequence of hops between locations.      *)
(***************************************************************************)
LEMMA PathType ==
    ASSUME NEW lnk, NEW a, NEW b, NEW path \in ShortestPaths(lnk, a, b)
    PROVE  path \in Seq(Location \X Location) /\ Len(path) >= 1
<1>1. PICK n \in 1..(Cardinality(Device) - 1) : path \in [1..n -> Hops(lnk)]
  BY DEF ShortestPaths, Paths
<1>2. Hops(lnk) \subseteq Location \X Location
  BY DEF Hops
<1>. QED
  BY <1>1, <1>2

\* The cleanup a port-down handler schedules is a sequence of messages.
LEMMA CleanupType ==
    ASSUME NEW nd \in [MAC -> Location \cup {NoNode}], NEW loc,
           NEW ns \in Orderings(NodesAt(nd, loc)),
           NEW ords \in [1..Len(ns) -> Orderings(Device)]
    PROVE  removeNodeFlows(ns, ords) \in Seq(MaskedMsg)
<1>1. NodesAt(nd, loc) \in SUBSET MAC
  BY DEF NodesAt
<1>. QED
  BY <1>1, RemoveNodeFlowsType
-----------------------------------------------------------------------------
(***************************************************************************)
(* Type correctness: every step of every session and of the environment   *)
(* keeps the tables, the finder's state, the pending messages of each     *)
(* handler and the ghost state well formed.                                *)
(***************************************************************************)
LEMMA InitType == Init => TypeM
BY DEF Init, TypeM, TypeOK, OutboxMasked, TableMiss, Rule, Outcome

\* ProcessPacket keeps the types and queues only masked deletes.
LEMMA ProcessPacketType ==
    ASSUME TypeM, NEW d \in Device, NEW p \in PortNo, NEW st \in Traffic,
           ProcessPacket(d, p, st[1], st[2])
    PROVE  TypeM'
<1> DEFINE s == st[1]
           t == st[2]
           nd == Learn(node, links, d, p, s)
           dstNode == IF t \in MAC THEN nd[t] ELSE NoNode
<1>1. s \in MAC /\ t \in MAC \cup {Broadcast}
  OBVIOUS
<1>2. nd \in [MAC -> Location \cup {NoNode}]
  BY <1>1 DEF TypeM, TypeOK, Learn, Location
<1>3. dstNode # NoNode => dstNode \in Location
  BY <1>2
<1> DEFINE Sends(msgs, sent) ==
             /\ outbox' = [outbox EXCEPT ![d] = msgs]
             /\ lastDrop' = [lastDrop EXCEPT ![d] = [drop |-> TRUE, sent |-> sent, err |-> FALSE]]
<1>4. \E msgs \in Seq(MaskedMsg), sent \in BOOLEAN : Sends(msgs, sent)
  <2>1. CASE dstNode = NoNode \/ isBroadcast(t)
    <3>1. Sends(flood(d, p, s, t), TRUE)
      BY <2>1 DEF ProcessPacket, isBroadcast
    <3>2. flood(d, p, s, t) \in Seq(MaskedMsg)
      BY <1>1, FloodType
    <3>. QED
      BY <3>1, <3>2
  <2>2. CASE dstNode # NoNode /\ ~isBroadcast(t) /\ dstNode[1] = d
    <3>1. Sends(localSwitching(d, p, s, t, dstNode), TRUE)
      BY <2>2 DEF ProcessPacket
    <3>2. t \in MAC
      BY <2>2, <1>1 DEF isBroadcast
    <3>3. localSwitching(d, p, s, t, dstNode) \in Seq(MaskedMsg)
      BY <3>2, <1>3, <2>2, LocalSwitchingType
    <3>. QED
      <4> USE <3>3
      <4>. WITNESS localSwitching(d, p, s, t, dstNode) \in Seq(MaskedMsg), TRUE \in BOOLEAN
      <4>. QED
        BY <3>1
  <2>3. CASE /\ dstNode # NoNode /\ ~isBroadcast(t) /\ dstNode[1] # d
             /\ ShortestPaths(links, d, dstNode[1]) = {}
    <3>1. Sends(<<>>, FALSE)
      BY <2>3 DEF ProcessPacket
    <3>2. <<>> \in Seq(MaskedMsg) /\ FALSE \in BOOLEAN
      OBVIOUS
    <3>. QED
      BY <3>1, <3>2, Zenon
  <2>4. CASE /\ dstNode # NoNode /\ ~isBroadcast(t) /\ dstNode[1] # d
             /\ ShortestPaths(links, d, dstNode[1]) # {}
    <3>1. PICK path \in ShortestPaths(links, d, dstNode[1]) :
                 Sends(switching(p, s, t, dstNode, path), TRUE)
      BY <2>4 DEF ProcessPacket
    <3>2. t \in MAC
      BY <2>4, <1>1 DEF isBroadcast
    <3>3. path \in Seq(Location \X Location) /\ Len(path) >= 1
      BY PathType
    <3>4. switching(p, s, t, dstNode, path) \in Seq(MaskedMsg)
      BY <3>2, <3>3, <1>3, <2>4, SwitchingType
    <3>. QED
      BY <3>1, <3>4
  <2>. QED
    BY <2>1, <2>2, <2>3, <2>4
<1>5. node' = nd
  BY DEF ProcessPacket
<1>6. OutboxMasked'
  BY <1>4 DEF TypeM, OutboxMasked
<1>7. outbox' \in [Device -> Seq(Msg)] /\ lastDrop' \in [Device -> Outcome]
  BY <1>4, MaskedSeqType DEF TypeM, TypeOK, Outcome
<1>8. target' \in [Device -> SUBSET (Device \X Rule)]
  BY DEF ProcessPacket, TypeM, TypeOK
<1>9. UNCHANGED <<table, links, down, inbox, topoDue, failures, sendErrors>>
  BY DEF ProcessPacket
<1>. QED
  BY <1>2, <1>5, <1>6, <1>7, <1>8, <1>9 DEF TypeM, TypeOK

\* ProcessEvent (cleanup) keeps the types and queues only masked deletes.
LEMMA ProcessEventType ==
    ASSUME TypeM, NEW d \in Device, ProcessEvent(d)
    PROVE  TypeM'
<1>1. PICK p \in inbox[d] :
        LET loc == <<d, p>>
            lnk == IF TopologyFirst THEN LinksWithout(links, loc) ELSE links
            nd == IF TopologyFirst THEN NodesWithout(node, loc) ELSE node
        IN  /\ \/ /\ IsEdge(lnk, loc)
                  /\ \E ord \in Orderings(Device) :
                         outbox' = [outbox EXCEPT ![d] = removeAllFlows(ord)]
               \/ /\ ~IsEdge(lnk, loc)
                  /\ \E ns \in Orderings(NodesAt(nd, loc)) :
                     \E ords \in [1..Len(ns) -> Orderings(Device)] :
                         outbox' = [outbox EXCEPT ![d] = removeNodeFlows(ns, ords)]
            /\ links' = lnk
            /\ node' = nd
            /\ topoDue' = [topoDue EXCEPT ![d] = IF TopologyFirst THEN NoPort ELSE p]
            /\ target' = [target EXCEPT ![d] = Intended(loc)]
            /\ inbox' = [inbox EXCEPT ![d] = @ \ {p}]
  BY DEF ProcessEvent
<1> DEFINE loc == <<d, p>>
           nd == IF TopologyFirst THEN NodesWithout(node, loc) ELSE node
<1>2. p \in PortNo
  BY DEF TypeM, TypeOK
<1>3. nd \in [MAC -> Location \cup {NoNode}]
  BY DEF TypeM, TypeOK, NodesWithout
<1>4. outbox'[d] \in Seq(MaskedMsg) /\ outbox' = [outbox EXCEPT ![d] = outbox'[d]]
  <2>1. CASE \E ord \in Orderings(Device) : outbox' = [outbox EXCEPT ![d] = removeAllFlows(ord)]
    BY <2>1, RemoveAllFlowsType DEF TypeM, TypeOK
  <2>2. CASE \E ns \in Orderings(NodesAt(nd, loc)) :
             \E ords \in [1..Len(ns) -> Orderings(Device)] :
                 outbox' = [outbox EXCEPT ![d] = removeNodeFlows(ns, ords)]
    <3>0. PICK ns \in Orderings(NodesAt(nd, loc)) :
                 \E ords \in [1..Len(ns) -> Orderings(Device)] :
                     outbox' = [outbox EXCEPT ![d] = removeNodeFlows(ns, ords)]
      BY <2>2
    <3>1. PICK ords \in [1..Len(ns) -> Orderings(Device)] :
                 outbox' = [outbox EXCEPT ![d] = removeNodeFlows(ns, ords)]
      BY <3>0
    <3>2. removeNodeFlows(ns, ords) \in Seq(MaskedMsg)
      BY <1>3, CleanupType
    <3>. QED
      BY <3>1, <3>2 DEF TypeM, TypeOK
  <2>. QED
    BY <1>1, <2>1, <2>2
<1>5. Intended(loc) \in SUBSET (Device \X Rule)
  BY DEF Intended
<1>6. links' \subseteq Trunks
  <2>1. links' = IF TopologyFirst THEN LinksWithout(links, loc) ELSE links
    BY <1>1
  <2>. QED
    BY <2>1 DEF TypeM, TypeOK, LinksWithout
<1>7. OutboxMasked'
  <2>1. SUFFICES ASSUME NEW x \in Device PROVE outbox'[x] \in Seq(MaskedMsg)
    BY DEF OutboxMasked
  <2>2. CASE x = d
    BY <1>4, <2>2
  <2>3. CASE x # d
    BY <1>4, <2>3 DEF TypeM, TypeOK, OutboxMasked
  <2>. QED
    BY <2>2, <2>3
<1>8. UNCHANGED <<table, down, lastDrop, failures, sendErrors>>
  BY Zenon DEF ProcessEvent
<1>9. /\ node' = nd
      /\ inbox' = [inbox EXCEPT ![d] = inbox[d] \ {p}]
      /\ topoDue' = [topoDue EXCEPT ![d] = IF TopologyFirst THEN NoPort ELSE p]
      /\ target' = [target EXCEPT ![d] = Intended(loc)]
  BY <1>1
<1>10. /\ node' \in [MAC -> Location \cup {NoNode}]
       /\ inbox' \in [Device -> SUBSET PortNo]
       /\ topoDue' \in [Device -> PortNo \cup {NoPort}]
       /\ target' \in [Device -> SUBSET (Device \X Rule)]
  BY <1>2, <1>3, <1>5, <1>9 DEF TypeM, TypeOK
<1>11. outbox' \in [Device -> Seq(Msg)]
  BY <1>4, MaskedSeqType DEF TypeM, TypeOK
<1>. QED
  BY <1>6, <1>7, <1>8, <1>10, <1>11 DEF TypeM, TypeOK

\* Device.SendMessage keeps the types.
LEMMA SendMessageType ==
    ASSUME TypeM, NEW d \in Device, SendMessage(d)
    PROVE  TypeM'
<1> DEFINE m == Head(outbox[d])
<1>1. m \in Msg /\ Tail(outbox[d]) \in Seq(MaskedMsg)
  <2>1. outbox[d] \in Seq(MaskedMsg) /\ outbox[d] # <<>>
    BY DEF TypeM, OutboxMasked, SendMessage
  <2>. QED
    BY <2>1 DEF MaskedMsg, Msg
<1>2. m.to \in Device
  BY <1>1 DEF Msg, AddMsg, DelMsg, OutMsg
<1>3. ApplyMsg(table[m.to], m) \in SUBSET Rule
  BY <1>1, <1>2, ApplyMsgType DEF TypeM, TypeOK
<1>4. OutboxMasked'
  BY <1>1 DEF SendMessage, TypeM, TypeOK, OutboxMasked
<1>. QED
  BY <1>1, <1>2, <1>3, <1>4, MaskedSeqType DEF SendMessage, TypeM, TypeOK, OutboxMasked

\* A failed Device.SendMessage, with the messages its caller then skips, keeps the types.
LEMMA SendFailureType ==
    ASSUME TypeM, NEW d \in Device, SendFailure(d)
    PROVE  TypeM'
<1> DEFINE m == Head(outbox[d])
           rest == Tail(outbox[d])
<1>1. outbox[d] \in Seq(MaskedMsg) /\ outbox[d] # <<>>
  BY DEF TypeM, OutboxMasked, SendFailure
<1>2. m \in Msg /\ rest \in Seq(MaskedMsg)
  BY <1>1, HeadTailProperties DEF MaskedMsg, Msg
<1>3. PICK k \in 0..Len(rest) : outbox' = [outbox EXCEPT ![d] = SubSeq(rest, k + 1, Len(rest))]
  BY DEF SendFailure
<1>4. SubSeq(rest, k + 1, Len(rest)) \in Seq(MaskedMsg)
  BY <1>2, SubSeqProperties
<1>5. OutboxMasked'
  BY <1>3, <1>4 DEF TypeM, TypeOK, OutboxMasked
<1>6. \/ lastDrop' = lastDrop
      \/ lastDrop' = [lastDrop EXCEPT ![d] = [drop |-> m.out = Flood, sent |-> FALSE, err |-> TRUE]]
  BY DEF SendFailure
<1>7. target' = [target EXCEPT ![d] = {e \in target[d] : e[1] # m.to}]
  BY DEF SendFailure
<1>8. sendErrors' = sendErrors + 1 /\ sendErrors < MaxSendErrors
      /\ UNCHANGED <<table, links, node, down, inbox, topoDue, failures>>
  BY DEF SendFailure
<1>9. target' \in [Device -> SUBSET (Device \X Rule)]
  BY <1>7 DEF TypeM, TypeOK
<1>10. lastDrop' \in [Device -> Outcome]
  <2>1. [drop |-> m.out = Flood, sent |-> FALSE, err |-> TRUE] \in Outcome
    BY Zenon DEF Outcome
  <2>2. CASE lastDrop' = lastDrop
    BY <2>2 DEF TypeM, TypeOK
  <2>3. CASE lastDrop' = [lastDrop EXCEPT ![d] = [drop |-> m.out = Flood, sent |-> FALSE, err |-> TRUE]]
    BY <2>1, <2>3 DEF TypeM, TypeOK
  <2>. QED
    BY <1>6, <2>2, <2>3
<1>11. sendErrors' \in 0..MaxSendErrors
  BY <1>8 DEF TypeM, TypeOK
<1>12. outbox' \in [Device -> Seq(Msg)]
  BY <1>3, <1>4, MaskedSeqType DEF TypeM, TypeOK
<1>13. TypeOK'
  BY <1>8, <1>9, <1>10, <1>11, <1>12 DEF TypeM, TypeOK
<1>. QED
  BY <1>5, <1>13 DEF TypeM

\* The glue's topology update keeps the types.
LEMMA TopologyUpdateType ==
    ASSUME TypeM, NEW d \in Device, TopologyUpdate(d)
    PROVE  TypeM'
BY DEF TopologyUpdate, TypeM, TypeOK, OutboxMasked, LinksWithout, NodesWithout

\* Port and link failures and recoveries keep the types.
LEMMA EnvironmentType ==
    ASSUME TypeM,
           \/ \E loc \in Location : FailPort(loc) \/ RecoverPort(loc)
           \/ \E l \in Trunks : FailLink(l) \/ RecoverLink(l)
    PROVE  TypeM'
<1>1. HostPorts \subseteq Location
  BY DEF HostPorts
<1>2. ASSUME NEW loc \in Location, FailPort(loc) PROVE TypeM'
  <2>1. /\ down' \subseteq Location /\ inbox' \in [Device -> SUBSET PortNo]
        /\ failures' \in 0..MaxFailures
    BY <1>2, <1>1 DEF FailPort, TypeM, TypeOK, Location
  <2>. QED
    BY <1>2, <2>1 DEF FailPort, TypeM, TypeOK, OutboxMasked
<1>3. ASSUME NEW loc \in Location, RecoverPort(loc) PROVE TypeM'
  <2>1. down' \subseteq Location
    BY <1>3 DEF RecoverPort, TypeM, TypeOK
  <2>. QED
    BY <1>3, <2>1 DEF RecoverPort, TypeM, TypeOK, OutboxMasked
<1>4. ASSUME NEW l \in Trunks, FailLink(l) PROVE TypeM'
  <2>0. l \subseteq Location
    OBVIOUS
  <2>1. /\ down' \subseteq Location /\ inbox' \in [Device -> SUBSET PortNo]
        /\ failures' \in 0..MaxFailures
    <3>1. inbox' \in [Device -> SUBSET PortNo]
      BY <1>4, <2>0 DEF FailLink, TypeM, TypeOK, Location
    <3>2. down' \subseteq Location /\ failures' \in 0..MaxFailures
      BY <1>4, <2>0 DEF FailLink, TypeM, TypeOK
    <3>. QED
      BY <3>1, <3>2
  <2>. QED
    BY <1>4, <2>1 DEF FailLink, TypeM, TypeOK, OutboxMasked
<1>5. ASSUME NEW l \in Trunks, RecoverLink(l) PROVE TypeM'
  <2>1. down' \subseteq Location /\ links' \subseteq Trunks
    BY <1>5 DEF RecoverLink, TypeM, TypeOK
  <2>. QED
    BY <1>5, <2>1 DEF RecoverLink, TypeM, TypeOK, OutboxMasked
<1>. QED
  BY <1>2, <1>3, <1>4, <1>5

\* Every step keeps the type invariant together with the masks.
LEMMA NextType == TypeM /\ [Next]_vars => TypeM'
<1> SUFFICES ASSUME TypeM, [Next]_vars PROVE TypeM'
  OBVIOUS
<1>1. CASE \E d \in Device, p \in PortNo, st \in Traffic : ProcessPacket(d, p, st[1], st[2])
  BY <1>1, ProcessPacketType
<1>2. CASE \E d \in Device : ProcessEvent(d)
  BY <1>2, ProcessEventType
<1>3. CASE \E d \in Device : SendMessage(d)
  BY <1>3, SendMessageType
<1>7. CASE \E d \in Device : SendFailure(d)
  BY <1>7, SendFailureType
<1>4. CASE \E d \in Device : TopologyUpdate(d)
  BY <1>4, TopologyUpdateType
<1>5. CASE \/ \E loc \in Location : FailPort(loc) \/ RecoverPort(loc)
           \/ \E l \in Trunks : FailLink(l) \/ RecoverLink(l)
  BY <1>5, EnvironmentType
<1>6. CASE UNCHANGED vars
  BY <1>6 DEF vars, TypeM, TypeOK, OutboxMasked
<1>. QED
  BY <1>1, <1>2, <1>3, <1>4, <1>5, <1>6, <1>7 DEF Next

(***************************************************************************)
(* The type invariant of the L2 policy holds in every reachable state: the *)
(* tables, the finder's state and the FLOW_MODs each session has pending   *)
(* stay well formed whatever the sessions and the failures interleave.     *)
(***************************************************************************)
THEOREM TypeCorrect == Spec => []TypeOK
<1>1. TypeM => TypeOK
  BY DEF TypeM
<1>. QED
  BY InitType, NextType, <1>1, PTL DEF Spec
-----------------------------------------------------------------------------
\* The inductive invariant behind cookie safety.
IInv == TypeM /\ TableMissPreserved

(***************************************************************************)
(* A FLOW_MOD a handler may send never removes the table-miss entry: an    *)
(* ADD matches a concrete in-port, a DELETE carries the cookie mask.       *)
(***************************************************************************)
LEMMA ApplyKeepsTableMiss ==
    ASSUME NEW tbl, TableMiss \in tbl, NEW m \in MaskedMsg
    PROVE  TableMiss \in ApplyMsg(tbl, m)
<1>1. CASE m.cmd = "add"
  <2>1. m \in AddMsg
    BY <1>1 DEF MaskedMsg, DelMsg, OutMsg
  <2>2. ~SameMatch(TableMiss, m)
    BY <2>1 DEF AddMsg, SameMatch, TableMiss
  <2>. QED
    BY <1>1, <2>2 DEF ApplyMsg
<1>2. CASE m.cmd = "delete"
  <2>1. m \in DelMsg /\ m.mask = 1
    BY <1>2 DEF MaskedMsg, AddMsg, OutMsg
  <2>2. ~Deletes(m, TableMiss)
    BY <2>1 DEF Deletes, TableMiss
  <2>. QED
    BY <1>2, <2>2 DEF ApplyMsg
<1>3. CASE m.cmd # "add" /\ m.cmd # "delete"
  BY <1>3 DEF ApplyMsg
<1>. QED
  BY <1>1, <1>2, <1>3

\* No step removes a table-miss entry: only SendMessage changes a table, and it applies a message that keeps it.
LEMMA NextTableMiss == IInv /\ [Next]_vars => TableMissPreserved'
<1> SUFFICES ASSUME IInv, [Next]_vars PROVE TableMissPreserved'
  OBVIOUS
<1>1. CASE \E d \in Device : SendMessage(d)
  <2>1. PICK d \in Device : SendMessage(d)
    BY <1>1
  <2> DEFINE m == Head(outbox[d])
  <2>2. m \in MaskedMsg /\ m.to \in Device
    <3>1. outbox[d] \in Seq(MaskedMsg) /\ outbox[d] # <<>>
      BY <2>1 DEF IInv, TypeM, OutboxMasked, SendMessage
    <3>. QED
      BY <3>1 DEF MaskedMsg, AddMsg, DelMsg, OutMsg
  <2>3. TableMiss \in ApplyMsg(table[m.to], m)
    BY <2>2, ApplyKeepsTableMiss DEF IInv, TableMissPreserved
  <2>4. table' = [table EXCEPT ![m.to] = ApplyMsg(@, m)]
    BY <2>1 DEF SendMessage
  <2>. QED
    BY <2>2, <2>3, <2>4 DEF IInv, TypeM, TypeOK, TableMissPreserved
<1>2. CASE ~\E d \in Device : SendMessage(d)
  <2>1. table' = table
    <3>1. CASE \E d \in Device, p \in PortNo, st \in Traffic : ProcessPacket(d, p, st[1], st[2])
      <4>1. PICK d \in Device, p \in PortNo, st \in Traffic : ProcessPacket(d, p, st[1], st[2])
        BY <3>1
      <4>. QED
        BY <4>1 DEF ProcessPacket
    <3>2. CASE \E d \in Device : ProcessEvent(d)
      BY <3>2 DEF ProcessEvent
    <3>3. CASE \E d \in Device : TopologyUpdate(d) \/ SendFailure(d)
      BY <3>3 DEF TopologyUpdate, SendFailure
    <3>4. CASE \E loc \in Location : FailPort(loc) \/ RecoverPort(loc)
      BY <3>4 DEF FailPort, RecoverPort
    <3>5. CASE \E l \in Trunks : FailLink(l) \/ RecoverLink(l)
      BY <3>5 DEF FailLink, RecoverLink
    <3>6. CASE UNCHANGED vars
      BY <3>6 DEF vars
    <3>. QED
      BY <1>2, <3>1, <3>2, <3>3, <3>4, <3>5, <3>6 DEF Next
  <2>. QED
    BY <2>1 DEF IInv, TableMissPreserved
<1>. QED
  BY <1>1, <1>2

(***************************************************************************)
(* Cookie safety: whatever the sessions, their cleanups and the failures   *)
(* interleave, no switch ever loses its table-miss entry, because every    *)
(* DELETE that removeFlow builds carries the cookie mask 1<<63.            *)
(***************************************************************************)
THEOREM TableMissSafe == Spec => []TableMissPreserved
<1>1. Init => IInv
  BY InitType DEF Init, IInv, TableMissPreserved
<1>2. IInv /\ [Next]_vars => IInv'
  BY NextType, NextTableMiss DEF IInv
<1>3. IInv => TableMissPreserved
  BY DEF IInv
<1>. QED
  BY <1>1, <1>2, <1>3, PTL DEF Spec
=============================================================================
