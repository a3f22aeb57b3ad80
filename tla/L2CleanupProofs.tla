-------------------------- MODULE L2CleanupProofs --------------------------
(***************************************************************************)
(* Proof that cleanup removes what it is meant to remove (the comment at   *)
(* cleanup's edge test, part_000:454-474), for every topology, under the  *)
(* two conditions the violation runs show are needed: the glue calls      *)
(* ProcessEvent before it updates the topology (l2_topology_first), and no *)
(* Device.SendMessage fails (l2_cleanup_error).                            *)
(***************************************************************************)
EXTENDS L2SwitchProofs

USE ConstantsAssumption

(***************************************************************************)
(* An entry of a running cleanup is covered when a DELETE still pending in *)
(* that session's outbox is addressed to the entry's switch and removes    *)
(* it.  The inductive invariant: every entry of a cleanup's target that is *)
(* still installed is covered.  A pending DELETE keeps its effect because *)
(* the outbox is sent in order and every other session's ADD that could   *)
(* re-create the entry takes it out of the target (SameMatch).            *)
(***************************************************************************)
Covered(x, e) ==
    \E m \in Range(outbox[x]) : m.to = e[1] /\ m.cmd = "delete" /\ Deletes(m, e[2])

CInv == \A x \in Device : \A e \in target[x] : e[2] \in table[e[1]] => Covered(x, e)

CleanInv == TypeM /\ CInv

(***************************************************************************)
(* finder.Devices() and port.Nodes() list every element of their set: an  *)
(* injective sequence of length Cardinality(S) over S reaches all of S.   *)
(***************************************************************************)
LEMMA OrderingOnto ==
    ASSUME NEW S, IsFiniteSet(S), NEW ord \in Orderings(S), NEW x \in S
    PROVE  \E i \in 1..Cardinality(S) : ord[i] = x
<1> DEFINE n == Cardinality(S)
<1>1. n \in Nat
  BY FS_CardinalityType
<1>2. ord \in Injection(1..n, S)
  BY DEF Orderings, SetToSeqs, Injection, IsInjective
<1>3. Cardinality(1..n) = n
  BY <1>1, FS_Interval
<1>4. ord \in Surjection(1..n, S)
  BY <1>2, <1>3, FS_Injection
<1>. QED
  BY <1>4 DEF Surjection

\* removeAllFlows sends a wildcard delete to every device.
LEMMA AllFlowsCover ==
    ASSUME NEW ord \in Orderings(Device), NEW x \in Device
    PROVE  removeFlow(x, Wild, Wild) \in Range(removeAllFlows(ord))
<1>1. PICK i \in 1..Cardinality(Device) : ord[i] = x
  BY OrderingOnto
<1>2. Len(ord) = Cardinality(Device)
  BY OrderingType
<1>. QED
  BY <1>1, <1>2 DEF removeAllFlows, Range

\* The src delete of device position pos is message 2*pos-1, the dst delete message 2*pos.
LEMMA PairIndex ==
    ASSUME NEW pos \in Nat, pos >= 1
    PROVE  /\ (2 * pos - 1) % 2 = 1 /\ ((2 * pos - 1) + 1) \div 2 = pos
           /\ (2 * pos) % 2 = 0 /\ ((2 * pos) + 1) \div 2 = pos
BY Z3

(***************************************************************************)
(* cleanup's node loop sends, for each node h behind the port, a delete on *)
(* src=h and one on dst=h to every device.                                 *)
(***************************************************************************)
LEMMA NodeFlowsCover ==
    ASSUME NEW X \in SUBSET MAC, NEW ns \in Orderings(X),
           NEW ords \in [1..Len(ns) -> Orderings(Device)],
           NEW h \in X, NEW x \in Device
    PROVE  /\ removeFlow(x, h, Wild) \in Range(removeNodeFlows(ns, ords))
           /\ removeFlow(x, Wild, h) \in Range(removeNodeFlows(ns, ords))
<1> DEFINE D == Cardinality(Device)
           N == 2 * D
           K == Len(ns)
           R == removeNodeFlows(ns, ords)
<1>1. D \in Nat /\ D >= 1
  BY FS_CardinalityType, FS_EmptySet
<1>11. N \in Nat /\ N >= 1
  BY <1>1
<1>2. IsFiniteSet(X)
  BY FS_Subset
<1>3. K = Cardinality(X) /\ K \in Nat
  BY <1>2, OrderingType, FS_CardinalityType
<1>4. PICK q \in 1..Cardinality(X) : ns[q] = h
  BY <1>2, OrderingOnto
<1>5. ords[q] \in Orderings(Device)
  BY <1>3, <1>4
<1>6. PICK pos \in 1..D : ords[q][pos] = x
  BY <1>5, OrderingOnto
<1>7. Len(ords[q]) = D
  BY <1>5, OrderingType
<1>8. ASSUME NEW r \in 1..N
      PROVE  /\ (q - 1) * N + r \in DOMAIN R
             /\ R[(q - 1) * N + r] = removeFlowRules(h, ords[q])[r]
  <2>1. (q - 1) * N + r \in 1..(N * K)
    <3>1. q - 1 \in 0..(K - 1) /\ r \in 1..N
      BY <1>3, <1>4
    <3>2. (q - 1) * N <= (K - 1) * N
      BY <3>1, <1>11, Z3
    <3>3. (K - 1) * N + N = N * K /\ (q - 1) * N >= 0
      BY <3>1, <1>11, <1>3, Z3
    <3>. QED
      BY <3>1, <3>2, <3>3, <1>11, <1>3, Z3
  <2>2. /\ (((q - 1) * N + r) - 1) \div N = q - 1
        /\ (((q - 1) * N + r) - 1) % N = r - 1
    <3>1. q \in Nat /\ q >= 1 /\ r \in 1..N /\ N \in Nat /\ N >= 1
      BY <1>3, <1>4, <1>11
    <3> HIDE DEF N
    <3>. QED
      BY <3>1, Z3
  <2>3. /\ ((((q - 1) * N + r) - 1) \div N) + 1 = q
        /\ ((((q - 1) * N + r) - 1) % N) + 1 = r
    BY <2>2, <1>4, <1>3, Z3
  <2> DEFINE j == (q - 1) * N + r
  <2>4. DOMAIN R = 1..(N * K)
    BY DEF removeNodeFlows
  <2>5. R[j] = removeFlowRules(ns[((j - 1) \div N) + 1], ords[((j - 1) \div N) + 1])[((j - 1) % N) + 1]
    BY <2>1 DEF removeNodeFlows
  <2>. QED
    BY <2>1, <2>3, <2>4, <2>5, <1>4
<1>9. 2 * pos - 1 \in 1..N /\ 2 * pos \in 1..N
  BY <1>1, <1>6, Z3
<1>10. /\ removeFlowRules(h, ords[q])[2 * pos - 1] = removeFlow(x, h, Wild)
       /\ removeFlowRules(h, ords[q])[2 * pos] = removeFlow(x, Wild, h)
  <2>1. /\ (2 * pos - 1) % 2 = 1 /\ ((2 * pos - 1) + 1) \div 2 = pos
        /\ (2 * pos) % 2 = 0 /\ ((2 * pos) + 1) \div 2 = pos
    BY <1>6, <1>1, PairIndex
  <2>2. 2 * pos - 1 \in 1..(2 * Len(ords[q])) /\ 2 * pos \in 1..(2 * Len(ords[q]))
    BY <1>9, <1>7
  <2>3. removeFlowRules(h, ords[q])[2 * pos - 1] = removeFlow(ords[q][pos], h, Wild)
    BY <2>1, <2>2 DEF removeFlowRules
  <2>4. removeFlowRules(h, ords[q])[2 * pos] = removeFlow(ords[q][pos], Wild, h)
    BY <2>1, <2>2 DEF removeFlowRules
  <2>. QED
    BY <2>3, <2>4, <1>6
<1>. QED
  BY <1>8, <1>9, <1>10 DEF Range

(***************************************************************************)
(* A FLOW_MOD applied to a table adds nothing but the ADD's own entry, and *)
(* a DELETE leaves none of the entries it removes.                         *)
(***************************************************************************)
LEMMA ApplyBack ==
    ASSUME NEW tbl, NEW m \in Msg, NEW r \in ApplyMsg(tbl, m),
           m.cmd = "add" => ~SameMatch(r, m)
    PROVE  /\ r \in tbl
           /\ m.cmd = "delete" => ~Deletes(m, r)
<1>1. CASE m.cmd = "add"
  <2>1. SameMatch([in |-> m.in, src |-> m.src, dst |-> m.dst, out |-> m.out, cookie |-> 0], m)
    BY DEF SameMatch
  <2>2. r # [in |-> m.in, src |-> m.src, dst |-> m.dst, out |-> m.out, cookie |-> 0]
    BY <1>1, <2>1
  <2>. QED
    BY <1>1, <2>2 DEF ApplyMsg
<1>2. CASE m.cmd = "delete"
  BY <1>2 DEF ApplyMsg
<1>3. CASE m.cmd # "add" /\ m.cmd # "delete"
  BY <1>3 DEF ApplyMsg
<1>. QED
  BY <1>1, <1>2, <1>3

\* A pending message other than the head is still pending after the head is sent.
LEMMA RangeTail ==
    ASSUME NEW S, NEW s \in Seq(S), s # <<>>, NEW w \in Range(s), w # Head(s)
    PROVE  w \in Range(Tail(s))
<1>1. PICK i \in 1..Len(s) : s[i] = w
  BY DEF Range
<1>2. i # 1
  BY <1>1
<1>3. Tail(s)[i - 1] = w /\ i - 1 \in 1..Len(Tail(s))
  BY <1>1, <1>2
<1>4. Tail(s) \in Seq(S) /\ DOMAIN Tail(s) = 1..Len(Tail(s))
  OBVIOUS
<1>. QED
  BY <1>3, <1>4 DEF Range

\* A step that changes neither the tables, the targets nor the outboxes keeps CInv.
LEMMA FrameClean ==
    ASSUME CInv, table' = table, target' = target, outbox' = outbox
    PROVE  CInv'
BY DEF CInv, Covered

\* ProcessPacket empties its own target and leaves the other sessions' alone.
LEMMA ProcessPacketClean ==
    ASSUME TypeM, CInv, NEW d \in Device, NEW p \in PortNo, NEW st \in Traffic,
           ProcessPacket(d, p, st[1], st[2])
    PROVE  CInv'
<1>1. \E msgs : outbox' = [outbox EXCEPT ![d] = msgs]
  BY DEF ProcessPacket
<1>2. \A x \in Device \ {d} : outbox'[x] = outbox[x]
  BY <1>1 DEF TypeM, TypeOK
<1>3. target' = [target EXCEPT ![d] = {}] /\ table' = table
  BY DEF ProcessPacket
<1>4. \A x \in Device : \A e \in target'[x] : x # d /\ e \in target[x]
  BY <1>3 DEF TypeM, TypeOK
<1>. QED
  BY <1>2, <1>3, <1>4 DEF CInv, Covered

(***************************************************************************)
(* ProcessEvent, with the topology as it stood when the port went down:    *)
(* every entry it is meant to remove gets a DELETE in its outbox.          *)
(***************************************************************************)
LEMMA ProcessEventClean ==
    ASSUME TypeM, CInv, TopologyFirst = FALSE, NEW d \in Device, ProcessEvent(d)
    PROVE  CInv'
<1>1. PICK p \in inbox[d] :
        LET loc == <<d, p>>
        IN  /\ \/ /\ IsEdge(links, loc)
                  /\ \E ord \in Orderings(Device) :
                         outbox' = [outbox EXCEPT ![d] = removeAllFlows(ord)]
               \/ /\ ~IsEdge(links, loc)
                  /\ \E ns \in Orderings(NodesAt(node, loc)) :
                     \E ords \in [1..Len(ns) -> Orderings(Device)] :
                         outbox' = [outbox EXCEPT ![d] = removeNodeFlows(ns, ords)]
            /\ target' = [target EXCEPT ![d] = Intended(loc)]
  BY DEF ProcessEvent
<1> DEFINE loc == <<d, p>>
<1>2. table' = table
  BY DEF ProcessEvent
<1>3. \A x \in Device \ {d} : outbox'[x] = outbox[x] /\ target'[x] = target[x]
  BY <1>1 DEF TypeM, TypeOK
<1>4. target'[d] = Intended(loc)
  BY <1>1 DEF TypeM, TypeOK
<1>5. ASSUME NEW e \in Intended(loc)
      PROVE  Covered(d, e)'
  <2>1. e[1] \in Device /\ e[2] \in Rule /\ e[2].cookie = 0
    BY DEF Intended
  <2>2. CASE IsEdge(links, loc)
    <3>1. PICK ord \in Orderings(Device) : outbox' = [outbox EXCEPT ![d] = removeAllFlows(ord)]
      BY <2>2, <1>1
    <3>2. removeFlow(e[1], Wild, Wild) \in Range(outbox'[d])
      BY <3>1, <2>1, AllFlowsCover DEF TypeM, TypeOK
    <3>. QED
      BY <3>2, <2>1 DEF Covered, removeFlow, Deletes
  <2>3. CASE ~IsEdge(links, loc)
    <3>0. PICK ns \in Orderings(NodesAt(node, loc)) :
               \E ords \in [1..Len(ns) -> Orderings(Device)] :
                   outbox' = [outbox EXCEPT ![d] = removeNodeFlows(ns, ords)]
      BY <2>3, <1>1
    <3>1. PICK ords \in [1..Len(ns) -> Orderings(Device)] :
               outbox' = [outbox EXCEPT ![d] = removeNodeFlows(ns, ords)]
      BY <3>0
    <3>2. e[2].src \in NodesAt(node, loc) \/ e[2].dst \in NodesAt(node, loc)
      BY <2>3 DEF Intended
    <3>3. NodesAt(node, loc) \in SUBSET MAC
      BY DEF NodesAt
    <3>4. outbox'[d] = removeNodeFlows(ns, ords)
      BY <3>1 DEF TypeM, TypeOK
    <3>5. CASE e[2].src \in NodesAt(node, loc)
      <4>1. removeFlow(e[1], e[2].src, Wild) \in Range(outbox'[d])
        BY <3>3, <3>4, <3>5, <2>1, NodeFlowsCover
      <4>. QED
        BY <4>1, <2>1 DEF Covered, removeFlow, Deletes
    <3>6. CASE e[2].dst \in NodesAt(node, loc)
      <4>1. removeFlow(e[1], Wild, e[2].dst) \in Range(outbox'[d])
        BY <3>3, <3>4, <3>6, <2>1, NodeFlowsCover
      <4>. QED
        BY <4>1, <2>1 DEF Covered, removeFlow, Deletes
    <3>. QED
      BY <3>2, <3>5, <3>6
  <2>. QED
    BY <2>2, <2>3
<1>. QED
  BY <1>2, <1>3, <1>4, <1>5 DEF CInv, Covered

(***************************************************************************)
(* Device.SendMessage of d's head message m.  An entry still installed    *)
(* after m was installed before (ApplyBack: an ADD that matches it took it *)
(* out of every target), so its DELETE was pending; if that DELETE was m   *)
(* itself the entry would be gone, so it is still pending.                 *)
(***************************************************************************)
LEMMA SendMessageClean ==
    ASSUME TypeM, CInv, NEW d \in Device, SendMessage(d)
    PROVE  CInv'
<1> DEFINE m == Head(outbox[d])
<1>1. outbox[d] \in Seq(Msg) /\ outbox[d] # <<>>
  BY DEF SendMessage, TypeM, TypeOK
<1>2. m \in Msg /\ m.to \in Device
  BY <1>1 DEF Msg, AddMsg, DelMsg, OutMsg
<1>3. /\ table' = [table EXCEPT ![m.to] = ApplyMsg(@, m)]
      /\ target' = IF m.cmd = "add"
                      THEN [x \in Device |-> {e \in target[x] : ~(e[1] = m.to /\ SameMatch(e[2], m))}]
                      ELSE target
      /\ outbox' = [outbox EXCEPT ![d] = Tail(@)]
  BY DEF SendMessage
<1>4. SUFFICES ASSUME NEW x \in Device, NEW e \in target'[x], e[2] \in table'[e[1]]
               PROVE  Covered(x, e)'
  BY DEF CInv
<1>5. e \in target[x] /\ (m.cmd = "add" => ~(e[1] = m.to /\ SameMatch(e[2], m)))
  BY <1>3 DEF TypeM, TypeOK
<1>6. e[1] \in Device
  BY <1>5 DEF TypeM, TypeOK
<1>7. /\ e[2] \in table[e[1]]
      /\ e[1] = m.to /\ m.cmd = "delete" => ~Deletes(m, e[2])
  <2>1. CASE e[1] = m.to
    <3>1. e[2] \in ApplyMsg(table[m.to], m)
      BY <2>1, <1>2, <1>3, <1>4 DEF TypeM, TypeOK
    <3>. QED
      BY <2>1, <3>1, <1>2, <1>5, ApplyBack
  <2>2. CASE e[1] # m.to
    BY <2>2, <1>3, <1>4, <1>6 DEF TypeM, TypeOK
  <2>. QED
    BY <2>1, <2>2
<1>8. PICK w \in Range(outbox[x]) : w.to = e[1] /\ w.cmd = "delete" /\ Deletes(w, e[2])
  BY <1>5, <1>7 DEF CInv, Covered
<1>9. CASE x = d
  <2>1. w # m
    BY <1>7, <1>8
  <2>2. w \in Range(Tail(outbox[d]))
    BY <1>1, <1>8, <1>9, <2>1, RangeTail
  <2>3. outbox'[d] = Tail(outbox[d])
    BY <1>3 DEF TypeM, TypeOK
  <2>. QED
    BY <1>8, <1>9, <2>2, <2>3 DEF Covered
<1>10. CASE x # d
  <2>1. outbox'[x] = outbox[x]
    BY <1>3, <1>10 DEF TypeM, TypeOK
  <2>. QED
    BY <1>8, <2>1 DEF Covered
<1>. QED
  BY <1>9, <1>10

\* Without send errors SendFailure is never enabled.
LEMMA SendFailureDisabled ==
    ASSUME TypeM, MaxSendErrors = 0, NEW d \in Device
    PROVE  ~SendFailure(d)
BY DEF SendFailure, TypeM, TypeOK

\* Every step keeps CInv, given the glue's order and no failed sends.
LEMMA NextClean ==
    ASSUME TypeM, CInv, [Next]_vars, TopologyFirst = FALSE, MaxSendErrors = 0
    PROVE  CInv'
<1>1. CASE \E d \in Device, p \in PortNo, st \in Traffic : ProcessPacket(d, p, st[1], st[2])
  BY <1>1, ProcessPacketClean
<1>2. CASE \E d \in Device : ProcessEvent(d)
  BY <1>2, ProcessEventClean
<1>3. CASE \E d \in Device : SendMessage(d)
  BY <1>3, SendMessageClean
<1>4. CASE \E d \in Device : SendFailure(d)
  BY <1>4, SendFailureDisabled
<1>5. CASE \E d \in Device : TopologyUpdate(d)
  BY <1>5, FrameClean DEF TopologyUpdate
<1>6. CASE \E loc \in Location : FailPort(loc) \/ RecoverPort(loc)
  BY <1>6, FrameClean DEF FailPort, RecoverPort
<1>7. CASE \E l \in Trunks : FailLink(l) \/ RecoverLink(l)
  BY <1>7, FrameClean DEF FailLink, RecoverLink
<1>8. CASE UNCHANGED vars
  BY <1>8, FrameClean DEF vars
<1>. QED
  BY <1>1, <1>2, <1>3, <1>4, <1>5, <1>6, <1>7, <1>8 DEF Next

(***************************************************************************)
(* cleanup removes what it is meant to remove: whatever the sessions of   *)
(* the other switches send in between, once the handler of a port-down has *)
(* sent its last DELETE no entry of its target is left on any switch       *)
(* (except those since replaced by an ADD), for every topology, provided   *)
(* the glue calls ProcessEvent before the topology update and no send      *)
(* fails: the runs l2_topology_first and l2_cleanup_error show that each   *)
(* of the two conditions is needed.                                        *)
(***************************************************************************)
THEOREM CleanupSafe ==
    ASSUME TopologyFirst = FALSE, MaxSendErrors = 0
    PROVE  Spec => []CleanupRemovesTarget
<1>1. Init => CleanInv
  BY InitType DEF Init, CleanInv, CInv
<1>2. CleanInv /\ [Next]_vars => CleanInv'
  BY NextType, NextClean DEF CleanInv
<1>3. CleanInv => CleanupRemovesTarget
  <2>1. SUFFICES ASSUME CleanInv, NEW d \in Device, outbox[d] = <<>>,
                        NEW e \in target[d], e[2] \in table[e[1]]
                 PROVE  FALSE
    BY DEF CleanupRemovesTarget
  <2>2. Covered(d, e)
    BY <2>1 DEF CleanInv, CInv
  <2>. QED
    BY <2>1, <2>2 DEF Covered, Range
<1>. QED
  BY <1>1, <1>2, <1>3, PTL DEF Spec

=============================================================================
