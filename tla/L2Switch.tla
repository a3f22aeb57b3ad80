------------------------------ MODULE L2Switch ------------------------------
(***************************************************************************)
(* The L2 forwarding policy of cherryd (package l2switch) driven by one    *)
(* session per switch.  A session handles its inbound messages serially:  *)
(* a PACKET_IN goes to ProcessPacket, a PORT_STATUS to ProcessEvent.  The  *)
(* handler computes, from the topology it reads at its start, the list of  *)
(* FLOW_MOD / PACKET_OUT messages it will send, and then sends them one by *)
(* one (Device.SendMessage is the suspension point where the sessions of  *)
(* the other switches interleave).  A message sent to switch X is applied  *)
(* to X's flow table in the order it was sent (one TCP stream per switch). *)
(*                                                                         *)
(* The topology (the network.Finder: learned hosts, discovered links, the  *)
(* shortest path) and the glue that calls the policy are not under src/;  *)
(* they are modelled from spec.md (sections 4.4 and 2).                    *)
(***************************************************************************)
EXTENDS Integers, Sequences, SequencesExt, FiniteSets

CONSTANTS
    Device,        \* the switches (datapath IDs)
    PortNo,        \* the port numbers a switch has
    MAC,           \* the MAC addresses of the end hosts
    HostAt,        \* HostAt[m]: the <<switch, port>> host m is plugged into
    Trunks,        \* the physical inter-switch links, {<<d, p>>, <<d2, p2>>}
    Wild,          \* a wildcarded match field
    Controller,    \* the reserved port OFPP_CONTROLLER
    Flood,         \* the reserved port OFPP_FLOOD
    Broadcast,     \* the MAC FF:FF:FF:FF:FF:FF
    NoNode,        \* finder.Node(mac) = nil
    NoPort,        \* no topology update is due
    Traffic,       \* the <<source, destination>> pairs the hosts send
    TopologyFirst, \* the glue updates the topology before calling ProcessEvent
    MaxFailures,   \* bound on the number of port and link failures
    MaxSendErrors  \* bound on the number of failed Device.SendMessage calls

Location == Device \X PortNo

ASSUME ConstantsAssumption ==
    /\ IsFiniteSet(Device) /\ Device # {}
    /\ IsFiniteSet(MAC) /\ IsFiniteSet(PortNo)
    /\ PortNo \subseteq Nat
    /\ HostAt \in [MAC -> Location]
    /\ \A l \in Trunks : l \subseteq Location /\ Cardinality(l) = 2
    /\ \A l \in Trunks : \A u, v \in l : u # v => u[1] # v[1]
    /\ \A l1, l2 \in Trunks : l1 # l2 => l1 \cap l2 = {}
    /\ \A m \in MAC : \A l \in Trunks : HostAt[m] \notin l
    /\ {Wild, Controller, Flood, NoPort} \cap PortNo = {}
    /\ Wild # Controller /\ Wild # Flood /\ Controller # Flood
    /\ Broadcast \notin MAC /\ Wild \notin MAC /\ Wild # Broadcast
    /\ NoNode \notin Location
    /\ Traffic \subseteq {st \in MAC \X (MAC \cup {Broadcast}) : st[1] # st[2]}
    /\ TopologyFirst \in BOOLEAN
    /\ MaxFailures \in Nat
    /\ MaxSendErrors \in Nat

VARIABLES
    table,     \* table[X]: the flow entries installed in switch X
    links,     \* the inter-switch links the finder knows (Finder.IsEdge, Path)
    node,      \* node[m]: where the finder learned host m, or NoNode
    down,      \* the locations whose port is down
    inbox,     \* inbox[d]: the ports of d with a PORT_STATUS (down) not yet handled
    outbox,    \* outbox[d]: what the running handler of d's session still sends
    topoDue,   \* topoDue[d]: the port whose topology update follows the handler
    target,    \* ghost: the entries the running cleanup of d is meant to remove
    lastDrop,  \* ghost: what ProcessPacket last returned on d and whether it sent a PACKET_OUT
    failures,  \* ghost: the number of failures so far
    sendErrors \* ghost: the number of failed sends so far

vars == <<table, links, node, down, inbox, outbox, topoDue, target, lastDrop, failures, sendErrors>>

(***************************************************************************)
(* Flow entries and the messages the policy sends.  A flow entry keeps its *)
(* match, its output port and the most significant bit of its cookie.     *)
(***************************************************************************)
Rule == [in: PortNo \cup {Wild}, src: MAC \cup {Wild}, dst: MAC \cup {Wild},
         out: PortNo \cup {Controller}, cookie: {0, 1}]

\* The table-miss entry: match everything, send to the controller, cookie MSB=1.
TableMiss == [in |-> Wild, src |-> Wild, dst |-> Wild, out |-> Controller, cookie |-> 1]

\* FLOW_MOD(ADD) of installFlow, FLOW_MOD(DELETE) of removeFlow, PACKET_OUT.
AddMsg == [to: Device, cmd: {"add"}, in: PortNo, src: MAC, dst: MAC,
           out: PortNo, mask: {0, 1}]
DelMsg == [to: Device, cmd: {"delete"}, in: {Wild}, src: MAC \cup {Wild},
           dst: MAC \cup {Wild}, out: {Wild}, mask: {0, 1}]
OutMsg == [to: Device, cmd: {"packetout"}, in: PortNo \cup {Controller}, src: MAC,
           dst: MAC \cup {Broadcast}, out: PortNo \cup {Flood}, mask: {0, 1}]
Msg == AddMsg \cup DelMsg \cup OutMsg

Outcome == [drop: BOOLEAN, sent: BOOLEAN, err: BOOLEAN]

TrunkPorts == UNION Trunks

\* Finder.IsEdge(port): the port ends an inter-switch link the finder knows.
IsEdge(lnk, loc) == \E l \in lnk : loc \in l

\* The orders in which finder.Devices() (or port.Nodes()) may list a set.
Orderings(S) == SetToSeqs(S)

(***************************************************************************)
(* Finder.Path(a, b): a shortest sequence of hops <<v[0], v[1]>> from a to *)
(* b over the known links; v[0] is the port that leaves a switch and v[1]  *)
(* the port that enters the next one.  Ties are left open.                 *)
(***************************************************************************)
Hops(lnk) == {h \in Location \X Location : {h[1], h[2]} \in lnk}

IsPath(path, a, b) ==
    /\ path[1][1][1] = a
    /\ path[Len(path)][2][1] = b
    /\ \A k \in 1..(Len(path) - 1) : path[k][2][1] = path[k + 1][1][1]
    /\ \A i, j \in 1..Len(path) : i # j => path[i][1][1] # path[j][1][1]
    /\ \A k \in 1..Len(path) : path[k][1][1] # b

Paths(lnk, a, b) ==
    {path \in UNION {[1..n -> Hops(lnk)] : n \in 1..(Cardinality(Device) - 1)} :
        IsPath(path, a, b)}

ShortestPaths(lnk, a, b) ==
    {p \in Paths(lnk, a, b) : \A q \in Paths(lnk, a, b) : Len(p) <= Len(q)}

(***************************************************************************)
(* The messages the policy builds (flood, packetout, installFlow,          *)
(* setFlowRule, removeFlow).                                               *)
(***************************************************************************)
flood(d, p, s, t) ==
    <<[to |-> d, cmd |-> "packetout", in |-> p, src |-> s, dst |-> t, out |-> Flood, mask |-> 0]>>

packetout(egress, s, t) ==
    <<[to |-> egress[1], cmd |-> "packetout", in |-> Controller, src |-> s, dst |-> t,
       out |-> egress[2], mask |-> 0]>>

isBroadcast(t) == t = Broadcast

\* Bug variant of installFlow: the entry forwards to the controller.
installFlowToController(x, i, o, s, t) ==
    [to |-> x, cmd |-> "add", in |-> i, src |-> s, dst |-> t, out |-> Controller, mask |-> 0]

installFlow(x, i, o, s, t) ==
    [to |-> x, cmd |-> "add", in |-> i, src |-> s, dst |-> t, out |-> o, mask |-> 0]

\* Forward, then "backward": the source sends the same FLOW_MOD twice.
setFlowRule(x, i, o, s, t) == <<installFlow(x, i, o, s, t), installFlow(x, i, o, s, t)>>

\* Bug variant of removeFlow: the CookieMask is left unset.
removeFlowNoMask(x, s, t) ==
    [to |-> x, cmd |-> "delete", in |-> Wild, src |-> s, dst |-> t, out |-> Wild, mask |-> 0]

removeFlow(x, s, t) ==
    [to |-> x, cmd |-> "delete", in |-> Wild, src |-> s, dst |-> t, out |-> Wild, mask |-> 1]

(***************************************************************************)
(* switching: one setFlowRule per hop (entering at inPort, leaving at      *)
(* v[0]; the next inPort is v[1]), one on the egress switch, then the      *)
(* PACKET_OUT through the egress port.                                     *)
(***************************************************************************)
\* Bug variant of switching: each hop's outPort is taken from v[1], the port
\* that enters the next switch, instead of v[0].
switchingWrongEnd(p, s, t, egress, path) ==
    LET L == Len(path)
        hopIn(k) == IF k = 1 THEN p ELSE path[k - 1][2][2]
        hop(k) == installFlow(path[k][1][1], hopIn(k), path[k][2][2], s, t)
    IN  [j \in 1..(2 * L) |-> hop((j + 1) \div 2)]
        \o setFlowRule(egress[1], path[L][2][2], egress[2], s, t)
        \o packetout(egress, s, t)

switching(p, s, t, egress, path) ==
    LET L == Len(path)
        hopIn(k) == IF k = 1 THEN p ELSE path[k - 1][2][2]
        hop(k) == installFlow(path[k][1][1], hopIn(k), path[k][1][2], s, t)
    IN  [j \in 1..(2 * L) |-> hop((j + 1) \div 2)]
        \o setFlowRule(egress[1], path[L][2][2], egress[2], s, t)
        \o packetout(egress, s, t)

localSwitching(d, p, s, t, egress) ==
    setFlowRule(d, p, egress[2], s, t) \o packetout(egress, s, t)

\* removeAllFlows: one wildcard delete per device, in the order of ord.
removeAllFlows(ord) == [i \in 1..Len(ord) |-> removeFlow(ord[i], Wild, Wild)]

\* Bug variant of removeFlowRules: both deletes match on dst=mac.
removeFlowRulesDstOnly(m, ord) ==
    [j \in 1..(2 * Len(ord)) |-> removeFlow(ord[(j + 1) \div 2], Wild, m)]

\* removeFlowRules(mac): per device a delete on src=mac, then one on dst=mac.
removeFlowRules(m, ord) ==
    [j \in 1..(2 * Len(ord)) |->
        IF j % 2 = 1 THEN removeFlow(ord[(j + 1) \div 2], m, Wild)
                     ELSE removeFlow(ord[(j + 1) \div 2], Wild, m)]

\* cleanup, non-edge case: removeFlowRules for each node behind the port.
removeNodeFlows(ns, ords) ==
    LET N == 2 * Cardinality(Device)
    IN  [j \in 1..(N * Len(ns)) |->
            removeFlowRules(ns[((j - 1) \div N) + 1], ords[((j - 1) \div N) + 1])[((j - 1) % N) + 1]]

NodesAt(nd, loc) == {m \in MAC : nd[m] = loc}

(***************************************************************************)
(* What a FLOW_MOD does to a switch's table (OpenFlow semantics).  ADD     *)
(* replaces the entry with the same match; a non-strict DELETE removes the *)
(* entries at least as specific as its match whose cookie agrees with it  *)
(* (cookie 0) on the masked bit.                                           *)
(***************************************************************************)
SameMatch(r, m) == r.in = m.in /\ r.src = m.src /\ r.dst = m.dst

Deletes(m, r) ==
    /\ m.in \in {Wild, r.in} /\ m.src \in {Wild, r.src} /\ m.dst \in {Wild, r.dst}
    /\ m.mask = 0 \/ r.cookie = 0

ApplyMsg(tbl, m) ==
    CASE m.cmd = "add" ->
           {r \in tbl : ~SameMatch(r, m)}
             \cup {[in |-> m.in, src |-> m.src, dst |-> m.dst, out |-> m.out, cookie |-> 0]}
      [] m.cmd = "delete" -> {r \in tbl : ~Deletes(m, r)}
      [] OTHER -> tbl

\* A packet (in port p, src s, dst t) misses every installed forwarding entry.
Misses(tbl, p, s, t) ==
    \A r \in tbl : r.cookie = 0 => ~(r.in \in {Wild, p} /\ r.src \in {Wild, s} /\ r.dst \in {Wild, t})

\* The finder's topology after the port loc went down.
LinksWithout(lnk, loc) == {l \in lnk : loc \notin l}
NodesWithout(nd, loc) == [m \in MAC |-> IF nd[m] = loc THEN NoNode ELSE nd[m]]

\* Learning (spec 4.6 step 1): the source is learned unless the port is a trunk.
Learn(nd, lnk, d, p, s) ==
    IF IsEdge(lnk, <<d, p>>) THEN nd ELSE [nd EXCEPT ![s] = <<d, p>>]

\* A packet from host s can reach trunk port p of d from the neighbour: the
\* neighbour is s's switch or is connected to it by links that avoid d.
ArrivesOnTrunk(d, p, s) ==
    \E l \in Trunks, u \in Location :
        /\ l = {<<d, p>>, u}
        /\ \/ HostAt[s][1] = u[1]
           \/ Paths({k \in Trunks : \A v \in k : v[1] # d}, HostAt[s][1], u[1]) # {}

Idle(d) == outbox[d] = <<>> /\ topoDue[d] = NoPort

-----------------------------------------------------------------------------
TypeOK ==
    /\ table \in [Device -> SUBSET Rule]
    /\ links \subseteq Trunks
    /\ node \in [MAC -> Location \cup {NoNode}]
    /\ down \subseteq Location
    /\ inbox \in [Device -> SUBSET PortNo]
    /\ outbox \in [Device -> Seq(Msg)]
    /\ topoDue \in [Device -> PortNo \cup {NoPort}]
    /\ target \in [Device -> SUBSET (Device \X Rule)]
    /\ lastDrop \in [Device -> Outcome]
    /\ failures \in 0..MaxFailures
    /\ sendErrors \in 0..MaxSendErrors

Init ==
    /\ table = [x \in Device |-> {TableMiss}]
    /\ links = Trunks
    /\ node = [m \in MAC |-> NoNode]
    /\ down = {}
    /\ inbox = [x \in Device |-> {}]
    /\ outbox = [x \in Device |-> <<>>]
    /\ topoDue = [x \in Device |-> NoPort]
    /\ target = [x \in Device |-> {}]
    /\ lastDrop = [x \in Device |-> [drop |-> TRUE, sent |-> TRUE, err |-> FALSE]]
    /\ failures = 0
    /\ sendErrors = 0

-----------------------------------------------------------------------------
(***************************************************************************)
(* ProcessPacket on a PACKET_IN (in port p, source s, destination t) at    *)
(* switch d, after the glue learned the source.  An unknown or broadcast  *)
(* destination is flooded; a destination on the same switch gets a local  *)
(* flow; otherwise a flow is installed along the path.  Without a path    *)
(* switching returns nil, so ProcessPacket returns drop=true having sent  *)
(* nothing.  The switch raises the PACKET_IN only for a packet that misses *)
(* its forwarding entries, on a port that is up, from the host behind it  *)
(* or from a neighbour switch, for a pair of hosts that talk (Traffic).   *)
(***************************************************************************)
ProcessPacket(d, p, s, t) ==
    /\ Idle(d)
    /\ <<d, p>> \notin down
    /\ HostAt[s] = <<d, p>> \/ ArrivesOnTrunk(d, p, s)
    /\ <<s, t>> \in Traffic
    /\ Misses(table[d], p, s, t)
    /\ LET nd == Learn(node, links, d, p, s)
           dstNode == IF t \in MAC THEN nd[t] ELSE NoNode
           Handle(msgs, sent) ==
               /\ outbox' = [outbox EXCEPT ![d] = msgs]
               /\ lastDrop' = [lastDrop EXCEPT ![d] = [drop |-> TRUE, sent |-> sent, err |-> FALSE]]
       IN  /\ node' = nd
           /\ \/ /\ dstNode = NoNode \/ isBroadcast(t)
                 /\ Handle(flood(d, p, s, t), TRUE)
              \/ /\ dstNode # NoNode /\ ~isBroadcast(t)
                 /\ dstNode[1] = d
                 /\ Handle(localSwitching(d, p, s, t, dstNode), TRUE)
              \/ /\ dstNode # NoNode /\ ~isBroadcast(t)
                 /\ dstNode[1] # d
                 /\ ShortestPaths(links, d, dstNode[1]) = {}
                 /\ Handle(<<>>, FALSE)
              \/ /\ dstNode # NoNode /\ ~isBroadcast(t)
                 /\ dstNode[1] # d
                 /\ \E path \in ShortestPaths(links, d, dstNode[1]) :
                        Handle(switching(p, s, t, dstNode, path), TRUE)
    /\ target' = [target EXCEPT ![d] = {}]
    /\ UNCHANGED <<table, links, down, inbox, topoDue, failures, sendErrors>>

\* The entries the cleanup of port loc is meant to remove, judged on the
\* topology as it stood when the port went down: every forwarding entry if
\* the port ended a link, else those of the hosts learned behind it.
Intended(loc) ==
    LET hosts == NodesAt(node, loc)
    IN  {e \in Device \X Rule :
            /\ e[2] \in table[e[1]] /\ e[2].cookie = 0
            /\ IsEdge(links, loc) \/ e[2].src \in hosts \/ e[2].dst \in hosts}

(***************************************************************************)
(* ProcessEvent on a PORT_STATUS reporting port p of d down, and cleanup:  *)
(* if the finder says the port is an edge, removeAllFlows; otherwise       *)
(* removeFlowRules for every node behind the port.  The glue updates the  *)
(* topology before the call (TopologyFirst) or after the handler returns. *)
(***************************************************************************)
ProcessEvent(d) ==
    /\ Idle(d)
    /\ \E p \in inbox[d] :
        LET loc == <<d, p>>
            lnk == IF TopologyFirst THEN LinksWithout(links, loc) ELSE links
            nd == IF TopologyFirst THEN NodesWithout(node, loc) ELSE node
        IN  /\ \/ /\ IsEdge(lnk, loc)
                  /\ \E ord \in Orderings(Device) :
                         outbox' = [outbox EXCEPT ![d] = removeAllFlows(ord)]
               \/ /\ ~IsEdge(lnk, loc)
                  /\ \E ns \in Orderings(NodesAt(nd, loc)) :
                     \E ords \in [1..Len(ns) -> Orderings(Device)] :
                         outbox' = [outbox EXCEPT ![d] = removeNodeFlows(ns, ords)]
            /\ links' = lnk
            /\ node' = nd
            /\ topoDue' = [topoDue EXCEPT ![d] = IF TopologyFirst THEN NoPort ELSE p]
            /\ target' = [target EXCEPT ![d] = Intended(loc)]
            /\ inbox' = [inbox EXCEPT ![d] = @ \ {p}]
    /\ UNCHANGED <<table, down, lastDrop, failures, sendErrors>>

(***************************************************************************)
(* Device.SendMessage: the head of d's pending messages reaches the switch *)
(* it is addressed to.  An ADD replaces an entry with the same match, so   *)
(* that entry is no longer one an earlier cleanup had to remove.           *)
(***************************************************************************)
SendMessage(d) ==
    /\ outbox[d] # <<>>
    /\ LET m == Head(outbox[d])
       IN  /\ table' = [table EXCEPT ![m.to] = ApplyMsg(@, m)]
           /\ target' = IF m.cmd = "add"
                           THEN [x \in Device |-> {e \in target[x] : ~(e[1] = m.to /\ SameMatch(e[2], m))}]
                           ELSE target
    /\ outbox' = [outbox EXCEPT ![d] = Tail(@)]
    /\ UNCHANGED <<links, node, down, inbox, topoDue, lastDrop, failures, sendErrors>>

(***************************************************************************)
(* Device.SendMessage fails (the switch is gone, or the write timed out):  *)
(* the handler returns the error.  Which of the messages it would have     *)
(* sent next are skipped depends on the caller of the failed send:         *)
(* installFlow, setFlowRule, switching, localSwitching and packetout all   *)
(* return it, so the rest of the packet handler is skipped (ProcessPacket  *)
(* returns drop=false, but true after a failed flood); removeAllFlows logs *)
(* it and continues with the next device; removeFlowRules returns it and   *)
(* cleanup continues with the next node, so the rest of that node's        *)
(* deletes, those that mention its MAC, are skipped.                       *)
(***************************************************************************)
ErrSkips(m, n) ==
    \/ m.cmd # "delete"
    \/ \E mac \in {m.src, m.dst} \cap MAC : mac \in {n.src, n.dst}

SendFailure(d) ==
    /\ outbox[d] # <<>>
    /\ sendErrors < MaxSendErrors
    /\ LET m == Head(outbox[d])
           rest == Tail(outbox[d])
       IN  /\ \E k \in 0..Len(rest) :
                 /\ \A i \in 1..k : ErrSkips(m, rest[i])
                 /\ k < Len(rest) => ~ErrSkips(m, rest[k + 1])
                 /\ outbox' = [outbox EXCEPT ![d] = SubSeq(rest, k + 1, Len(rest))]
           /\ lastDrop' = IF m.cmd = "delete" THEN lastDrop
                           ELSE [lastDrop EXCEPT ![d] = [drop |-> m.out = Flood, sent |-> FALSE, err |-> TRUE]]
           \* entries on the unreachable switch are no longer the cleanup's to remove
           /\ target' = [target EXCEPT ![d] = {e \in @ : e[1] # m.to}]
    /\ sendErrors' = sendErrors + 1
    /\ UNCHANGED <<table, links, node, down, inbox, topoDue, failures>>

\* The glue's topology update for a port that went down, after the handler.
TopologyUpdate(d) ==
    /\ outbox[d] = <<>>
    /\ topoDue[d] # NoPort
    /\ links' = LinksWithout(links, <<d, topoDue[d]>>)
    /\ node' = NodesWithout(node, <<d, topoDue[d]>>)
    /\ topoDue' = [topoDue EXCEPT ![d] = NoPort]
    /\ UNCHANGED <<table, down, inbox, outbox, target, lastDrop, failures, sendErrors>>

(***************************************************************************)
(* The environment: a host port or an inter-switch link goes down (each   *)
(* end reports a PORT_STATUS), comes back once its session has handled the *)
(* down report (the up report is ignored by ProcessEvent and the link is  *)
(* rediscovered).                                                         *)
(***************************************************************************)
HostPorts == {HostAt[m] : m \in MAC}

FailPort(loc) ==
    /\ loc \in HostPorts \ down
    /\ failures < MaxFailures
    /\ down' = down \cup {loc}
    /\ inbox' = [inbox EXCEPT ![loc[1]] = @ \cup {loc[2]}]
    /\ failures' = failures + 1
    /\ UNCHANGED <<table, links, node, outbox, topoDue, target, lastDrop, sendErrors>>

FailLink(l) ==
    /\ l \cap down = {}
    /\ failures < MaxFailures
    /\ down' = down \cup l
    /\ inbox' = [x \in Device |-> inbox[x] \cup {u[2] : u \in {v \in l : v[1] = x}}]
    /\ failures' = failures + 1
    /\ UNCHANGED <<table, links, node, outbox, topoDue, target, lastDrop, sendErrors>>

Handled(loc) == loc[2] \notin inbox[loc[1]] /\ Idle(loc[1])

RecoverPort(loc) ==
    /\ loc \in down \cap HostPorts
    /\ Handled(loc)
    /\ down' = down \ {loc}
    /\ UNCHANGED <<table, links, node, inbox, outbox, topoDue, target, lastDrop, failures, sendErrors>>

RecoverLink(l) ==
    /\ l \subseteq down
    /\ \A u \in l : Handled(u)
    /\ down' = down \ l
    /\ links' = links \cup {l}
    /\ UNCHANGED <<table, node, inbox, outbox, topoDue, target, lastDrop, failures, sendErrors>>

Next ==
    \/ \E d \in Device, p \in PortNo, st \in Traffic : ProcessPacket(d, p, st[1], st[2])
    \/ \E d \in Device : ProcessEvent(d) \/ SendMessage(d) \/ SendFailure(d) \/ TopologyUpdate(d)
    \/ \E loc \in Location : FailPort(loc) \/ RecoverPort(loc)
    \/ \E l \in Trunks : FailLink(l) \/ RecoverLink(l)

Spec == Init /\ [][Next]_vars

-----------------------------------------------------------------------------
(***************************************************************************)
(* Cookie safety (spec 8): the cleanup deletes carry the cookie mask 1<<63 *)
(* (removeFlow), so whatever the sessions interleave no switch ever loses  *)
(* its table-miss entry, the one whose cookie has the MSB set.             *)
(***************************************************************************)
TableMissPreserved == \A x \in Device : TableMiss \in table[x]

(***************************************************************************)
(* cleanup (comment at its edge test): once the handler of a port-down has *)
(* sent all its deletes, none of the entries it was meant to remove (judged *)
(* on the topology when the port went down) is left on any switch, except *)
(* those another session has since replaced by a new ADD.                  *)
(***************************************************************************)
CleanupRemovesTarget ==
    \A d \in Device : outbox[d] = <<>> => \A e \in target[d] : e[2] \notin table[e[1]]

(***************************************************************************)
(* cleanup (same comment): when every session is idle and every port-down *)
(* has been handled, no switch keeps an entry that forwards into a port   *)
(* that is down.                                                           *)
(***************************************************************************)
Quiescent == \A d \in Device : Idle(d) /\ inbox[d] = {}

NoStaleRuleWhenQuiescent ==
    Quiescent => \A x \in Device : \A r \in table[x] : r.cookie = 0 => <<x, r.out>> \notin down

(***************************************************************************)
(* ProcessPacket (spec 4.6 step 4): drop=true without an error is returned *)
(* only when the packet was forwarded, i.e. the handler sent a PACKET_OUT. *)
(***************************************************************************)
DropImpliesForwarded ==
    \A d \in Device : lastDrop[d].drop /\ ~lastDrop[d].err => lastDrop[d].sent
(***************************************************************************)
(* switching and localSwitching (flowParam.outPort): every flow entry the  *)
(* policy installs sends its packets into an inter-switch link or out of   *)
(* the port of its destination host, never to the port of another host.    *)
(***************************************************************************)
ForwardingSound ==
    \A x \in Device : \A r \in table[x] :
        r.cookie = 0 => \/ <<x, r.out>> \in TrunkPorts
                        \/ r.dst \in MAC /\ <<x, r.out>> = HostAt[r.dst]
=============================================================================
