# A TLA+ verification of cherryd's L2 switch policy and device manager

This directory holds TLA+ models of the two source files of the repository:

- `src/unnamed/part_000` is the `l2switch` package, the OpenFlow L2 forwarding policy. Its lines 1-160 are constant tables.
- `src/cherryd/internal/device/manager.go` is the per-connection `Manager` of a switch.

TLC checks the models on small instances. TLAPS proves their type invariants and main safety invariants for every value of the constants.

## The system and its parts (inventory)

| Part | Source | What it does | Module |
|---|---|---|---|
| L2 forwarding policy | part_000:181-505 | `ProcessPacket`: flood, local switching, path switching. `ProcessEvent`/`cleanup`: delete the flows of a port that went down. | `L2Switch` |
| OpenFlow constants | part_000:1-160 | Constant tables and wire types. | not modelled (no state) |
| Manager session | manager.go:32-311 | `Run` (transceiver, `r.openflow = nil`, `Pool.remove`, `cancelManagers`) and the handshake handlers. | `DeviceManager` |
| Manager send paths | manager.go:313-358 | `InstallFlowRule`, `RemoveFlowRule`, `SendPacketOut`, called by other goroutines. | `DeviceManager` |
| Device Pool | not under src/ (spec 4.3) | Map `<<DPID, AuxID>>` to Manager: `add`, `remove`, `Search`. | `DeviceManager` (from the spec) |
| Transceiver | not under src/ (spec 4.2) | Dispatches HELLO, then FEATURES_REPLY, then BARRIER_REPLY, to the handlers. Returns on error, peer loss or cancel. | `DeviceManager` (from the spec) |
| Finder and glue | not under src/ (spec 2, 4.4) | MAC learning, link discovery, shortest path. The glue calls the policy, then updates the topology. | `L2Switch` (from the spec) |

How the parts interact:

- Each switch has one session goroutine, which handles its messages one at a time.
- A PACKET_IN goes to `ProcessPacket`. It reads the Finder and sends FLOW_MODs and a PACKET_OUT, through `Device.SendMessage`, to the switches along the path.
- A PORT_STATUS (down) goes to `ProcessEvent`. It sends DELETE FLOW_MODs to every switch.
- The sessions of different switches run concurrently. Each send is a point where another session's messages can get in between.
- In `manager.go`, `Run` registers the Manager in the Pool after the handshake and deregisters it when the connection ends.
- Other goroutines take Managers from the Pool and call their send paths. These calls race with `Run`.

## Modules

- **`L2Switch.tla`**: the policy and its environment.
  - State:
    - `table`: the flow tables of the switches;
    - `links` and `node`: the Finder;
    - `down`: the ports that are down;
    - `inbox`: the PORT_STATUS reports not yet handled;
    - `outbox[d]`: the messages the running handler of `d`'s session has still to send;
    - `topoDue`: the glue's topology update still due;
    - ghosts `target`, `lastDrop`, `failures`, `sendErrors`.
  - Each handler is one action. The action computes, from the state it reads at its start, the whole sequence of messages the Go code sends, in the code's order:
    - `ProcessPacket`: `flood`, `localSwitching`, `switching` and the "no path" return;
    - `ProcessEvent`: `cleanup`, with `removeAllFlows` or the per-node `removeFlowRules`.
  - The sends themselves are separate steps:
    - `SendMessage` applies the head message to the addressed switch's table, with OpenFlow semantics. An ADD replaces the entry with the same match. A non-strict DELETE honours the cookie mask.
    - `SendFailure` is a failed `SendMessage`. It drops the messages the caller's error handling skips:
      - `installFlow`, `setFlowRule` and `switching` return the error, so the rest of the packet handler is skipped;
      - `removeAllFlows` continues with the next device;
      - `removeFlowRules` returns, so the remaining deletes for that MAC are skipped, and `cleanup` continues with the next node.
  - So the messages of different sessions interleave exactly at the sends.
  - Messages are records of the fields the properties read: match, output port and cookie bit. The EtherType and the timeouts are left out.
- **`DeviceManager.tla`**:
  - `phase[c]` follows `Run` for connection `c`: `init`, `running`, `ready` (registered), `closing` (`openflow.Run` returned), `removing` (`r.openflow = nil` done), `cascading` (`Pool.remove` done), `done`.
  - Each statement of `Run` that changes shared state is an action of its own, so the send paths interleave between them.
  - `handleFeaturesReplyMessage` has three outcomes:
    - a PORT_MOD fails part way;
    - the BARRIER_REQUEST fails;
    - success: `r.DPID` is set and the Manager goes into the Pool.
  - `handleBarrierReplyMessage` is dispatched after that handler has returned (inbound dispatch is serial). It only logs; the model records in `replied[c]` that the switch answered the barrier, which the spec requires before the switch is used.
  - A caller goroutine `k` runs `Acquire` (a Pool Search), then `CheckConnected` (the `r.openflow == nil` test), then `SendOnTransceiver` (the second read of `r.openflow`). The third step panics if the field was reset in between.
  - `openflow.Run` returns for one of two reasons, two actions: `PeerGone` (the peer closed, a read error or a socket timeout; any live session) and `CancelExit` (the session's context was cancelled, by `cancelManagers` of another session; only a cancelled session).
  - `cancelManagers(r.DPID)` is `CascadeCancel`: it marks cancelled every Manager the Pool lists for the DPID at the time of the step.
- **`MC_L2Switch.tla`** and **`MC_DeviceManager.tla`** give the constants of the TLC runs.
- **`L2SwitchProofs.tla`**, **`L2CleanupProofs.tla`**, **`L2ForwardingProofs.tla`** and **`DeviceManagerProofs.tla`** hold the TLAPS proofs.

`PROJECT.json` maps every definition to the source lines it translates. It marks `spec_modelled` the definitions for code that is not under src/: the Finder, the Pool, the switch's flow table and the physical network.

## Runs

| Run | Config | Checks | Result |
|---|---|---|---|
| l2_line3 | `MC_L2Switch.cfg` | TypeOK, TableMissPreserved, ForwardingSound, CleanupRemovesTarget | pass (360k states) |
| l2_senderr | `MC_L2SwitchErr.cfg` | TypeOK, TableMissPreserved, ForwardingSound | pass (828k states) |
| l2_cleanup_error | `L2_CleanupError.cfg` | CleanupRemovesTarget | violated: a failed delete in `removeFlowRules` skips that MAC's deletes on the other switches |
| l2_stale | `L2_Stale.cfg` | NoStaleRuleWhenQuiescent | violated: a path install racing another session's cleanup leaves a flow into a down port |
| l2_drop | `L2_Drop.cfg` | DropImpliesForwarded | violated: no path gives drop=true with nothing sent |
| dm_sessions | `MC_DeviceManager.cfg` | DMTypeOK, PoolHoldsOnlyLive | pass (243k states) |
| dm_reconnect | `DM_Reconnect.cfg` | LiveSwitchRegistered | violated: the old connection's `Pool.remove` deletes the new Manager |
| dm_zero_dpid | `DM_ZeroDPID.cfg` | LiveSwitchRegistered | violated: a session that fails before FEATURES_REPLY removes DPID 0 |
| dm_nil_race | `DM_NilRace.cfg` | NoNilTransceiver | violated: nil dereference between the test and the send |
| dm_hello | `DM_Hello.cfg` | OnlyOF10Registered | violated: a version-4 HELLO is accepted |
| dm_cascade | `DM_Cascade.cfg` | CascadeSparesMain | violated: a closing session's `cancelManagers` cancels the switch's new main session |
| dm_barrier | `DM_Barrier.cfg` | FirstSendAfterBarrierReply | violated: `Pool.add` follows the BARRIER_REQUEST at once, so a caller sends to the switch before its BARRIER_REPLY (spec 4.2 and 5 require the reply first) |

`PROJECT.json` records each violation as a finding. Each property of a passing run also has a mutant: a plausible bug in a mapped definition that TLC then catches.
- For `installFlow`: an entry that forwards to the controller.
- For `removeFlow`: a missing cookie mask.
- For `removeFlowRules`: deletes only on dst.
- For `switching`: each hop's output port taken from `v[1]`, the port that enters the next switch, instead of `v[0]` (breaks `ForwardingSound`).
- For `Acquire`: an empty slot taken.
- For `RemoveFromPool`: the `Pool.remove` dropped.

### Bounds, and why they are enough

- **Switches.** The first run uses three switches in a line, A-B-C, with hosts on A and C. That gives a two-hop path with a transit switch B, on which two sessions (A's install and B's or C's cleanup) interleave. The two-switch runs have two-way traffic.
- **Failures.** One port or link failure in `l2_line3`, two in `l2_senderr`, each with its recovery: a failure needs a cleanup, and the recovery lets traffic reinstall flows afterwards.
- **Ports and hosts.** Two ports per switch and two hosts cover a host port and a trunk port on every switch.
- **Send failures.** One failed send is enough to reach every skip rule.
- **Device manager.** Three connections, of which two belong to the same switch. That allows a reconnect while the old session is still closing. The third switch has DPID 0, the default value of `r.DPID`.
  - HELLO versions are 0, 1 and 4 in the violation runs: the values below, at and above the check. The passing run uses 0 and 1; 4 behaves as 1 everywhere but in `OnlyOF10Registered`.
  - One caller goroutine and two ports.
  - `dm_cascade` puts all three connections on one switch, so that the shortest trace is the reconnect itself and not the DPID-0 default.

### Fairness and deadlock

No run checks a liveness property, so no fairness is assumed. `Run` after `openflow.Run` is straight-line code, so "teardown completes" would follow from weak fairness on those steps alone and says nothing about the code. What the code could get wrong is *what* teardown removes and cancels, and that is what `dm_reconnect`, `dm_zero_dpid` and `dm_cascade` show.

- The L2 model checks deadlock. A switch can always take another PACKET_IN or send a message, so the model never stops.
- The device manager model has `CHECK_DEADLOCK FALSE`. Every `Run` returns and the connections are finite, so that system really does stop. It also stops after a panic.

## Proofs

`L2SwitchProofs.tla` proves two theorems for every set of switches, ports, hosts and links that satisfies `ConstantsAssumption`:

- **`TypeCorrect`**: `Spec => []TypeOK`.
  - TypeOK alone is not inductive. A DELETE in an outbox could in principle carry mask 0, and then `SendMessage` could remove the table-miss entry.
  - The proof strengthens it to `TypeM == TypeOK /\ OutboxMasked`: every queued DELETE has mask 1.
  - The proof rests on one lemma per message builder (`flood` ... `removeNodeFlows`). The lemma for `removeNodeFlows` uses the div/mod bounds of its flattened index.
  - There is one lemma per action, `SendFailure` included (it keeps a suffix of the outbox, by `SubSeqProperties`).
- **`TableMissSafe`**: `Spec => []TableMissPreserved`.
  - The inductive invariant is `IInv == TypeM /\ TableMissPreserved`.
  - Only `SendMessage` changes a table. It applies an ADD with a concrete match, which differs from the all-wildcard table-miss match, or a DELETE with mask 1, which spares cookie 1 (`ApplyKeepsTableMiss`).

`L2CleanupProofs.tla` proves **`CleanupSafe`**: `Spec => []CleanupRemovesTarget` for every topology, under two hypotheses. The glue calls `ProcessEvent` before it updates the topology (`TopologyFirst = FALSE`), and no send fails (`MaxSendErrors = 0`).

- `l2_cleanup_error` shows that the second hypothesis is needed.
- The first is needed too. With the link already removed from the finder, `IsEdge` is false for a port that was a trunk, so `cleanup` deletes only the flows of the nodes behind it and misses the flows through the link. The glue is not under src/, and spec 4.4 does not fix its order.

- The inductive invariant is `CleanInv == TypeM /\ CInv`. `CInv` says that every entry of a running cleanup's target that is still installed is `Covered`: a DELETE that removes it, addressed to its switch, is still pending in that session's outbox.
- `ProcessEvent` establishes it. `removeAllFlows` sends a wildcard delete to every device, and the node loop sends a src and a dst delete for every node behind the port to every device (`AllFlowsCover`, `NodeFlowsCover`). Both rest on `OrderingOnto`: an injective sequence of length `Cardinality(S)` over `S` lists all of `S`, by `FS_Injection`. The node loop also needs the index arithmetic of its flattened sequence: position `(q-1)*N + r` is message `r` of block `q`.
- `SendMessage` preserves it (`SendMessageClean`).
  - An entry still installed after the step was installed before it (`ApplyBack`). An ADD with the same match would have taken the entry out of every target.
  - So its DELETE was pending before the step. Had that DELETE been the message just sent, the entry would be gone. So the DELETE is in the tail (`RangeTail`).
- The other actions change neither tables, targets nor outboxes, or only the acting session's own (`ProcessPacket` empties its target). `SendFailure` is disabled when `MaxSendErrors = 0`.

`L2ForwardingProofs.tla` proves **`ForwardingSafe`**: `Spec => []ForwardingSound` for every topology, with no hypothesis beyond `ConstantsAssumption`, so with send failures and either order of the glue. Every forwarding entry sends into an inter-switch link or out of its destination's port.

Its inductive invariant is `FwdInv == TypeM /\ DownInv /\ NodeLearnedAtHost /\ OutboxSound /\ ForwardingSound`. TLC checked it first as an invariant of the L2 runs, with `TopologyFirst` both FALSE and TRUE.

- `NodeLearnedAtHost`: the finder places each host only at the host's own port. This is a fact about the finder and the physical network, which are modelled from the spec. It is a lemma of the proof, not a result about the code: the model's finder knows every link whose ports are up, so the window in which a real finder has not yet rediscovered a link is outside the model.

- `OutboxSound`: every ADD pending in an outbox is sound. Without it, `ForwardingSound` is not inductive, because `SendMessage` installs whatever ADD is at the head.
- `DownInv` describes the physical network as the glue sees it:
  - a port with a pending PORT_STATUS, or a topology update due, is down;
  - a link is either wholly down or wholly up;
  - a link whose ports are up is known to the finder.

  `DownInv` is what makes `NodeLearnedAtHost` inductive. The argument runs as follows:
  - A packet that comes in by a trunk port comes in by a port that is up.
  - So its link is up, and the finder knows it (`NoLearnOnTrunk`).
  - So `IsEdge` holds, and `Learn` learns nothing.
  - `ProcessEvent` and `TopologyUpdate` remove only links through a port that is down.
  - `RecoverPort` and `RecoverLink` wait until the port's reports are handled.
- With `NodeLearnedAtHost`, the node the finder returns for the destination is the destination's own port (`LearnAtHost`; the source and destination of a PACKET_IN differ). So:
  - `localSwitching` installs towards that port;
  - every hop of `switching` leaves by a port of a known link (`SwitchingSound`);
  - its last `setFlowRule` installs towards that port.
- `SendMessage` applies a sound head message (`ApplySound`). `SendFailure` keeps a suffix of the outbox. Cleanup queues only DELETEs.

`DeviceManagerProofs.tla` proves two theorems for any finite set of connections and any DPIDs:

- `DMTypeCorrect`;
- `PoolOnlyLive` (`PoolHoldsOnlyLive`).

They share the inductive invariant `DMIInv == DMTypeOK /\ PoolInv`. `PoolInv` says that every Manager in the Pool is in the ready, closing or removing phase and sits at `<<dpid[c], AuxID>>`.

The key fact is that a Manager in the Pool sits at its own `<<r.DPID, AuxID>>`, so its own `Pool.remove` clears its slot before `Run` returns. That same fact shows what a stale remove does. The dm_reconnect run shows that it removes a *different* Manager, which `LiveSwitchRegistered` catches. It never leaves a dead Manager in the Pool.

Only TLC checks the following:

- the violated properties;
- `CleanupRemovesTarget` with send failures: the violation run `l2_cleanup_error`;
- everything about the concrete topologies (paths): which paths exist, and the stale-flow race of `l2_stale`.

## Not modelled

- **Message reordering without a barrier** (the FIXME at manager.go:320). A switch may apply FLOW_MODs of one connection out of order when no BARRIER_REQUEST separates them. That is the switch's behaviour, not code under src/, and modelling it means splitting every send into "sent" and "applied", with a bag of messages in flight per switch. The model applies a switch's messages in send order, so the theorems above assume a switch that honours the order of its TCP stream.
- **The log-only handlers and `handlePortStatusMessage`'s `r.Ports` update.** No property reads them.
- **The test flows of `handleFeaturesReplyMessage`.** They only log failures.
- **The OpenFlow constant tables.**
- **Message encoding and socket timeouts.** A timeout is one of the causes of `PeerGone`.
- **The finder's link discovery.** The model's finder starts with every link and rediscovers a recovered link in the recovery step. So a host learned on an inter-switch port during rediscovery (part_000:379 trusts `finder.Node`) is not modelled.
- **A session blocking on another session's send** (spec 5). `Device.SendMessage` is not under src/; each send is a step that completes or fails.

## Plan for the next steps

1. Done: `CleanupSafe`.
2. Model the switch's reordering of messages without a barrier, as a bag of messages in flight per switch, and check `NoStaleRuleWhenQuiescent` against it.
3. Done: the exit causes and the cascade (`dm_cascade`).
4. Compose the two modules: the L2 policy's `Device.SendMessage` going through a Manager taken from the Pool.
5. Model the BARRIER_REPLY wait the spec asks for (register only on the reply) as a fixed variant, and prove `FirstSendAfterBarrierReply` of it.
6. Done: `ForwardingSafe` (`L2ForwardingProofs.tla`).
7. Prove `CleanupSafe`'s companion for the reordering model of step 2, once that model exists.
