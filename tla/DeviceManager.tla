--------------------------- MODULE DeviceManager ---------------------------
(***************************************************************************)
(* The device manager of cherryd (package device, manager.go): one Manager *)
(* and one goroutine (Run) per TCP connection of a switch, the handshake   *)
(* handlers the transceiver calls, the process-wide device Pool, and the   *)
(* northbound send paths (InstallFlowRule, RemoveFlowRule, SendPacketOut)  *)
(* that other goroutines call on a Manager they found in the Pool.        *)
(*                                                                         *)
(* The transceiver (package openflow) and the Pool are not under src/;     *)
(* they are modelled from spec.md (sections 4.2 and 4.3): the transceiver  *)
(* dispatches HELLO, then FEATURES_REPLY, to the handlers and returns when  *)
(* a handler fails, the peer goes away or its context is cancelled; the    *)
(* Pool is a map keyed by <<DPID, AuxID>>, each operation atomic.          *)
(***************************************************************************)
EXTENDS Integers, FiniteSets

CONSTANTS
    Conn,       \* the TCP connections the listener accepts, one Manager each
    SwitchOf,   \* SwitchOf[c]: the DPID the switch behind c reports
    Ports,      \* the ports every switch lists in its FEATURES_REPLY
    Versions,   \* the wire versions a peer may put in its HELLO
    Callers,    \* goroutines that call a Manager's send paths
    NoConn      \* an empty Pool slot

\* r.DPID and r.AuxID before FEATURES_REPLY: Go's zero values.  AuxID is
\* never assigned, so every Manager registers and deregisters with AuxID 0.
DefaultDPID == 0
AuxID == 0

DPIDs == {DefaultDPID} \cup {SwitchOf[c] : c \in Conn}
Key == DPIDs \X {AuxID}

ASSUME DeviceConstants ==
    /\ IsFiniteSet(Conn) /\ NoConn \notin Conn
    /\ SwitchOf \in [Conn -> Nat]
    /\ IsFiniteSet(Ports) /\ Versions \subseteq Nat

VARIABLES
    phase,      \* phase[c]: where the goroutine Run of c is (see Phase)
    openflow,   \* openflow[c]: r.openflow # nil
    hasCancel,  \* hasCancel[c]: r.cancel # nil
    cancelled,  \* cancelled[c]: the context of c's transceiver is cancelled
    version,    \* version[c]: the version of the HELLO c accepted, or -1
    nostp,      \* nostp[c]: the ports c sent a PORT_MOD with NO_STP to
    barrier,    \* barrier[c]: c sent its BARRIER_REQUEST
    replied,    \* replied[c]: c's transceiver dispatched the BARRIER_REPLY
    dpid,       \* dpid[c]: r.DPID
    pool,       \* pool[<<dpid, aux>>]: the Manager registered there, or NoConn
    cpc,        \* cpc[k]: where caller k is in a send path
    cconn,      \* cconn[k]: the Manager caller k holds
    panicked    \* a goroutine dereferenced a nil r.openflow

dmvars == <<phase, openflow, hasCancel, cancelled, version, nostp, barrier, replied, dpid, pool, cpc, cconn, panicked>>

\* init: Run not started; running: transceiver loop, before FEATURES_REPLY;
\* ready: registered; closing: openflow.Run returned; removing: r.openflow
\* reset; cascading: removed from the Pool; done: Run returned.
Phase == {"init", "running", "ready", "closing", "removing", "cascading", "done"}

NoVersion == -1

DMTypeOK ==
    /\ phase \in [Conn -> Phase]
    /\ openflow \in [Conn -> BOOLEAN]
    /\ hasCancel \in [Conn -> BOOLEAN]
    /\ cancelled \in [Conn -> BOOLEAN]
    /\ version \in [Conn -> Versions \cup {NoVersion}]
    /\ nostp \in [Conn -> SUBSET Ports]
    /\ barrier \in [Conn -> BOOLEAN]
    /\ replied \in [Conn -> BOOLEAN]
    /\ dpid \in [Conn -> DPIDs]
    /\ pool \in [Key -> Conn \cup {NoConn}]
    /\ cpc \in [Callers -> {"idle", "holding", "checked"}]
    /\ cconn \in [Callers -> Conn \cup {NoConn}]
    /\ \A k \in Callers : cpc[k] # "idle" => cconn[k] \in Conn
    /\ panicked \in BOOLEAN

DMInit ==
    /\ phase = [c \in Conn |-> "init"]
    /\ openflow = [c \in Conn |-> FALSE]
    /\ hasCancel = [c \in Conn |-> FALSE]
    /\ cancelled = [c \in Conn |-> FALSE]
    /\ version = [c \in Conn |-> NoVersion]
    /\ nostp = [c \in Conn |-> {}]
    /\ barrier = [c \in Conn |-> FALSE]
    /\ replied = [c \in Conn |-> FALSE]
    /\ dpid = [c \in Conn |-> DefaultDPID]
    /\ pool = [k \in Key |-> NoConn]
    /\ cpc = [k \in Callers |-> "idle"]
    /\ cconn = [k \in Callers |-> NoConn]
    /\ panicked = FALSE

-----------------------------------------------------------------------------
(***************************************************************************)
(* The Pool (spec 4.3): add stores the Manager under <<dpid, aux>>, remove *)
(* clears the slot, Search returns the Managers registered for a DPID.    *)
(***************************************************************************)
PoolAdd(p, d, a, c) == [p EXCEPT ![<<d, a>>] = c]
PoolRemove(p, d, a) == [p EXCEPT ![<<d, a>>] = NoConn]
PoolSearch(p, d) == {p[k] : k \in {k \in Key : k[1] = d /\ p[k] # NoConn}}

\* Manager.Cancel: calls r.cancel when it is set.
Cancel(cn, c) == IF hasCancel[c] THEN [cn EXCEPT ![c] = TRUE] ELSE cn

\* cancelManagers(dpid): Cancel every Manager the Pool lists for dpid.
cancelManagers(cn, d) ==
    [c \in Conn |-> IF c \in PoolSearch(pool, d) THEN Cancel(cn, c)[c] ELSE cn[c]]

Live(c) == phase[c] \in {"running", "ready"}

-----------------------------------------------------------------------------
(***************************************************************************)
(* Run, up to openflow.Run: NewTransceiver either fails (Run returns, the  *)
(* Pool untouched) or its result is kept in r.openflow and the child       *)
(* context's cancel in r.cancel.                                           *)
(***************************************************************************)
NewTransceiver(c) ==
    /\ phase[c] = "init"
    /\ \/ /\ phase' = [phase EXCEPT ![c] = "done"]
          /\ UNCHANGED <<openflow, hasCancel>>
       \/ /\ phase' = [phase EXCEPT ![c] = "running"]
          /\ openflow' = [openflow EXCEPT ![c] = TRUE]
          /\ hasCancel' = [hasCancel EXCEPT ![c] = TRUE]
    /\ UNCHANGED <<cancelled, version, nostp, barrier, replied, dpid, pool, cpc, cconn, panicked>>

(***************************************************************************)
(* handleHelloMessage: a HELLO whose version is below 0x01 is refused and  *)
(* the transceiver ends the session; any other version is accepted.        *)
(***************************************************************************)
handleHelloMessage(c, v) ==
    /\ phase[c] = "running" /\ version[c] = NoVersion
    /\ IF v < 1
          THEN /\ phase' = [phase EXCEPT ![c] = "closing"]
               /\ UNCHANGED version
          ELSE /\ version' = [version EXCEPT ![c] = v]
               /\ UNCHANGED phase
    /\ UNCHANGED <<openflow, hasCancel, cancelled, nostp, barrier, replied, dpid, pool, cpc, cconn, panicked>>

(***************************************************************************)
(* handleFeaturesReplyMessage: a PORT_MOD setting NO_STP on every port,    *)
(* then a BARRIER_REQUEST; a failed send returns the error (the ports sent *)
(* so far keep NO_STP) and ends the session.  After the barrier is sent,   *)
(* r.DPID is set and the Manager is added to the Pool under <<DPID,       *)
(* AuxID>>.  The test flow and requests it sends next only log failures.   *)
(***************************************************************************)
handleFeaturesReplyMessage(c) ==
    /\ phase[c] = "running" /\ version[c] # NoVersion
    /\ \/ \E sent \in SUBSET Ports :
              /\ sent # Ports
              /\ nostp' = [nostp EXCEPT ![c] = sent]
              /\ phase' = [phase EXCEPT ![c] = "closing"]
              /\ UNCHANGED <<barrier, dpid, pool>>
       \/ /\ nostp' = [nostp EXCEPT ![c] = Ports]
          /\ phase' = [phase EXCEPT ![c] = "closing"]
          /\ UNCHANGED <<barrier, dpid, pool>>
       \/ /\ nostp' = [nostp EXCEPT ![c] = Ports]
          /\ barrier' = [barrier EXCEPT ![c] = TRUE]
          /\ dpid' = [dpid EXCEPT ![c] = SwitchOf[c]]
          /\ pool' = PoolAdd(pool, SwitchOf[c], AuxID, c)
          /\ phase' = [phase EXCEPT ![c] = "ready"]
    /\ UNCHANGED <<openflow, hasCancel, cancelled, version, replied, cpc, cconn, panicked>>

(***************************************************************************)
(* handleBarrierReplyMessage: the transceiver dispatches the switch's      *)
(* answer to the BARRIER_REQUEST; the handler only logs it.  Inbound       *)
(* dispatch is serial, so it runs after handleFeaturesReplyMessage has     *)
(* returned, with the Manager already in the Pool.                        *)
(***************************************************************************)
handleBarrierReplyMessage(c) ==
    /\ phase[c] = "ready" /\ barrier[c] /\ ~replied[c]
    /\ replied' = [replied EXCEPT ![c] = TRUE]
    /\ UNCHANGED <<phase, openflow, hasCancel, cancelled, version, nostp, barrier, dpid, pool, cpc, cconn, panicked>>

\* openflow.Run returns because the peer closed the connection or a read
\* or write timed out.
PeerGone(c) ==
    /\ Live(c)
    /\ phase' = [phase EXCEPT ![c] = "closing"]
    /\ UNCHANGED <<openflow, hasCancel, cancelled, version, nostp, barrier, replied, dpid, pool, cpc, cconn, panicked>>

\* openflow.Run returns because childContext was cancelled (spec 4.2: the
\* I/O loop returns within one read/write timeout).
CancelExit(c) ==
    /\ Live(c) /\ cancelled[c]
    /\ phase' = [phase EXCEPT ![c] = "closing"]
    /\ UNCHANGED <<openflow, hasCancel, cancelled, version, nostp, barrier, replied, dpid, pool, cpc, cconn, panicked>>

\* Run after openflow.Run: r.openflow = nil.
ResetTransceiver(c) ==
    /\ phase[c] = "closing"
    /\ openflow' = [openflow EXCEPT ![c] = FALSE]
    /\ phase' = [phase EXCEPT ![c] = "removing"]
    /\ UNCHANGED <<hasCancel, cancelled, version, nostp, barrier, replied, dpid, pool, cpc, cconn, panicked>>

\* Bug variant of RemoveFromPool: the Pool.remove call is dropped.
RemoveFromPoolSkipped(c) ==
    /\ phase[c] = "removing"
    /\ phase' = [phase EXCEPT ![c] = "cascading"]
    /\ UNCHANGED <<openflow, hasCancel, cancelled, version, nostp, barrier, replied, dpid, pool, cpc, cconn, panicked>>

\* Run: Pool.remove(r.DPID, r.AuxID), whichever Manager that slot holds.
RemoveFromPool(c) ==
    /\ phase[c] = "removing"
    /\ pool' = PoolRemove(pool, dpid[c], AuxID)
    /\ phase' = [phase EXCEPT ![c] = "cascading"]
    /\ UNCHANGED <<openflow, hasCancel, cancelled, version, nostp, barrier, replied, dpid, cpc, cconn, panicked>>

\* Run: AuxID is 0, so cancelManagers(r.DPID); then Run returns.
CascadeCancel(c) ==
    /\ phase[c] = "cascading"
    /\ cancelled' = IF AuxID = 0 THEN cancelManagers(cancelled, dpid[c]) ELSE cancelled
    /\ phase' = [phase EXCEPT ![c] = "done"]
    /\ UNCHANGED <<openflow, hasCancel, version, nostp, barrier, replied, dpid, pool, cpc, cconn, panicked>>

(***************************************************************************)
(* The send paths.  A goroutine holding a Manager it found in the Pool     *)
(* calls InstallFlowRule, RemoveFlowRule or SendPacketOut: each tests      *)
(* r.openflow == nil (ErrDisconnected) and then reads r.openflow again to  *)
(* send.  Run's r.openflow = nil is not synchronised with either read.     *)
(***************************************************************************)
\* Bug variant of Acquire: an empty slot of the snapshot is taken too.
AcquireAnySlot(k) ==
    /\ cpc[k] = "idle"
    /\ \E key \in Key : cconn' = [cconn EXCEPT ![k] = pool[key]]
    /\ cpc' = [cpc EXCEPT ![k] = "holding"]
    /\ UNCHANGED <<phase, openflow, hasCancel, cancelled, version, nostp, barrier, replied, dpid, pool, panicked>>

Acquire(k) ==
    /\ cpc[k] = "idle"
    /\ \E key \in Key :
          /\ pool[key] # NoConn
          /\ cconn' = [cconn EXCEPT ![k] = pool[key]]
    /\ cpc' = [cpc EXCEPT ![k] = "holding"]
    /\ UNCHANGED <<phase, openflow, hasCancel, cancelled, version, nostp, barrier, replied, dpid, pool, panicked>>

CheckConnected(k) ==
    /\ cpc[k] = "holding"
    /\ cpc' = [cpc EXCEPT ![k] = IF openflow[cconn[k]] THEN "checked" ELSE "idle"]
    /\ UNCHANGED <<phase, openflow, hasCancel, cancelled, version, nostp, barrier, replied, dpid, pool, cconn, panicked>>

SendOnTransceiver(k) ==
    /\ cpc[k] = "checked"
    /\ panicked' = ~openflow[cconn[k]]
    /\ cpc' = [cpc EXCEPT ![k] = "idle"]
    /\ UNCHANGED <<phase, openflow, hasCancel, cancelled, version, nostp, barrier, replied, dpid, pool, cconn>>

\* A nil dereference panics the process: nothing happens after it.
DMNext ==
    /\ ~panicked
    /\ \/ \E c \in Conn :
             \/ NewTransceiver(c)
             \/ \E v \in Versions : handleHelloMessage(c, v)
             \/ handleFeaturesReplyMessage(c)
             \/ handleBarrierReplyMessage(c)
             \/ PeerGone(c)
             \/ CancelExit(c)
             \/ ResetTransceiver(c)
             \/ RemoveFromPool(c)
             \/ CascadeCancel(c)
       \/ \E k \in Callers : Acquire(k) \/ CheckConnected(k) \/ SendOnTransceiver(k)

DMSpec == DMInit /\ [][DMNext]_dmvars

-----------------------------------------------------------------------------
(***************************************************************************)
(* Run's deregistration (Pool.remove in Run): the Pool never hands out a   *)
(* Manager whose Run has returned, whatever the reconnects and handshake   *)
(* failures of the switches interleave.                                    *)
(***************************************************************************)
PoolHoldsOnlyLive == \A key \in Key : pool[key] # NoConn => phase[pool[key]] # "done"

(***************************************************************************)
(* Run's deregistration and a reconnecting switch (spec 4.3): while a      *)
(* switch has a registered session that is still up, the Pool finds a     *)
(* session of that switch.                                                 *)
(***************************************************************************)
LiveSwitchRegistered ==
    \A c \in Conn : phase[c] = "ready" =>
        pool[<<SwitchOf[c], AuxID>>] # NoConn

(***************************************************************************)
(* InstallFlowRule / RemoveFlowRule / SendPacketOut: no send path ever     *)
(* dereferences a nil r.openflow.                                          *)
(***************************************************************************)
NoNilTransceiver == ~panicked

(***************************************************************************)
(* handleHelloMessage (spec 8, boundary behaviour): only OpenFlow 1.0 is   *)
(* accepted, so every registered switch speaks version 0x01.               *)
(***************************************************************************)
OnlyOF10Registered ==
    \A key \in Key : pool[key] # NoConn => version[pool[key]] = 1

(***************************************************************************)
(* cancelManagers in Run (spec 4.3: removing the AuxID 0 session cancels   *)
(* the auxiliary sessions of its DPID): the cascade never cancels a main   *)
(* session, one with AuxID 0, so the new main session of a reconnecting    *)
(* switch survives the teardown of the old one.                            *)
(***************************************************************************)
CascadeSparesMain == \A c \in Conn : cancelled[c] => AuxID # 0

(***************************************************************************)
(* handleFeaturesReplyMessage and the send paths (spec 4.2 and the        *)
(* handshake order of spec 5: HELLO < FEATURES_REPLY < PORT_MODs <         *)
(* BARRIER_REPLY < first forwarding-plane message): a caller that found a  *)
(* Manager in the Pool sends to its switch only after the switch answered  *)
(* the barrier, i.e. confirmed the NO_STP PORT_MODs.                       *)
(***************************************************************************)
FirstSendAfterBarrierReply ==
    \A k \in Callers : cpc[k] = "checked" => replied[cconn[k]]
=============================================================================
