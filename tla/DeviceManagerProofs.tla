------------------------ MODULE DeviceManagerProofs ------------------------
(***************************************************************************)
(* Proofs about the device manager and the Pool (DeviceManager) for every *)
(* set of connections, switches, ports, versions and callers.              *)
(***************************************************************************)
EXTENDS DeviceManager, TLAPS

USE DeviceConstants

(***************************************************************************)
(* The inductive invariant behind the Pool's safety: a Manager in the Pool *)
(* is registered under its own r.DPID and AuxID (so its own Pool.remove   *)
(* clears it), and its Run has not yet got past Pool.remove.              *)
(***************************************************************************)
Registered(c) == phase[c] \in {"ready", "closing", "removing"}

PoolInv ==
    \A key \in Key : pool[key] # NoConn =>
        LET c == pool[key]
        IN  /\ Registered(c)
            /\ key = <<dpid[c], AuxID>>

DMIInv == DMTypeOK /\ PoolInv
\* A Manager starts outside the Pool, so NewManager's state satisfies the invariant.
LEMMA DMInitInv == DMInit => DMIInv
BY DEF DMInit, DMIInv, DMTypeOK, PoolInv, Phase, DPIDs, Key

\* One step of a session's goroutine keeps the invariant.
LEMMA SessionStep ==
    ASSUME DMIInv, NEW c \in Conn,
           \/ NewTransceiver(c)
           \/ \E v \in Versions : handleHelloMessage(c, v)
           \/ handleFeaturesReplyMessage(c)
           \/ handleBarrierReplyMessage(c)
           \/ PeerGone(c)
           \/ CancelExit(c)
           \/ ResetTransceiver(c)
           \/ RemoveFromPool(c)
           \/ CascadeCancel(c)
    PROVE  DMIInv'
<1> USE DEF DMIInv, DMTypeOK, PoolInv, Registered, Phase
<1>1. CASE NewTransceiver(c)
  <2>1. phase[c] = "init" /\ \A key \in Key : pool[key] # c
    BY <1>1 DEF NewTransceiver
  <2>2. UNCHANGED <<cancelled, version, nostp, barrier, replied, dpid, pool, cpc, cconn, panicked>>
    BY <1>1 DEF NewTransceiver
  <2>3. CASE /\ phase' = [phase EXCEPT ![c] = "done"]
             /\ UNCHANGED <<openflow, hasCancel>>
    BY <2>1, <2>2, <2>3
  <2>4. CASE /\ phase' = [phase EXCEPT ![c] = "running"]
             /\ openflow' = [openflow EXCEPT ![c] = TRUE]
             /\ hasCancel' = [hasCancel EXCEPT ![c] = TRUE]
    BY <2>1, <2>2, <2>4
  <2>. QED
    BY <1>1, <2>3, <2>4 DEF NewTransceiver
<1>2. CASE \E v \in Versions : handleHelloMessage(c, v)
  BY <1>2 DEF handleHelloMessage, NoVersion
<1>3. CASE handleFeaturesReplyMessage(c)
  <2>0. phase[c] = "running" /\ version[c] # NoVersion
    BY <1>3 DEF handleFeaturesReplyMessage
  <2>1. \A key \in Key : pool[key] # c
    BY <2>0
  <2>2. UNCHANGED <<openflow, hasCancel, cancelled, version, replied, cpc, cconn, panicked>>
    BY <1>3 DEF handleFeaturesReplyMessage
  <2>3. CASE \E sent \in SUBSET Ports :
                /\ sent # Ports
                /\ nostp' = [nostp EXCEPT ![c] = sent]
                /\ phase' = [phase EXCEPT ![c] = "closing"]
                /\ UNCHANGED <<barrier, dpid, pool>>
    BY <2>0, <2>1, <2>2, <2>3
  <2>4. CASE /\ nostp' = [nostp EXCEPT ![c] = Ports]
             /\ phase' = [phase EXCEPT ![c] = "closing"]
             /\ UNCHANGED <<barrier, dpid, pool>>
    BY <2>0, <2>1, <2>2, <2>4
  <2>5. CASE /\ nostp' = [nostp EXCEPT ![c] = Ports]
             /\ barrier' = [barrier EXCEPT ![c] = TRUE]
             /\ dpid' = [dpid EXCEPT ![c] = SwitchOf[c]]
             /\ pool' = PoolAdd(pool, SwitchOf[c], AuxID, c)
             /\ phase' = [phase EXCEPT ![c] = "ready"]
    <3>1. SwitchOf[c] \in DPIDs /\ <<SwitchOf[c], AuxID>> \in Key
      BY DEF DPIDs, Key
    <3>2. DMTypeOK'
      BY <2>0, <2>2, <2>5, <3>1 DEF PoolAdd
    <3>3. PoolInv'
      BY <2>0, <2>1, <2>2, <2>5, <3>1 DEF PoolAdd
    <3>. QED
      BY <2>2, <3>2, <3>3
  <2>. QED
    BY <1>3, <2>3, <2>4, <2>5 DEF handleFeaturesReplyMessage
<1>8. CASE handleBarrierReplyMessage(c)
  BY <1>8 DEF handleBarrierReplyMessage
<1>4. CASE PeerGone(c) \/ CancelExit(c)
  BY <1>4 DEF PeerGone, CancelExit, Live
<1>5. CASE ResetTransceiver(c)
  BY <1>5 DEF ResetTransceiver
<1>6. CASE RemoveFromPool(c)
  <2>1. <<dpid[c], AuxID>> \in Key
    BY DEF Key
  <2>. QED
    BY <1>6, <2>1 DEF RemoveFromPool, PoolRemove
<1>7. CASE CascadeCancel(c)
  <2>1. cancelled' \in [Conn -> BOOLEAN]
    BY <1>7 DEF CascadeCancel, cancelManagers, Cancel
  <2>. QED
    BY <1>7, <2>1 DEF CascadeCancel
<1>. QED
  BY <1>1, <1>2, <1>3, <1>4, <1>5, <1>6, <1>7, <1>8

\* One step of a caller goroutine keeps the invariant.
LEMMA CallerStep ==
    ASSUME DMIInv, NEW k \in Callers,
           Acquire(k) \/ CheckConnected(k) \/ SendOnTransceiver(k)
    PROVE  DMIInv'
<1> USE DEF DMIInv, DMTypeOK, PoolInv, Registered
<1>1. CASE Acquire(k)
  BY <1>1 DEF Acquire
<1>2. CASE CheckConnected(k)
  BY <1>2 DEF CheckConnected
<1>3. CASE SendOnTransceiver(k)
  BY <1>3 DEF SendOnTransceiver
<1>. QED
  BY <1>1, <1>2, <1>3

\* Every step of Run, its handlers and the send paths preserves the invariant.
LEMMA DMNextInv == DMIInv /\ [DMNext]_dmvars => DMIInv'
<1> SUFFICES ASSUME DMIInv, [DMNext]_dmvars PROVE DMIInv'
  OBVIOUS
<1>1. CASE DMNext
  BY <1>1, SessionStep, CallerStep DEF DMNext
<1>2. CASE UNCHANGED dmvars
  BY <1>2 DEF dmvars, DMIInv, DMTypeOK, PoolInv, Registered
<1>. QED
  BY <1>1, <1>2

(***************************************************************************)
(* The type invariant of the device manager: the Manager fields, the Pool  *)
(* and the callers' state stay well formed, and a caller in a send path    *)
(* always holds a Manager.                                                 *)
(***************************************************************************)
THEOREM DMTypeCorrect == DMSpec => []DMTypeOK
BY DMInitInv, DMNextInv, PTL DEF DMSpec, DMIInv

(***************************************************************************)
(* Run's Pool.remove: the Pool never hands out a Manager whose Run has     *)
(* returned, whatever the reconnects and handshake failures interleave.    *)
(***************************************************************************)
THEOREM PoolOnlyLive == DMSpec => []PoolHoldsOnlyLive
<1>1. DMIInv => PoolHoldsOnlyLive
  BY DEF DMIInv, DMTypeOK, PoolInv, Registered, PoolHoldsOnlyLive
<1>. QED
  BY <1>1, DMInitInv, DMNextInv, PTL DEF DMSpec

=============================================================================
