----------------------------- MODULE EvbProofs -----------------------------
(* Proofs about the EVB protocols, for any sequence number space, number of    *)
(* tries, timers, commands, profiles and faults: the types of both halves of   *)
(* VDP and of both ECP ports, that no filter outlives its VSI, and that a      *)
(* command loses its profile only by the race in ExecVDPCmd4VSI.               *)
EXTENDS Evb, SequenceTheorems, TLAPS

Delay == evbcalc_vdpSRespWaitDelay
Tout == evbcalc_vdpBtoutKeepAlive

\* The calculated timers are natural numbers.
LEMMA TimersNat == Delay \in Nat /\ Tout \in Nat
<1>1. (2 * MaxTries + 1) * AckTimerInit \in Nat
  BY EcpAssumption
<1>2. \A x \in Nat : OneAndAHalf(x) \in Nat
  BY DEF OneAndAHalf
<1> QED BY <1>1, <1>2, EvbAssumption
        DEF Delay, Tout, evbcalc_vdpSRespWaitDelay, evbcalc_vdpBtoutKeepAlive

-----------------------------------------------------------------------------
(* ECP.                                                                        *)

\* A PDU that has not been sent has used up none of its tries.
FreshPdu(Data) == {e \in EcpPduType(Data) : e.state = "IDLE" => e.retries = 0}
FreshPort(Data) ==
    [seqNum : 0 .. SeqNumMax - 1, tx : Seq(FreshPdu(Data)), rx : Seq(Data)]

\* A fresh port has its type.
LEMMA FreshIsPort ==
  ASSUME NEW Data, NEW p \in FreshPort(Data)
  PROVE  p \in PortType(Data)
<1>1. FreshPdu(Data) \subseteq EcpPduType(Data)
  BY DEF FreshPdu
<1>2. p.tx \in Seq(EcpPduType(Data))
  BY <1>1 DEF FreshPort
<1> QED BY <1>2 DEF FreshPort, PortType

\* Sequence numbers go round within 1 .. SeqNumMax - 1.
LEMMA SeqNumType ==
  ASSUME NEW n \in 0 .. SeqNumMax - 1
  PROVE  EcpSeqNumInc(n) \in 1 .. SeqNumMax - 1
BY EcpAssumption DEF EcpSeqNumInc

\* What VDP hands over becomes a fresh PDU at the head of the list.
LEMMA TxInsertType ==
  ASSUME NEW Data, NEW p \in FreshPort(Data), NEW d \in Data
  PROVE  list_EcpULPDUtx_insert(p, d) \in FreshPort(Data)
<1> DEFINE num == EcpSeqNumInc(p.seqNum)
           pdu == [num |-> num, state |-> "IDLE", ackTimer |-> 0, retries |-> 0, data |-> d]
<1>1. num \in 1 .. SeqNumMax - 1
  BY SeqNumType DEF FreshPort
<1>2. pdu \in FreshPdu(Data)
  BY <1>1, EcpAssumption DEF FreshPdu, EcpPduType, TxStates
<1>3. << pdu >> \o p.tx \in Seq(FreshPdu(Data))
  BY <1>2 DEF FreshPort
<1>4. list_EcpULPDUtx_insert(p, d) = [p EXCEPT !.seqNum = num, !.tx = << pdu >> \o p.tx]
  BY DEF list_EcpULPDUtx_insert, FreshPort
<1>5. ASSUME NEW n \in 0 .. SeqNumMax - 1, NEW t \in Seq(FreshPdu(Data))
      PROVE  [p EXCEPT !.seqNum = n, !.tx = t] \in FreshPort(Data)
  BY DEF FreshPort
<1>6. num \in 0 .. SeqNumMax - 1
  BY <1>1, EcpAssumption
<1> HIDE DEF num, pdu
<1> QED BY <1>3, <1>4, <1>5, <1>6

\* One step of the state machine of a PDU, up to its removal.
LEMMA TxPduStepType ==
  ASSUME NEW Data, NEW e \in FreshPdu(Data)
  PROVE  /\ e.state # "WAIT_FOR_REQ" => TxPduStep(e) \in FreshPdu(Data)
         /\ wt_for_req(e) \in FreshPdu(Data)
<1>0. /\ e.num \in 1 .. SeqNumMax - 1 /\ e.data \in Data
      /\ e.ackTimer \in 0 .. AckTimerInit /\ e.retries \in 0 .. MaxTries
      /\ e.state \in TxStates
      /\ e = [num |-> e.num, state |-> e.state, ackTimer |-> e.ackTimer,
              retries |-> e.retries, data |-> e.data]
      /\ e.state = "IDLE" => e.retries = 0
  BY DEF FreshPdu, EcpPduType
<1>2. /\ CountedDown(e) \in FreshPdu(Data)
      /\ CountedDown(e).retries = e.retries /\ CountedDown(e).state = e.state
  BY <1>0, EcpAssumption DEF FreshPdu, EcpPduType, CountedDown
<1>3. ASSUME NEW f \in FreshPdu(Data), f.retries < MaxTries
      PROVE  tr_ecpdu(f) \in FreshPdu(Data)
  <2>1. ASSUME NEW s \in TxStates, NEW a \in 0 .. AckTimerInit, NEW r \in 0 .. MaxTries
        PROVE  [f EXCEPT !.state = s, !.ackTimer = a, !.retries = r] \in EcpPduType(Data)
    BY DEF FreshPdu, EcpPduType
  <2>2. tr_ecpdu(f) = [f EXCEPT !.state = "TRANSMIT", !.ackTimer = AckTimerInit,
                                !.retries = f.retries + 1]
    BY DEF FreshPdu, EcpPduType, tr_ecpdu
  <2>3. f.retries + 1 \in 0 .. MaxTries /\ AckTimerInit \in 0 .. AckTimerInit
    BY <1>3, EcpAssumption DEF FreshPdu, EcpPduType
  <2>4. tr_ecpdu(f) \in EcpPduType(Data)
    BY <2>1, <2>2, <2>3 DEF TxStates
  <2>5. tr_ecpdu(f).state = "TRANSMIT"
    BY DEF tr_ecpdu, FreshPdu, EcpPduType
  <2> QED BY <2>4, <2>5 DEF FreshPdu
<1>4. ASSUME NEW f \in FreshPdu(Data)
      PROVE  wt_for_req(f) \in FreshPdu(Data)
  <2>1. ASSUME NEW s \in TxStates, NEW r \in 0 .. MaxTries
        PROVE  [f EXCEPT !.state = s, !.retries = r] \in EcpPduType(Data)
    BY DEF FreshPdu, EcpPduType
  <2>0. "WAIT_FOR_REQ" \in TxStates /\ 0 \in 0 .. MaxTries
    BY EcpAssumption DEF TxStates
  <2>2. wt_for_req(f) \in EcpPduType(Data)
    BY <2>0, <2>1 DEF wt_for_req
  <2>3. wt_for_req(f).state = "WAIT_FOR_REQ"
    BY DEF wt_for_req, FreshPdu, EcpPduType
  <2> QED BY <2>2, <2>3 DEF FreshPdu
<1>5. e.state = "IDLE" => tr_ecpdu(e) \in FreshPdu(Data)
  BY <1>0, <1>3, EcpAssumption
<1> HIDE DEF FreshPdu
<1> QED BY <1>0, <1>2, <1>3, <1>4, <1>5, EcpAssumption DEF TxPduStep, TxStates

\* The loop handler of the send list.
LEMMA TxLoopType ==
  ASSUME NEW Data, NEW p \in FreshPort(Data)
  PROVE  ecp_tx_loop_timer_handler(p) \in FreshPort(Data)
<1>1. CASE p.tx = << >>
  BY <1>1 DEF ecp_tx_loop_timer_handler
<1>2. CASE p.tx # << >> /\ Head(p.tx).state = "WAIT_FOR_REQ"
  <2>1. Tail(p.tx) \in Seq(FreshPdu(Data))
    BY <1>2 DEF FreshPort
  <2> QED BY <1>2, <2>1 DEF ecp_tx_loop_timer_handler, FreshPort
<1>3. CASE p.tx # << >> /\ Head(p.tx).state # "WAIT_FOR_REQ"
  <2>1. p.tx[1] \in FreshPdu(Data) /\ p.tx[1] = Head(p.tx)
    BY <1>3 DEF FreshPort
  <2>2. TxPduStep(p.tx[1]) \in FreshPdu(Data)
    BY <1>3, <2>1, TxPduStepType
  <2>3. [p.tx EXCEPT ![1] = TxPduStep(p.tx[1])] \in Seq(FreshPdu(Data))
    BY <1>3, <2>2, ExceptSeq, LenProperties, EmptySeq DEF FreshPort
  <2>4. ecp_tx_loop_timer_handler(p) = [p EXCEPT !.tx = [p.tx EXCEPT ![1] = TxPduStep(p.tx[1])]]
    BY <1>3 DEF ecp_tx_loop_timer_handler, FreshPort
  <2> QED BY <2>3, <2>4 DEF FreshPort
<1> QED BY <1>1, <1>2, <1>3

\* An acknowledgement.
LEMMA AckType ==
  ASSUME NEW Data, NEW p \in FreshPort(Data), NEW n
  PROVE  AckReceived(p, n) \in FreshPort(Data)
<1> DEFINE hit == {i \in DOMAIN p.tx : p.tx[i].state # "IDLE" /\ p.tx[i].num = n}
           first == CHOOSE i \in hit : \A j \in hit : i <= j
           tx == [p.tx EXCEPT ![first] = wt_for_req(p.tx[first])]
<1>1. tx \in Seq(FreshPdu(Data))
  <2>1. \A i \in DOMAIN p.tx : wt_for_req(p.tx[i]) \in FreshPdu(Data)
    BY TxPduStepType DEF FreshPort
  <2>2. ASSUME NEW k PROVE [p.tx EXCEPT ![k] = wt_for_req(p.tx[k])] \in Seq(FreshPdu(Data))
    <3>1. CASE k \in DOMAIN p.tx
      BY <2>1, <3>1, ExceptSeq, LenProperties DEF FreshPort
    <3>2. CASE k \notin DOMAIN p.tx
      <4>1. p.tx = [i \in 1 .. Len(p.tx) |-> p.tx[i]] /\ DOMAIN p.tx = 1 .. Len(p.tx)
        BY LenProperties DEF FreshPort
      <4>2. [p.tx EXCEPT ![k] = wt_for_req(p.tx[k])] = p.tx
        BY <3>2, <4>1
      <4> QED BY <4>2 DEF FreshPort
    <3> QED BY <3>1, <3>2
  <2> HIDE DEF first
  <2> QED BY <2>2
<1>2. \/ AckReceived(p, n) = p
      \/ AckReceived(p, n) = [p EXCEPT !.tx = tx]
  BY DEF AckReceived, FreshPort
<1> HIDE DEF tx
<1> QED BY <1>1, <1>2 DEF FreshPort
\* The receive list: a request comes in at its head, and VDP takes the head.
LEMMA RxType ==
  ASSUME NEW Data, NEW p \in FreshPort(Data)
  PROVE  /\ \A d \in Data : list_EcpULPDUrx_insert(p, d) \in FreshPort(Data)
         /\ [p EXCEPT !.rx = IF @ = << >> THEN @ ELSE Tail(@)] \in FreshPort(Data)
         /\ Flushed(p) \in FreshPort(Data)
         /\ p.rx # << >> => Head(p.rx) \in Data
         /\ p.tx # << >> => Head(p.tx) \in FreshPdu(Data)
<1>1. ASSUME NEW t \in Seq(Data) PROVE [p EXCEPT !.rx = t] \in FreshPort(Data)
  BY DEF FreshPort
<1>2. \A d \in Data : << d >> \o p.rx \in Seq(Data)
  BY DEF FreshPort
<1>3. p.rx # << >> => Tail(p.rx) \in Seq(Data) /\ Head(p.rx) \in Data
  BY DEF FreshPort
<1>4. ASSUME NEW d \in Data PROVE list_EcpULPDUrx_insert(p, d) \in FreshPort(Data)
  <2>1. list_EcpULPDUrx_insert(p, d) = [p EXCEPT !.rx = << d >> \o p.rx]
    BY DEF list_EcpULPDUrx_insert, FreshPort
  <2> QED BY <1>1, <1>2, <2>1
<1>5. [p EXCEPT !.rx = IF @ = << >> THEN @ ELSE Tail(@)] \in FreshPort(Data)
  BY <1>1, <1>3 DEF FreshPort
<1>6. Flushed(p) \in FreshPort(Data)
  <2>1. ASSUME NEW t \in Seq(FreshPdu(Data)), NEW r \in Seq(Data)
        PROVE  [p EXCEPT !.tx = t, !.rx = r] \in FreshPort(Data)
    BY DEF FreshPort
  <2>2. << >> \in Seq(FreshPdu(Data)) /\ << >> \in Seq(Data)
    OBVIOUS
  <2> QED BY <2>1, <2>2 DEF Flushed
<1>7. p.tx # << >> => Head(p.tx) \in FreshPdu(Data)
  BY DEF FreshPort
<1> QED BY <1>3, <1>4, <1>5, <1>6, <1>7

-----------------------------------------------------------------------------
(* The bridge.                                                                 *)

\* What the bridge answers is a TLV.
LEMMA RespType ==
  ASSUME NEW c \in B!BridgeCmd, NEW e \in BOOLEAN
  PROVE  B!Resp(c, e) \in S!Tlv
BY DEF B!Resp, B!BridgeCmd, S!Tlv, S!TlvTypes

\* The state of the bridge: types, and the filter belongs to a VSI that works.
BridgeInv(b) ==
  /\ b \in B!BridgeType
  /\ b.filter # 0 => b.vsi # Nil /\ b.vsi.state = "WAIT_STATION_CMD"

\* What a step of the loop handler of the bridge leaves and answers.
StepInv(x) == BridgeInv(x.br) /\ x.resp \in S!Tlv \cup {Nil}

\* Nil is no instance.
LEMMA NilIsNoVsi == Nil \notin B!BridgeVsi /\ Nil \notin S!StationVsi /\ Nil \notin S!PoolItem
BY EvbAssumption

\* An instance of the bridge is a record of its four fields.
LEMMA BridgeVsiForm ==
  ASSUME NEW s \in B!BridgeStates, NEW r \in B!BridgeCmd \cup {Nil},
         NEW o \in B!BridgeCmd \cup {Nil}, NEW w \in 0 .. Tout
  PROVE  LET v == [state |-> s, rxCmd |-> r, operCmd |-> o, wait |-> w]
         IN  v \in B!BridgeVsi /\ v # Nil
BY NilIsNoVsi DEF B!BridgeVsi, Tout

\* Giving the bridge an instance, or a filter.
LEMMA BridgeWith ==
  ASSUME NEW b \in B!BridgeType, NEW v \in B!BridgeVsi
  PROVE  /\ [b EXCEPT !.vsi = v] \in B!BridgeType
         /\ [b EXCEPT !.vsi = v].vsi = v
         /\ [b EXCEPT !.vsi = v].filter = b.filter
         /\ \A f \in 0 .. MaxProfile : /\ [b EXCEPT !.filter = f] \in B!BridgeType
                                       /\ [b EXCEPT !.filter = f].vsi = b.vsi
                                       /\ [b EXCEPT !.filter = f].filter = f
BY DEF B!BridgeType

\* The release of a VSI leaves the initial state.
LEMMA RelAllType ==
  ASSUME NEW b \in B!BridgeType
  PROVE  BridgeInv(B!rel_all(b))
<1>1. B!rel_all(b) \in B!BridgeType
  <2>1. ASSUME NEW v \in B!BridgeVsi \cup {Nil}, NEW f \in 0 .. MaxProfile
        PROVE  [b EXCEPT !.vsi = v, !.filter = f] \in B!BridgeType
    BY DEF B!BridgeType
  <2>2. 0 \in 0 .. MaxProfile
    BY EvbAssumption
  <2> QED BY <2>1, <2>2 DEF B!rel_all
<1>2. B!rel_all(b).filter = 0
  BY DEF B!rel_all, B!BridgeType
<1> QED BY <1>1, <1>2 DEF BridgeInv
\* Changes of the instance: entering WAIT_STATION_CMD, and dropping the request.
LEMMA BridgeVsiSteps ==
  ASSUME NEW v \in B!BridgeVsi
  PROVE  /\ v # Nil
         /\ B!wt_s_cmd_b(v) \in B!BridgeVsi
         /\ B!wt_s_cmd_b(v).state = "WAIT_STATION_CMD"
         /\ [v EXCEPT !.rxCmd = Nil] \in B!BridgeVsi
         /\ [v EXCEPT !.state = "INIT"] \in B!BridgeVsi
         /\ \A c \in B!BridgeCmd :
              /\ [v EXCEPT !.operCmd = c, !.rxCmd = Nil] \in B!BridgeVsi
              /\ [v EXCEPT !.rxCmd = c] \in B!BridgeVsi
              /\ [v EXCEPT !.rxCmd = c].state = v.state
         /\ \A w \in 0 .. Tout : /\ [v EXCEPT !.wait = w] \in B!BridgeVsi
                                 /\ [v EXCEPT !.wait = w].state = v.state
                                 /\ [v EXCEPT !.wait = w].rxCmd = v.rxCmd
                                 /\ [v EXCEPT !.wait = w].operCmd = v.operCmd
<1>0. v # Nil
  BY NilIsNoVsi
<1>1. ASSUME NEW s \in B!BridgeStates, NEW w \in 0 .. Tout
      PROVE  /\ [v EXCEPT !.state = s, !.wait = w] \in B!BridgeVsi
             /\ [v EXCEPT !.state = s, !.wait = w].state = s
  BY DEF B!BridgeVsi, Tout
<1>2. B!wt_s_cmd_b(v) \in B!BridgeVsi /\ B!wt_s_cmd_b(v).state = "WAIT_STATION_CMD"
  <2>1. Tout \in 0 .. Tout /\ "WAIT_STATION_CMD" \in B!BridgeStates
    BY TimersNat DEF B!BridgeStates
  <2> QED BY <1>1, <2>1 DEF B!wt_s_cmd_b, Tout
<1>3. ASSUME NEW s \in B!BridgeStates PROVE [v EXCEPT !.state = s] \in B!BridgeVsi
  BY DEF B!BridgeVsi
<1>4. [v EXCEPT !.state = "INIT"] \in B!BridgeVsi
  BY <1>3 DEF B!BridgeStates
<1>5. ASSUME NEW c \in B!BridgeCmd \cup {Nil}, NEW d \in B!BridgeCmd \cup {Nil}
      PROVE  /\ [v EXCEPT !.operCmd = c, !.rxCmd = d] \in B!BridgeVsi
             /\ [v EXCEPT !.rxCmd = d] \in B!BridgeVsi
             /\ [v EXCEPT !.rxCmd = d].state = v.state
  BY DEF B!BridgeVsi
<1>6. ASSUME NEW w \in 0 .. Tout
      PROVE  /\ [v EXCEPT !.wait = w] \in B!BridgeVsi
             /\ [v EXCEPT !.wait = w].state = v.state
             /\ [v EXCEPT !.wait = w].rxCmd = v.rxCmd
             /\ [v EXCEPT !.wait = w].operCmd = v.operCmd
  BY DEF B!BridgeVsi, Tout
<1> QED BY <1>0, <1>2, <1>4, <1>5, <1>6

\* A confirmed request becomes the operative command; the filter may be any.
LEMMA SucType ==
  ASSUME NEW b \in B!BridgeType, b.vsi \in B!BridgeVsi, b.vsi.rxCmd \in B!BridgeCmd
  PROVE  StepInv(B!suc(b))
<1> DEFINE c == b.vsi.rxCmd
           v == B!wt_s_cmd_b([b.vsi EXCEPT !.operCmd = c, !.rxCmd = Nil])
<1>1. v \in B!BridgeVsi /\ v.state = "WAIT_STATION_CMD" /\ v # Nil
  BY BridgeVsiSteps
<1>2. B!suc(b) = [br |-> [b EXCEPT !.vsi = v], resp |-> B!Resp(c, FALSE)]
  BY DEF B!suc, B!BridgeType
<1>3. B!Resp(c, FALSE) \in S!Tlv
  BY RespType
<1>4. BridgeInv([b EXCEPT !.vsi = v])
  <2> HIDE DEF v
  <2> QED BY <1>1, BridgeWith DEF BridgeInv
<1> HIDE DEF v, c
<1>5. B!suc(b).br = [b EXCEPT !.vsi = v] /\ B!suc(b).resp = B!Resp(c, FALSE)
  BY <1>2
<1> QED BY <1>3, <1>4, <1>5, Zenon DEF StepInv

\* A request is carried out.
LEMMA BProcType ==
  ASSUME NEW b \in B!BridgeType, b.vsi \in B!BridgeVsi, b.vsi.rxCmd \in B!BridgeCmd,
         NEW fails \in BOOLEAN
  PROVE  StepInv(B!b_proc(b, fails))
<1> DEFINE c == b.vsi.rxCmd
<1>1. ASSUME NEW e \in BOOLEAN
      PROVE  StepInv([br |-> B!rel_all(b), resp |-> B!Resp(c, e)])
  BY RelAllType, RespType DEF StepInv
<1>2. StepInv(B!suc([b EXCEPT !.filter = c.ver]))
  <2>1. c.ver \in 0 .. MaxProfile
    BY DEF B!BridgeCmd
  <2>2. [b EXCEPT !.filter = c.ver] \in B!BridgeType /\ [b EXCEPT !.filter = c.ver].vsi = b.vsi
    BY <2>1, BridgeWith
  <2> QED BY <2>2, SucType
<1>3. StepInv(B!suc(b))
  BY SucType
<1>4. c.type \in {"PRE", "ASSOC", "DEASSOC"}
  BY DEF B!BridgeCmd
<1> QED BY <1>1, <1>2, <1>3, <1>4 DEF B!b_proc

\* The time-out: a notice is built from the filter.
LEMMA DeassocedType ==
  ASSUME NEW b \in B!BridgeType
  PROVE  StepInv(B!deassoced(b))
<1>1. b.filter # 0 => [type |-> "DEASSOC", ver |-> b.filter] \in B!BridgeCmd
  BY EvbAssumption DEF B!BridgeType, B!BridgeCmd
<1> QED BY <1>1, RelAllType, RespType DEF StepInv, B!deassoced

\* A keepalive is answered with the operative command.
LEMMA ProcKType ==
  ASSUME NEW b \in B!BridgeType, b.vsi \in B!BridgeVsi, b.vsi.operCmd \in B!BridgeCmd
  PROVE  StepInv(B!proc_k(b))
<1> DEFINE v == B!wt_s_cmd_b([b.vsi EXCEPT !.rxCmd = Nil])
<1>1. v \in B!BridgeVsi /\ v.state = "WAIT_STATION_CMD" /\ v # Nil
  BY BridgeVsiSteps
<1>2. B!proc_k(b) = [br |-> [b EXCEPT !.vsi = v], resp |-> B!Resp(b.vsi.operCmd, FALSE)]
  BY DEF B!proc_k, B!BridgeType
<1>3. B!Resp(b.vsi.operCmd, FALSE) \in S!Tlv
  BY RespType
<1>4. BridgeInv([b EXCEPT !.vsi = v])
  <2> HIDE DEF v
  <2> QED BY <1>1, BridgeWith DEF BridgeInv
<1> HIDE DEF v
<1>5. B!proc_k(b).br = [b EXCEPT !.vsi = v] /\ B!proc_k(b).resp = B!Resp(b.vsi.operCmd, FALSE)
  BY <1>2
<1> QED BY <1>3, <1>4, <1>5, Zenon DEF StepInv
\* One run of the loop handler of the bridge.
LEMMA BridgeLoopType ==
  ASSUME NEW b, BridgeInv(b), NEW fails \in BOOLEAN
  PROVE  StepInv(B!vdp_b_loop_timer_handler(b, fails))
<1>0. b \in B!BridgeType
  BY DEF BridgeInv
<1>1. StepInv(B!NoResp(b))
  BY DEF StepInv, B!NoResp
<1>2. CASE b.vsi = Nil
  BY <1>1, <1>2 DEF B!vdp_b_loop_timer_handler
<1>3. CASE b.vsi # Nil
  <2>1. b.vsi \in B!BridgeVsi
    BY <1>0, <1>3 DEF B!BridgeType
  <2>2. /\ b.vsi.state \in B!BridgeStates /\ b.vsi.rxCmd \in B!BridgeCmd \cup {Nil}
        /\ b.vsi.operCmd \in B!BridgeCmd \cup {Nil} /\ b.vsi.wait \in 0 .. Tout
    BY <2>1 DEF B!BridgeVsi, Tout
  <2>3. CASE b.vsi.state = "IDLE"
    <3>1. b.filter = 0
      BY <2>3, <1>0 DEF BridgeInv, B!BridgeType
    <3>2. [b.vsi EXCEPT !.state = "INIT"] \in B!BridgeVsi
      BY <2>1, BridgeVsiSteps
    <3>3. BridgeInv([b EXCEPT !.vsi = [b.vsi EXCEPT !.state = "INIT"]])
      BY <1>0, <3>1, <3>2, BridgeWith DEF BridgeInv
    <3>4. [b EXCEPT !.vsi.state = "INIT"] = [b EXCEPT !.vsi = [b.vsi EXCEPT !.state = "INIT"]]
      BY <1>0 DEF B!BridgeType
    <3>5. B!vdp_b_loop_timer_handler(b, fails) = B!NoResp([b EXCEPT !.vsi.state = "INIT"])
      BY <1>3, <2>3 DEF B!vdp_b_loop_timer_handler, B!BridgeTimesOut
    <3> QED BY <3>3, <3>4, <3>5 DEF StepInv, B!NoResp
  <2>4. CASE b.vsi.state = "INIT"
    <3>1. CASE b.vsi.rxCmd # Nil
      <4>1. StepInv(B!b_proc(b, fails))
        BY <1>0, <2>1, <2>2, <3>1, BProcType
      <4>2. B!vdp_b_loop_timer_handler(b, fails) = B!b_proc(b, fails)
        BY <1>3, <2>4, <3>1 DEF B!vdp_b_loop_timer_handler, B!BridgeTimesOut
      <4> QED BY <4>1, <4>2
    <3>2. CASE b.vsi.rxCmd = Nil
      BY <1>1, <1>3, <2>4, <3>2 DEF B!vdp_b_loop_timer_handler, B!BridgeTimesOut
    <3> QED BY <3>1, <3>2
  <2>5. CASE b.vsi.state = "WAIT_STATION_CMD"
    <3> DEFINE w == IF b.vsi.wait > 1 THEN b.vsi.wait - 1 ELSE 0
               v == [b.vsi EXCEPT !.wait = w]
               c == B!BridgeCountdown(b)
    <3>1. w \in 0 .. Tout
      BY <2>2, TimersNat
    <3>2. /\ v \in B!BridgeVsi /\ v.state = "WAIT_STATION_CMD" /\ v # Nil
          /\ v.rxCmd = b.vsi.rxCmd /\ v.operCmd = b.vsi.operCmd
      BY <2>1, <2>5, <3>1, BridgeVsiSteps
    <3>3. c = [b EXCEPT !.vsi = v]
      BY <1>0, <2>1 DEF B!BridgeCountdown, B!BridgeType, B!BridgeVsi
    <3> HIDE DEF v, c
    <3>4. c \in B!BridgeType /\ c.vsi = v
      BY <1>0, <3>2, <3>3, BridgeWith
    <3>5. BridgeInv(c)
      BY <3>2, <3>4 DEF BridgeInv
    <3>6. StepInv(B!deassoced(b))
      BY <1>0, DeassocedType
    <3>7. StepInv(B!NoResp(c))
      BY <3>5 DEF StepInv, B!NoResp
    <3>8. v.rxCmd # Nil => StepInv(B!b_proc(c, fails))
      BY <2>2, <3>2, <3>4, BProcType
    <3>9. v.rxCmd # Nil /\ v.rxCmd = v.operCmd => StepInv(B!proc_k(c))
      BY <2>2, <3>2, <3>4, ProcKType
    <3>10. B!vdp_b_loop_timer_handler(b, fails)
             \in {B!deassoced(b), B!NoResp(c)}
                 \cup (IF v.rxCmd # Nil THEN {B!b_proc(c, fails)} ELSE {})
                 \cup (IF v.rxCmd # Nil /\ v.rxCmd = v.operCmd THEN {B!proc_k(c)} ELSE {})
      BY <1>3, <2>5, <3>4 DEF B!vdp_b_loop_timer_handler, c
    <3> QED BY <3>6, <3>7, <3>8, <3>9, <3>10
  <2> QED BY <2>2, <2>3, <2>4, <2>5 DEF B!BridgeStates
<1> QED BY <1>2, <1>3

\* A request from the station, or a response that went astray.
LEMMA BridgeReceiveType ==
  ASSUME NEW b, BridgeInv(b), NEW t \in S!Tlv
  PROVE  BridgeInv(B!vdp_b_rx_ReceiveFrame(b, t))
<1>0. b \in B!BridgeType /\ B!Cmd(t) \in B!BridgeCmd
  BY DEF BridgeInv, B!Cmd, B!BridgeCmd, S!Tlv, S!TlvTypes
<1>1. CASE t.ack
  BY <1>1 DEF B!vdp_b_rx_ReceiveFrame
<1>2. CASE ~ t.ack /\ b.vsi # Nil
  <2>1. b.vsi \in B!BridgeVsi
    BY <1>0, <1>2 DEF B!BridgeType
  <2> DEFINE v == [b.vsi EXCEPT !.rxCmd = B!Cmd(t)]
  <2>2. v \in B!BridgeVsi /\ v.state = b.vsi.state /\ v # Nil
    BY <1>0, <2>1, BridgeVsiSteps
  <2>3. [b EXCEPT !.vsi.rxCmd = B!Cmd(t)] = [b EXCEPT !.vsi = v]
    BY <1>0 DEF B!BridgeType
  <2> HIDE DEF v
  <2>4. BridgeInv([b EXCEPT !.vsi = v])
    BY <1>0, <2>2, BridgeWith DEF BridgeInv
  <2> QED BY <1>2, <2>3, <2>4 DEF B!vdp_b_rx_ReceiveFrame
<1>3. CASE ~ t.ack /\ b.vsi = Nil
  <2> DEFINE v == [state |-> "IDLE", rxCmd |-> B!Cmd(t), operCmd |-> Nil, wait |-> 0]
  <2>1. v \in B!BridgeVsi /\ v # Nil
    BY <1>0, BridgeVsiForm, TimersNat DEF B!BridgeStates
  <2>2. b.filter = 0
    BY <1>3, <1>0 DEF BridgeInv, B!BridgeType
  <2> HIDE DEF v
  <2>3. BridgeInv([b EXCEPT !.vsi = v])
    BY <1>0, <2>1, <2>2, BridgeWith DEF BridgeInv
  <2> QED BY <1>3, <2>3 DEF B!vdp_b_rx_ReceiveFrame, v
<1> QED BY <1>1, <1>2, <1>3 DEF S!Tlv
-----------------------------------------------------------------------------
(* The station.                                                                *)

Waits == 0 .. Delay + ReinitKeepAlive

\* The values a timer of the station is set to.
LEMMA StationWaits == 0 \in Waits /\ Delay \in Waits /\ ReinitKeepAlive \in Waits
BY TimersNat, EvbAssumption DEF Waits

\* The fields of an instance.
LEMMA StationVsiFields ==
  ASSUME NEW v \in S!StationVsi
  PROVE  /\ v # Nil
         /\ v.state \in S!StationStates /\ v.cfg \in S!TlvTypes /\ v.newCmd \in BOOLEAN
         /\ v.wait \in Waits /\ v.sysCmd \in 0 .. MaxProfile
         /\ v.operCmd \in 0 .. MaxProfile /\ v.profile_chg \in BOOLEAN
BY NilIsNoVsi DEF S!StationVsi, Waits, Delay

\* A step of the instance sends the version of a profile, or nothing.
StationStep(x) == x.vsi \in S!StationVsi /\ x.vsi.cfg \in S!TlvTypes /\ x.sent \in 0 .. MaxProfile

\* Changes of the fields of an instance.
LEMMA StationVsiWith ==
  ASSUME NEW v \in S!StationVsi, NEW s \in S!StationStates, NEW n \in BOOLEAN,
         NEW w \in Waits, NEW y \in 0 .. MaxProfile, NEW o \in 0 .. MaxProfile,
         NEW c \in BOOLEAN
  PROVE  /\ [v EXCEPT !.state = s] \in S!StationVsi
         /\ [v EXCEPT !.newCmd = n] \in S!StationVsi
         /\ [v EXCEPT !.wait = w] \in S!StationVsi
         /\ [v EXCEPT !.profile_chg = c] \in S!StationVsi
         /\ [v EXCEPT !.operCmd = o] \in S!StationVsi
         /\ [v EXCEPT !.state = s, !.wait = w] \in S!StationVsi
         /\ [v EXCEPT !.state = s, !.operCmd = o] \in S!StationVsi
         /\ [v EXCEPT !.operCmd = o, !.newCmd = n] \in S!StationVsi
         /\ [v EXCEPT !.state = s, !.sysCmd = y, !.operCmd = o] \in S!StationVsi
         /\ [v EXCEPT !.operCmd = o, !.profile_chg = c, !.wait = w] \in S!StationVsi
         /\ [v EXCEPT !.newCmd = n, !.state = s, !.sysCmd = y, !.wait = w,
                      !.profile_chg = c] \in S!StationVsi
BY DEF S!StationVsi, Waits, Delay

\* The entry actions of the station's states.
LEMMA StationEntries ==
  ASSUME NEW v \in S!StationVsi, NEW p \in 0 .. MaxProfile
  PROVE  /\ S!init_s(v) \in S!StationVsi
         /\ S!wt_s_cmd_s(v) \in S!StationVsi
         /\ S!StationCountdown(v) \in S!StationVsi
         /\ \A s \in S!StationStates : S!new_s(v, s) \in S!StationVsi
         /\ StationStep(S!NoTlv(v))
         /\ StationStep(S!s_proc(v, p))
         /\ StationStep(S!t_keep(v, p))
<1>0. 0 \in 0 .. MaxProfile
  BY EvbAssumption
<1>1. S!init_s(v) \in S!StationVsi
  BY <1>0, StationVsiWith, StationWaits DEF S!init_s, S!StationStates
<1>2. ASSUME NEW u \in S!StationVsi PROVE S!wt_s_cmd_s(u) \in S!StationVsi
  <2>1. "WAIT_SYS_CMD" \in S!StationStates
    BY DEF S!StationStates
  <2> QED BY <1>0, <2>1, StationVsiWith, StationWaits DEF S!wt_s_cmd_s
<1>3. S!StationCountdown(v) \in S!StationVsi
  <2> DEFINE w == IF v.wait > 1 THEN v.wait - 1 ELSE 0
  <2>1. w \in Waits
    BY StationVsiFields, TimersNat, EvbAssumption DEF Waits
  <2>2. S!StationCountdown(v) = [v EXCEPT !.wait = w]
    BY DEF S!StationCountdown, S!StationVsi
  <2> HIDE DEF w
  <2>3. [v EXCEPT !.wait = w] \in S!StationVsi
    BY <2>1 DEF S!StationVsi, Waits, Delay
  <2> QED BY <2>2, <2>3
<1>4. ASSUME NEW s \in S!StationStates PROVE S!new_s(v, s) \in S!StationVsi
  <2>1. [v EXCEPT !.state = s, !.operCmd = 0] \in S!StationVsi
    BY <1>0, StationVsiWith, StationWaits
  <2>2. [v EXCEPT !.operCmd = v.sysCmd, !.newCmd = FALSE] \in S!StationVsi
    BY <1>0, StationVsiWith, StationVsiFields
  <2> QED BY <1>2, <2>1, <2>2 DEF S!new_s
<1>5. ASSUME NEW u \in S!StationVsi, NEW q \in 0 .. MaxProfile
      PROVE  StationStep([vsi |-> u, sent |-> q])
  BY StationVsiFields DEF StationStep
<1>6. StationStep(S!NoTlv(v))
  BY <1>0, <1>5 DEF S!NoTlv
<1>7. StationStep(S!s_proc(v, p))
  <2> DEFINE c == v.profile_chg /\ p = 0
             u == [v EXCEPT !.newCmd = FALSE, !.state = "STATION_PROC", !.sysCmd = p,
                            !.wait = Delay, !.profile_chg = c]
  <2>1. c \in BOOLEAN /\ "STATION_PROC" \in S!StationStates
    BY DEF S!StationStates
  <2>2. u \in S!StationVsi
    <3> HIDE DEF c
    <3> QED BY <1>0, <2>1, StationVsiWith, StationWaits
  <2>3. S!s_proc(v, p) = [vsi |-> u, sent |-> p]
    BY DEF S!s_proc, S!StationVsi, Delay
  <2> HIDE DEF u
  <2> QED BY <1>5, <2>2, <2>3
<1>8. StationStep(S!t_keep(v, p))
  <2> DEFINE k == [v EXCEPT !.state = "TRANSMIT_KEEPALIVE"]
  <2>1. k \in S!StationVsi
    BY <1>0, StationVsiWith, StationVsiFields DEF S!StationStates
  <2> HIDE DEF k
  <2>2. StationStep([vsi |-> [k EXCEPT !.wait = Delay], sent |-> v.operCmd])
    BY <1>0, <1>5, <2>1, StationVsiWith, StationVsiFields, StationWaits
  <2>3. StationStep(S!NoTlv([k EXCEPT !.operCmd = 0]))
    BY <1>0, <1>5, <2>1, StationVsiWith, StationVsiFields DEF S!NoTlv
  <2>4. StationStep([vsi |-> [k EXCEPT !.operCmd = p, !.profile_chg = FALSE, !.wait = Delay],
                     sent |-> p])
    BY <1>0, <1>5, <2>1, StationVsiWith, StationVsiFields, StationWaits
  <2> QED BY <2>2, <2>3, <2>4 DEF S!t_keep, k, Delay
<1> QED BY <1>1, <1>2, <1>3, <1>4, <1>6, <1>7, <1>8
\* What the loop handler does to an instance.
LEMMA StationTimerType ==
  ASSUME NEW v \in S!StationVsi, NEW p \in 0 .. MaxProfile
  PROVE  StationStep(S!StationVsiTimer(v, p))
<1> DEFINE u == S!StationCountdown(v)
           e == [u EXCEPT !.newCmd = FALSE]
<1>1. u \in S!StationVsi
  BY StationEntries
<1>2. e \in S!StationVsi
  BY <1>1 DEF S!StationVsi
<1> HIDE DEF u, e
<1>3. /\ StationStep(S!NoTlv(S!init_s(v))) /\ StationStep(S!s_proc(v, p))
      /\ StationStep(S!NoTlv(u)) /\ StationStep(S!t_keep(e, p))
      /\ StationStep(S!NoTlv(S!init_s(e))) /\ StationStep(S!NoTlv(e))
  BY <1>1, <1>2, StationEntries
<1>4. u.wait \in Waits
  BY <1>1, StationVsiFields
<1>5. S!StationVsiTimer(v, p) \in {S!NoTlv(S!init_s(v)), S!s_proc(v, p), S!NoTlv(u),
                                   S!t_keep(e, p), S!NoTlv(S!init_s(e)), S!NoTlv(e)}
  BY <1>4, TimersNat, EvbAssumption DEF S!StationVsiTimer, u, e, Waits
<1> QED BY <1>3, <1>5

\* A response reaches the instance.
LEMMA StationReceiveType ==
  ASSUME NEW v \in S!StationVsi \cup {Nil}, NEW t \in S!Tlv
  PROVE  /\ S!vdp_s_rx_ReceiveFrame(v, t) \in S!StationVsi \cup {Nil}
         /\ v = Nil => S!vdp_s_rx_ReceiveFrame(v, t) = Nil
<1>1. CASE ~ t.ack \/ v = Nil
  BY <1>1 DEF S!vdp_s_rx_ReceiveFrame
<1>2. CASE t.ack /\ v # Nil
  <2>1. v \in S!StationVsi
    BY <1>2
  <2>2. "PREASSOC_NEW" \in S!StationStates /\ "ASSOC_NEW" \in S!StationStates
    BY DEF S!StationStates
  <2>3. /\ S!init_s(v) \in S!StationVsi /\ S!wt_s_cmd_s(v) \in S!StationVsi
        /\ S!new_s(v, "PREASSOC_NEW") \in S!StationVsi
        /\ S!new_s(v, "ASSOC_NEW") \in S!StationVsi
    BY <2>1, <2>2, StationEntries, EvbAssumption
  <2>4. S!vdp_s_rx_ReceiveFrame(v, t) \in
          {v, S!init_s(v), S!wt_s_cmd_s(v), S!new_s(v, "PREASSOC_NEW"), S!new_s(v, "ASSOC_NEW")}
    BY <1>2, <2>1 DEF S!vdp_s_rx_ReceiveFrame
  <2> QED BY <1>2, <2>1, <2>3, <2>4
<1> QED BY <1>1, <1>2

\* The state of the station, with the command m the manager is about to give: types, an
\* instance has its command, and a command has its profile unless it raced.
StationInv(s, m, raced) ==
  /\ s \in S!StationType
  /\ s.vsi # Nil => s.pool # Nil
  /\ s.profile = 0 /\ (s.pool # Nil \/ m # Nil) => raced

\* Housekeeping keeps an instance's command, and takes the profile of a command the
\* manager is about to give only when there is neither a command nor an instance.
LEMMA HousekeepingType ==
  ASSUME NEW s, NEW m, NEW raced \in BOOLEAN, StationInv(s, m, raced)
  PROVE  LET h == S!StationHousekeeping(s)
         IN  /\ h \in S!StationType
             /\ h.vsi # Nil <=> h.pool # Nil
             /\ h.pool # Nil => h.profile = s.profile /\ s.pool # Nil
             /\ h.profile \in {0, s.profile}
<1> DEFINE s1 == S!vdp_s_can_destory_vsi(s)
           s2 == S!vdp_can_destroy_cmdPool(s1)
           s3 == S!vdp_can_destroy_profile(s2)
           s4 == S!vdp_cmdPool_newvsi(s3)
<1>0. s \in S!StationType /\ (s.vsi # Nil => s.pool # Nil)
  BY DEF StationInv
<1>1. /\ s1 \in S!StationType /\ s1.pool = s.pool /\ s1.profile = s.profile
      /\ s1.vsi # Nil => s1.pool # Nil
  <2>1. CASE S!Destroyed(s)
    BY <1>0, <2>1 DEF S!vdp_s_can_destory_vsi, S!StationType
  <2>2. CASE ~ S!Destroyed(s)
    BY <1>0, <2>2 DEF S!vdp_s_can_destory_vsi
  <2> QED BY <2>1, <2>2
<1> HIDE DEF s1
<1>2. /\ s2 \in S!StationType /\ s2.profile = s1.profile
      /\ s2.pool # Nil => s1.pool # Nil
      /\ s2.vsi # Nil => s2.pool # Nil
  <2>1. CASE s2 = s1
    BY <1>1, <2>1
  <2>2. CASE s2 = [s1 EXCEPT !.pool = Nil] /\ s1.vsi = Nil
    BY <1>1, <2>2 DEF S!StationType
  <2> QED BY <2>1, <2>2 DEF S!vdp_can_destroy_cmdPool
<1> HIDE DEF s2
<1>3. /\ s3 \in S!StationType /\ s3.pool = s2.pool /\ s3.vsi = s2.vsi
      /\ s3.profile = IF s2.pool = Nil THEN 0 ELSE s2.profile
  <2>1. CASE s2.pool = Nil
    BY <1>2, <2>1, EvbAssumption DEF S!vdp_can_destroy_profile, S!StationType
  <2>2. CASE s2.pool # Nil
    BY <1>2, <2>2 DEF S!vdp_can_destroy_profile
  <2> QED BY <2>1, <2>2
<1> HIDE DEF s3
<1>4. /\ s4 \in S!StationType /\ s4.profile = s3.profile
      /\ s4.pool # Nil <=> s3.pool # Nil
      /\ s4.vsi # Nil <=> s4.pool # Nil
  <2>1. CASE s3.pool = Nil
    BY <1>2, <1>3, <2>1 DEF S!vdp_cmdPool_newvsi
  <2>2. CASE s3.pool # Nil
    <3> DEFINE i == [s3.pool EXCEPT !.newFlag = FALSE]
               v == IF s3.vsi = Nil THEN S!NewVsi(s3.pool.type) ELSE s3.vsi
    <3>1. s3.pool \in S!PoolItem
      BY <1>3, <2>2 DEF S!StationType
    <3>2. i \in S!PoolItem /\ i # Nil
      <4>1. i \in S!PoolItem
        BY <3>1 DEF S!PoolItem
      <4> QED BY <4>1, NilIsNoVsi
    <3>3. S!NewVsi(s3.pool.type) \in S!StationVsi
      <4>1. s3.pool.type \in S!TlvTypes
        BY <3>1 DEF S!PoolItem
      <4> QED BY <4>1, StationWaits, EvbAssumption
              DEF S!NewVsi, S!StationVsi, S!StationStates, Waits, Delay
    <3>4. v \in S!StationVsi /\ v # Nil
      BY <1>3, <3>3, NilIsNoVsi DEF S!StationType
    <3>5. s4 = [s3 EXCEPT !.pool = i, !.vsi = v]
      BY <1>3, <2>2 DEF S!vdp_cmdPool_newvsi, S!StationType
    <3> HIDE DEF i, v, s4
    <3>6. s4 \in S!StationType /\ s4.pool = i /\ s4.vsi = v /\ s4.profile = s3.profile
      BY <1>3, <3>2, <3>4, <3>5 DEF S!StationType
    <3> QED BY <2>2, <3>2, <3>4, <3>6
  <2> QED BY <2>1, <2>2
<1>5. S!StationHousekeeping(s) = s4
  BY DEF S!StationHousekeeping, s1, s2, s3
<1> HIDE DEF s4
<1> QED BY <1>1, <1>2, <1>3, <1>4, <1>5
-----------------------------------------------------------------------------
(* The inductive invariant.                                                    *)

RestType ==
  /\ neg \in [Systems -> BOOLEAN]
  /\ mgr \in Commands \cup {Nil}
  /\ todo \subseteq Handlers
  /\ used \in [call : 0 .. MaxCall, fault : 0 .. MaxFault, raced : BOOLEAN]

LinkInv ==
  /\ port \in [Systems -> FreshPort(S!Tlv)]
  /\ wire \in [Systems -> Seq(Frame)]

EvbInv == StationInv(st, mgr, used.raced) /\ BridgeInv(br) /\ LinkInv /\ RestType

\* A station with another instance.
LEMMA StationWith ==
  ASSUME NEW s \in S!StationType, NEW v \in S!StationVsi \cup {Nil}
  PROVE  /\ [s EXCEPT !.vsi = v] \in S!StationType
         /\ [s EXCEPT !.vsi = v].vsi = v
         /\ [s EXCEPT !.vsi = v].pool = s.pool
         /\ [s EXCEPT !.vsi = v].profile = s.profile
BY DEF S!StationType

\* The handlers left to run stay handlers.
LEMMA RunsType ==
  ASSUME todo \subseteq Handlers, NEW s \in Systems, NEW h \in {"ecp", "vdp"}, Runs(s, h)
  PROVE  todo' \subseteq Handlers
BY DEF Runs

\* The first call of ExecVDPCmd4VSI.
LEMMA ExecProfileKeeps ==
  ASSUME EvbInv, NEW type \in Commands, NEW ver \in 1 .. MaxProfile, ExecProfile(type, ver)
  PROVE  EvbInv'
<1> DEFINE v == S!vsiProfile_chg_notify_vdp(st.vsi)
<1>0. st \in S!StationType /\ st.vsi \in S!StationVsi \cup {Nil} /\ (st.vsi # Nil => st.pool # Nil)
  BY DEF EvbInv, StationInv, S!StationType
<1>1. v \in S!StationVsi \cup {Nil} /\ (v # Nil => st.vsi # Nil)
  <2>1. CASE st.vsi = Nil
    BY <2>1 DEF S!vsiProfile_chg_notify_vdp
  <2>2. CASE st.vsi # Nil
    <3>1. [st.vsi EXCEPT !.profile_chg = TRUE] \in S!StationVsi
      BY <1>0, <2>2 DEF S!StationVsi
    <3> QED BY <2>2, <3>1 DEF S!vsiProfile_chg_notify_vdp
  <2> QED BY <2>1, <2>2
<1>2. st' = [st EXCEPT !.profile = ver, !.vsi = v]
  BY <1>0 DEF ExecProfile, S!vsiProfile_addvsivlanmac, S!StationType
<1> HIDE DEF v
<1>3. ver \in 0 .. MaxProfile /\ ver # 0
  OBVIOUS
<1>4. /\ st' \in S!StationType /\ st'.pool = st.pool /\ st'.vsi = v /\ st'.profile = ver
  <2>1. ASSUME NEW p \in 0 .. MaxProfile, NEW u \in S!StationVsi \cup {Nil}
        PROVE  LET s == [st EXCEPT !.profile = p, !.vsi = u]
               IN  s \in S!StationType /\ s.pool = st.pool /\ s.vsi = u /\ s.profile = p
    BY <1>0 DEF S!StationType
  <2> QED BY <1>1, <1>2, <1>3, <2>1
<1>5. StationInv(st, mgr, used.raced)'
  BY <1>0, <1>1, <1>3, <1>4 DEF StationInv
<1>6. RestType'
  <2>1. used.call + 1 \in 0 .. MaxCall
    BY EvbAssumption DEF ExecProfile, EvbInv, RestType
  <2>2. ASSUME NEW n \in 0 .. MaxCall
        PROVE  [used EXCEPT !.call = n] \in [call : 0 .. MaxCall, fault : 0 .. MaxFault, raced : BOOLEAN]
    BY DEF EvbInv, RestType
  <2>3. used' = [used EXCEPT !.call = used.call + 1]
    BY DEF ExecProfile, EvbInv, RestType
  <2> QED BY <2>1, <2>2, <2>3 DEF ExecProfile, EvbInv, RestType
<1>7. LinkInv' /\ BridgeInv(br)'
  BY DEF ExecProfile, EvbInv, LinkInv
<1> QED BY <1>5, <1>6, <1>7 DEF EvbInv

\* The second call of ExecVDPCmd4VSI.
LEMMA ExecCommandKeeps ==
  ASSUME EvbInv, NEW garbage \in BOOLEAN, ExecCommand(garbage)
  PROVE  EvbInv'
<1>0. /\ st \in S!StationType /\ (st.vsi # Nil => st.pool # Nil)
      /\ mgr \in S!TlvTypes /\ mgr # Nil /\ (st.profile = 0 => used.raced)
  BY EvbAssumption DEF EvbInv, StationInv, RestType, ExecCommand, S!TlvTypes
<1>1. /\ st' \in S!StationType /\ st'.pool # Nil
      /\ st'.vsi = st.vsi /\ st'.profile = st.profile
  <2>1. ASSUME NEW g \in BOOLEAN
        PROVE  LET i == [type |-> mgr, newFlag |-> g]
               IN  i \in S!PoolItem /\ i # Nil
    BY <1>0, NilIsNoVsi DEF S!PoolItem
  <2>2. ASSUME NEW i \in S!PoolItem, i # Nil
        PROVE  LET s == [st EXCEPT !.pool = i]
               IN  /\ s \in S!StationType /\ s.pool # Nil
                   /\ s.vsi = st.vsi /\ s.profile = st.profile
    BY <1>0, <2>2 DEF S!StationType
  <2>3. CASE st' = st /\ st.pool # Nil
    BY <1>0, <2>3
  <2>4. CASE st' = [st EXCEPT !.pool = [type |-> mgr, newFlag |-> garbage]]
    BY <2>1, <2>2, <2>4
  <2>5. CASE st' = [st EXCEPT !.pool = [type |-> mgr, newFlag |-> TRUE]]
    BY <2>1, <2>2, <2>5
  <2> QED BY <2>3, <2>4, <2>5 DEF ExecCommand, S!vsiCmd_pool_add
<1>2. StationInv(st, mgr, used.raced)'
  BY <1>0, <1>1 DEF StationInv, ExecCommand
<1>3. RestType' /\ LinkInv' /\ BridgeInv(br)'
  BY DEF ExecCommand, EvbInv, LinkInv, RestType
<1> QED BY <1>2, <1>3 DEF EvbInv

\* The manager deletes the VSI.
LEMMA DeleteKeeps ==
  ASSUME EvbInv, Delete
  PROVE  EvbInv'
<1>0. st \in S!StationType
  BY DEF EvbInv, StationInv
<1>1. st' = [st EXCEPT !.pool = Nil, !.vsi = Nil]
  BY DEF Delete, S!vdp_delete_vsi_and_cmdPool
<1>2. ASSUME NEW i \in S!PoolItem \cup {Nil}, NEW v \in S!StationVsi \cup {Nil}
      PROVE  LET s == [st EXCEPT !.pool = i, !.vsi = v]
             IN  s \in S!StationType /\ s.pool = i /\ s.vsi = v
  BY <1>0 DEF S!StationType
<1>3. st' \in S!StationType /\ st'.pool = Nil /\ st'.vsi = Nil
  BY <1>1, <1>2
<1>4. StationInv(st, mgr, used.raced)'
  BY <1>3 DEF StationInv, Delete
<1>5. RestType'
  <2>1. used.call + 1 \in 0 .. MaxCall
    BY EvbAssumption DEF Delete, EvbInv, RestType
  <2>2. ASSUME NEW n \in 0 .. MaxCall
        PROVE  [used EXCEPT !.call = n] \in [call : 0 .. MaxCall, fault : 0 .. MaxFault, raced : BOOLEAN]
    BY DEF EvbInv, RestType
  <2>3. used' = [used EXCEPT !.call = used.call + 1]
    BY DEF Delete, EvbInv, RestType
  <2> QED BY <2>1, <2>2, <2>3 DEF Delete, EvbInv, RestType
<1>6. LinkInv' /\ BridgeInv(br)'
  BY DEF Delete, EvbInv, LinkInv
<1> QED BY <1>4, <1>5, <1>6 DEF EvbInv
\* A TLV that a handler hands to ECP.
LEMMA HandOver ==
  ASSUME LinkInv, NEW s \in Systems, NEW t \in S!Tlv
  PROVE  [port EXCEPT ![s] = list_EcpULPDUtx_insert(@, t)] \in [Systems -> FreshPort(S!Tlv)]
<1>1. list_EcpULPDUtx_insert(port[s], t) \in FreshPort(S!Tlv)
  BY TxInsertType DEF LinkInv
<1> QED BY <1>1 DEF LinkInv

\* The VDP loop handler of the station.
LEMMA StationVdpKeeps ==
  ASSUME EvbInv, StationVdp
  PROVE  EvbInv'
<1>0. /\ st \in S!StationType /\ used.raced \in BOOLEAN
      /\ todo' \subseteq Handlers /\ UNCHANGED << br, wire, neg, mgr >>
  BY RunsType DEF EvbInv, StationInv, RestType, StationVdp, Systems
<1> DEFINE h == S!StationHousekeeping(st)
           step == S!StationVsiTimer(h.vsi, h.profile)
           tlv == [type |-> h.vsi.cfg, ver |-> step.sent, ack |-> FALSE, err |-> FALSE]
<1>1. CASE ~ neg["S"]
  <2>1. st' = [st EXCEPT !.vsi = Nil] /\ UNCHANGED << port, used >>
    BY <1>1 DEF StationVdp
  <2>2. StationInv(st, mgr, used.raced)'
    BY <1>0, <2>1, StationWith DEF StationInv, EvbInv
  <2> QED BY <1>0, <2>1, <2>2 DEF EvbInv, LinkInv, RestType
<1>2. CASE neg["S"]
  <2>1. /\ h \in S!StationType
        /\ h.vsi # Nil <=> h.pool # Nil
        /\ h.pool # Nil => h.profile = st.profile /\ st.pool # Nil
        /\ h.profile \in {0, st.profile}
    BY <1>0, HousekeepingType DEF EvbInv
  <2> HIDE DEF h
  <2>2. CASE h.vsi = Nil
    <3> DEFINE r == used.raced \/ (mgr # Nil /\ st.profile # 0 /\ h.profile = 0)
    <3>1. st' = h /\ used' = [used EXCEPT !.raced = r] /\ port' = port
      BY <1>2, <2>2 DEF StationVdp, h, EvbInv, RestType
    <3>2. /\ used' \in [call : 0 .. MaxCall, fault : 0 .. MaxFault, raced : BOOLEAN]
          /\ used'.raced = r
      <4>1. ASSUME NEW x \in BOOLEAN
            PROVE  LET u == [used EXCEPT !.raced = x]
                   IN  /\ u \in [call : 0 .. MaxCall, fault : 0 .. MaxFault, raced : BOOLEAN]
                       /\ u.raced = x
        BY DEF EvbInv, RestType
      <4>2. r \in BOOLEAN
        BY <1>0
      <4> HIDE DEF r
      <4> QED BY <3>1, <4>1, <4>2
    <3>3. StationInv(st, mgr, used.raced)'
      BY <1>0, <2>1, <2>2, <3>1, <3>2 DEF StationInv, EvbInv
    <3> QED BY <1>0, <3>1, <3>2, <3>3 DEF EvbInv, LinkInv, RestType
  <2>3. CASE h.vsi # Nil
    <3>1. h.vsi \in S!StationVsi /\ h.profile \in 0 .. MaxProfile
      BY <2>1, <2>3 DEF S!StationType
    <3>2. StationStep(step) /\ h.vsi.cfg \in S!TlvTypes
      BY <3>1, StationTimerType, StationVsiFields
    <3> HIDE DEF step
    <3>3. step.vsi \in S!StationVsi /\ step.vsi # Nil /\ step.sent \in 0 .. MaxProfile
      BY <3>2, NilIsNoVsi DEF StationStep
    <3>4. step.sent # 0 => tlv \in S!Tlv
      BY <3>2, <3>3, EvbAssumption DEF S!Tlv
    <3>5. /\ st' = [h EXCEPT !.vsi = step.vsi] /\ used' = used
          /\ port' = IF step.sent = 0 THEN port
                     ELSE [port EXCEPT !["S"] = list_EcpULPDUtx_insert(@, tlv)]
      BY <1>2, <2>3 DEF StationVdp, h, step
    <3> HIDE DEF tlv
    <3>6. port' \in [Systems -> FreshPort(S!Tlv)]
      BY <3>4, <3>5, HandOver DEF EvbInv, LinkInv, Systems
    <3>7. /\ st' \in S!StationType /\ st'.vsi = step.vsi
          /\ st'.pool = h.pool /\ st'.profile = h.profile
      BY <2>1, <3>3, <3>5, StationWith
    <3>8. StationInv(st, mgr, used.raced)'
      BY <1>0, <2>1, <2>3, <3>3, <3>5, <3>7 DEF StationInv, EvbInv
    <3> QED BY <1>0, <3>5, <3>6, <3>8 DEF EvbInv, LinkInv, RestType
  <2> QED BY <2>2, <2>3
<1> QED BY <1>1, <1>2

\* The VDP loop handler of the bridge.
LEMMA BridgeVdpKeeps ==
  ASSUME EvbInv, NEW addFails \in BOOLEAN, BridgeVdp(addFails)
  PROVE  EvbInv'
<1>0. /\ br \in B!BridgeType /\ BridgeInv(br)
      /\ todo' \subseteq Handlers /\ UNCHANGED << st, wire, neg, mgr >>
  BY RunsType DEF EvbInv, BridgeInv, RestType, BridgeVdp, Systems
<1>1. CASE ~ neg["B"]
  <2>1. br' = B!NoSupport(br) /\ UNCHANGED << port, used >>
    BY <1>1 DEF BridgeVdp
  <2>2. BridgeInv(B!NoSupport(br))
    BY <1>0, RelAllType DEF B!NoSupport
  <2> QED BY <1>0, <2>1, <2>2 DEF EvbInv, LinkInv, RestType, StationInv, BridgeInv
<1>2. CASE neg["B"]
  <2> DEFINE step == B!vdp_b_loop_timer_handler(br, addFails)
  <2>1. StepInv(step)
    BY <1>0, BridgeLoopType
  <2>2. /\ br' = step.br
        /\ port' = IF step.resp = Nil THEN port
                   ELSE [port EXCEPT !["B"] = list_EcpULPDUtx_insert(@, step.resp)]
        /\ used' = IF addFails THEN [used EXCEPT !.fault = @ + 1] ELSE used
    BY <1>2 DEF BridgeVdp
  <2> HIDE DEF step
  <2>3. port' \in [Systems -> FreshPort(S!Tlv)]
    BY <2>1, <2>2, HandOver DEF EvbInv, LinkInv, Systems, StepInv
  <2>4. /\ used' \in [call : 0 .. MaxCall, fault : 0 .. MaxFault, raced : BOOLEAN]
        /\ used'.raced = used.raced
    <3>1. CASE ~ addFails
      BY <2>2, <3>1 DEF EvbInv, RestType
    <3>2. CASE addFails
      <4>1. used.fault + 1 \in 0 .. MaxFault
        BY <3>2, EvbAssumption DEF BridgeVdp, MayFail, EvbInv, RestType
      <4>2. used' = [used EXCEPT !.fault = used.fault + 1]
        BY <2>2, <3>2 DEF EvbInv, RestType
      <4>3. ASSUME NEW n \in 0 .. MaxFault
            PROVE  LET u == [used EXCEPT !.fault = n]
                   IN  /\ u \in [call : 0 .. MaxCall, fault : 0 .. MaxFault, raced : BOOLEAN]
                       /\ u.raced = used.raced
        BY DEF EvbInv, RestType
      <4> QED BY <4>1, <4>2, <4>3
    <3> QED BY <3>1, <3>2
  <2>5. BridgeInv(br)'
    BY <2>1, <2>2 DEF StepInv, BridgeInv
  <2> QED BY <1>0, <2>3, <2>4, <2>5 DEF EvbInv, LinkInv, RestType, StationInv
<1> QED BY <1>1, <1>2
\* VDP takes the first PDU of the receive list.
LEMMA VdpReceivesKeeps ==
  ASSUME EvbInv, NEW s \in Systems, VdpReceives(s), UNCHANGED << mgr, used >>
  PROVE  StationInv(st, mgr, used.raced)' /\ BridgeInv(br)'
<1>1. CASE port[s].rx = << >> \/ ~ neg[s]
  BY <1>1 DEF VdpReceives, EvbInv, StationInv, BridgeInv
<1>2. CASE ~ (port[s].rx = << >> \/ ~ neg[s])
  <2> DEFINE t == Head(port[s].rx)
             v == S!vdp_s_rx_ReceiveFrame(st.vsi, t)
  <2>1. t \in S!Tlv
    BY <1>2, RxType DEF EvbInv, LinkInv
  <2>2. CASE s = "S"
    <3>0. st \in S!StationType /\ st.vsi \in S!StationVsi \cup {Nil}
      BY DEF EvbInv, StationInv, S!StationType
    <3>1. st' = [st EXCEPT !.vsi = v] /\ br' = br
      BY <1>2, <2>2, <3>0 DEF VdpReceives, S!StationType
    <3>2. v \in S!StationVsi \cup {Nil} /\ (st.vsi = Nil => v = Nil)
      BY <2>1, <3>0, StationReceiveType
    <3> HIDE DEF v
    <3> QED BY <3>0, <3>1, <3>2, StationWith DEF EvbInv, StationInv, BridgeInv
  <2>3. CASE s # "S"
    <3>1. br' = B!vdp_b_rx_ReceiveFrame(br, t) /\ st' = st
      BY <1>2, <2>3 DEF VdpReceives
    <3>2. BridgeInv(B!vdp_b_rx_ReceiveFrame(br, t))
      BY <2>1, BridgeReceiveType DEF EvbInv
    <3> HIDE DEF t
    <3> QED BY <3>1, <3>2 DEF EvbInv, StationInv, BridgeInv
  <2> QED BY <2>2, <2>3
<1> QED BY <1>1, <1>2

\* The ECP loop handler.
LEMMA EcpLoopKeeps ==
  ASSUME EvbInv, NEW s \in Systems, EcpLoop(s)
  PROVE  EvbInv'
<1>0. /\ todo' \subseteq Handlers /\ UNCHANGED << neg, mgr, used >> /\ Peer(s) \in Systems
      /\ port[s] \in FreshPort(S!Tlv)
  BY RunsType DEF EvbInv, LinkInv, RestType, EcpLoop, Systems, Peer
<1>1. StationInv(st, mgr, used.raced)' /\ BridgeInv(br)'
  BY VdpReceivesKeeps DEF EcpLoop
<1>2. LinkInv'
  <2>1. CASE ~ neg[s]
    <3>1. port' = [port EXCEPT ![s] = Flushed(port[s])] /\ wire' = wire
      BY <2>1 DEF EcpLoop, EvbInv, LinkInv
    <3>2. Flushed(port[s]) \in FreshPort(S!Tlv)
      BY <1>0, RxType
    <3> QED BY <3>1, <3>2 DEF EvbInv, LinkInv
  <2>2. CASE neg[s]
    <3> DEFINE p == ecp_tx_loop_timer_handler(port[s])
               q == [p EXCEPT !.rx = IF @ = << >> THEN @ ELSE Tail(@)]
               f == Request(Head(port[s].tx))
    <3>1. p \in FreshPort(S!Tlv)
      BY <1>0, TxLoopType
    <3> HIDE DEF p
    <3>2. q \in FreshPort(S!Tlv)
      BY <3>1, RxType
    <3>3. /\ port' = [port EXCEPT ![s] = q]
          /\ wire' = IF TxSends(port[s]) THEN [wire EXCEPT ![Peer(s)] = Append(@, f)] ELSE wire
      BY <2>2 DEF EcpLoop, p
    <3> HIDE DEF q
    <3>4. TxSends(port[s]) => f \in Frame
      <4>1. TxSends(port[s]) => Head(port[s].tx) \in FreshPdu(S!Tlv)
        BY <1>0, RxType DEF TxSends
      <4> QED BY <4>1 DEF Frame, Request, FreshPdu, EcpPduType
    <3> HIDE DEF f
    <3>5. TxSends(port[s]) => Append(wire[Peer(s)], f) \in Seq(Frame)
      BY <1>0, <3>4 DEF EvbInv, LinkInv
    <3> QED BY <1>0, <3>2, <3>3, <3>5 DEF EvbInv, LinkInv
  <2> QED BY <2>1, <2>2
<1> QED BY <1>0, <1>1, <1>2 DEF EvbInv, RestType

\* The link and the negotiation.
LEMMA LinkKeeps ==
  ASSUME EvbInv, NEW s \in Systems,
         ReceiveFrame(s) \/ LoseFrame(s) \/ NegotiationLost(s) \/ NegotiationWon(s)
  PROVE  EvbInv'
<1>0. /\ Peer(s) \in Systems /\ Peer(s) # s
      /\ port[s] \in FreshPort(S!Tlv) /\ wire[s] \in Seq(Frame) /\ wire[Peer(s)] \in Seq(Frame)
  BY DEF EvbInv, LinkInv, Systems, Peer
<1>1. ASSUME wire[s] # << >> PROVE Head(wire[s]) \in Frame /\ Tail(wire[s]) \in Seq(Frame)
  BY <1>0, <1>1
<1>2. CASE ReceiveFrame(s)
  <2> DEFINE f == Head(wire[s])
  <2>1. f \in Frame /\ Tail(wire[s]) \in Seq(Frame)
    BY <1>1, <1>2 DEF ReceiveFrame
  <2>2. CASE f.oper = "REQUEST"
    <3>1. f.num \in 1 .. SeqNumMax - 1 /\ f.data \in S!Tlv
      BY <2>1, <2>2 DEF Frame
    <3>2. Ack(f.num) \in Frame
      BY <3>1 DEF Ack, Frame
    <3>3. Append(wire[Peer(s)], Ack(f.num)) \in Seq(Frame)
      BY <1>0, <3>2
    <3>4. list_EcpULPDUrx_insert(port[s], f.data) \in FreshPort(S!Tlv)
      BY <1>0, <3>1, RxType
    <3>5. /\ port' = [port EXCEPT ![s] = list_EcpULPDUrx_insert(port[s], f.data)]
          /\ wire' = [wire EXCEPT ![s] = Tail(wire[s]),
                                  ![Peer(s)] = Append(wire[Peer(s)], Ack(f.num))]
      BY <1>0, <1>2, <2>2 DEF ReceiveFrame, EvbInv, LinkInv
    <3> HIDE DEF f
    <3>6. ASSUME NEW x \in Seq(Frame), NEW y \in Seq(Frame)
          PROVE  [wire EXCEPT ![s] = x, ![Peer(s)] = y] \in [Systems -> Seq(Frame)]
      BY DEF EvbInv, LinkInv
    <3>7. wire' \in [Systems -> Seq(Frame)]
      BY <2>1, <3>3, <3>5, <3>6
    <3>8. port' \in [Systems -> FreshPort(S!Tlv)]
      BY <3>4, <3>5 DEF EvbInv, LinkInv
    <3> QED BY <1>2, <3>7, <3>8 DEF ReceiveFrame, EvbInv, LinkInv, RestType, StationInv, BridgeInv
  <2>3. CASE f.oper # "REQUEST"
    <3>1. /\ port' = [port EXCEPT ![s] = AckReceived(port[s], f.num)]
          /\ wire' = [wire EXCEPT ![s] = Tail(wire[s])]
      BY <1>0, <1>2, <2>3 DEF ReceiveFrame, EvbInv, LinkInv
    <3>2. AckReceived(port[s], f.num) \in FreshPort(S!Tlv)
      BY <1>0, AckType
    <3>3. LinkInv'
      BY <2>1, <3>1, <3>2 DEF EvbInv, LinkInv
    <3> QED BY <1>2, <3>3 DEF ReceiveFrame, EvbInv, RestType, StationInv, BridgeInv
  <2> QED BY <2>2, <2>3
<1>3. ASSUME used' = [used EXCEPT !.fault = @ + 1], used.fault < MaxFault
      PROVE  /\ used' \in [call : 0 .. MaxCall, fault : 0 .. MaxFault, raced : BOOLEAN]
             /\ used'.raced = used.raced
  <2>1. used.fault + 1 \in 0 .. MaxFault
    BY <1>3, EvbAssumption DEF EvbInv, RestType
  <2>2. used' = [used EXCEPT !.fault = used.fault + 1]
    BY <1>3 DEF EvbInv, RestType
  <2>3. ASSUME NEW n \in 0 .. MaxFault
        PROVE  LET u == [used EXCEPT !.fault = n]
               IN  /\ u \in [call : 0 .. MaxCall, fault : 0 .. MaxFault, raced : BOOLEAN]
                   /\ u.raced = used.raced
    BY DEF EvbInv, RestType
  <2> QED BY <2>1, <2>2, <2>3
<1>4. CASE LoseFrame(s)
  <2>1. wire' \in [Systems -> Seq(Frame)]
    BY <1>1, <1>4 DEF LoseFrame, EvbInv, LinkInv
  <2> QED BY <1>3, <1>4, <2>1 DEF LoseFrame, MayFail, EvbInv, LinkInv, RestType, StationInv, BridgeInv
<1>5. CASE NegotiationLost(s)
  BY <1>3, <1>5 DEF NegotiationLost, MayFail, EvbInv, LinkInv, RestType, StationInv, BridgeInv
<1>6. CASE NegotiationWon(s)
  BY <1>6 DEF NegotiationWon, EvbInv, LinkInv, RestType, StationInv, BridgeInv
<1> QED BY <1>2, <1>4, <1>5, <1>6

\* The invariant holds in every behaviour.
LEMMA EvbInvariant == Spec => []EvbInv
<1>1. Init => EvbInv
  <2> SUFFICES ASSUME Init PROVE EvbInv
    OBVIOUS
  <2>1. ecp_port_init \in FreshPort(S!Tlv)
    BY EcpAssumption DEF ecp_port_init, FreshPort
  <2>2. LinkInv
    BY <2>1 DEF Init, LinkInv, Systems
  <2>3. StationInv(st, mgr, used.raced)
    BY EvbAssumption DEF Init, StationInv, S!vdp_port_init_s, S!StationType
  <2>4. BridgeInv(br)
    BY EvbAssumption DEF Init, BridgeInv, B!vdp_port_init_b, B!BridgeType
  <2>5. RestType
    BY EvbAssumption DEF Init, RestType
  <2> QED BY <2>2, <2>3, <2>4, <2>5 DEF EvbInv
<1>2. EvbInv /\ [Next]_vars => EvbInv'
  <2> SUFFICES ASSUME EvbInv, [Next]_vars PROVE EvbInv'
    OBVIOUS
  <2>1. CASE UNCHANGED vars
    BY <2>1 DEF vars, EvbInv, LinkInv, RestType, StationInv, BridgeInv
  <2>2. CASE Next
    BY <2>2, ExecProfileKeeps, ExecCommandKeeps, DeleteKeeps, StationVdpKeeps,
       BridgeVdpKeeps, EcpLoopKeeps, LinkKeeps DEF Next
  <2> QED BY <2>1, <2>2
<1> QED BY <1>1, <1>2, PTL DEF Spec

\* Every variable keeps its type: sequence numbers stay in their range where they wrap,
\* the tries of a PDU within their limit, the timers of VDP within what was calculated,
\* and every TLV that is built carries an association type and an existing profile.
THEOREM EvbTypeCorrect == Spec => []TypeOK
<1>1. EvbInv => TypeOK
  <2> SUFFICES ASSUME EvbInv PROVE TypeOK
    OBVIOUS
  <2>1. port \in [Systems -> PortType(S!Tlv)]
    BY FreshIsPort DEF EvbInv, LinkInv
  <2> QED BY <2>1 DEF EvbInv, TypeOK, LinkInv, RestType, StationInv, BridgeInv
<1> QED BY <1>1, EvbInvariant, PTL

\* No filter outlives its VSI (rel_all, vdp_b_can_destory_vsi of vdp_b.c).
THEOREM FilterCorrect == Spec => []FilterHasVsi
<1>1. EvbInv => FilterHasVsi
  BY DEF EvbInv, BridgeInv, FilterHasVsi
<1> QED BY <1>1, EvbInvariant, PTL

\* A command whose profile is gone lost it to a loop handler that ran between the two
\* calls of ExecVDPCmd4VSI (vdp_can_destroy_profile of vdp_s.c).
THEOREM ProfileRaceCorrect == Spec => []ProfileLostOnlyByRace
<1>1. EvbInv => ProfileLostOnlyByRace
  BY DEF EvbInv, StationInv, ProfileLostOnlyByRace
<1> QED BY <1>1, EvbInvariant, PTL
=============================================================================
