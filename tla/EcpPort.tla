------------------------------- MODULE EcpPort -------------------------------
(* The edge control protocol on one port (network/protocol/ecp): the list of   *)
(* PDUs to send with their retransmission, the list of PDUs received and the   *)
(* sequence number.  ECP promises the upper layer (VDP) that a PDU is sent     *)
(* until it is acknowledged, at most MaxTries times.                           *)
(*                                                                             *)
(* Every function of ecp.c, ecp_tx.c and ecp_rx.c runs under g_tMainThrdLock,  *)
(* so each is one function of the port's state.  Both lists grow at the HEAD:  *)
(* LIST_FOREACH leaves its cursor NULL and the insertion falls into            *)
(* LIST_INSERT_HEAD, so the youngest PDU is sent, and handed up, first.        *)
EXTENDS Integers, Sequences

CONSTANTS
    SeqNumMax,      \* ECP_SEQ_NUM_MAX: sequence numbers are 1 .. SeqNumMax - 1
    MaxTries,       \* transmissions of one PDU, negotiated (ucEcpMaxRetries)
    AckTimerInit    \* runs of the loop handler between two of them

ASSUME EcpAssumption ==
    /\ SeqNumMax \in Nat /\ SeqNumMax > 1
    /\ MaxTries \in Nat \ {0}
    /\ AckTimerInit \in Nat \ {0}

(* A PDU of lstEcpULPDUtx.  The field sequence of the code is 0 exactly while  *)
(* tx_state is "IDLE" and is num afterwards.  INIT_TRANSMIT and COUNT_ERR are  *)
(* left within the call that enters them.                                      *)
TxStates == {"IDLE", "TRANSMIT", "WAIT_FOR_REQ"}

EcpPduType(Data) ==
    [num : 1 .. SeqNumMax - 1, state : TxStates,
     ackTimer : 0 .. AckTimerInit, retries : 0 .. MaxTries, data : Data]

PortType(Data) ==
    [seqNum : 0 .. SeqNumMax - 1, tx : Seq(EcpPduType(Data)), rx : Seq(Data)]

ecp_port_init == [seqNum |-> 0, tx |-> << >>, rx |-> << >>]

EcpSeqNumIncLate(num) == IF num >= SeqNumMax THEN 1 ELSE num + 1

EcpSeqNumInc(num) == IF num >= SeqNumMax - 1 THEN 1 ELSE num + 1

(* The upper layer hands a TLV over: a new sequence number and a new PDU.      *)
TxInsertSameNumber(port, data) ==
    LET num == EcpSeqNumInc(port.seqNum)
    IN  [port EXCEPT !.tx = << [num |-> num, state |-> "IDLE", ackTimer |-> 0,
                                retries |-> 0, data |-> data] >> \o @]

list_EcpULPDUtx_insert(port, data) ==
    LET num == EcpSeqNumInc(port.seqNum)
    IN  [port EXCEPT !.seqNum = num,
                     !.tx = << [num |-> num, state |-> "IDLE", ackTimer |-> 0,
                                retries |-> 0, data |-> data] >> \o @]

(* tr_ecpdu: a transmission starts the timer and counts as a try.              *)
tr_ecpdu(pdu) == [pdu EXCEPT !.state = "TRANSMIT", !.ackTimer = AckTimerInit,
                             !.retries = @ + 1]

wt_for_req(pdu) == [pdu EXCEPT !.state = "WAIT_FOR_REQ", !.retries = 0]

CountedDown(pdu) ==
    [pdu EXCEPT !.ackTimer = IF @ > 1 THEN @ - 1 ELSE 0]

(* The loop handler looks at the first PDU only.  TxSends: it transmits it;    *)
(* TxStep: what becomes of the port.                                           *)
TxSends(port) ==
    /\ port.tx # << >>
    /\ LET pdu == Head(port.tx)
       IN  \/ pdu.state = "IDLE"
           \/ /\ pdu.state = "TRANSMIT"
              /\ CountedDown(pdu).ackTimer = 0
              /\ pdu.retries < MaxTries

TxPduStep(pdu) ==
    CASE pdu.state = "IDLE" -> tr_ecpdu(pdu)
      [] pdu.state = "TRANSMIT" /\ CountedDown(pdu).ackTimer > 0 ->
            CountedDown(pdu)
      [] OTHER -> IF pdu.retries < MaxTries
                  THEN tr_ecpdu(CountedDown(pdu))
                  ELSE wt_for_req(CountedDown(pdu))

ecp_tx_loop_timer_handler(port) ==
    IF port.tx = << >> THEN port
    ELSE IF Head(port.tx).state = "WAIT_FOR_REQ"
         THEN [port EXCEPT !.tx = Tail(@)]
         ELSE [port EXCEPT !.tx[1] = TxPduStep(@)]

(* The frame a transmission puts on the wire.                                  *)
Request(pdu) == [oper |-> "REQUEST", num |-> pdu.num, data |-> pdu.data]
Ack(num) == [oper |-> "ACK", num |-> num]

(* A request is queued for the upper layer; the acknowledgement is sent in the *)
(* same call, before the upper layer has seen the PDU and whether or not it    *)
(* was received before.                                                        *)
list_EcpULPDUrx_insert(port, data) == [port EXCEPT !.rx = << data >> \o @]

(* An acknowledgement ends the first transmitted PDU of its number.            *)
AckReceived(port, num) ==
    LET hit == {i \in DOMAIN port.tx : /\ port.tx[i].state # "IDLE"
                                       /\ port.tx[i].num = num}
        first == CHOOSE i \in hit : \A j \in hit : i <= j
    IN  IF hit = {} \/ port.tx[first].state # "TRANSMIT" THEN port
        ELSE [port EXCEPT !.tx[first] = wt_for_req(@)]

(* Without a successful EVB TLV negotiation the loop handler throws both lists *)
(* away.                                                                       *)
Flushed(port) == [port EXCEPT !.tx = << >>, !.rx = << >>]
=============================================================================
