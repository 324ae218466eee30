--------------------------------- MODULE Evb ---------------------------------
(* Edge virtual bridging (network/protocol): a station and a bridge that       *)
(* negotiate one VSI by VDP over ECP over an Ethernet link that loses frames.  *)
(*                                                                             *)
(* A VM manager gives commands to the station.  The ECP and VDP loop handlers  *)
(* of both systems and the receiving threads run under one lock per system     *)
(* (g_tMainThrdLock); the manager's calls do not take it, so a loop handler    *)
(* may come between the two calls of ExecVDPCmd4VSI.                           *)
(*                                                                             *)
(* Time passes in rounds: the handlers are started by periodic timers, so in a *)
(* round each of the four runs once, in any order.  A frame takes less than    *)
(* the time between two handlers.  The manager acts, and the negotiation       *)
(* changes, between two rounds: both commute with all handlers but those of    *)
(* their own system, and these meet in every order at the end of a round.      *)
EXTENDS Integers, Sequences, EcpPort

CONSTANTS
    ReinitKeepAlive,    \* negotiated RKA, in rounds
    ResourceWaitDelay,  \* negotiated RWD, in rounds
    Commands,           \* what the manager may ask for
    MaxProfile,         \* versions of the profile
    MaxCall,            \* bound: calls of the manager
    Faults,             \* what may go wrong: some of FaultKinds
    MaxFault,           \* bound: how often
    Nil

(* evbcalc_vdpSRespWaitDelay and evbcalc_vdpBtoutKeepAlive.                    *)
OneAndAHalf(x) == x + x \div 2
evbcalc_vdpSRespWaitDelay ==
    OneAndAHalf(ResourceWaitDelay + (2 * MaxTries + 1) * AckTimerInit)
evbcalc_vdpBtoutKeepAlive ==
    OneAndAHalf(ReinitKeepAlive + (2 * MaxTries + 1) * AckTimerInit)

S == INSTANCE VdpStation WITH RespWaitDelay <- evbcalc_vdpSRespWaitDelay
B == INSTANCE VdpBridge WITH ToutKeepAlive <- evbcalc_vdpBtoutKeepAlive

ASSUME EvbAssumption ==
    /\ ReinitKeepAlive \in Nat \ {0}
    /\ ResourceWaitDelay \in Nat \ {0}
    /\ MaxProfile \in Nat \ {0}
    /\ Commands \subseteq {"PRE", "ASSOC", "DEASSOC"}
    /\ Faults \subseteq {"loss", "negotiation", "filter"}
    /\ MaxCall \in Nat /\ MaxFault \in Nat
    /\ Nil \notin S!StationVsi \cup S!PoolItem \cup B!BridgeVsi \cup S!TlvTypes

VARIABLES
    st,         \* the station: pool, profile, vsi
    br,         \* the bridge: vsi, filter
    port,       \* the ECP ports of the two systems
    wire,       \* frames under way to each system
    neg,        \* evbtlvStatus = EVB_TLV_STATUS_SUCC on each system
    mgr,        \* the command between the manager's two calls, or Nil
    todo,       \* handlers that have not run in this round
    used        \* how often each bounded event has happened, and raced

vars == << st, br, port, wire, neg, mgr, todo, used >>

Systems == {"S", "B"}
Peer(s) == IF s = "S" THEN "B" ELSE "S"
Handlers == Systems \X {"ecp", "vdp"}

Frame == [oper : {"REQUEST"}, num : 1 .. SeqNumMax - 1, data : S!Tlv]
         \cup [oper : {"ACK"}, num : 1 .. SeqNumMax - 1]

Init ==
    /\ st = S!vdp_port_init_s
    /\ br = B!vdp_port_init_b
    /\ port = [s \in Systems |-> ecp_port_init]
    /\ wire = [s \in Systems |-> << >>]
    /\ neg = [s \in Systems |-> TRUE]
    /\ mgr = Nil
    /\ todo = Handlers
    /\ used = [call |-> 0, fault |-> 0, raced |-> FALSE]

(* A frame is lost, the EVB TLV negotiation fails, or a filter cannot be added. *)
FaultKinds == {"loss", "negotiation", "filter"}
MayFail(kind) == kind \in Faults /\ used.fault < MaxFault

BetweenRounds == todo = Handlers

(* Handler h of system s runs; the last of a round starts the next one.  The   *)
(* two of a system run one after the other: its VDP handler commutes with      *)
(* both of the peer.                                                           *)
Runs(s, h) ==
    /\ << s, h >> \in todo
    /\ \A x \in Systems : wire[x] = << >>
    /\ \A g \in {"ecp", "vdp"} : << Peer(s), g >> \in todo <=>
                                << Peer(s), "ecp" >> \in todo
    /\ todo' = IF todo = {<< s, h >>} THEN Handlers ELSE todo \ {<< s, h >>}

-----------------------------------------------------------------------------
(* The manager: ExecVDPCmd4VSI writes the profile, then the command.           *)

ExecProfile(type, ver) ==
    /\ BetweenRounds /\ mgr = Nil /\ used.call < MaxCall
    /\ ver <= used.call + 1     \* versions are numbered as they are first used
    /\ mgr' = type
    /\ st' = S!vsiProfile_addvsivlanmac(st, ver)
    /\ used' = [used EXCEPT !.call = @ + 1]
    /\ UNCHANGED << br, port, wire, neg, todo >>

ExecCommand(garbage) ==
    /\ BetweenRounds /\ mgr # Nil
    /\ mgr' = Nil
    /\ st' = S!vsiCmd_pool_add(st, mgr, garbage)
    /\ UNCHANGED << br, port, wire, neg, todo, used >>

Delete ==
    /\ BetweenRounds /\ mgr = Nil /\ used.call < MaxCall
    /\ st' = S!vdp_delete_vsi_and_cmdPool(st)
    /\ used' = [used EXCEPT !.call = @ + 1]
    /\ UNCHANGED << br, port, wire, neg, mgr, todo >>

-----------------------------------------------------------------------------
(* The loop handlers.                                                          *)

StationVdp ==
    /\ Runs("S", "vdp")
    /\ IF ~ neg["S"]
       THEN /\ st' = [st EXCEPT !.vsi = Nil]
            /\ UNCHANGED << port, used >>
       ELSE LET s == S!StationHousekeeping(st)
                step == S!StationVsiTimer(s.vsi, s.profile)
                tlv == [type |-> s.vsi.cfg, ver |-> step.sent,
                        ack |-> FALSE, err |-> FALSE]
            IN  IF s.vsi = Nil
                THEN /\ st' = s
                     /\ used' = [used EXCEPT !.raced =
                                   @ \/ (mgr # Nil /\ st.profile # 0 /\ s.profile = 0)]
                     /\ UNCHANGED port
                ELSE /\ st' = [s EXCEPT !.vsi = step.vsi]
                     /\ port' = IF step.sent = 0 THEN port
                                ELSE [port EXCEPT !["S"] = list_EcpULPDUtx_insert(@, tlv)]
                     /\ UNCHANGED used
    /\ UNCHANGED << br, wire, neg, mgr >>

BridgeVdp(addFails) ==
    /\ Runs("B", "vdp")
    /\ addFails => MayFail("filter")
    /\ IF ~ neg["B"]
       THEN /\ br' = B!NoSupport(br)
            /\ ~ addFails
            /\ UNCHANGED << port, used >>
       ELSE LET step == B!vdp_b_loop_timer_handler(br, addFails)
            IN  /\ addFails => step # B!vdp_b_loop_timer_handler(br, FALSE)
                /\ br' = step.br
                /\ port' = IF step.resp = Nil THEN port
                           ELSE [port EXCEPT !["B"] = list_EcpULPDUtx_insert(@, step.resp)]
                /\ used' = IF addFails THEN [used EXCEPT !.fault = @ + 1] ELSE used
    /\ UNCHANGED << st, wire, neg, mgr >>

(* The upper layer takes the first PDU of the receive list.                    *)
VdpReceives(s) ==
    IF port[s].rx = << >> \/ ~ neg[s] THEN UNCHANGED << st, br >>
    ELSE LET tlv == Head(port[s].rx)
         IN  IF s = "S"
             THEN /\ st' = [st EXCEPT !.vsi = S!vdp_s_rx_ReceiveFrame(@, tlv)]
                  /\ UNCHANGED br
             ELSE /\ br' = B!vdp_b_rx_ReceiveFrame(br, tlv)
                  /\ UNCHANGED st

(* ecp_loop_timeout_handler: the send list, then the receive list.             *)
EcpLoop(s) ==
    /\ Runs(s, "ecp")
    /\ IF ~ neg[s]
       THEN /\ port' = [port EXCEPT ![s] = Flushed(@)]
            /\ UNCHANGED wire
       ELSE LET p == ecp_tx_loop_timer_handler(port[s])
            IN  /\ port' = [port EXCEPT ![s] =
                              [p EXCEPT !.rx = IF @ = << >> THEN @ ELSE Tail(@)]]
                /\ wire' = IF TxSends(port[s])
                           THEN [wire EXCEPT ![Peer(s)] =
                                   Append(@, Request(Head(port[s].tx)))]
                           ELSE wire
    /\ VdpReceives(s)
    /\ UNCHANGED << neg, mgr, used >>

-----------------------------------------------------------------------------
(* The link and the negotiation below.                                         *)

(* ecp_rx_ReceiveFrame.                                                        *)
ReceiveFrame(s) ==
    /\ wire[s] # << >>
    /\ LET f == Head(wire[s])
       IN  IF f.oper = "REQUEST"
           THEN /\ port' = [port EXCEPT ![s] = list_EcpULPDUrx_insert(@, f.data)]
                /\ wire' = [wire EXCEPT ![s] = Tail(@),
                                        ![Peer(s)] = Append(@, Ack(f.num))]
           ELSE /\ port' = [port EXCEPT ![s] = AckReceived(@, f.num)]
                /\ wire' = [wire EXCEPT ![s] = Tail(@)]
    /\ UNCHANGED << st, br, neg, mgr, todo, used >>

LoseFrame(s) ==
    /\ wire[s] # << >> /\ MayFail("loss")
    /\ wire' = [wire EXCEPT ![s] = Tail(@)]
    /\ used' = [used EXCEPT !.fault = @ + 1]
    /\ UNCHANGED << st, br, port, neg, mgr, todo >>

(* LLDP's EVB TLV exchange (not modelled) fails on one system, or succeeds.    *)
NegotiationLost(s) ==
    /\ BetweenRounds /\ neg[s] /\ MayFail("negotiation")
    /\ neg' = [neg EXCEPT ![s] = FALSE]
    /\ used' = [used EXCEPT !.fault = @ + 1]
    /\ UNCHANGED << st, br, port, wire, mgr, todo >>

NegotiationWon(s) ==
    /\ BetweenRounds /\ ~ neg[s]
    /\ neg' = [neg EXCEPT ![s] = TRUE]
    /\ UNCHANGED << st, br, port, wire, mgr, todo, used >>

Next ==
    \/ \E type \in Commands, ver \in 1 .. MaxProfile : ExecProfile(type, ver)
    \/ \E garbage \in BOOLEAN : ExecCommand(garbage)
    \/ Delete
    \/ StationVdp
    \/ \E addFails \in BOOLEAN : BridgeVdp(addFails)
    \/ \E s \in Systems : EcpLoop(s) \/ ReceiveFrame(s) \/ LoseFrame(s)
    \/ \E s \in Systems : NegotiationLost(s) \/ NegotiationWon(s)

Spec == Init /\ [][Next]_vars

(* The periodic timers go on running the handlers, each once a round, the link *)
(* delivers what it does not lose, and the manager goes on to its second call. *)
SystemsRun ==
    \/ StationVdp
    \/ \E addFails \in BOOLEAN : BridgeVdp(addFails)
    \/ \E s \in Systems : EcpLoop(s) \/ ReceiveFrame(s)

FairSpec ==
    /\ Spec
    /\ WF_vars(SystemsRun)
    /\ SF_vars(\E garbage \in BOOLEAN : ExecCommand(garbage))

-----------------------------------------------------------------------------
(* All variables have their types.                                             *)
TypeOK ==
    /\ st \in S!StationType
    /\ br \in B!BridgeType
    /\ port \in [Systems -> PortType(S!Tlv)]
    /\ wire \in [Systems -> Seq(Frame)]
    /\ neg \in [Systems -> BOOLEAN]
    /\ mgr \in Commands \cup {Nil}
    /\ todo \subseteq Handlers
    /\ used \in [call : 0 .. MaxCall, fault : 0 .. MaxFault, raced : BOOLEAN]

(* No filter outlives its VSI: whatever was answered, lost or timed out, the   *)
(* bridge forwards for a MAC and VLAN only while an instance accounts for it   *)
(* (rel_all of vdp_b.c deletes the filter on every way out).                   *)
FilterHasVsi ==
    br.filter # 0 => br.vsi # Nil /\ br.vsi.state = "WAIT_STATION_CMD"

(* A command whose profile is gone never succeeds.  It happens only when a     *)
(* loop handler came between the two calls of ExecVDPCmd4VSI and destroyed the *)
(* profile that had no command yet (vdp_can_destroy_profile).                  *)
ProfileLostOnlyByRace ==
    st.pool # Nil /\ st.profile = 0 => used.raced

(* The bridge does not take a VSI for dead that the station holds for alive,   *)
(* as long as fewer things go wrong than a PDU is sent times: the time between *)
(* two keepalives and the tries of ECP fit into evbcalc_vdpBtoutKeepAlive.     *)
KeptAlive ==
    used.fault < MaxTries => ~ (B!BridgeTimesOut(br) /\ S!StationUp(st))

(* An acknowledgement ends the PDU it is meant for: of two PDUs that have been *)
(* sent under one number the younger comes first in the list, and the older is *)
(* no longer waiting (list_EcpULPDUtx of ecp.c, where the numbers wrap).       *)
AckIsUnambiguous ==
    \A s \in Systems : \A i, j \in DOMAIN port[s].tx :
        i < j /\ port[s].tx[i].num = port[s].tx[j].num =>
            port[s].tx[i].state = "IDLE" \/ port[s].tx[j].state = "WAIT_FOR_REQ"

Wanted == /\ st.pool # Nil /\ st.pool.type = "ASSOC" /\ st.profile # 0
          /\ neg["S"] /\ neg["B"]
Associated == S!StationUp(st) /\ br.filter = st.profile

(* Station and bridge agree in the end on an association that is still wanted, *)
(* and the bridge has the filter of the present profile, also when the profile *)
(* was changed while the association existed (vsiProfile_chg_notify_vdp).      *)
AssociationConverges == <>[]Wanted => <>[]Associated

(* In the end the bridge has released a VSI that nobody asks for any more,     *)
(* although vdp_delete_vsi_and_cmdPool sends it no DEASSOCIATE.                *)
ReleaseConverges ==
    <>[](st.pool = Nil /\ neg["B"]) => <>[](br = B!vdp_port_init_b)
=============================================================================
