------------------------------ MODULE VdpBridge ------------------------------
(* The bridge half of the VSI discovery protocol (vdp_b.c, vsi_b_outFilter.c)  *)
(* for one VSI on one port: the instance that answers the station and the      *)
(* MAC/VLAN filter it installs for an association.  A TLV is as in VdpStation. *)
(* bridgeExit is never set in this repository, and resouceCmd never yields     *)
(* RR_KEEP or RR_TIMEOUT; their rows of the table are left out.                *)
EXTENDS Integers

CONSTANTS
    ToutKeepAlive,      \* runs of the loop handler without a keepalive
    MaxProfile,
    Nil

(* The states an instance can be in between two calls; BRIDGE_PROC, SUCCESS,   *)
(* DEASSOC, DEASSOCIATED, PROCESS_KEEPALIVE and RELEASE_ALL are left within    *)
(* the loop handler.                                                           *)
BridgeStates == {"IDLE", "INIT", "WAIT_STATION_CMD"}

BridgeCmd == [type : {"PRE", "ASSOC", "DEASSOC"}, ver : 1 .. MaxProfile]

BridgeVsi == [state : BridgeStates, rxCmd : BridgeCmd \cup {Nil},
              operCmd : BridgeCmd \cup {Nil}, wait : 0 .. ToutKeepAlive]

(* filter is the profile version whose MAC and VLAN are installed, 0 if none.  *)
BridgeType == [vsi : BridgeVsi \cup {Nil}, filter : 0 .. MaxProfile]

vdp_port_init_b == [vsi |-> Nil, filter |-> 0]

Cmd(tlv) == [type |-> tlv.type, ver |-> tlv.ver]
Resp(cmd, err) == [type |-> cmd.type, ver |-> cmd.ver, ack |-> TRUE, err |-> err]

(* A request is stored for the loop handler and replaces one that waits there; *)
(* an unknown VSI gets an instance.                                            *)
vdp_b_rx_ReceiveFrame(br, tlv) ==
    CASE tlv.ack -> br
      [] ~ tlv.ack /\ br.vsi # Nil -> [br EXCEPT !.vsi.rxCmd = Cmd(tlv)]
      [] OTHER -> [br EXCEPT !.vsi = [state |-> "IDLE", rxCmd |-> Cmd(tlv),
                                      operCmd |-> Nil, wait |-> 0]]

-----------------------------------------------------------------------------
(* The loop handler.  A step is the new state and the response, Nil if none.   *)

NoResp(br) == [br |-> br, resp |-> Nil]

RelAllButFilter(br) == [br EXCEPT !.vsi = Nil]

(* rel_all and vdp_b_can_destory_vsi: filter and instance go.                  *)
rel_all(br) == [br EXCEPT !.vsi = Nil, !.filter = 0]

wt_s_cmd_b(vsi) == [vsi EXCEPT !.state = "WAIT_STATION_CMD", !.wait = ToutKeepAlive]

suc(br) ==
    LET cmd == br.vsi.rxCmd
    IN  [br |-> [br EXCEPT !.vsi = wt_s_cmd_b([@ EXCEPT !.operCmd = cmd,
                                                       !.rxCmd = Nil])],
         resp |-> Resp(cmd, FALSE)]

(* b_proc: an association installs the filter, which may fail; a failure is    *)
(* answered with an error and releases the VSI like a de-association.          *)
b_proc(br, addFails) ==
    LET cmd == br.vsi.rxCmd
    IN  CASE cmd.type = "DEASSOC" ->
                [br |-> rel_all(br), resp |-> Resp(cmd, FALSE)]
          [] cmd.type = "ASSOC" /\ addFails ->
                [br |-> rel_all(br), resp |-> Resp(cmd, TRUE)]
          [] cmd.type = "ASSOC" /\ ~ addFails ->
                suc([br EXCEPT !.filter = cmd.ver])
          [] OTHER -> suc(br)

(* deassoced: the notice is built from the filter entry, and is not sent when  *)
(* there is none.                                                              *)
deassoced(br) ==
    [br |-> rel_all(br),
     resp |-> IF br.filter = 0 THEN Nil
              ELSE Resp([type |-> "DEASSOC", ver |-> br.filter], FALSE)]

ProcKeepNoRestart(br) ==
    [br |-> [br EXCEPT !.vsi.rxCmd = Nil], resp |-> Resp(br.vsi.operCmd, FALSE)]

proc_k(br) ==
    [br |-> [br EXCEPT !.vsi = wt_s_cmd_b([@ EXCEPT !.rxCmd = Nil])],
     resp |-> Resp(br.vsi.operCmd, FALSE)]

BridgeClockStands(br) == br

BridgeCountdown(br) == [br EXCEPT !.vsi.wait = IF @ > 1 THEN @ - 1 ELSE 0]

BridgeTimesOut(br) ==
    /\ br.vsi # Nil
    /\ br.vsi.state = "WAIT_STATION_CMD"
    /\ BridgeCountdown(br).vsi.wait = 0

vdp_b_loop_timer_handler(br, addFails) ==
    CASE br.vsi = Nil -> NoResp(br)
      [] br.vsi # Nil ->
         CASE br.vsi.state = "IDLE" -> NoResp([br EXCEPT !.vsi.state = "INIT"])
           [] br.vsi.state = "INIT" /\ br.vsi.rxCmd # Nil -> b_proc(br, addFails)
           [] BridgeTimesOut(br) -> deassoced(br)
           [] br.vsi.state = "WAIT_STATION_CMD" /\ ~ BridgeTimesOut(br) ->
                LET b == BridgeCountdown(br)
                IN  CASE b.vsi.rxCmd = Nil -> NoResp(b)
                      [] b.vsi.rxCmd # Nil /\ b.vsi.rxCmd = b.vsi.operCmd -> proc_k(b)
                      [] OTHER -> b_proc(b, addFails)
           [] OTHER -> NoResp(br)

NoSupport(br) == IF br.vsi = Nil THEN br ELSE rel_all(br)
=============================================================================
