----------------------------- MODULE VdpStation -----------------------------
(* The station half of the VSI discovery protocol (vdp_s.c, vdp_vm.c, the      *)
(* command pool of vdp.c and vsi_profile.c) for one VSI on one port: the       *)
(* command somebody asked for, the profile that describes the VSI, and the     *)
(* instance that negotiates it with the bridge.                                *)
(*                                                                             *)
(* A TLV is [type, ver, ack, err]: the association type, which version of the  *)
(* profile it was built from, whether it is a response and whether its reason  *)
(* field holds an error.  The branches of vdp_s_rx_ReceiveFrame on the keep    *)
(* bit are left out: the bridge of this repository never sets it.              *)
EXTENDS Integers

CONSTANTS
    RespWaitDelay,      \* runs of the loop handler a response is waited for
    ReinitKeepAlive,    \* runs between a response and the next keepalive
    MaxProfile,         \* versions of the profile
    Nil                 \* no item, no instance

TlvTypes == {"PRE", "ASSOC", "DEASSOC"}

Tlv == [type : TlvTypes, ver : 1 .. MaxProfile, ack : BOOLEAN, err : BOOLEAN]

(* PRE_NEW and ASSOC_NEW are left within the call unless there is no sysCmd.   *)
StationStates == {"IDLE", "INIT", "STATION_PROC", "PREASSOC_NEW", "ASSOC_NEW",
                  "WAIT_SYS_CMD", "TRANSMIT_KEEPALIVE"}

(* An instance; sysCmd and operCmd are kept as the profile version of the TLV  *)
(* (0: NULL), their type is always cfg.                                        *)
StationVsi ==
    [state : StationStates, cfg : TlvTypes, newCmd : BOOLEAN,
     wait : 0 .. RespWaitDelay + ReinitKeepAlive,
     sysCmd : 0 .. MaxProfile, operCmd : 0 .. MaxProfile, profile_chg : BOOLEAN]

PoolItem == [type : TlvTypes, newFlag : BOOLEAN]

StationType == [pool : PoolItem \cup {Nil}, profile : 0 .. MaxProfile,
                vsi : StationVsi \cup {Nil}]

vdp_port_init_s == [pool |-> Nil, profile |-> 0, vsi |-> Nil]

-----------------------------------------------------------------------------
(* The interface to the VM manager.                                            *)

vsiProfile_chg_notify_vdp(vsi) ==
    IF vsi = Nil THEN Nil ELSE [vsi EXCEPT !.profile_chg = TRUE]

(* The profile is created or its filter replaced; the instance is told.        *)
vsiProfile_addvsivlanmac(st, ver) ==
    [st EXCEPT !.profile = ver, !.vsi = vsiProfile_chg_notify_vdp(@)]

(* newFlag of a new item is not initialized: garbage is what the memory held.  *)
vsiCmd_pool_add(st, type, garbage) ==
    IF st.pool = Nil
    THEN [st EXCEPT !.pool = [type |-> type, newFlag |-> garbage]]
    ELSE IF st.pool.type = type THEN st
         ELSE [st EXCEPT !.pool = [type |-> type, newFlag |-> TRUE]]

(* Item and instance go at once; the profile goes with the next loop.          *)
vdp_delete_vsi_and_cmdPool(st) == [st EXCEPT !.pool = Nil, !.vsi = Nil]

-----------------------------------------------------------------------------
(* The state machine.  A step is a pair of the instance and the versions of    *)
(* the TLVs it handed to ECP (0: none).                                        *)

NoTlv(vsi) == [vsi |-> vsi, sent |-> 0]

NewVsi(type) ==
    [state |-> "IDLE", cfg |-> type, newCmd |-> TRUE, wait |-> 0,
     sysCmd |-> 0, operCmd |-> 0, profile_chg |-> FALSE]

init_s(vsi) == [vsi EXCEPT !.state = "INIT", !.sysCmd = 0, !.operCmd = 0]

(* The TLV is built from the profile; without one nothing is sent.             *)
s_proc(vsi, profile) ==
    [vsi |-> [vsi EXCEPT !.newCmd = FALSE, !.state = "STATION_PROC",
                         !.sysCmd = profile, !.wait = RespWaitDelay,
                         !.profile_chg = @ /\ profile = 0],
     sent |-> profile]

wt_s_cmd_s(vsi) == [vsi EXCEPT !.state = "WAIT_SYS_CMD", !.wait = ReinitKeepAlive]

(* pre_new, ass_new and ass_cmplt: the confirmed command becomes operCmd.      *)
(* Without a sysCmd they return early and leave the instance where it is.      *)
new_s(vsi, state) ==
    IF vsi.sysCmd = 0 THEN [vsi EXCEPT !.state = state, !.operCmd = 0]
    ELSE wt_s_cmd_s([vsi EXCEPT !.operCmd = vsi.sysCmd, !.newCmd = FALSE])

TKeepStale(vsi, profile) ==
    [vsi |-> [vsi EXCEPT !.state = "TRANSMIT_KEEPALIVE", !.wait = RespWaitDelay],
     sent |-> vsi.operCmd]

(* A changed profile is sent with the keepalive.  If it is gone the function   *)
(* returns before it has set the timer.                                        *)
t_keep(vsi, profile) ==
    LET v == [vsi EXCEPT !.state = "TRANSMIT_KEEPALIVE"]
    IN  IF ~ vsi.profile_chg
        THEN [vsi |-> [v EXCEPT !.wait = RespWaitDelay], sent |-> vsi.operCmd]
        ELSE IF profile = 0 THEN NoTlv([v EXCEPT !.operCmd = 0])
        ELSE [vsi |-> [v EXCEPT !.operCmd = profile, !.profile_chg = FALSE,
                                !.wait = RespWaitDelay],
              sent |-> profile]

StationCountdown(vsi) == [vsi EXCEPT !.wait = IF @ > 1 THEN @ - 1 ELSE 0]

(* The part of vdp_s_loop_timer_handler that is done for every instance.       *)
StationVsiTimer(vsi, profile) ==
    LET v == StationCountdown(vsi)
        expired == [v EXCEPT !.newCmd = FALSE]
    IN  CASE vsi.state = "IDLE" -> NoTlv(init_s(vsi))
          [] vsi.newCmd /\ vsi.state \in {"INIT", "WAIT_SYS_CMD"} ->
                s_proc(vsi, profile)
          [] OTHER ->
                CASE v.wait > 0 -> NoTlv(v)
                  [] v.wait = 0 /\ v.state = "WAIT_SYS_CMD" -> t_keep(expired, profile)
                  [] v.wait = 0 /\ v.state \in {"STATION_PROC", "TRANSMIT_KEEPALIVE"} ->
                        NoTlv(init_s(expired))
                  [] OTHER -> NoTlv(expired)

(* vdp_find_cancelCmd_vsi and vdp_s_can_destory_vsi.                           *)
Destroyed(st) ==
    /\ st.vsi # Nil
    /\ \/ st.vsi.state = "INIT" /\ ~ st.vsi.newCmd
       \/ st.pool # Nil /\ st.pool.type # st.vsi.cfg

vdp_s_can_destory_vsi(st) == IF Destroyed(st) THEN [st EXCEPT !.vsi = Nil] ELSE st

vdp_can_destroy_cmdPool(st) ==
    IF /\ st.pool # Nil /\ st.pool.type = "DEASSOC" /\ ~ st.pool.newFlag
       /\ st.vsi = Nil
    THEN [st EXCEPT !.pool = Nil]
    ELSE st

CanDestroyProfileWithVsi(st) ==
    IF st.vsi = Nil THEN [st EXCEPT !.profile = 0] ELSE st

vdp_can_destroy_profile(st) ==
    IF st.pool = Nil THEN [st EXCEPT !.profile = 0] ELSE st

vdp_cmdPool_newvsi(st) ==
    IF st.pool = Nil THEN st
    ELSE [st EXCEPT !.pool.newFlag = FALSE,
                    !.vsi = IF @ = Nil THEN NewVsi(st.pool.type) ELSE @]

(* vdp_s_loop_timer_handler up to the instances.                               *)
StationHousekeeping(st) ==
    vdp_cmdPool_newvsi(vdp_can_destroy_profile(vdp_can_destroy_cmdPool(
        vdp_s_can_destory_vsi(st))))

(* A response that reaches the instance.                                       *)
vdp_s_rx_ReceiveFrame(vsi, tlv) ==
    CASE ~ tlv.ack \/ vsi = Nil -> vsi
      [] tlv.ack /\ vsi # Nil ->
         CASE tlv.type = "DEASSOC"
              /\ vsi.state \in {"STATION_PROC", "WAIT_SYS_CMD", "TRANSMIT_KEEPALIVE"} ->
                 init_s(vsi)
           [] vsi.state = "STATION_PROC" /\ tlv.type # "DEASSOC" ->
                 IF tlv.type # vsi.cfg THEN init_s(vsi)
                 ELSE IF tlv.err THEN vsi
                 ELSE new_s(vsi, IF tlv.type = "PRE" THEN "PREASSOC_NEW"
                                                    ELSE "ASSOC_NEW")
           [] vsi.state = "TRANSMIT_KEEPALIVE" /\ tlv.type = vsi.cfg
              /\ tlv.type # "DEASSOC" ->
                 IF tlv.err THEN init_s(vsi) ELSE wt_s_cmd_s(vsi)
           [] OTHER -> vsi

(* vdp_lookup_vsiState, success: the manager is told that the VSI is up.       *)
StationUp(st) ==
    st.vsi # Nil /\ st.vsi.state \in {"WAIT_SYS_CMD", "TRANSMIT_KEEPALIVE"}
=============================================================================
