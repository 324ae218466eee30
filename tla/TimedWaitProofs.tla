--------------------------- MODULE TimedWaitProofs ---------------------------
(***************************************************************************)
(* Theorems about TimedWait for any frames and any number of calls.        *)
(***************************************************************************)
EXTENDS TimedWait, SequenceTheorems, TLAPS

USE WaitAssumption DEF WAIT_FOREVER, LIMITED, SUCCESS, ERROR_TIME_OUT,
                       ERROR_TIMER_MESSAGE_INVALID, None

\* No frame is of the future, and one that an armed timer will make is not there yet.
QueueFlows ==
  \A i \in Syncs : frames[i].flow <= flow /\ (armed => frames[i].flow < flow)

\* Of the acceptable expiries there is at most one, in the queue or in the hand.
OnlyOne ==
  /\ \A i, j \in Syncs : frames[i].flow = flow /\ frames[j].flow = flow => i = j
  /\ place = "taken" /\ IsSync(hand) /\ hand.flow = flow =>
        ~armed /\ \A i \in Syncs : frames[i].flow # flow

\* The timer belongs to the limited call under way, or to the one that has returned
\* with its expiry.
OwnFlow ==
  /\ place # "idle" /\ limit = LIMITED => owned = flow
  /\ place # "idle" => result = None
  /\ result = ERROR_TIME_OUT => owned = flow /\ ~armed

WaitInv == TypeOK /\ QueueFlows /\ OnlyOne /\ OwnFlow

-----------------------------------------------------------------------------
\* Frames have a flow number, and places in the queue are numbers.
LEMMA SyncFlows ==
  ASSUME TypeOK
  PROVE  \A i \in Syncs : i \in Nat /\ i >= 1 /\ frames[i] \in Frames /\ frames[i].flow \in Nat
<1>1. frames \in Seq(Frames) /\ DOMAIN frames = 1..Len(frames) /\ Len(frames) \in Nat
  BY DEF TypeOK
<1>2. \A i \in 1..Len(frames) : frames[i] \in Frames
  BY <1>1
<1>3. \A f \in Frames : f.flow \in Nat
  BY DEF Frames
<1> QED BY <1>1, <1>2, <1>3 DEF Syncs

\* The expiries of a queue to which a frame is appended.
LEMMA AppendedSyncs ==
  ASSUME TypeOK, NEW f \in Frames, frames' = Append(frames, f)
  PROVE  /\ frames' \in Seq(Frames)
         /\ \A i \in Syncs' : \/ i \in Syncs /\ frames'[i] = frames[i]
                              \/ i = Len(frames) + 1 /\ frames'[i] = f /\ IsSync(f)
         /\ Len(frames) + 1 \notin Syncs
<1>1. frames \in Seq(Frames)
  BY DEF TypeOK
<1>2. /\ frames' \in Seq(Frames) /\ Len(frames') = Len(frames) + 1
      /\ frames'[Len(frames) + 1] = f
      /\ \A i \in 1..Len(frames) : frames'[i] = frames[i]
  BY <1>1, AppendProperties
<1>3. DOMAIN frames' = 1..(Len(frames) + 1) /\ DOMAIN frames = 1..Len(frames)
      /\ Len(frames) \in Nat
  BY <1>1, <1>2
<1> QED BY <1>2, <1>3 DEF Syncs, IsSync

\* The expiries of a queue whose first frame is taken.
LEMMA TakenSyncs ==
  ASSUME TypeOK, frames # <<>>, frames' = Tail(frames)
  PROVE  /\ frames' \in Seq(Frames) /\ Head(frames) \in Frames
         /\ Head(frames) = frames[1]
         /\ IsSync(Head(frames)) => 1 \in Syncs
         /\ \A i \in Syncs' : i \in Nat /\ i >= 1 /\ i + 1 \in Syncs /\ frames'[i] = frames[i + 1]
<1>1. frames \in Seq(Frames) /\ Len(frames) \in Nat /\ Len(frames) > 0
  BY DEF TypeOK
<1>2. /\ frames' \in Seq(Frames) /\ Head(frames) = frames[1] /\ Head(frames) \in Frames
      /\ Len(frames') = Len(frames) - 1
      /\ \A i \in 1..(Len(frames) - 1) : frames'[i] = frames[i + 1]
  BY <1>1
<1>3. DOMAIN frames' = 1..(Len(frames) - 1) /\ DOMAIN frames = 1..Len(frames)
  BY <1>1, <1>2
<1> QED BY <1>1, <1>2, <1>3 DEF Syncs, IsSync

\* The invariant holds at the start.
LEMMA InitWait == Init => WaitInv
<1> SUFFICES ASSUME Init PROVE WaitInv
  OBVIOUS
<1>1. Syncs = {}
  BY DEF Init, Syncs
<1>2. NoFrame \in Frames /\ <<>> \in Seq(Frames) /\ <<>> \in Seq(Msgs)
      /\ 0 \in 0..MaxWaits /\ 0 \in 0..0
  BY DEF NoFrame, SyncFrame, Frames
<1>3. TypeOK
  BY <1>2 DEF Init, TypeOK
<1> QED BY <1>1, <1>3 DEF Init, WaitInv, QueueFlows, OnlyOne, OwnFlow

\* Every step keeps it.
LEMMA NextWait ==
  ASSUME WaitInv, [Next]_vars
  PROVE  WaitInv'
<1> USE DEF WaitInv
<1>0. \A i \in Syncs : i \in Nat /\ i >= 1 /\ frames[i].flow \in Nat
  BY SyncFlows
<1>1. CASE Wait
  <2>1. PICK l \in {WAIT_FOREVER, LIMITED} :
          /\ limit' = l
          /\ IF l = LIMITED
             THEN flow' = FlowAfterSet /\ armed' = ArmedAfterSet /\ owned' = flow'
             ELSE UNCHANGED <<flow, armed, owned>>
    BY <1>1 DEF Wait
  <2>2. /\ place = "idle" /\ place' = "waiting" /\ result' = None
        /\ waits < MaxWaits /\ waits' = waits + 1
        /\ UNCHANGED <<frames, unsent, hand, sent, got>> /\ Syncs' = Syncs
    BY <1>1 DEF Wait, Syncs
  <2>3. flow' \in Nat /\ flow' >= flow
        /\ (limit' = LIMITED => flow' > flow /\ armed' = TRUE /\ owned' = flow')
        /\ (limit' # LIMITED => flow' = flow /\ armed' = armed /\ owned' = owned)
    BY <2>1 DEF FlowAfterSet, ArmedAfterSet, TypeOK
  <2>4. waits' \in 0..MaxWaits /\ owned' \in 0..flow'
    BY <2>2, <2>3 DEF TypeOK
  <2>5. TypeOK'
    BY <2>1, <2>2, <2>3, <2>4 DEF TypeOK, ArmedAfterSet
  <2>6. QueueFlows'
    BY <1>0, <2>1, <2>2, <2>3 DEF QueueFlows, TypeOK
  <2>7. OnlyOne'
    BY <1>0, <2>1, <2>2, <2>3 DEF QueueFlows, OnlyOne, TypeOK
  <2>8. OwnFlow'
    BY <2>1, <2>2, <2>3 DEF OwnFlow
  <2> QED BY <2>5, <2>6, <2>7, <2>8
<1>2. CASE TakeFrame
  <2>1. /\ frames # <<>> /\ frames' = Tail(frames) /\ hand' = Head(frames)
        /\ place = "waiting" /\ place' = "taken"
        /\ UNCHANGED <<unsent, armed, flow, limit, waits, result, owned, sent, got>>
    BY <1>2 DEF TakeFrame
  <2>2. /\ frames' \in Seq(Frames) /\ hand' \in Frames /\ hand' = frames[1]
        /\ IsSync(hand') => 1 \in Syncs
        /\ \A i \in Syncs' : i \in Nat /\ i >= 1 /\ i + 1 \in Syncs /\ frames'[i] = frames[i + 1]
    BY <2>1, TakenSyncs
  <2>3. TypeOK'
    BY <2>1, <2>2 DEF TypeOK
  <2>4. QueueFlows'
    BY <2>1, <2>2 DEF QueueFlows
  <2>5. \A i, j \in Syncs' : frames'[i].flow = flow' /\ frames'[j].flow = flow' => i = j
    <3> SUFFICES ASSUME NEW i \in Syncs', NEW j \in Syncs',
                        frames'[i].flow = flow', frames'[j].flow = flow'
                 PROVE  i = j
      OBVIOUS
    <3>1. i + 1 \in Syncs /\ j + 1 \in Syncs /\ i \in Nat /\ j \in Nat
          /\ frames[i + 1].flow = flow /\ frames[j + 1].flow = flow
      BY <2>1, <2>2
    <3>2. i + 1 = j + 1
      BY <3>1 DEF OnlyOne
    <3> QED BY <3>1, <3>2
  <2>6. ASSUME IsSync(hand'), hand'.flow = flow'
        PROVE  ~armed' /\ \A i \in Syncs' : frames'[i].flow # flow'
    <3>1. 1 \in Syncs /\ frames[1].flow = flow
      BY <2>1, <2>2, <2>6
    <3>2. ~armed
      BY <1>0, <3>1 DEF QueueFlows
    <3>3. ASSUME NEW i \in Syncs', frames'[i].flow = flow' PROVE FALSE
      <4>1. i \in Nat /\ i >= 1 /\ i + 1 \in Syncs /\ frames[i + 1].flow = flow
        BY <2>1, <2>2, <3>3
      <4>2. i + 1 = 1
        BY <3>1, <4>1 DEF OnlyOne
      <4> QED BY <4>1, <4>2
    <3> QED BY <2>1, <3>2, <3>3
  <2>7. OnlyOne'
    BY <2>1, <2>5, <2>6 DEF OnlyOne, IsSync
  <2>8. OwnFlow'
    BY <2>1 DEF OwnFlow
  <2> QED BY <2>3, <2>4, <2>7, <2>8
<1>3. CASE RejectSync \/ AcceptSync
  <2>1. /\ UNCHANGED <<frames, unsent, armed, flow, limit, waits, owned, sent, got>>
        /\ place = "taken" /\ place' = "idle" /\ hand' = NoFrame /\ Syncs' = Syncs
        /\ result' \in {SUCCESS, ERROR_TIME_OUT, ERROR_TIMER_MESSAGE_INVALID}
        /\ result' = ERROR_TIME_OUT => limit = LIMITED /\ IsSync(hand) /\ hand.flow = flow
    BY <1>3 DEF RejectSync, AcceptSync, Return, ValidateTimer, Syncs
  <2>2. TypeOK'
    BY <2>1 DEF TypeOK, NoFrame, SyncFrame, Frames
  <2>3. QueueFlows' /\ OnlyOne'
    BY <2>1 DEF QueueFlows, OnlyOne
  <2>4. OwnFlow'
    BY <2>1 DEF OwnFlow, OnlyOne
  <2> QED BY <2>2, <2>3, <2>4
<1>4. CASE AcceptUser
  <2>1. /\ UNCHANGED <<frames, unsent, limit, waits, owned, sent>>
        /\ place = "taken" /\ place' = "idle" /\ hand' = NoFrame /\ Syncs' = Syncs
        /\ result' = SUCCESS /\ got' = Append(got, hand.msg) /\ ~IsSync(hand)
    BY <1>4 DEF AcceptUser, Return, Delivered, Syncs
  <2>2. \/ armed' = FALSE /\ flow' = flow + 2
        \/ UNCHANGED <<armed, flow>>
    BY <1>4 DEF AcceptUser, FlowAfterStop
  <2>3. flow' \in Nat /\ flow' >= flow
    BY <2>2 DEF TypeOK
  <2>4. hand.msg \in Msgs
    BY <2>1 DEF TypeOK, Frames, IsSync
  <2>5. got' \in Seq(Msgs)
    BY <2>1, <2>4 DEF TypeOK
  <2>6. hand' \in Frames
    BY <2>1 DEF NoFrame, SyncFrame, Frames
  <2>7. owned' \in 0..flow'
    <3>1. owned' \in 0..flow /\ flow \in Nat
      BY <2>1 DEF TypeOK
    <3> QED BY <2>3, <3>1
  <2>8. armed' \in BOOLEAN
    BY <2>2 DEF TypeOK
  <2>9. TypeOK'
    BY <2>1, <2>3, <2>5, <2>6, <2>7, <2>8 DEF TypeOK
  <2>10. QueueFlows'
    BY <1>0, <2>1, <2>2 DEF QueueFlows, TypeOK
  <2>11. OnlyOne'
    BY <1>0, <2>1, <2>2 DEF QueueFlows, OnlyOne, TypeOK
  <2>12. OwnFlow'
    BY <2>1 DEF OwnFlow
  <2> QED BY <2>9, <2>10, <2>11, <2>12
<1>5. CASE Receive
  <2>1. PICK m \in unsent : /\ unsent' = unsent \ {m}
                            /\ frames' = Append(frames, UserFrame(m))
                            /\ sent' = Append(sent, m)
    BY <1>5 DEF Receive
  <2>2. UNCHANGED <<armed, flow, place, limit, hand, waits, result, owned, got>>
    BY <1>5 DEF Receive
  <2>3. m \in Msgs /\ UserFrame(m) \in Frames /\ ~IsSync(UserFrame(m))
    BY <2>1 DEF TypeOK, UserFrame, Frames, IsSync
  <2>4. frames' \in Seq(Frames) /\ \A i \in Syncs' : i \in Syncs /\ frames'[i] = frames[i]
    BY <2>1, <2>3, AppendedSyncs
  <2>5. TypeOK'
    BY <2>1, <2>2, <2>3, <2>4 DEF TypeOK
  <2>6. QueueFlows' /\ OnlyOne'
    BY <2>2, <2>4 DEF QueueFlows, OnlyOne
  <2>7. OwnFlow'
    BY <2>2 DEF OwnFlow
  <2> QED BY <2>5, <2>6, <2>7
<1>6. CASE DoTimer
  <2>1. /\ armed /\ armed' = FALSE /\ frames' = Append(frames, SyncFrame(flow))
        /\ UNCHANGED <<unsent, flow, place, limit, hand, waits, result, owned, sent, got>>
    BY <1>6 DEF DoTimer
  <2>2. SyncFrame(flow) \in Frames /\ SyncFrame(flow).flow = flow /\ flow \in Nat
    BY DEF TypeOK, SyncFrame, Frames
  <2>3. /\ frames' \in Seq(Frames)
        /\ \A i \in Syncs' : \/ i \in Syncs /\ frames'[i] = frames[i]
                             \/ i = Len(frames) + 1 /\ frames'[i] = SyncFrame(flow)
    BY <2>1, <2>2, AppendedSyncs
  <2>4. TypeOK'
    BY <2>1, <2>3 DEF TypeOK
  <2>5. \A i \in Syncs : frames[i].flow < flow
    BY <2>1 DEF QueueFlows
  <2>6. QueueFlows'
    <3> SUFFICES ASSUME NEW i \in Syncs' PROVE frames'[i].flow <= flow
      BY <2>1 DEF QueueFlows
    <3>1. CASE i \in Syncs /\ frames'[i] = frames[i]
      BY <1>0, <2>2, <2>5, <3>1
    <3>2. CASE frames'[i] = SyncFrame(flow)
      BY <2>2, <3>2
    <3> QED BY <2>3, <3>1, <3>2
  <2>7. ASSUME NEW i \in Syncs', frames'[i].flow = flow' PROVE i = Len(frames) + 1
    <3>1. CASE i \in Syncs /\ frames'[i] = frames[i]
      BY <1>0, <2>1, <2>2, <2>5, <2>7, <3>1
    <3> QED BY <2>3, <3>1
  <2>8. ~(place' = "taken" /\ IsSync(hand') /\ hand'.flow = flow')
    BY <2>1 DEF OnlyOne
  <2>9. OnlyOne'
    BY <2>7, <2>8 DEF OnlyOne, IsSync
  <2>10. OwnFlow'
    BY <2>1 DEF OwnFlow
  <2> QED BY <2>4, <2>6, <2>9, <2>10
<1>7. CASE UNCHANGED vars
  BY <1>7 DEF vars, TypeOK, QueueFlows, OnlyOne, OwnFlow, Syncs
<1> QED BY <1>1, <1>2, <1>3, <1>4, <1>5, <1>6, <1>7 DEF Next, CallerStep

\* The queue, the timer and the calls keep their types.
THEOREM WaitTypeCorrect == Spec => []TypeOK
<1>1. WaitInv => TypeOK
  BY DEF WaitInv
<1> QED BY <1>1, InitWait, NextWait, PTL DEF Spec

\* A call ends with a time-out only for the expiry of its own timer, and at most one
\* queued expiry is acceptable, for any number of calls (message_queue.cpp:193, 201).
THEOREM TimeOutCorrect == Spec => []TimeOutIsOwn
<1>1. WaitInv => TimeOutIsOwn
  <2> SUFFICES ASSUME WaitInv PROVE TimeOutIsOwn
    OBVIOUS
  <2>1. flow \in Nat /\ \A i \in Syncs : frames[i].flow \in Nat
    BY SyncFlows DEF WaitInv, TypeOK
  <2>2. OneAcceptable
    BY <2>1 DEF WaitInv, OneAcceptable, OnlyOne, QueueFlows, ValidateTimer
  <2> QED BY <2>2 DEF WaitInv, TimeOutIsOwn, OwnFlow
<1> QED BY <1>1, InitWait, NextWait, PTL DEF Spec
-----------------------------------------------------------------------------
(* No frame is lost *)

\* What has left the queue is a sequence of frames.
LEMMA PoppedFrames ==
  ASSUME TypeOK
  PROVE  /\ Popped \in Seq(Msgs) /\ Len(Popped) \in Nat
         /\ Users \subseteq 1..Len(frames) /\ Len(frames) \in Nat /\ Len(sent) \in Nat
<1>1. got \in Seq(Msgs) /\ frames \in Seq(Frames) /\ sent \in Seq(Msgs)
  BY DEF TypeOK
<1>2. ~IsSync(hand) => Append(got, hand.msg) \in Seq(Msgs)
  BY <1>1 DEF TypeOK, Frames, IsSync
<1>3. Popped \in Seq(Msgs)
  BY <1>1, <1>2 DEF Popped
<1> QED BY <1>1, <1>3 DEF Users

\* A step that moves no frame of another unit keeps their places.
LEMMA NoneMoved ==
  ASSUME NothingLost, sent' = sent, Popped' = Popped, Users' = Users,
         \A i \in Users : frames'[i] = frames[i]
  PROVE  NothingLost'
BY DEF NothingLost

\* The frames of other units after a frame was appended to the queue.
LEMMA AppendedUsers ==
  ASSUME TypeOK, NEW f \in Frames, frames' = Append(frames, f)
  PROVE  /\ \A i \in Users : frames'[i] = frames[i]
         /\ IF IsSync(f) THEN Users' = Users
            ELSE /\ Users' = Users \cup {Len(frames) + 1}
                 /\ frames'[Len(frames) + 1] = f
<1>1. frames \in Seq(Frames) /\ Len(frames) \in Nat
  BY DEF TypeOK
<1>2. /\ Len(frames') = Len(frames) + 1 /\ frames'[Len(frames) + 1] = f
      /\ \A i \in 1..Len(frames) : frames'[i] = frames[i]
      /\ frames' \in Seq(Frames)
  BY <1>1, AppendProperties
<1>3. DOMAIN frames' = 1..(Len(frames) + 1) /\ DOMAIN frames = 1..Len(frames)
  BY <1>1, <1>2
<1>4. \A i \in 1..Len(frames) : i \in 1..(Len(frames) + 1) /\ i # Len(frames) + 1
  BY <1>1
<1>5. \A i \in 1..(Len(frames) + 1) : i \in 1..Len(frames) \/ i = Len(frames) + 1
  BY <1>1
<1>6. \A i : i \in Users' <=> i \in Users \/ (~IsSync(f) /\ i = Len(frames) + 1)
  BY <1>1, <1>2, <1>3, <1>4, <1>5 DEF Users, IsSync
<1>7. \A i \in Users : frames'[i] = frames[i]
  BY <1>2, <1>3 DEF Users
<1>8. ~IsSync(f) => Users' = Users \cup {Len(frames) + 1}
  BY <1>6
<1>9. IsSync(f) => Users' = Users
  BY <1>6
<1> QED BY <1>2, <1>7, <1>8, <1>9

\* Receive puts a frame behind all others, in the queue and among those sent.
LEMMA ReceiveKeeps ==
  ASSUME TypeOK, NothingLost, Receive
  PROVE  NothingLost'
<1>1. PICK m \in unsent : frames' = Append(frames, UserFrame(m)) /\ sent' = Append(sent, m)
  BY DEF Receive
<1>2. Popped' = Popped
  BY DEF Receive, Popped
<1>3. UserFrame(m) \in Frames /\ ~IsSync(UserFrame(m)) /\ UserFrame(m).msg = m /\ m \in Msgs
  BY <1>1 DEF TypeOK, UserFrame, Frames, IsSync
<1>4. sent \in Seq(Msgs) /\ Len(Popped) \in Nat /\ Len(frames) \in Nat /\ Len(sent) \in Nat
      /\ Users \subseteq 1..Len(frames)
  BY PoppedFrames DEF TypeOK
<1> DEFINE new == Len(frames) + 1
<1>5. /\ Len(sent') = Len(sent) + 1 /\ sent'[Len(sent) + 1] = m
      /\ \A k \in 1..Len(sent) : sent'[k] = sent[k]
  BY <1>1, <1>3, <1>4, AppendProperties
<1>6. /\ Users' = Users \cup {new} /\ frames'[new] = UserFrame(m)
      /\ \A i \in Users : frames'[i] = frames[i]
  BY <1>1, <1>3, AppendedUsers
<1>7. /\ new \notin Users
      /\ \A i \in Users : i \in Nat /\ i < new
  BY <1>4
<1>8. PICK rank \in [Users -> (Len(Popped) + 1)..Len(sent)] :
        /\ \A i \in Users : frames[i].msg = sent[rank[i]]
        /\ \A i, j \in Users : i < j => rank[i] < rank[j]
        /\ \A k \in (Len(Popped) + 1)..Len(sent) : \E i \in Users : rank[i] = k
  BY DEF NothingLost
<1> DEFINE next == [i \in Users' |-> IF i = new THEN Len(sent) + 1 ELSE rank[i]]
<1>9. /\ next[new] = Len(sent) + 1
      /\ \A i \in Users : next[i] = rank[i] /\ rank[i] \in (Len(Popped) + 1)..Len(sent)
  BY <1>6, <1>7, <1>8
<1>10. Len(Popped) <= Len(sent) /\ \A k \in 1..Len(Popped) : Popped[k] = sent[k]
  BY DEF NothingLost
<1> HIDE DEF new
<1>11. next \in [Users' -> (Len(Popped') + 1)..Len(sent')]
  <2>1. \A i \in Users' : next[i] \in (Len(Popped) + 1)..(Len(sent) + 1)
    <3> HIDE DEF next
    <3>1. \A i \in Users : next[i] \in (Len(Popped) + 1)..(Len(sent) + 1)
      BY <1>4, <1>9
    <3>2. Len(sent) + 1 \in (Len(Popped) + 1)..(Len(sent) + 1)
      BY <1>4, <1>10
    <3> QED BY <1>6, <1>9, <3>1, <3>2
  <2> QED BY <1>2, <1>5, <2>1
<1> HIDE DEF next
<1>12. \A i \in Users' : frames'[i].msg = sent'[next[i]]
  <2>1. \A i \in Users : frames'[i].msg = sent'[next[i]]
    <3> SUFFICES ASSUME NEW i \in Users PROVE frames'[i].msg = sent'[next[i]]
      OBVIOUS
    <3>1. next[i] \in 1..Len(sent)
      BY <1>4, <1>9
    <3> QED BY <1>5, <1>6, <1>8, <1>9, <3>1
  <2> QED BY <1>3, <1>5, <1>6, <1>9, <2>1
<1>13. \A i, j \in Users' : i < j => next[i] < next[j]
  <2> SUFFICES ASSUME NEW i \in Users', NEW j \in Users', i < j PROVE next[i] < next[j]
    OBVIOUS
  <2>1. CASE j \in Users
    <3>1. i \in Users
      BY <1>4, <1>6, <1>7, <2>1 DEF new
    <3> QED BY <1>8, <1>9, <2>1, <3>1
  <2>2. CASE j = new
    <3>1. i \in Users
      BY <1>4, <1>6, <2>2 DEF new
    <3>2. rank[i] <= Len(sent) /\ rank[i] \in Nat
      BY <1>4, <1>9, <3>1
    <3> QED BY <1>4, <1>9, <2>2, <3>1, <3>2
  <2> QED BY <1>6, <2>1, <2>2
<1>14. \A k \in (Len(Popped') + 1)..Len(sent') : \E i \in Users' : next[i] = k
  <2> SUFFICES ASSUME NEW k \in (Len(Popped) + 1)..(Len(sent) + 1)
               PROVE  \E i \in Users' : next[i] = k
    BY <1>2, <1>5
  <2>1. CASE k = Len(sent) + 1
    BY <1>6, <1>9, <2>1
  <2>2. CASE k # Len(sent) + 1
    <3>1. k \in (Len(Popped) + 1)..Len(sent)
      BY <1>4, <2>2
    <3> QED BY <1>6, <1>8, <1>9, <3>1
  <2> QED BY <2>1, <2>2
<1>15. Len(Popped') <= Len(sent') /\ \A k \in 1..Len(Popped') : Popped'[k] = sent'[k]
  <2>1. \A k \in 1..Len(Popped) : k \in 1..Len(sent)
    BY <1>4, <1>10
  <2> QED BY <1>2, <1>4, <1>5, <1>10, <2>1
<1> QED BY <1>11, <1>12, <1>13, <1>14, <1>15 DEF NothingLost

\* TakeFrame takes the oldest frame that has not left the queue.
LEMMA TakeKeeps ==
  ASSUME TypeOK, NothingLost, TakeFrame
  PROVE  NothingLost'
<1>1. /\ place = "waiting" /\ place' = "taken" /\ frames # <<>>
      /\ hand' = Head(frames) /\ frames' = Tail(frames) /\ UNCHANGED <<sent, got>>
  BY DEF TakeFrame
<1>2. Len(Popped) \in Nat /\ Len(sent) \in Nat /\ Users \subseteq 1..Len(frames)
      /\ Len(frames) \in Nat /\ frames \in Seq(Frames) /\ got \in Seq(Msgs) /\ Popped = got
  BY <1>1, PoppedFrames DEF TypeOK, Popped
<1>3. /\ Len(frames) > 0 /\ hand' = frames[1] /\ hand' \in Frames
      /\ DOMAIN frames' = 1..(Len(frames) - 1) /\ DOMAIN frames = 1..Len(frames)
      /\ \A i \in 1..(Len(frames) - 1) : frames'[i] = frames[i + 1]
  BY <1>1, <1>2
<1>4. \A i \in 1..(Len(frames) - 1) : i + 1 \in 1..Len(frames)
  BY <1>2
<1>5. \A i \in Users' : i \in Nat /\ i + 1 > 1 /\ i + 1 \in Users /\ frames'[i] = frames[i + 1]
  BY <1>2, <1>3, <1>4 DEF Users, IsSync
<1>6. \A i \in Users : i \in Nat /\ (i = 1 \/ i - 1 \in Users')
  <2> SUFFICES ASSUME NEW i \in Users, i # 1 PROVE i - 1 \in Users'
    BY <1>2
  <2>1. i - 1 \in 1..(Len(frames) - 1) /\ (i - 1) + 1 = i
    BY <1>2
  <2>2. frames'[i - 1] = frames[i]
    BY <1>3, <2>1
  <2> QED BY <1>3, <2>1, <2>2 DEF Users, IsSync
<1>7. 1 \in Users <=> ~IsSync(hand')
  BY <1>2, <1>3 DEF Users
<1>8. PICK rank \in [Users -> (Len(Popped) + 1)..Len(sent)] :
        /\ \A i \in Users : frames[i].msg = sent[rank[i]]
        /\ \A i, j \in Users : i < j => rank[i] < rank[j]
        /\ \A k \in (Len(Popped) + 1)..Len(sent) : \E i \in Users : rank[i] = k
  BY DEF NothingLost
<1>9. Len(Popped) <= Len(sent) /\ \A k \in 1..Len(Popped) : Popped[k] = sent[k]
  BY DEF NothingLost
<1>10. 1 \in Users => rank[1] = Len(Popped) + 1
  <2> SUFFICES ASSUME 1 \in Users, rank[1] # Len(Popped) + 1 PROVE FALSE
    OBVIOUS
  <2>1. rank[1] \in (Len(Popped) + 1)..Len(sent)
    BY <1>8
  <2>2. Len(Popped) + 1 \in (Len(Popped) + 1)..Len(sent)
    BY <1>2, <2>1
  <2>3. PICK i \in Users : rank[i] = Len(Popped) + 1
    BY <1>8, <2>2
  <2>4. i \in Nat /\ 1 < i
    BY <1>2, <2>3
  <2>5. rank[1] < rank[i]
    BY <1>8, <2>4
  <2> QED BY <1>2, <2>1, <2>3, <2>5
<1>11. /\ Len(Popped') \in Nat /\ Len(Popped') <= Len(sent)
       /\ \A k \in 1..Len(Popped') : Popped'[k] = sent[k]
       /\ \A i \in Users : i # 1 => rank[i] \in (Len(Popped') + 1)..Len(sent)
       /\ \A k \in (Len(Popped') + 1)..Len(sent) :
            k \in (Len(Popped) + 1)..Len(sent) /\ (1 \in Users => k # rank[1])
  <2>1. CASE IsSync(hand')
    <3>1. Popped' = Popped /\ 1 \notin Users
      BY <1>1, <1>2, <1>7, <2>1 DEF Popped
    <3> QED BY <1>2, <1>8, <1>9, <3>1
  <2>2. CASE ~IsSync(hand')
    <3>1. Popped' = Append(Popped, hand'.msg) /\ 1 \in Users
      BY <1>1, <1>2, <1>7, <2>2 DEF Popped
    <3>2. hand'.msg \in Msgs
      BY <1>3, <2>2 DEF Frames, IsSync
    <3>3. /\ Len(Popped') = Len(Popped) + 1 /\ Popped'[Len(Popped) + 1] = hand'.msg
          /\ \A k \in 1..Len(Popped) : Popped'[k] = Popped[k]
      BY <1>2, <3>1, <3>2, AppendProperties
    <3>4. rank[1] = Len(Popped) + 1 /\ hand'.msg = sent[rank[1]]
          /\ rank[1] \in (Len(Popped) + 1)..Len(sent)
      BY <1>3, <1>8, <1>10, <3>1
    <3>5. \A k \in 1..Len(Popped') : k \in 1..Len(Popped) \/ k = Len(Popped) + 1
      BY <1>2, <3>3
    <3>6. \A k \in 1..Len(Popped') : Popped'[k] = sent[k]
      BY <1>9, <3>3, <3>4, <3>5
    <3>7. \A i \in Users : i # 1 => rank[i] \in (Len(Popped') + 1)..Len(sent)
      <4> SUFFICES ASSUME NEW i \in Users, i # 1
                   PROVE  rank[i] \in (Len(Popped') + 1)..Len(sent)
        OBVIOUS
      <4>1. 1 < i
        BY <1>2
      <4>2. rank[1] < rank[i] /\ rank[i] \in (Len(Popped) + 1)..Len(sent)
        BY <1>8, <3>1, <4>1
      <4> QED BY <1>2, <3>3, <3>4, <4>2
    <3> QED BY <1>2, <3>3, <3>4, <3>6, <3>7
  <2> QED BY <2>1, <2>2
<1> DEFINE next == [i \in Users' |-> rank[i + 1]]
<1>12. \A i \in Users' : next[i] = rank[i + 1] /\ i + 1 # 1 /\ i + 1 \in Users
  BY <1>5
<1>13. next \in [Users' -> (Len(Popped') + 1)..Len(sent')]
  BY <1>1, <1>11, <1>12
<1> HIDE DEF next
<1>14. \A i \in Users' : frames'[i].msg = sent'[next[i]]
  <2> SUFFICES ASSUME NEW i \in Users' PROVE frames'[i].msg = sent'[next[i]]
    OBVIOUS
  <2>1. frames'[i] = frames[i + 1] /\ next[i] = rank[i + 1] /\ i + 1 \in Users
    BY <1>5, <1>12
  <2>2. frames[i + 1].msg = sent[rank[i + 1]]
    BY <1>8, <2>1
  <2> QED BY <1>1, <2>1, <2>2
<1>15. \A i, j \in Users' : i < j => next[i] < next[j]
  <2> SUFFICES ASSUME NEW i \in Users', NEW j \in Users', i < j PROVE next[i] < next[j]
    OBVIOUS
  <2>1. i + 1 < j + 1
    BY <1>5
  <2> QED BY <1>8, <1>12, <2>1
<1>16. \A k \in (Len(Popped') + 1)..Len(sent') : \E i \in Users' : next[i] = k
  <2> SUFFICES ASSUME NEW k \in (Len(Popped') + 1)..Len(sent)
               PROVE  \E i \in Users' : next[i] = k
    BY <1>1
  <2>1. k \in (Len(Popped) + 1)..Len(sent) /\ (1 \in Users => k # rank[1])
    BY <1>11
  <2>2. PICK i \in Users : rank[i] = k
    BY <1>8, <2>1
  <2>3. i \in Nat /\ i - 1 \in Users' /\ (i - 1) + 1 = i
    BY <1>6, <2>1, <2>2
  <2> QED BY <1>12, <2>2, <2>3
<1>17. Len(Popped') <= Len(sent') /\ \A k \in 1..Len(Popped') : Popped'[k] = sent'[k]
  BY <1>1, <1>11
<1> QED BY <1>13, <1>14, <1>15, <1>16, <1>17 DEF NothingLost

\* Every step keeps the frames of other units.
LEMMA NextLosesNothing ==
  ASSUME TypeOK, NothingLost, [Next]_vars
  PROVE  NothingLost'
<1>1. CASE DoTimer
  <2>1. frames' = Append(frames, SyncFrame(flow)) /\ UNCHANGED <<sent, got, place, hand>>
    BY <1>1 DEF DoTimer
  <2>2. SyncFrame(flow) \in Frames /\ IsSync(SyncFrame(flow))
    BY DEF TypeOK, SyncFrame, Frames, IsSync
  <2>3. Users' = Users /\ \A i \in Users : frames'[i] = frames[i]
    BY <2>1, <2>2, AppendedUsers
  <2> QED BY <2>1, <2>3, NoneMoved DEF Popped
<1>2. CASE Wait
  <2>1. UNCHANGED <<frames, sent, got, hand>> /\ place = "idle" /\ place' = "waiting"
    BY <1>2 DEF Wait
  <2> QED BY <2>1, NoneMoved DEF Popped, Users
<1>3. CASE RejectSync \/ AcceptSync
  <2>1. UNCHANGED <<frames, sent, got>> /\ IsSync(hand) /\ place' = "idle"
    BY <1>3 DEF RejectSync, AcceptSync, Return
  <2> QED BY <2>1, NoneMoved DEF Popped, Users
<1>4. CASE AcceptUser
  <2>1. /\ UNCHANGED <<frames, sent>> /\ ~IsSync(hand) /\ place = "taken" /\ place' = "idle"
        /\ got' = Append(got, hand.msg)
    BY <1>4 DEF AcceptUser, Return, Delivered
  <2> QED BY <2>1, NoneMoved DEF Popped, Users
<1>5. CASE UNCHANGED vars
  BY <1>5, NoneMoved DEF vars, Popped, Users
<1> QED BY <1>1, <1>2, <1>3, <1>4, <1>5, ReceiveKeeps, TakeKeeps DEF Next, CallerStep

\* Wait returns the frames of other units complete and in the order sent, whatever
\* the limits of the calls are and whenever the timer expires
\* (message_queue.cpp:93-207), for any frames and any number of calls.
THEOREM NothingLostCorrect == Spec => []NothingLost
<1>1. Init => NothingLost
  <2> SUFFICES ASSUME Init PROVE NothingLost
    OBVIOUS
  <2>1. Users = {} /\ Popped = <<>> /\ sent = <<>>
    BY DEF Init, Users, Popped
  <2>2. Len(Popped) = 0 /\ Len(sent) = 0
    BY <2>1
  <2> DEFINE none == [i \in Users |-> 0]
  <2>3. none \in [Users -> (Len(Popped) + 1)..Len(sent)]
    BY <2>1
  <2>4. (1..Len(Popped)) = {} /\ ((Len(Popped) + 1)..Len(sent)) = {}
    BY <2>2
  <2> HIDE DEF none
  <2>5. /\ \A i \in Users : frames[i].msg = sent[none[i]]
        /\ \A i, j \in Users : i < j => none[i] < none[j]
        /\ \A k \in (Len(Popped) + 1)..Len(sent) : \E i \in Users : none[i] = k
        /\ \A k \in 1..Len(Popped) : Popped[k] = sent[k]
    BY <2>1, <2>4
  <2>6. Len(Popped) <= Len(sent)
    BY <2>2
  <2> QED BY <2>3, <2>5, <2>6, Zenon DEF NothingLost
<1>2. TypeOK /\ NothingLost /\ [Next]_vars => NothingLost'
  BY NextLosesNothing
<1> QED BY <1>1, <1>2, WaitTypeCorrect, PTL DEF Spec
=============================================================================
