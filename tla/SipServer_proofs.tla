-------------------------- MODULE SipServer_proofs ---------------------------
(***************************************************************************)
(* What TLAPS proves of the SIP server, for every number of calls and      *)
(* dialogs and whatever requests arrive.                                   *)
(***************************************************************************)
EXTENDS SipServer, TLAPS

(* The map and the dialogs agree; a dialog object once built has a         *)
(* Call-ID.                                                                *)
MapSound ==
  /\ \A c \in CallId :
       Known(c) => callOf[dialogs[c]] = c /\ dstate[dialogs[c]] # "INIT"
  /\ \A d \in Dialog : dstate[d] # "INIT" => callOf[d] \in CallId

(* The call session answers the dialog of the INVITE just taken.           *)
InviteFresh ==
  event.name = "invite" => dstate[event.dialog] = "EARLY"

IInv ==
  /\ TypeOK
  /\ MapSound
  /\ InviteFresh
  /\ LiveDialogReachable
  /\ TimerOnlyWhileUnacked

-----------------------------------------------------------------------------
LEMMA InitIInv == Init => IInv
<1> SUFFICES ASSUME Init PROVE IInv
  OBVIOUS
<1>1. TypeOK
  BY DEF Init, TypeOK, NoEvent, Event, DialogState, Off
<1>2. MapSound /\ InviteFresh /\ LiveDialogReachable /\ TimerOnlyWhileUnacked
  BY DEF Init, MapSound, InviteFresh, LiveDialogReachable,
     TimerOnlyWhileUnacked, Known, NoEvent
<1> QED
  BY <1>1, <1>2 DEF IInv

(* Types of what a handler sends and emits.                                *)
LEMMA MsgType ==
  ASSUME NEW c \in CallId, NEW k \in Kind
  PROVE  Msg(c, k) \in Message
  BY DEF Msg, Message

LEMMA EmitType ==
  ASSUME NEW d \in Dialog, NEW n \in {"invite", "ack", "bye", "cancel"},
         Emit(n, d)
  PROVE  event' \in Event /\ event'.name = n /\ event'.dialog = d
  BY DEF Emit, Event

LEMMA EmitNoneType ==
  ASSUME EmitNone
  PROVE  event' \in Event /\ event'.name = "none"
  BY DEF EmitNone, NoEvent, Event

(* A request that is only answered.                                        *)
LEMMA AnsweredKeeps ==
  ASSUME IInv, UNCHANGED sipVars, EmitNone, sent' \subseteq Message
  PROVE  IInv'
  BY EmitNoneType
  DEF IInv, TypeOK, MapSound, InviteFresh, LiveDialogReachable,
      TimerOnlyWhileUnacked, Known, sipVars

(* A new call: its dialog is built EARLY and put in the map.               *)
LEMMA InviteNewKeeps ==
  ASSUME IInv, NEW c \in CallId, InviteNew(c)
  PROVE  IInv'
<1> USE DEF IInv, TypeOK, Off, DialogState
<1>1. PICK d \in Dialog :
        /\ dstate[d] = "INIT"
        /\ dstate' = [dstate EXCEPT ![d] = "EARLY"]
        /\ dialogs' = [dialogs EXCEPT ![c] = d]
        /\ callOf' = [callOf EXCEPT ![d] = c]
        /\ Emit("invite", d)
  BY DEF InviteNew, SetState
<1>2. event' \in Event /\ event'.name = "invite" /\ event'.dialog = d
  BY <1>1, EmitType
<1>3. sent' \subseteq Message /\ UNCHANGED resends
  BY MsgType DEF InviteNew, Kind
<1>4. ~Known(c)
  BY DEF InviteNew
<1>5. TypeOK'
  BY <1>1, <1>2, <1>3, <1>4, DialogAssumption DEF Known
<1>6. MapSound'
  BY <1>1, <1>2, <1>3, <1>4, DialogAssumption DEF Known, MapSound, Known
<1>7. InviteFresh'
  BY <1>1, <1>2, <1>3, <1>4, DialogAssumption DEF Known, InviteFresh
<1>8. LiveDialogReachable'
  BY <1>1, <1>2, <1>3, <1>4, DialogAssumption
  DEF Known, LiveDialogReachable, MapSound, Known
<1>9. TimerOnlyWhileUnacked'
  BY <1>1, <1>2, <1>3, <1>4, DialogAssumption
  DEF Known, TimerOnlyWhileUnacked, LiveDialogReachable, MapSound, Known
<1> QED
  BY <1>5, <1>6, <1>7, <1>8, <1>9

(* ACK of a known call: the dialog is CONFIRMED and has no timer.          *)
LEMMA AckKeeps ==
  ASSUME IInv, NEW c \in CallId, Known(c), HandleAck(c)
  PROVE  IInv'
<1> USE DEF IInv, TypeOK, Off, DialogState
<1>1. dialogs[c] \in Dialog
  BY DEF Known
<1>2. event' \in Event /\ event'.name = "ack"
  BY <1>1, EmitType DEF HandleAck
<1>3. TypeOK'
  BY <1>1, <1>2, DialogAssumption DEF HandleAck, ClearAckTimer, SetState
<1>4. MapSound'
  BY <1>1, <1>2, DialogAssumption
  DEF HandleAck, ClearAckTimer, SetState, MapSound, Known
<1>5. InviteFresh'
  BY <1>1, <1>2, DialogAssumption
  DEF HandleAck, ClearAckTimer, SetState, InviteFresh
<1>6. LiveDialogReachable'
  BY <1>1, <1>2, DialogAssumption
  DEF HandleAck, ClearAckTimer, SetState, LiveDialogReachable, MapSound, Known
<1>7. TimerOnlyWhileUnacked'
  BY <1>1, <1>2, DialogAssumption
  DEF HandleAck, ClearAckTimer, SetState, TimerOnlyWhileUnacked, LiveDialogReachable, MapSound, Known
<1> QED
  BY <1>3, <1>4, <1>5, <1>6, <1>7

(* BYE or CANCEL of a known call.                                          *)
LEMMA ForgetKeeps ==
  ASSUME IInv, NEW c \in CallId, Known(c), Forget(c),
         NEW n \in {"bye", "cancel"}, Emit(n, dialogs[c]),
         sent' \subseteq Message
  PROVE  IInv'
<1> USE DEF IInv, TypeOK, Off, DialogState
<1>1. dialogs[c] \in Dialog
  BY DEF Known
<1>2. event' \in Event /\ event'.name = n
  BY <1>1, EmitType
<1>3. TypeOK'
  BY <1>1, <1>2, DialogAssumption
  DEF Forget, SetTerminated, ClearAckTimer, SetState
<1>4. MapSound'
  BY <1>1, <1>2, DialogAssumption
  DEF Forget, SetTerminated, ClearAckTimer, SetState, MapSound, Known
<1>5. InviteFresh'
  BY <1>1, <1>2, DialogAssumption
  DEF Forget, SetTerminated, ClearAckTimer, SetState, InviteFresh
<1>6. LiveDialogReachable'
  BY <1>1, <1>2, DialogAssumption
  DEF Forget, SetTerminated, ClearAckTimer, SetState, LiveDialogReachable, MapSound, Known
<1>7. TimerOnlyWhileUnacked'
  BY <1>1, <1>2, DialogAssumption
  DEF Forget, SetTerminated, ClearAckTimer, SetState, TimerOnlyWhileUnacked, LiveDialogReachable, MapSound, Known
<1> QED
  BY <1>3, <1>4, <1>5, <1>6, <1>7

(* answerCall() arms the timer of an EARLY dialog.                         *)
LEMMA AnswerKeeps ==
  ASSUME IInv, NEW d \in Dialog, dstate[d] = "EARLY", AnswerCall(d)
  PROVE  IInv'
<1> USE DEF IInv, TypeOK, Off, DialogState
<1>1. event' \in Event /\ event'.name = "none"
  BY EmitNoneType DEF AnswerCall
<1>2. sent' \subseteq Message
  BY MsgType DEF AnswerCall, MapSound, Kind
<1>3. TypeOK'
  BY <1>1, <1>2, ResendAssumption DEF AnswerCall
<1>4. MapSound'
  BY <1>1, <1>2, ResendAssumption DEF AnswerCall, MapSound, Known
<1>5. InviteFresh'
  BY <1>1, <1>2, ResendAssumption DEF AnswerCall, InviteFresh
<1>6. LiveDialogReachable'
  BY <1>1, <1>2, ResendAssumption
  DEF AnswerCall, LiveDialogReachable, MapSound, Known
<1>7. TimerOnlyWhileUnacked'
  BY <1>1, <1>2, ResendAssumption
  DEF AnswerCall, TimerOnlyWhileUnacked, LiveDialogReachable, MapSound, Known
<1> QED
  BY <1>3, <1>4, <1>5, <1>6, <1>7

(* The ACK timer resends or gives up.                                      *)
LEMMA AckTimerKeeps ==
  ASSUME IInv, NEW d \in Dialog, AckTimer(d)
  PROVE  IInv'
<1> USE DEF IInv, TypeOK, Off, DialogState
<1>1. event' \in Event /\ event'.name \in {"none", "bye"}
  BY EmitType, EmitNoneType DEF AckTimer
<1>2. sent' \subseteq Message
  <2>1. callOf[d] \in CallId
    BY DEF AckTimer, MapSound, TimerOnlyWhileUnacked
  <2> QED
    BY <2>1, MsgType DEF AckTimer, Kind
<1>3. TypeOK'
  BY <1>1, <1>2, ResendAssumption
  DEF AckTimer, SetTerminated, ClearAckTimer, SetState
<1>4. MapSound'
  <2>1. UNCHANGED <<dialogs, callOf>>
    BY DEF AckTimer
  <2>2. \A e \in Dialog : dstate'[e] # "INIT" <=> dstate[e] # "INIT"
    BY DEF AckTimer, SetTerminated, SetState, TimerOnlyWhileUnacked
  <2> QED
    BY <2>1, <2>2, DialogAssumption DEF MapSound, Known
<1>5. InviteFresh'
  BY <1>1, <1>2, ResendAssumption
  DEF AckTimer, SetTerminated, ClearAckTimer, SetState, InviteFresh
<1>6. LiveDialogReachable'
  BY <1>1, <1>2, ResendAssumption
  DEF AckTimer, SetTerminated, ClearAckTimer, SetState, LiveDialogReachable, MapSound, Known
<1>7. TimerOnlyWhileUnacked'
  BY <1>1, <1>2, ResendAssumption
  DEF AckTimer, SetTerminated, ClearAckTimer, SetState, TimerOnlyWhileUnacked, LiveDialogReachable, MapSound, Known
<1> QED
  BY <1>3, <1>4, <1>5, <1>6, <1>7

(* sendBye() ends a CONFIRMED dialog.                                      *)
LEMMA SendByeKeeps ==
  ASSUME IInv, NEW d \in Dialog, SendBye(d)
  PROVE  IInv'
<1> USE DEF IInv, TypeOK, Off, DialogState
<1>1. event' \in Event /\ event'.name = "none"
  BY EmitNoneType DEF SendBye
<1>2. sent' \subseteq Message
  BY MsgType DEF SendBye, CanBye, MapSound, Kind
<1>3. TypeOK'
  BY <1>1, <1>2 DEF SendBye, CanBye, SetTerminated, ClearAckTimer, SetState
<1>4. MapSound'
  BY <1>1, <1>2
  DEF SendBye, CanBye, SetTerminated, ClearAckTimer, SetState, MapSound, Known
<1>5. InviteFresh'
  BY <1>1, <1>2
  DEF SendBye, CanBye, SetTerminated, ClearAckTimer, SetState, InviteFresh
<1>6. LiveDialogReachable'
  BY <1>1, <1>2
  DEF SendBye, CanBye, SetTerminated, ClearAckTimer, SetState, LiveDialogReachable, MapSound, Known
<1>7. TimerOnlyWhileUnacked'
  BY <1>1, <1>2
  DEF SendBye, CanBye, SetTerminated, ClearAckTimer, SetState, TimerOnlyWhileUnacked, LiveDialogReachable, MapSound, Known
<1> QED
  BY <1>3, <1>4, <1>5, <1>6, <1>7

(* stop() ends every dialog of the map.                                    *)
LEMMA StopKeeps ==
  ASSUME IInv, Stop
  PROVE  IInv'
<1> USE DEF IInv, TypeOK, Off, DialogState
<1>1. event' \in Event /\ event'.name = "none"
  BY EmitNoneType DEF Stop
<1>2. sent' \subseteq Message
  BY DEF Stop
<1>3. TypeOK'
  BY <1>1, <1>2 DEF Stop, Mapped
<1>4. MapSound'
  <2>1. \A c \in CallId : ~Known(c)'
    BY DEF Stop, Known
  <2>2. \A d \in Dialog : dstate'[d] # "INIT" => dstate[d] # "INIT"
    BY DialogAssumption DEF Stop, Mapped, MapSound, Known
  <2> QED
    BY <2>1, <2>2 DEF Stop, MapSound
<1>5. InviteFresh'
  BY <1>1, <1>2 DEF Stop, Mapped, InviteFresh
<1>6. LiveDialogReachable'
  BY <1>1, <1>2 DEF Stop, Mapped, LiveDialogReachable, MapSound, Known
<1>7. TimerOnlyWhileUnacked'
  BY <1>1, <1>2
  DEF Stop, Mapped, TimerOnlyWhileUnacked, LiveDialogReachable, MapSound, Known
<1> QED
  BY <1>3, <1>4, <1>5, <1>6, <1>7

-----------------------------------------------------------------------------
LEMMA StepIInv == IInv /\ [Next]_vars => IInv'
<1> SUFFICES ASSUME IInv, [Next]_vars PROVE IInv'
  OBVIOUS
<1>1. ASSUME NEW c \in CallId, ReInvite(c) \/ InviteBusy(c)
      PROVE  IInv'
  <2>1. PICK k \in {"200", "486", "488"} : sent' = {Msg(c, k)}
    BY <1>1 DEF ReInvite, InviteBusy
  <2>2. sent' \subseteq Message
    BY <2>1, MsgType DEF Kind
  <2> QED
    BY <1>1, <2>2, AnsweredKeeps DEF ReInvite, InviteBusy
<1>2. ASSUME NEW c \in CallId, InviteNew(c) PROVE IInv'
  BY <1>2, InviteNewKeeps
<1>3. ASSUME NEW c \in CallId, HandleAck(c) PROVE IInv'
  <2>1. CASE Known(c)
    BY <1>3, <2>1, AckKeeps
  <2>2. CASE ~Known(c)
    BY <1>3, <2>2, AnsweredKeeps DEF HandleAck
  <2> QED
    BY <2>1, <2>2
<1>4. ASSUME NEW c \in CallId, HandleBye(c) PROVE IInv'
  <2> sent' \subseteq Message
    BY <1>4, MsgType DEF HandleBye, Kind
  <2>1. CASE Known(c)
    BY <1>4, <2>1, ForgetKeeps DEF HandleBye
  <2>2. CASE ~Known(c)
    BY <1>4, <2>2, AnsweredKeeps DEF HandleBye
  <2> QED
    BY <2>1, <2>2
<1>5. ASSUME NEW c \in CallId, HandleCancel(c) PROVE IInv'
  <2>a. Msg(c, "200 CANCEL") \in Message /\ Msg(c, "487") \in Message
    BY MsgType DEF Kind
  <2> sent' \subseteq Message
    BY <1>5, <2>a DEF HandleCancel
  <2>1. CASE CanCancel(c)
    BY <1>5, <2>1, ForgetKeeps DEF HandleCancel, CanCancel
  <2>2. CASE ~CanCancel(c)
    BY <1>5, <2>2, AnsweredKeeps DEF HandleCancel
  <2> QED
    BY <2>1, <2>2
<1>6. ASSUME NEW d \in Dialog, event = [name |-> "invite", dialog |-> d],
             AnswerCall(d)
      PROVE  IInv'
  BY <1>6, AnswerKeeps DEF IInv, InviteFresh
<1>7. ASSUME NEW d \in Dialog, AckTimer(d) \/ SendBye(d) PROVE IInv'
  BY <1>7, AckTimerKeeps, SendByeKeeps
<1>8. CASE Stop
  BY <1>8, StopKeeps
<1>9. CASE UNCHANGED vars
  BY <1>9 DEF IInv, TypeOK, MapSound, InviteFresh, LiveDialogReachable,
     TimerOnlyWhileUnacked, Known, vars, sipVars
<1> QED
  BY <1>1, <1>2, <1>3, <1>4, <1>5, <1>6, <1>7, <1>8, <1>9
  DEF Next, Request, HandleInvite

LEMMA IInvAlways == Spec => []IInv
  BY InitIInv, StepIInv, PTL DEF Spec

(* The map, the dialogs and the timers keep their types.                   *)
THEOREM TypeCorrect == Spec => []TypeOK
<1>1. IInv => TypeOK
  BY DEF IInv
<1> QED
  BY <1>1, IInvAlways, PTL

(* No order of requests, timeouts and hang-ups leaves a dialog alive that  *)
(* the BYE, CANCEL or ACK of its Call-ID does not reach.                   *)
THEOREM LiveDialogAlwaysReachable == Spec => []LiveDialogReachable
<1>1. IInv => LiveDialogReachable
  BY DEF IInv
<1> QED
  BY <1>1, IInvAlways, PTL

(* No ACK timer survives the ACK, the end of the call or the shutdown.     *)
THEOREM TimerOnlyBeforeAck == Spec => []TimerOnlyWhileUnacked
<1>1. IInv => TimerOnlyWhileUnacked
  BY DEF IInv
<1> QED
  BY <1>1, IInvAlways, PTL
=============================================================================
