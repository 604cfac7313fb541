----------------------------- MODULE SipServer ------------------------------
(***************************************************************************)
(* src/sip/SipServer.js and src/sip/SipDialog.js: the user-agent server    *)
(* that takes the outside calls.  One action per request handler, timer    *)
(* and method called by a call session.                                    *)
(*                                                                         *)
(* A handler runs to its end as one step.  What it puts on the wire and    *)
(* the event it emits are kept for that one step in sent and event, so     *)
(* that a module composing this one can put the listeners of the event     *)
(* into the same step, as emit() does.                                     *)
(***************************************************************************)
EXTENDS Integers

CONSTANTS
  CallId,          \* Call-ID values
  Dialog,          \* SipDialog objects; bounds the INVITEs accepted
  NoDialog,        \* null
  MaxResend,       \* 200 OK resends before giving up on the ACK (6 in code)
  AcceptReInvite   \* config.sip.acceptReInvite

ASSUME DialogAssumption == NoDialog \notin Dialog
ASSUME ResendAssumption == MaxResend \in Nat

VARIABLES
  dialogs,   \* [CallId -> Dialog or NoDialog] : the _dialogs map
  callOf,    \* the Call-ID of a dialog object
  dstate,    \* the state of a dialog object; INIT before it is built
  resends,   \* resends done while its ACK timer is armed; Off when not armed
  event,     \* the event the step emitted
  sent       \* the messages the step sent to the peer

sipVars == <<dialogs, callOf, dstate, resends>>
vars == <<sipVars, event, sent>>

DialogState == {"INIT", "EARLY", "CONFIRMED", "TERMINATED"}
Off == -1

NoEvent == [name |-> "none", dialog |-> NoDialog]
Emit(n, d) == event' = [name |-> n, dialog |-> d]
EmitNone == event' = NoEvent

Msg(c, k) == [call |-> c, kind |-> k]
Kind == {"180", "200", "486", "487", "488", "BYE", "200 BYE", "200 CANCEL"}
Message == [call : CallId, kind : Kind]
Event == [name : {"none", "invite", "ack", "bye", "cancel"},
          dialog : Dialog \cup {NoDialog}]

Known(c) == dialogs[c] # NoDialog
Mapped == {d \in Dialog : \E c \in CallId : dialogs[c] = d}
Busy == \E d \in Mapped : dstate[d] # "TERMINATED"

TypeOK ==
  /\ dialogs \in [CallId -> Dialog \cup {NoDialog}]
  /\ callOf \in [Dialog -> CallId \cup {NoDialog}]
  /\ dstate \in [Dialog -> DialogState]
  /\ resends \in [Dialog -> (0 .. MaxResend) \cup {Off}]
  /\ event \in Event
  /\ sent \subseteq Message

Init ==
  /\ dialogs = [c \in CallId |-> NoDialog]
  /\ callOf = [d \in Dialog |-> NoDialog]
  /\ dstate = [d \in Dialog |-> "INIT"]
  /\ resends = [d \in Dialog |-> Off]
  /\ event = NoEvent
  /\ sent = {}

-----------------------------------------------------------------------------
(* SipDialog.                                                              *)

SetState(d, s) == dstate' = [dstate EXCEPT ![d] = s]
ClearAckTimer(d) == resends' = [resends EXCEPT ![d] = Off]

SetTerminated(d) ==
  /\ ClearAckTimer(d)
  /\ SetState(d, "TERMINATED")

-----------------------------------------------------------------------------
(* Requests from the network.                                              *)

(* INVITE with a Call-ID in the map, whatever the state of its dialog.     *)
ReInvite(c) ==
  /\ Known(c)
  /\ sent' = {Msg(c, IF AcceptReInvite THEN "200" ELSE "488")}
  /\ EmitNone
  /\ UNCHANGED sipVars

(* A second call while a dialog of the map is not TERMINATED.              *)
InviteBusy(c) ==
  /\ ~Known(c)
  /\ Busy
  /\ sent' = {Msg(c, "486")}
  /\ EmitNone
  /\ UNCHANGED sipVars

InviteNew(c) ==
  /\ ~Known(c)
  /\ ~Busy
  /\ \E d \in Dialog :
       /\ dstate[d] = "INIT"
       /\ SetState(d, "EARLY")
       /\ dialogs' = [dialogs EXCEPT ![c] = d]
       /\ callOf' = [callOf EXCEPT ![d] = c]
       /\ Emit("invite", d)
  /\ sent' = {Msg(c, "180")}
  /\ UNCHANGED resends

HandleInvite(c) == ReInvite(c) \/ InviteBusy(c) \/ InviteNew(c)

(* Mutant: the ACK timer goes on.                                          *)
AckKeepsTimer(c) ==
  /\ Known(c)
  /\ SetState(dialogs[c], "CONFIRMED")
  /\ Emit("ack", dialogs[c])
  /\ sent' = {}
  /\ UNCHANGED <<dialogs, callOf, resends>>

(* ACK confirms the dialog of its Call-ID in any state.                    *)
HandleAck(c) ==
  /\ \/ /\ ~Known(c)
        /\ EmitNone
        /\ UNCHANGED sipVars
     \/ /\ Known(c)
        /\ ClearAckTimer(dialogs[c])
        /\ SetState(dialogs[c], "CONFIRMED")
        /\ Emit("ack", dialogs[c])
        /\ UNCHANGED <<dialogs, callOf>>
  /\ sent' = {}

(* Mutant: the dialog leaves the map as it is.                             *)
ForgetAlive(c) ==
  /\ dialogs' = [dialogs EXCEPT ![c] = NoDialog]
  /\ UNCHANGED <<callOf, dstate, resends>>

Forget(c) ==
  /\ SetTerminated(dialogs[c])
  /\ dialogs' = [dialogs EXCEPT ![c] = NoDialog]
  /\ UNCHANGED callOf

(* Mutant: the session does not hear of the BYE.                           *)
ByeUnheard(c) ==
  /\ Known(c)
  /\ Forget(c)
  /\ EmitNone
  /\ sent' = {Msg(c, "200 BYE")}

HandleBye(c) ==
  /\ \/ /\ ~Known(c)
        /\ EmitNone
        /\ UNCHANGED sipVars
     \/ /\ Known(c)
        /\ Forget(c)
        /\ Emit("bye", dialogs[c])
  /\ sent' = {Msg(c, "200 BYE")}

CanCancel(c) == Known(c) /\ dstate[dialogs[c]] # "CONFIRMED"

HandleCancel(c) ==
  \/ /\ ~CanCancel(c)
     /\ sent' = {Msg(c, "200 CANCEL")}
     /\ EmitNone
     /\ UNCHANGED sipVars
  \/ /\ CanCancel(c)
     /\ Forget(c)
     /\ Emit("cancel", dialogs[c])
     /\ sent' = {Msg(c, "200 CANCEL"), Msg(c, "487")}

-----------------------------------------------------------------------------
(* Called by the call session, and the ACK timer.                          *)

(* answerCall(): 200 OK, and a resend timer until the ACK.                 *)
AnswerCall(d) ==
  /\ dstate[d] # "INIT"
  /\ resends' = [resends EXCEPT ![d] = 0]
  /\ sent' = {Msg(callOf[d], "200")}
  /\ EmitNone
  /\ UNCHANGED <<dialogs, callOf, dstate>>

(* Mutants: one resend too many; resends not counted; the session does not *)
(* hear that the call is given up.                                         *)
AckTimerOnceMore(d) ==
  /\ resends[d] # Off
  /\ resends' = [resends EXCEPT ![d] = @ + 1]
  /\ sent' = {Msg(callOf[d], "200")}
  /\ EmitNone
  /\ UNCHANGED <<dialogs, callOf, dstate>>

AckTimerUncounted(d) ==
  /\ resends[d] # Off
  /\ sent' = {Msg(callOf[d], "200")}
  /\ EmitNone
  /\ UNCHANGED sipVars

AckTimerUnheard(d) ==
  /\ resends[d] # Off
  /\ SetTerminated(d)
  /\ sent' = {}
  /\ EmitNone
  /\ UNCHANGED <<dialogs, callOf>>

(* The ACK timer fires: resend, or give the dialog up -- it stays in the   *)
(* map.                                                                    *)
AckTimer(d) ==
  /\ resends[d] # Off
  /\ \/ /\ resends[d] < MaxResend
        /\ resends' = [resends EXCEPT ![d] = @ + 1]
        /\ sent' = {Msg(callOf[d], "200")}
        /\ EmitNone
        /\ UNCHANGED dstate
     \/ /\ resends[d] = MaxResend
        /\ SetTerminated(d)
        /\ sent' = {}
        /\ Emit("bye", d)
  /\ UNCHANGED <<dialogs, callOf>>

CanBye(d) == dstate[d] = "CONFIRMED"

(* sendBye(): the dialog stays in the map as TERMINATED.                   *)
SendBye(d) ==
  /\ CanBye(d)
  /\ SetTerminated(d)
  /\ sent' = {Msg(callOf[d], "BYE")}
  /\ EmitNone
  /\ UNCHANGED <<dialogs, callOf>>

(* stop(): every dialog is terminated and forgotten; no event.             *)
Stop ==
  /\ dstate' = [d \in Dialog |-> IF d \in Mapped THEN "TERMINATED"
                                                 ELSE dstate[d]]
  /\ resends' = [d \in Dialog |-> IF d \in Mapped THEN Off ELSE resends[d]]
  /\ dialogs' = [c \in CallId |-> NoDialog]
  /\ sent' = {}
  /\ EmitNone
  /\ UNCHANGED callOf

-----------------------------------------------------------------------------
(* By itself: any request may arrive at any time (UDP loses, delays and    *)
(* repeats), the call session answers a new call once and may hang up.     *)

Request(c) ==
  HandleInvite(c) \/ HandleAck(c) \/ HandleBye(c) \/ HandleCancel(c)

Next ==
  \/ \E c \in CallId : Request(c)
  \/ \E d \in Dialog :
       \/ event = [name |-> "invite", dialog |-> d] /\ AnswerCall(d)
       \/ AckTimer(d)
       \/ SendBye(d)
  \/ Stop

Spec == Init /\ [][Next]_vars

FairSpec == Spec /\ \A d \in Dialog : WF_vars(AckTimer(d))

-----------------------------------------------------------------------------
(* Properties.                                                             *)

(* A dialog that is not over can be reached by the BYE, CANCEL and ACK of  *)
(* its Call-ID: the map entry outlives it.  If it did not, nothing but a   *)
(* restart would end the call and the line would stay busy.                *)
LiveDialogReachable ==
  \A d \in Dialog : dstate[d] \in {"EARLY", "CONFIRMED"}
                      => dialogs[callOf[d]] = d

(* An armed ACK timer belongs to an unconfirmed call: no resend of a 200   *)
(* OK, and no give-up, can hit a call whose ACK has arrived.               *)
TimerOnlyWhileUnacked ==
  \A d \in Dialog : resends[d] # Off => dstate[d] = "EARLY"

(* An answered call is confirmed or given up: the 200 OK is not resent     *)
(* for ever.                                                               *)
AnswerSettles == \A d \in Dialog : resends[d] # Off ~> resends[d] = Off

(* SipDialog's comment: INIT -> EARLY -> CONFIRMED -> TERMINATED.  A dialog*)
(* that is over stays over.                                                *)
TerminatedIsFinal ==
  [][\A d \in Dialog : dstate[d] = "TERMINATED"
                         => dstate'[d] = "TERMINATED"]_vars

(* handleInvite's comment "Enforce single active session": never two       *)
(* dialogs that are not over.                                              *)
SingleDialog ==
  \A d, e \in Mapped : dstate[d] # "TERMINATED" /\ dstate[e] # "TERMINATED"
                         => d = e
=============================================================================
