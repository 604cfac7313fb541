--------------------------- MODULE Gateway_proofs ----------------------------
(***************************************************************************)
(* What TLAPS proves of the program: it keeps to the rules of calling its  *)
(* parts, so that what is proved of the pool and of the SIP server holds   *)
(* in it, and with that a call, its dialog and its VM agree in every       *)
(* state.  For all sets of calls, dialogs and VMs, in every mode.          *)
(***************************************************************************)
EXTENDS Gateway, TLAPS

PoolP == INSTANCE ModemBackendPool_proofs WITH Caller <- Dialog, MaxStarts <- 1
SipP  == INSTANCE SipServer_proofs

-----------------------------------------------------------------------------
(* The invariant.                                                          *)

(* What a session's fields are, by what setup() or activate() does next.   *)
Before == {"none", "setup", "failed", "answered"}
InCall == {"rejected", "inviting", "up"}

Stages ==
  \A d \in Dialog :
    /\ act[d] \in Before => ~active[d] /\ dsp[d] = "none" /\ line[d] = "off"
                            /\ ended[d] = 0
    /\ act[d] = "answered" => rtp[d] = IF UsesPool THEN "raw" ELSE "pcm"
    /\ act[d] \in {"checkout", "rejected"} => dsp[d] = "none" /\ line[d] = "off"
    /\ act[d] \in {"checkout", "rejected"} /\ active[d] => rtp[d] = "raw"
    /\ act[d] = "checkout" => active[d] \/ ended[d] = 1
    /\ act[d] \in InCall => active[d]
    /\ act[d] = "inviting" => dsp[d] = "pooled"
    /\ act[d] = "up" => dsp[d] # "none"
    /\ act[d] = "over" => ~active[d] /\ ended[d] = 1 /\ dsp[d] # "native"

(* One dialog object per call: it is new until its INVITE.                 *)
NewIsBlank == \A d \in Dialog : dstate[d] = "INIT" => act[d] = "none"

(* Only the session index.js routes to can be torn down, and once it is,   *)
(* index.js forgets it.  If the map knows its Call-ID, it knows it.        *)
Current ==
  activeSession # NoDialog =>
    /\ act[activeSession] \notin {"none", "failed", "over"}
    /\ ended[activeSession] = 0
    /\ dstate[activeSession] # "INIT"
    /\ dialogs[callOf[activeSession]] \in {activeSession, NoDialog}

Waits == \A d \in Dialog : waitsFor[d] # NoBackend => act[d] = "checkout"

(* setup() has the event loop to itself.                                   *)
SetupAlone ==
  \A d \in Dialog : act[d] = "setup" =>
    /\ event = [name |-> "invite", dialog |-> d]
    /\ activeSession = d
    /\ Pool!Drained /\ ~StartDue
    /\ \A e \in Dialog : ~CheckoutSettled(e) /\ ~CheckoutFailed(e)
    /\ phase \notin {"hungup", "exited"}

(* Between hangup() and sipServer.stop(), too, nothing else is due, and no *)
(* call is left.                                                           *)
HungupAlone ==
  phase = "hungup" =>
    /\ Pool!Drained /\ ~StartDue
    /\ \A e \in Dialog :
         ~active[e] /\ ~CheckoutSettled(e) /\ ~CheckoutFailed(e)

(* Until main() has its first VM nobody can call.                          *)
NoCallYet ==
  phase = "boot" \/ starting =>
    /\ ~listens /\ ~tcp
    /\ \A d \in Dialog : act[d] = "none"
    /\ \A o \in Backend : recycling[o] = NoBackend

(* What holds of sessions, dialogs and VMs; and what is due when.          *)
Core ==
  /\ Stages
  /\ NewIsBlank
  /\ Current
  /\ Waits
  /\ ActiveIsReachable
  /\ LeaseMatches
  /\ EndsOnce

Timing == SetupAlone /\ HungupAlone /\ NoCallYet

IInv ==
  /\ TypeOK
  /\ PoolP!IInv
  /\ SipP!IInv
  /\ Core
  /\ Timing

-----------------------------------------------------------------------------
(* The instances of the gateway and those of the proofs are the same.      *)

LEMMA SameStart == Pool!Start => PoolP!Start
  BY DEF Pool!Start, PoolP!Start, Pool!Boot, PoolP!Boot, Pool!Fresh, PoolP!Fresh

LEMMA SameStop == Pool!Stop => PoolP!Stop
  BY DEF Pool!Stop, PoolP!Stop, Pool!StopRunsFrom, PoolP!StopRunsFrom,
     Pool!StopAwaits, PoolP!StopAwaits

LEMMA SameCalls ==
  ASSUME NEW d \in Dialog
  PROVE  /\ Pool!Checkout(d) => PoolP!Checkout(d)
         /\ Pool!Recycle(d) => PoolP!Recycle(d)
  BY DEF Pool!Checkout, PoolP!Checkout, Pool!CanTake, PoolP!CanTake,
     Pool!Take, PoolP!Take, Pool!Recycle, PoolP!Recycle

LEMMA SameCompletions == Pool!Completion => PoolP!Completion
<1>1. \A b \in Backend : Pool!WarmupReady(b) => PoolP!WarmupReady(b)
  BY DEF Pool!WarmupReady, PoolP!WarmupReady
<1>2. \A b \in Backend : Pool!WarmupFails(b) => PoolP!WarmupFails(b)
  BY DEF Pool!WarmupFails, PoolP!WarmupFails, Pool!fields, PoolP!fields
<1>3. \A b \in Backend : Pool!WarmupAborted(b) => PoolP!WarmupAborted(b)
  BY DEF Pool!WarmupAborted, PoolP!WarmupAborted
<1>4. \A b \in Backend : Pool!RecycleStopped(b) => PoolP!RecycleStopped(b)
  BY DEF Pool!RecycleStopped, PoolP!RecycleStopped, Pool!WarmupInFlight,
     PoolP!WarmupInFlight, Pool!Boot, PoolP!Boot, Pool!Fresh, PoolP!Fresh
<1>5. Pool!StopReturns => PoolP!StopReturns
  BY DEF Pool!StopReturns, PoolP!StopReturns
<1> QED
  BY <1>1, <1>2, <1>3, <1>4, <1>5 DEF Pool!Completion, PoolP!Completion

LEMMA SameMicrotasks == Pool!Microtask => PoolP!Microtask
<1>1. \A d \in Dialog : Pool!CheckoutResumes(d) => PoolP!CheckoutResumes(d)
  BY DEF Pool!CheckoutResumes, PoolP!CheckoutResumes, Pool!CheckoutDue,
     PoolP!CheckoutDue, Pool!CanTake, PoolP!CanTake, Pool!Take, PoolP!Take
<1>2. \A o \in Backend : Pool!RecycleSettled(o) => PoolP!RecycleSettled(o)
  BY DEF Pool!RecycleSettled, PoolP!RecycleSettled, Pool!RecycleDue,
     PoolP!RecycleDue
<1>3. Pool!StopResumes => PoolP!StopResumes
  BY DEF Pool!StopResumes, PoolP!StopResumes, Pool!StopDue, PoolP!StopDue,
     Pool!StopRunsFrom, PoolP!StopRunsFrom, Pool!StopAwaits, PoolP!StopAwaits
<1> QED
  BY <1>1, <1>2, <1>3 DEF Pool!Microtask, PoolP!Microtask

LEMMA SameCrash ==
  \A b \in Backend : Pool!Crash(b) => PoolP!Crash(b)
  BY DEF Pool!Crash, PoolP!Crash, Pool!fields, PoolP!fields

LEMMA SameDrained == Pool!Drained => PoolP!Drained
  BY DEF Pool!Drained, PoolP!Drained, Pool!CheckoutDue, PoolP!CheckoutDue,
     Pool!RecycleDue, PoolP!RecycleDue, Pool!StopDue, PoolP!StopDue

LEMMA SamePoolNext ==
  ASSUME [Pool!Next]_(Pool!vars)
  PROVE  [PoolP!Next]_(PoolP!vars)
<1>1. CASE Pool!Microtask
  BY <1>1, SameMicrotasks DEF PoolP!Next
<1>2. CASE Pool!Macrotask
  <2>1. Pool!Completion => PoolP!Completion
    BY SameCompletions
  <2>2. Pool!Call => PoolP!Call
    BY SameStart, SameStop, SameCalls DEF Pool!Call, PoolP!Call
  <2> QED
    BY <1>2, <2>1, <2>2, SameDrained, SameCrash
    DEF Pool!Macrotask, PoolP!Macrotask, PoolP!Next
<1>3. CASE UNCHANGED Pool!vars
  BY <1>3 DEF Pool!vars, PoolP!vars, Pool!fields, PoolP!fields
<1> QED
  BY <1>1, <1>2, <1>3 DEF Pool!Next

LEMMA SamePoolInit == Pool!Init => PoolP!Init
  BY DEF Pool!Init, PoolP!Init

LEMMA SameSipRequest ==
  ASSUME NEW c \in CallId, Sip!Request(c)
  PROVE  SipP!Request(c)
<1> USE DEF Sip!Known, SipP!Known, Sip!Msg, SipP!Msg, Sip!Emit, SipP!Emit,
        Sip!EmitNone, SipP!EmitNone, Sip!NoEvent, SipP!NoEvent,
        Sip!SetState, SipP!SetState, Sip!ClearAckTimer, SipP!ClearAckTimer,
        Sip!SetTerminated, SipP!SetTerminated, Sip!sipVars, SipP!sipVars,
        Sip!Forget, SipP!Forget, Sip!Off, SipP!Off
<1>1. Sip!HandleInvite(c) => SipP!HandleInvite(c)
  BY DEF Sip!HandleInvite, SipP!HandleInvite, Sip!ReInvite, SipP!ReInvite,
     Sip!InviteBusy, SipP!InviteBusy, Sip!InviteNew, SipP!InviteNew,
     Sip!Busy, SipP!Busy, Sip!Mapped, SipP!Mapped
<1>2. Sip!HandleAck(c) => SipP!HandleAck(c)
  BY DEF Sip!HandleAck, SipP!HandleAck
<1>3. Sip!HandleBye(c) => SipP!HandleBye(c)
  BY DEF Sip!HandleBye, SipP!HandleBye
<1>4. Sip!HandleCancel(c) => SipP!HandleCancel(c)
  BY DEF Sip!HandleCancel, SipP!HandleCancel, Sip!CanCancel, SipP!CanCancel
<1> QED
  BY <1>1, <1>2, <1>3, <1>4 DEF Sip!Request, SipP!Request

LEMMA SameSipNext ==
  ASSUME [Sip!Next]_(Sip!vars)
  PROVE  [SipP!Next]_(SipP!vars)
<1> USE DEF Sip!Msg, SipP!Msg, Sip!Emit, SipP!Emit, Sip!EmitNone,
        SipP!EmitNone, Sip!NoEvent, SipP!NoEvent, Sip!Off, SipP!Off,
        Sip!SetState, SipP!SetState, Sip!ClearAckTimer, SipP!ClearAckTimer,
        Sip!SetTerminated, SipP!SetTerminated, Sip!CanBye, SipP!CanBye
<1>1. ASSUME NEW c \in CallId, Sip!Request(c) PROVE SipP!Next
  BY <1>1, SameSipRequest DEF SipP!Next
<1>2. ASSUME NEW d \in Dialog
      PROVE  /\ Sip!AnswerCall(d) => SipP!AnswerCall(d)
             /\ Sip!AckTimer(d) => SipP!AckTimer(d)
             /\ Sip!SendBye(d) => SipP!SendBye(d)
  BY DEF Sip!AnswerCall, SipP!AnswerCall, Sip!AckTimer, SipP!AckTimer,
     Sip!SendBye, SipP!SendBye
<1>3. Sip!Stop => SipP!Stop
  BY DEF Sip!Stop, SipP!Stop, Sip!Mapped, SipP!Mapped
<1>4. UNCHANGED Sip!vars => UNCHANGED SipP!vars
  BY DEF Sip!vars, SipP!vars, Sip!sipVars, SipP!sipVars
<1> QED
  BY <1>1, <1>2, <1>3, <1>4 DEF Sip!Next, SipP!Next

LEMMA SameSipInit == Sip!Init => SipP!Init
  BY DEF Sip!Init, SipP!Init, Sip!NoEvent, SipP!NoEvent, Sip!Off, SipP!Off

(* So what is proved of the parts holds in the program as far as it keeps  *)
(* to their next-state relations.                                          *)
LEMMA PoolStepKeeps ==
  ASSUME PoolP!IInv, [Pool!Next]_(Pool!vars)
  PROVE  PoolP!IInv'
<1>1. [PoolP!Next]_(PoolP!vars)
  BY SamePoolNext
<1> QED
  BY <1>1, PoolP!StepIInv, NamesAssumption

LEMMA SipStepKeeps ==
  ASSUME SipP!IInv, [Sip!Next]_(Sip!vars)
  PROVE  SipP!IInv'
<1>1. [SipP!Next]_(SipP!vars)
  BY SameSipNext
<1> QED
  BY <1>1, SipP!StepIInv, NamesAssumption

-----------------------------------------------------------------------------
(* What the parts do to the sessions' side of them.                        *)

LEMMA PoolTypes ==
  /\ PoolP!IInv => Pool!TypeOK
  /\ PoolP!IInv' => Pool!TypeOK'
  BY DEF PoolP!IInv, PoolP!TypeOK, Pool!TypeOK, PoolP!State, Pool!State,
     PoolP!Warming, Pool!Warming, PoolP!Life, Pool!Life, PoolP!StopPc,
     Pool!StopPc, PoolP!Maybe, Pool!Maybe

LEMMA SipTypes ==
  /\ SipP!IInv => Sip!TypeOK
  /\ SipP!IInv' => Sip!TypeOK'
  BY DEF SipP!IInv, SipP!TypeOK, Sip!TypeOK, SipP!DialogState, Sip!DialogState,
     SipP!Off, Sip!Off, SipP!Event, Sip!Event, SipP!Message, Sip!Message,
     SipP!Kind, Sip!Kind

(* The map and the dialogs agree.                                          *)
DialogsSound ==
  /\ \A c \in CallId : dialogs[c] # NoDialog =>
       callOf[dialogs[c]] = c /\ dstate[dialogs[c]] # "INIT"
  /\ \A d \in Dialog : dstate[d] # "INIT" => callOf[d] \in CallId
  /\ \A d \in Dialog : dstate[d] \in {"EARLY", "CONFIRMED"}
                          => dialogs[callOf[d]] = d
  /\ \A d \in Dialog : resends[d] # Sip!Off => dstate[d] = "EARLY"
  /\ event.name = "invite" => dstate[event.dialog] = "EARLY"

LEMMA SipFacts ==
  ASSUME SipP!IInv
  PROVE  DialogsSound
  BY DEF DialogsSound, SipP!IInv, SipP!MapSound, SipP!InviteFresh, SipP!Known,
     SipP!LiveDialogReachable, SipP!TimerOnlyWhileUnacked, SipP!Off, Sip!Off

(* checkout() either waits or has a VM.                                    *)
LEMMA CheckoutEffect ==
  ASSUME Pool!TypeOK, NEW d \in Dialog, Pool!Checkout(d)
  PROVE  /\ \A e \in Dialog \ {d} :
              waitsFor'[e] = waitsFor[e] /\ holds'[e] = holds[e]
         /\ holds'[d] # NoBackend => waitsFor'[d] = NoBackend
  BY DEF Pool!TypeOK, Pool!Checkout, Pool!CanTake, Pool!Take

(* recycle() takes the caller's VM from him, and nothing becomes due.      *)
LEMMA RecycleEffect ==
  ASSUME Pool!TypeOK, NEW d \in Dialog, Pool!Recycle(d)
  PROVE  holds' = [holds EXCEPT ![d] = NoBackend] /\ UNCHANGED waitsFor
  BY DEF Pool!TypeOK, Pool!Recycle

LEMMA RecycleKeepsDrained ==
  ASSUME PoolP!IInv, Pool!TypeOK, Pool!Drained,
         NEW d \in Dialog, Pool!Recycle(d)
  PROVE  Pool!Drained'
<1>1. stopPc # "no" => stopped
  BY DEF PoolP!IInv, PoolP!StoppingVm
<1>2. \A e \in Dialog : ~Pool!CheckoutDue(e)'
  BY DEF Pool!Recycle, Pool!Drained, Pool!CheckoutDue
<1>3. \A o \in Backend : ~Pool!RecycleDue(o)'
  BY DEF Pool!TypeOK, Pool!Maybe, Pool!Recycle, Pool!Drained, Pool!RecycleDue
<1>4. ~Pool!StopDue'
  BY <1>1 DEF Pool!Recycle, Pool!Drained, Pool!StopDue
<1> QED
  BY <1>2, <1>3, <1>4 DEF Pool!Drained

(* What the pool does by itself: a caller that waits may get his answer.   *)
PoolMoves ==
  /\ \A d \in Dialog :
       \/ waitsFor'[d] = waitsFor[d] /\ holds'[d] = holds[d]
       \/ waitsFor[d] # NoBackend /\ waitsFor'[d] = NoBackend
  /\ (\A o \in Backend : recycling[o] = NoBackend)
       => (\A o \in Backend : recycling'[o] = NoBackend)

LEMMA UnchangedMoves == UNCHANGED poolVars => PoolMoves
  BY DEF poolVars, PoolMoves

LEMMA StartStopMove ==
  ASSUME Pool!Start \/ Pool!Stop
  PROVE  PoolMoves
  BY DEF Pool!Start, Pool!Stop, Pool!StopRunsFrom, PoolMoves

LEMMA MicrotaskMoves ==
  ASSUME Pool!TypeOK, Pool!Microtask
  PROVE  PoolMoves
<1>1. ASSUME NEW d \in Dialog, Pool!CheckoutResumes(d) PROVE PoolMoves
  BY <1>1 DEF Pool!TypeOK, Pool!CheckoutResumes, Pool!CheckoutDue, Pool!Take,
     PoolMoves
<1>2. ASSUME NEW o \in Backend, Pool!RecycleSettled(o) PROVE PoolMoves
  BY <1>2 DEF Pool!TypeOK, Pool!RecycleSettled, PoolMoves
<1>3. CASE Pool!StopResumes
  BY <1>3 DEF Pool!StopResumes, Pool!StopRunsFrom, PoolMoves
<1> QED
  BY <1>1, <1>2, <1>3 DEF Pool!Microtask

LEMMA CompletionMoves ==
  ASSUME Pool!TypeOK, Pool!Completion
  PROVE  PoolMoves
<1>1. ASSUME NEW b \in Backend, Pool!WarmupReady(b) \/ Pool!WarmupFails(b)
      PROVE  PoolMoves
  BY <1>1 DEF Pool!WarmupReady, Pool!WarmupFails, PoolMoves
<1>2. ASSUME NEW b \in Backend, Pool!WarmupAborted(b) PROVE PoolMoves
  BY <1>2, NamesAssumption DEF Pool!TypeOK, Pool!WarmupAborted, PoolMoves
<1>3. ASSUME NEW o \in Backend, Pool!RecycleStopped(o) PROVE PoolMoves
  BY <1>3, NamesAssumption DEF Pool!TypeOK, Pool!RecycleStopped, PoolMoves
<1>4. CASE Pool!StopReturns
  BY <1>4 DEF Pool!StopReturns, PoolMoves
<1> QED
  BY <1>1, <1>2, <1>3, <1>4 DEF Pool!Completion

LEMMA CrashMoves ==
  ASSUME NEW b \in Backend, Pool!Crash(b)
  PROVE  PoolMoves
  BY DEF Pool!Crash, PoolMoves

(* The four things a request can do to its dialog.                         *)
SipAnswers == event'.name = "none" /\ UNCHANGED <<dialogs, callOf, dstate>>

SipInvites(c, d) ==
  /\ event' = [name |-> "invite", dialog |-> d]
  /\ dialogs[c] = NoDialog /\ dstate[d] = "INIT"
  /\ dialogs' = [dialogs EXCEPT ![c] = d]
  /\ callOf' = [callOf EXCEPT ![d] = c]
  /\ dstate' = [dstate EXCEPT ![d] = "EARLY"]

SipConfirms(c, d) ==
  /\ event' = [name |-> "ack", dialog |-> d]
  /\ dialogs[c] = d /\ UNCHANGED <<dialogs, callOf>>
  /\ dstate' = [dstate EXCEPT ![d] = "CONFIRMED"]

(* (an ACK timer leaves the dialog in the map, requests take it out)       *)
SipEnds(d) ==
  /\ event'.name \in {"bye", "cancel"} /\ event'.dialog = d
  /\ dialogs[callOf[d]] = d /\ dstate[d] # "INIT" /\ UNCHANGED callOf
  /\ dialogs' \in {dialogs, [dialogs EXCEPT ![callOf[d]] = NoDialog]}
  /\ dstate' = [dstate EXCEPT ![d] = "TERMINATED"]

LEMMA RequestEffect ==
  ASSUME Sip!TypeOK, DialogsSound, NEW c \in CallId, Sip!Request(c)
  PROVE  \/ SipAnswers
         \/ \E d \in Dialog : SipInvites(c, d) \/ SipConfirms(c, d) \/ SipEnds(d)
<1> USE DEF Sip!Emit, Sip!EmitNone, Sip!NoEvent, Sip!SetState, Sip!Known,
        Sip!sipVars
<1>1. CASE Sip!HandleInvite(c)
  BY <1>1 DEF Sip!HandleInvite, Sip!ReInvite, Sip!InviteBusy, Sip!InviteNew,
     SipAnswers, SipInvites
<1>2. CASE Sip!HandleAck(c)
  BY <1>2 DEF Sip!HandleAck, Sip!TypeOK, SipAnswers, SipConfirms
<1>3. ASSUME dialogs[c] # NoDialog, Sip!Forget(c), NEW n \in {"bye", "cancel"},
             event' = [name |-> n, dialog |-> dialogs[c]]
      PROVE  \E d \in Dialog : SipEnds(d)
  <2>1. /\ dialogs[c] \in Dialog /\ callOf[dialogs[c]] = c
        /\ dstate[dialogs[c]] # "INIT"
    BY <1>3 DEF Sip!TypeOK, DialogsSound
  <2>2. SipEnds(dialogs[c])
    BY <1>3, <2>1 DEF Sip!Forget, Sip!SetTerminated, SipEnds
  <2> QED
    BY <2>1, <2>2
<1>4. CASE Sip!HandleBye(c)
  <2>1. CASE event' = Sip!NoEvent /\ UNCHANGED Sip!sipVars
    BY <2>1 DEF SipAnswers
  <2>2. CASE Sip!Known(c) /\ Sip!Forget(c) /\ Sip!Emit("bye", dialogs[c])
    BY <2>2, <1>3
  <2> QED
    BY <1>4, <2>1, <2>2 DEF Sip!HandleBye
<1>5. CASE Sip!HandleCancel(c)
  <2>1. CASE event' = Sip!NoEvent /\ UNCHANGED Sip!sipVars
    BY <2>1 DEF SipAnswers
  <2>2. CASE Sip!CanCancel(c) /\ Sip!Forget(c) /\ Sip!Emit("cancel", dialogs[c])
    BY <2>2, <1>3 DEF Sip!CanCancel
  <2> QED
    BY <1>5, <2>1, <2>2 DEF Sip!HandleCancel
<1> QED
  BY <1>1, <1>2, <1>4, <1>5 DEF Sip!Request

LEMMA AckTimerEffect ==
  ASSUME Sip!TypeOK, DialogsSound, NEW d \in Dialog, Sip!AckTimer(d)
  PROVE  SipAnswers \/ SipEnds(d)
  BY DEF Sip!AckTimer, Sip!Emit, Sip!EmitNone, Sip!NoEvent, Sip!SetTerminated,
     Sip!SetState, Sip!TypeOK, DialogsSound, SipAnswers, SipEnds

-----------------------------------------------------------------------------
(* The program keeps to the rules of calling its parts.                    *)

(* A call in progress is hung up with a BYE.                               *)
LEMMA HangupEffect ==
  ASSUME IInv, NEW d \in Dialog, active[d], Hangup(d)
  PROVE  Sip!SendBye(d) /\ Teardown(d)
  BY DEF IInv, Core, ActiveIsReachable, Hangup, Sip!CanBye

LEMMA HangupRefines ==
  ASSUME IInv, NEW d \in Dialog, active[d] => Pool!Drained \/ dsp[d] # "pooled",
         Hangup(d)
  PROVE  [Pool!Next]_(Pool!vars) /\ [Sip!Next]_(Sip!vars)
<1>1. CASE ~active[d]
  BY <1>1 DEF Hangup, sipVars, poolVars, Sip!vars, Sip!sipVars, Pool!vars,
     Pool!fields
<1>2. CASE active[d]
  <2>1. Sip!Next
    BY <1>2, HangupEffect DEF Sip!Next
  <2>2. CASE dsp[d] = "pooled"
    BY <1>2, <2>1, <2>2, HangupEffect
    DEF Teardown, Pool!Next, Pool!Macrotask, Pool!Call
  <2>3. CASE dsp[d] # "pooled"
    BY <1>2, <2>1, <2>3, HangupEffect
    DEF Teardown, poolVars, Pool!vars, Pool!fields
  <2> QED
    BY <2>2, <2>3
<1> QED
  BY <1>1, <1>2

(* Where the step leaves a part alone, there is nothing to show.           *)
LEMMA PoolStutters == UNCHANGED poolVars => [Pool!Next]_(Pool!vars)
  BY DEF poolVars, Pool!vars, Pool!fields

LEMMA SipStutters == UNCHANGED sipVars => [Sip!Next]_(Sip!vars)
  BY DEF sipVars, Sip!vars, Sip!sipVars

(* main() and shutdown() stop a pool that nobody is just being answered by. *)
LEMMA StartedRefines ==
  ASSUME IInv, Started
  PROVE  [Pool!Next]_(Pool!vars) /\ [Sip!Next]_(Sip!vars)
<1>1. [Sip!Next]_(Sip!vars)
  BY SipStutters DEF Started
<1>2. CASE UNCHANGED poolVars
  BY <1>1, <1>2, PoolStutters
<1>3. CASE ~stopped /\ Pool!Stop
  <2>1. \A d \in Dialog : ~Pool!CheckoutDue(d)
    BY DEF Started, StartDue, IInv, Core, Timing, Waits, NoCallYet,
       Pool!CheckoutDue
  <2>2. \A o \in Backend : ~Pool!RecycleDue(o)
    BY DEF Started, StartDue, IInv, Timing, NoCallYet, Pool!RecycleDue
  <2>3. ~Pool!StopDue
    BY <1>3 DEF IInv, PoolP!IInv, PoolP!StoppingVm, Pool!StopDue
  <2> QED
    BY <1>1, <1>3, <2>1, <2>2, <2>3
    DEF Pool!Drained, Pool!Next, Pool!Macrotask, Pool!Call
<1> QED
  BY <1>2, <1>3 DEF Started

LEMMA StopPoolRefines ==
  ASSUME Pool!Drained, StopPool
  PROVE  [Pool!Next]_(Pool!vars)
  BY PoolStutters DEF StopPool, Pool!Next, Pool!Macrotask, Pool!Call

LEMMA StopSipRefines ==
  ASSUME IInv, StopSip
  PROVE  [Pool!Next]_(Pool!vars) /\ [Sip!Next]_(Sip!vars)
<1>1. Pool!Drained
  BY DEF StopSip, IInv, Timing, HungupAlone
<1>2. [Pool!Next]_(Pool!vars)
  BY <1>1, StopPoolRefines, PoolStutters DEF StopSip
<1> QED
  BY <1>2 DEF StopSip, Sip!Next

LEMMA SetupRefines ==
  ASSUME IInv, NEW d \in Dialog, Setup(d)
  PROVE  [Pool!Next]_(Pool!vars) /\ [Sip!Next]_(Sip!vars)
<1>1. CASE SetupAnswers(d)
  BY <1>1, PoolStutters
  DEF SetupAnswers, IInv, Timing, SetupAlone, Sip!Next
<1>2. CASE SetupFails(d)
  BY <1>2, PoolStutters, SipStutters DEF SetupFails
<1> QED
  BY <1>1, <1>2 DEF Setup

LEMMA ActivateResumesRefines ==
  ASSUME IInv, NEW d \in Dialog, ActivateResumes(d)
  PROVE  [Pool!Next]_(Pool!vars) /\ [Sip!Next]_(Sip!vars)
<1>1. CASE ActivateGoesOn(d)
  BY <1>1, PoolStutters, SipStutters DEF ActivateGoesOn
<1>2. CASE ActivateGivesUp(d) /\ active[d]
  <2>1. dsp[d] # "pooled"
    BY <1>2 DEF ActivateGivesUp, CheckoutFailed, CheckoutSettled, IInv, Core,
       Stages
  <2> QED
    BY <1>2, <2>1, HangupRefines DEF ActivateGivesUp
<1>3. CASE ActivateGivesUp(d) /\ ~active[d]
  BY <1>3, PoolStutters, SipStutters DEF ActivateGivesUp
<1> QED
  BY <1>1, <1>2, <1>3 DEF ActivateResumes

LEMMA MicrotaskRefines ==
  ASSUME IInv, Microtask
  PROVE  [Pool!Next]_(Pool!vars) /\ [Sip!Next]_(Sip!vars)
<1>1. CASE PoolMicrotask
  BY <1>1, SipStutters DEF PoolMicrotask, Pool!Next
<1> QED
  BY <1>1, SetupRefines, ActivateResumesRefines, StartedRefines, StopSipRefines
  DEF Microtask

(* What the listeners do with a request or a timer, they do to the pool as *)
(* one call of it.                                                         *)
LEMMA TeardownRefines ==
  ASSUME Pool!Drained, NEW d \in Dialog, Teardown(d)
  PROVE  [Pool!Next]_(Pool!vars)
  BY PoolStutters DEF Teardown, Pool!Next, Pool!Macrotask, Pool!Call

LEMMA ActivateRefines ==
  ASSUME Pool!Drained, NEW d \in Dialog, Activate(d)
  PROVE  [Pool!Next]_(Pool!vars)
<1>1. UNCHANGED poolVars \/ Pool!Checkout(d)
  BY DEF Activate
<1> QED
  BY <1>1, PoolStutters DEF Pool!Next, Pool!Macrotask, Pool!Call

LEMMA ListenersRefine ==
  ASSUME TypeOK, Pool!Drained, Listeners
  PROVE  [Pool!Next]_(Pool!vars)
<1>1. activeSession # NoDialog => activeSession \in Dialog
  BY DEF TypeOK
<1>2. ASSUME OnInvite(event'.dialog) PROVE [Pool!Next]_(Pool!vars)
  BY <1>2, PoolStutters DEF OnInvite
<1>3. ASSUME OnAck(event'.dialog) PROVE [Pool!Next]_(Pool!vars)
  BY <1>1, <1>3, PoolStutters, ActivateRefines DEF OnAck, IsActive
<1>4. ASSUME OnByeOrCancel(event'.dialog) PROVE [Pool!Next]_(Pool!vars)
  BY <1>1, <1>4, PoolStutters, TeardownRefines
  DEF OnByeOrCancel, IsActive, OnBye
<1> QED
  BY <1>2, <1>3, <1>4, PoolStutters DEF Listeners

LEMMA SessionEventRefines ==
  ASSUME IInv, Quiet, NEW d \in Dialog, SessionEvent(d)
  PROVE  [Pool!Next]_(Pool!vars) /\ [Sip!Next]_(Sip!vars)
<1>1. Pool!Drained
  BY DEF Quiet
<1>2. CASE Hangup(d)
  BY <1>1, <1>2, HangupRefines
<1>3. CASE Swap(d)
  BY <1>1, <1>3, SipStutters
  DEF Swap, Pool!Next, Pool!Macrotask, Pool!Call
<1>4. CASE UNCHANGED <<sipVars, poolVars>>
  BY <1>4, SipStutters, PoolStutters
<1> QED
  BY <1>2, <1>3, <1>4
  DEF SessionEvent, InviteAnswered, InviteFails, Connected, SilenceHangup,
      BackendError, HoldExpires, UserDisconnects

LEMMA MacrotaskRefines ==
  ASSUME IInv, Macrotask
  PROVE  [Pool!Next]_(Pool!vars) /\ [Sip!Next]_(Sip!vars)
<1>1. Quiet /\ Pool!Drained /\ TypeOK
  BY DEF Macrotask, Quiet, IInv
<1>2. CASE Main
  BY <1>1, <1>2, PoolStutters, SipStutters
  DEF Main, Pool!Next, Pool!Macrotask, Pool!Call
<1>3. CASE Shutdown
  BY <1>1, <1>3, HangupRefines, PoolStutters, SipStutters
  DEF Shutdown, TypeOK
<1>4. CASE SipStopped
  BY <1>1, <1>4, StopPoolRefines, SipStutters DEF SipStopped
<1>5. CASE Exit \/ TcpConnects \/ TcpCloses
  BY <1>5, PoolStutters, SipStutters DEF Exit, TcpConnects, TcpCloses
<1>6. ASSUME NEW c \in CallId, Request(c)
      PROVE  [Pool!Next]_(Pool!vars) /\ [Sip!Next]_(Sip!vars)
  BY <1>1, <1>6, ListenersRefine DEF Request, Sip!Next
<1>7. ASSUME NEW d \in Dialog, AckTimer(d)
      PROVE  [Pool!Next]_(Pool!vars) /\ [Sip!Next]_(Sip!vars)
  BY <1>1, <1>7, ListenersRefine DEF AckTimer, Sip!Next
<1>8. CASE PoolCompletion
  BY <1>1, <1>8, SipStutters
  DEF PoolCompletion, Pool!Next, Pool!Macrotask
<1>9. ASSUME NEW b \in Backend, VmDies(b)
      PROVE  [Pool!Next]_(Pool!vars) /\ [Sip!Next]_(Sip!vars)
  BY <1>1, <1>9, SipStutters DEF VmDies, Pool!Next, Pool!Macrotask
<1> QED
  BY <1>1, <1>2, <1>3, <1>4, <1>5, <1>6, <1>7, <1>8, <1>9,
     SessionEventRefines DEF Macrotask

LEMMA PartsKeep ==
  ASSUME IInv, [Next]_vars
  PROVE  [Pool!Next]_(Pool!vars) /\ [Sip!Next]_(Sip!vars)
<1>1. CASE UNCHANGED vars
  BY <1>1, PoolStutters, SipStutters DEF vars
<1> QED
  BY <1>1, MicrotaskRefines, MacrotaskRefines DEF Next

LEMMA PartsInvariant ==
  ASSUME IInv, [Next]_vars
  PROVE  /\ PoolP!IInv' /\ Pool!TypeOK'
         /\ SipP!IInv' /\ Sip!TypeOK'
  BY PartsKeep, PoolStepKeeps, SipStepKeeps, PoolTypes, SipTypes DEF IInv

-----------------------------------------------------------------------------
(* What holds of sessions, dialogs and VMs is kept.                        *)

(* By what the pool does on its own.                                       *)
LEMMA PoolOnlyCore ==
  ASSUME TypeOK, Core, PoolMoves,
         UNCHANGED <<sesVars, activeSession, dialogs, callOf, dstate>>
  PROVE  Core'
<1>1. NewIsBlank' /\ Current' /\ ActiveIsReachable' /\ EndsOnce' /\ Stages'
  BY DEF Core, sesVars, NewIsBlank, Current, ActiveIsReachable, EndsOnce, Stages
<1>2. Waits'
  BY DEF Core, sesVars, Waits, PoolMoves
<1>3. LeaseMatches'
  BY DEF Core, sesVars, Waits, Stages, LeaseMatches, CheckoutSettled, PoolMoves
<1> QED
  BY <1>1, <1>2, <1>3 DEF Core

(* By the teardown of the session index.js routes to, unless the pool has  *)
(* just answered it.                                                       *)
LEMMA TeardownCore ==
  ASSUME TypeOK, Core, NEW d \in Dialog, activeSession = d,
         CheckoutSettled(d) => holds[d] = NoBackend,
         Teardown(d), ForgetEnded,
         \A e \in Dialog : dstate'[e] = "INIT" => dstate[e] = "INIT"
  PROVE  Core'
<1> USE DEF TypeOK, SesTypeOK
<1>1. d # NoDialog /\ ended[d] = 0 /\ dstate[d] # "INIT"
  BY NamesAssumption DEF Core, Current
<1>2. /\ ended'[d] = 1
      /\ activeSession' = NoDialog
  BY <1>1 DEF Teardown, ForgetEnded
<1>3. \A e \in Dialog : ~active'[e]
  BY DEF Core, ActiveIsReachable, Teardown
<1>4. /\ \A e \in Dialog : waitsFor'[e] = waitsFor[e]
      /\ \A e \in Dialog \ {d} : holds'[e] = holds[e]
      /\ holds'[d] = NoBackend
  BY RecycleEffect DEF Teardown, Pool!TypeOK, poolVars, Core, LeaseMatches
<1>5. act'[d] \in {"checkout", "over"}
  BY DEF Teardown, Core, Waits
<1>6. Stages'
  BY <1>1, <1>2, <1>3, <1>5 DEF Core, Stages, Before, InCall, Teardown
<1>7. NewIsBlank'
  BY <1>1 DEF Core, NewIsBlank, Teardown
<1>8. Waits'
  BY <1>4 DEF Core, Waits, Teardown
<1>9. LeaseMatches'
  BY <1>3, <1>4 DEF Core, LeaseMatches, Teardown, CheckoutSettled
<1>10. EndsOnce'
  BY <1>2, <1>3 DEF Core, EndsOnce, Teardown
<1> QED
  BY <1>2, <1>3, <1>6, <1>7, <1>8, <1>9, <1>10
  DEF Core, Current, ActiveIsReachable

(* By a hang-up, with its BYE.                                             *)
LEMMA HangupCore ==
  ASSUME IInv, NEW d \in Dialog, active[d], Hangup(d), ForgetEnded,
         CheckoutSettled(d) => holds[d] = NoBackend
  PROVE  Core'
<1>1. activeSession = d
  BY DEF IInv, Core, ActiveIsReachable
<1>2. \A e \in Dialog : dstate'[e] = "INIT" => dstate[e] = "INIT"
  BY HangupEffect
  DEF IInv, TypeOK, Sip!TypeOK, Sip!SendBye, Sip!SetTerminated, Sip!SetState
<1> QED
  BY <1>1, <1>2, HangupEffect, TeardownCore DEF IInv

LEMMA SetupCore ==
  ASSUME IInv, NEW d \in Dialog, Setup(d)
  PROVE  Core'
<1> USE DEF IInv, TypeOK, SesTypeOK
<1>1. /\ act[d] = "setup" /\ activeSession = d /\ d # NoDialog
      /\ UNCHANGED <<poolVars, active, dsp, line, ever, ended>>
      /\ UNCHANGED <<dialogs, callOf, dstate>>
      /\ act'[d] \in {"answered", "failed"}
      /\ \A e \in Dialog \ {d} : act'[e] = act[e] /\ rtp'[e] = rtp[e]
      /\ act'[d] = "answered" => rtp'[d] = IF UsesPool THEN "raw" ELSE "pcm"
      /\ activeSession' = IF act'[d] = "failed" THEN NoDialog ELSE d
  BY NamesAssumption
  DEF Setup, SetupAnswers, SetupFails, Timing, SetupAlone, Sip!AnswerCall,
      sipVars
<1>2. /\ ~active[d] /\ ended[d] = 0 /\ dsp[d] = "none" /\ line[d] = "off"
      /\ holds[d] = NoBackend
  BY <1>1 DEF Core, Stages, Before, LeaseMatches, CheckoutSettled
<1>3. Stages'
  BY <1>1, <1>2 DEF Core, Stages, Before, InCall
<1>4. NewIsBlank' /\ Waits' /\ EndsOnce'
  BY <1>1, <1>2 DEF Core, NewIsBlank, Waits, EndsOnce, poolVars
<1>5. Current' /\ ActiveIsReachable'
  BY <1>1, <1>2 DEF Core, Current, ActiveIsReachable
<1>6. LeaseMatches'
  BY <1>1, <1>2 DEF Core, LeaseMatches, CheckoutSettled, poolVars
<1> QED
  BY <1>3, <1>4, <1>5, <1>6 DEF Core

LEMMA GoesOnCore ==
  ASSUME IInv, NEW d \in Dialog, ActivateGoesOn(d), ForgetEnded
  PROVE  Core'
<1> USE DEF IInv, TypeOK, SesTypeOK
<1>1. /\ act[d] = "checkout" /\ waitsFor[d] = NoBackend /\ holds[d] # NoBackend
      /\ act' = [act EXCEPT ![d] = IF rtp[d] = "raw" THEN "inviting" ELSE "over"]
      /\ dsp' = [dsp EXCEPT ![d] = "pooled"]
      /\ UNCHANGED <<active, rtp, line, ever, ended>>
      /\ UNCHANGED <<sipVars, poolVars>>
  BY DEF ActivateGoesOn, CheckoutSettled
<1>2. UNCHANGED activeSession
  BY <1>1 DEF ForgetEnded
<1>3. \/ active[d] /\ ended[d] = 0 /\ rtp[d] = "raw" /\ act'[d] = "inviting"
      \/ ~active[d] /\ ended[d] = 1 /\ rtp[d] = "none" /\ act'[d] = "over"
  BY <1>1 DEF Core, Stages, EndsOnce
<1>4. Stages'
  BY <1>1, <1>3 DEF Core, Stages, Before, InCall
<1>5. NewIsBlank' /\ Waits' /\ EndsOnce'
  BY <1>1, <1>3
  DEF Core, NewIsBlank, Waits, EndsOnce, Stages, sipVars, poolVars
<1>6. Current' /\ ActiveIsReachable'
  BY <1>1, <1>2, <1>3 DEF Core, Current, ActiveIsReachable, sipVars
<1>7. LeaseMatches'
  BY <1>1, <1>3 DEF Core, LeaseMatches, CheckoutSettled, poolVars
<1> QED
  BY <1>4, <1>5, <1>6, <1>7 DEF Core

LEMMA GivesUpCore ==
  ASSUME IInv, NEW d \in Dialog, ActivateGivesUp(d), ForgetEnded
  PROVE  Core'
<1> USE DEF IInv, TypeOK, SesTypeOK
<1>1. CASE active[d]
  <2>1. CheckoutSettled(d) => holds[d] = NoBackend
    BY DEF ActivateGivesUp, CheckoutFailed, CheckoutSettled
  <2> QED
    BY <1>1, <2>1, HangupCore DEF ActivateGivesUp
<1>2. CASE ~active[d]
  <2>1. /\ act[d] = "checkout" /\ waitsFor[d] = NoBackend /\ holds[d] = NoBackend
        /\ act' = [act EXCEPT ![d] = "over"]
        /\ UNCHANGED <<active, dsp, rtp, line, ever, ended>>
        /\ UNCHANGED <<sipVars, poolVars>>
    BY <1>2
    DEF ActivateGivesUp, CheckoutFailed, CheckoutSettled, Core, Stages, InCall
  <2>2. UNCHANGED activeSession
    BY <2>1 DEF ForgetEnded
  <2>3. ended[d] = 1 /\ dsp[d] = "none"
    BY <1>2, <2>1 DEF Core, Stages
  <2>4. Stages'
    BY <1>2, <2>1, <2>3 DEF Core, Stages, Before, InCall
  <2>5. NewIsBlank' /\ Waits' /\ EndsOnce'
    BY <2>1 DEF Core, NewIsBlank, Waits, EndsOnce, sipVars, poolVars
  <2>6. Current' /\ ActiveIsReachable'
    BY <2>1, <2>2, <2>3 DEF Core, Current, ActiveIsReachable, sipVars
  <2>7. LeaseMatches'
    BY <2>1 DEF Core, LeaseMatches, CheckoutSettled, poolVars
  <2> QED
    BY <2>4, <2>5, <2>6, <2>7 DEF Core
<1> QED
  BY <1>1, <1>2

(* sipServer.stop() empties the map: no call is left that needs it.        *)
LEMMA StopSipCore ==
  ASSUME IInv, StopSip
  PROVE  Core'
<1> USE DEF IInv, TypeOK, Sip!TypeOK
<1>1. \A d \in Dialog : ~active[d]
  BY DEF StopSip, Timing, HungupAlone
<1>2. PoolMoves
  BY UnchangedMoves, StartStopMove DEF StopSip, StopPool
<1>3. /\ UNCHANGED <<sesVars, activeSession, callOf>>
      /\ dialogs' = [c \in CallId |-> NoDialog]
      /\ dstate' = [d \in Dialog |-> IF d \in Sip!Mapped THEN "TERMINATED"
                                                         ELSE dstate[d]]
  BY DEF StopSip, Sip!Stop
<1>4. Stages' /\ EndsOnce' /\ ActiveIsReachable'
  BY <1>1, <1>3 DEF Core, Stages, EndsOnce, ActiveIsReachable, sesVars
<1>5. NewIsBlank'
  BY <1>3 DEF Core, NewIsBlank, sesVars
<1>6. Current'
  <2>1. activeSession # NoDialog => /\ activeSession \in Dialog
                                    /\ callOf[activeSession] \in CallId
    BY SipFacts DEF DialogsSound, Core, Current
  <2> QED
    BY <1>3, <2>1 DEF Core, Current, sesVars
<1>7. Waits' /\ LeaseMatches'
  BY <1>2, <1>3
  DEF Core, Waits, Stages, LeaseMatches, CheckoutSettled, PoolMoves, sesVars
<1> QED
  BY <1>4, <1>5, <1>6, <1>7 DEF Core

LEMMA MicrotaskCore ==
  ASSUME IInv, Microtask
  PROVE  Core'
<1>1. TypeOK /\ Core /\ Pool!TypeOK
  BY DEF IInv, TypeOK
<1>2. CASE PoolMicrotask
  BY <1>1, <1>2, MicrotaskMoves, PoolOnlyCore DEF PoolMicrotask, sipVars
<1>3. CASE Started
  BY <1>1, <1>3, UnchangedMoves, StartStopMove, PoolOnlyCore
  DEF Started, sipVars
<1>4. ASSUME NEW d \in Dialog, ActivateResumes(d) PROVE Core'
  BY <1>4, GoesOnCore, GivesUpCore DEF ActivateResumes
<1> QED
  BY <1>2, <1>3, <1>4, SetupCore, StopSipCore DEF Microtask

(* A request that tells nobody, and a timer that resends.                  *)
LEMMA AnswersCore ==
  ASSUME TypeOK, Core, SipAnswers, Listeners
  PROVE  Core'
<1>1. UNCHANGED <<sesVars, poolVars, activeSession>>
  BY DEF SipAnswers, Listeners
<1> QED
  BY <1>1, UnchangedMoves, PoolOnlyCore DEF SipAnswers

(* An INVITE: a new session, unless one is active.                         *)
LEMMA InviteCore ==
  ASSUME IInv, NEW c \in CallId, NEW d \in Dialog, SipInvites(c, d), Listeners
  PROVE  Core'
<1> USE DEF IInv, TypeOK, SesTypeOK, Sip!TypeOK
<1>1. /\ event'.name = "invite" /\ event'.dialog = d
      /\ dialogs[c] = NoDialog /\ dstate[d] = "INIT"
      /\ dialogs' = [dialogs EXCEPT ![c] = d]
      /\ callOf' = [callOf EXCEPT ![d] = c]
      /\ dstate' = [dstate EXCEPT ![d] = "EARLY"]
  BY DEF SipInvites
<1>2. OnInvite(d)
  BY <1>1 DEF Listeners
<1>3. /\ act[d] = "none" /\ ~active[d] /\ ended[d] = 0 /\ d # NoDialog
      /\ dsp[d] = "none" /\ line[d] = "off" /\ holds[d] = NoBackend
      /\ waitsFor[d] = NoBackend
  BY <1>1, NamesAssumption
  DEF Core, NewIsBlank, Stages, Before, LeaseMatches, CheckoutSettled, Waits
<1>4. CASE activeSession # NoDialog /\ active[activeSession]
  <2>1. UNCHANGED <<sesVars, poolVars, activeSession>>
    BY <1>2, <1>4 DEF OnInvite
  <2>2. /\ activeSession \in Dialog /\ activeSession # d
        /\ callOf[activeSession] # c
        /\ dialogs[callOf[activeSession]] = activeSession
        /\ callOf[activeSession] \in CallId
    BY <1>1, <1>3, <1>4, SipFacts
    DEF Core, Current, ActiveIsReachable, DialogsSound
  <2>3. Stages' /\ Waits' /\ LeaseMatches' /\ EndsOnce'
    BY <2>1
    DEF Core, Stages, Waits, LeaseMatches, CheckoutSettled, EndsOnce,
        sesVars, poolVars
  <2>4. NewIsBlank'
    BY <1>1, <2>1 DEF Core, NewIsBlank, sesVars
  <2>5. Current' /\ ActiveIsReachable'
    BY <1>1, <1>4, <2>1, <2>2 DEF Core, Current, ActiveIsReachable, sesVars
  <2> QED
    BY <2>3, <2>4, <2>5 DEF Core
<1>5. CASE ~(activeSession # NoDialog /\ active[activeSession])
  <2>1. /\ act' = [act EXCEPT ![d] = "setup"]
        /\ activeSession' = d
        /\ UNCHANGED <<active, dsp, rtp, line, ever, ended>>
        /\ UNCHANGED poolVars
    BY <1>2, <1>5 DEF OnInvite, New
  <2>2. \A e \in Dialog : ~active[e]
    BY <1>5, NamesAssumption DEF Core, ActiveIsReachable
  <2>3. Stages'
    BY <1>3, <2>1 DEF Core, Stages, Before, InCall
  <2>4. NewIsBlank' /\ Waits' /\ EndsOnce'
    BY <1>1, <1>3, <2>1 DEF Core, NewIsBlank, Waits, EndsOnce, poolVars
  <2>5. Current' /\ ActiveIsReachable'
    BY <1>1, <1>3, <2>1, <2>2 DEF Current, ActiveIsReachable
  <2>6. LeaseMatches'
    BY <1>3, <2>1 DEF Core, LeaseMatches, CheckoutSettled, poolVars
  <2> QED
    BY <2>3, <2>4, <2>5, <2>6 DEF Core
<1> QED
  BY <1>4, <1>5

(* The first ACK of the session's call activates it.                       *)
LEMMA ActivateCore ==
  ASSUME IInv, Quiet, NEW d \in Dialog, activeSession = d, ~active[d],
         Activate(d), UNCHANGED <<activeSession, callOf, dialogs>>,
         dialogs[callOf[d]] = d, dstate' = [dstate EXCEPT ![d] = "CONFIRMED"]
  PROVE  Core'
<1> USE DEF IInv, TypeOK, SesTypeOK, Sip!TypeOK
<1>1. /\ act[d] = "answered" /\ d # NoDialog /\ ended[d] = 0
      /\ rtp[d] = IF UsesPool THEN "raw" ELSE "pcm"
      /\ dsp[d] = "none" /\ line[d] = "off" /\ holds[d] = NoBackend
  <2>1. act[d] \notin {"none", "failed", "over", "setup"} /\ ended[d] = 0
    BY NamesAssumption DEF Core, Current, Quiet, SessionDue
  <2>2. act[d] = "answered"
    BY <2>1 DEF Core, Stages, InCall, Act
  <2> QED
    BY <2>1, <2>2, NamesAssumption
    DEF Core, Stages, Before, LeaseMatches, CheckoutSettled
<1>2. /\ active' = [active EXCEPT ![d] = TRUE]
      /\ UNCHANGED <<rtp, line, ever, ended>>
  BY DEF Activate
<1>3. \/ /\ ~UsesPool /\ dsp' = [dsp EXCEPT ![d] = "native"]
         /\ act' = [act EXCEPT ![d] = "up"] /\ UNCHANGED poolVars
      \/ /\ UsesPool /\ UNCHANGED dsp
         /\ \/ act' = [act EXCEPT ![d] = "rejected"] /\ UNCHANGED poolVars
            \/ act' = [act EXCEPT ![d] = "checkout"] /\ Pool!Checkout(d)
  BY DEF Activate
<1>4. /\ \A e \in Dialog \ {d} : waitsFor'[e] = waitsFor[e] /\ holds'[e] = holds[e]
      /\ holds'[d] # NoBackend => act'[d] = "checkout" /\ waitsFor'[d] = NoBackend
      /\ waitsFor'[d] # NoBackend => act'[d] = "checkout"
  BY <1>1, <1>3, CheckoutEffect DEF poolVars, Core, Waits
<1>5. Stages'
  BY <1>1, <1>2, <1>3 DEF Core, Stages, Before, InCall
<1>6. NewIsBlank' /\ Waits' /\ EndsOnce'
  BY <1>1, <1>2, <1>3, <1>4 DEF Core, NewIsBlank, Waits, EndsOnce, Current
<1>7. Current' /\ ActiveIsReachable'
  BY <1>1, <1>2, <1>3 DEF Core, Current, ActiveIsReachable
<1>8. LeaseMatches'
  BY <1>1, <1>2, <1>3, <1>4 DEF Core, LeaseMatches, CheckoutSettled
<1> QED
  BY <1>5, <1>6, <1>7, <1>8 DEF Core

LEMMA ConfirmCore ==
  ASSUME IInv, Quiet, NEW c \in CallId, NEW d \in Dialog, SipConfirms(c, d),
         Listeners
  PROVE  Core'
<1> USE DEF IInv, TypeOK, SesTypeOK, Sip!TypeOK
<1>1. /\ event'.name = "ack" /\ event'.dialog = d
      /\ dialogs[c] = d /\ UNCHANGED <<dialogs, callOf>>
      /\ dstate' = [dstate EXCEPT ![d] = "CONFIRMED"]
  BY DEF SipConfirms
<1>2. OnAck(d)
  BY <1>1 DEF Listeners
<1>3. callOf[d] = c /\ dstate[d] # "INIT"
  BY <1>1, NamesAssumption, SipFacts DEF DialogsSound
<1>4. IsActive(d) => activeSession = d
  BY <1>1, <1>3, NamesAssumption DEF IsActive, Core, Current
<1>5. CASE IsActive(d) /\ ~active[d]
  BY <1>1, <1>2, <1>3, <1>4, <1>5, ActivateCore DEF OnAck
<1>6. CASE ~(IsActive(d) /\ ~active[d])
  <2>1. UNCHANGED <<sesVars, poolVars, activeSession>>
    BY <1>2, <1>4, <1>6 DEF OnAck, Activate
  <2>2. Stages' /\ Waits' /\ LeaseMatches' /\ EndsOnce'
    BY <2>1
    DEF Core, Stages, Waits, LeaseMatches, CheckoutSettled, EndsOnce,
        sesVars, poolVars
  <2>3. NewIsBlank' /\ Current' /\ ActiveIsReachable'
    BY <1>1, <1>3, <2>1
    DEF Core, NewIsBlank, Current, ActiveIsReachable, sesVars
  <2> QED
    BY <2>2, <2>3 DEF Core
<1> QED
  BY <1>5, <1>6

(* A BYE, a CANCEL or the end of the ACK's wait ends the session, if it is *)
(* that dialog's.                                                          *)
LEMMA EndCore ==
  ASSUME IInv, Quiet, NEW d \in Dialog, SipEnds(d), Listeners
  PROVE  Core'
<1> USE DEF IInv, TypeOK, SesTypeOK, Sip!TypeOK
<1>1. /\ dialogs[callOf[d]] = d /\ dstate[d] # "INIT" /\ UNCHANGED callOf
      /\ dialogs' \in {dialogs, [dialogs EXCEPT ![callOf[d]] = NoDialog]}
      /\ dstate' = [dstate EXCEPT ![d] = "TERMINATED"]
  BY DEF SipEnds
<1>2. OnByeOrCancel(d)
  BY DEF SipEnds, Listeners
<1>3. IsActive(d) => activeSession = d
  BY <1>1, NamesAssumption DEF IsActive, Core, Current
<1>4. CASE IsActive(d)
  <2>1. CheckoutSettled(d) => holds[d] = NoBackend
    BY DEF Quiet, SessionDue
  <2> QED
    BY <1>1, <1>2, <1>3, <1>4, <2>1, TeardownCore
    DEF OnByeOrCancel, OnBye
<1>5. CASE ~IsActive(d)
  <2>1. UNCHANGED <<sesVars, poolVars, activeSession>>
    BY <1>2, <1>5 DEF OnByeOrCancel, ForgetEnded, sesVars
  <2>2. activeSession # NoDialog =>
          activeSession # d /\ callOf[activeSession] # callOf[d]
    BY <1>5 DEF IsActive
  <2>3. Stages' /\ Waits' /\ LeaseMatches' /\ EndsOnce'
    BY <2>1
    DEF Core, Stages, Waits, LeaseMatches, CheckoutSettled, EndsOnce,
        sesVars, poolVars
  <2>4. NewIsBlank'
    BY <1>1, <2>1 DEF Core, NewIsBlank, sesVars
  <2>5. /\ callOf[d] \in CallId
        /\ activeSession # NoDialog => callOf[activeSession] \in CallId
    BY <1>1, SipFacts DEF DialogsSound, Core, Current
  <2>6. Current' /\ ActiveIsReachable'
    BY <1>1, <2>1, <2>2, <2>5, NamesAssumption
    DEF Core, Current, ActiveIsReachable, sesVars
  <2> QED
    BY <2>3, <2>4, <2>6 DEF Core
<1> QED
  BY <1>4, <1>5

(* A step of a session that changes no more than how far it has come.      *)
LEMMA AdvanceCore ==
  ASSUME IInv, NEW d \in Dialog, ForgetEnded,
         InviteAnswered(d) \/ Connected(d) \/ HoldExpires(d)
  PROVE  Core'
<1> USE DEF IInv, TypeOK, SesTypeOK
<1>1. /\ UNCHANGED <<active, dsp, rtp, ended, sipVars, poolVars>>
      /\ UNCHANGED activeSession
      /\ active[d] /\ dsp[d] # "none"
      /\ \/ act[d] = "inviting" /\ act' = [act EXCEPT ![d] = "up"]
            /\ UNCHANGED line
         \/ UNCHANGED act /\ \E l \in Line : line' = [line EXCEPT ![d] = l]
  BY DEF InviteAnswered, Connected, HoldExpires, Listening, ForgetEnded, Core,
     Stages, InCall, EndsOnce, Line
<1>2. Stages'
  BY <1>1 DEF Core, Stages, Before, InCall
<1>3. NewIsBlank' /\ Waits' /\ EndsOnce'
  BY <1>1 DEF Core, NewIsBlank, Waits, EndsOnce, sipVars, poolVars
<1>4. Current' /\ ActiveIsReachable'
  BY <1>1 DEF Core, Current, ActiveIsReachable, sipVars
<1>5. LeaseMatches'
  BY <1>1 DEF Core, LeaseMatches, CheckoutSettled, poolVars
<1> QED
  BY <1>2, <1>3, <1>4, <1>5 DEF Core

(* The in-process modem takes over: the VM goes back, the call goes on.    *)
LEMMA SwapCore ==
  ASSUME IInv, NEW d \in Dialog, Listening(d), MaySwap(d), Swap(d), ForgetEnded
  PROVE  Core'
<1> USE DEF IInv, TypeOK, SesTypeOK
<1>1. /\ UNCHANGED <<active, line, ended, sipVars, activeSession, waitsFor>>
      /\ active[d] /\ act[d] \in {"inviting", "up"}
      /\ act' = [act EXCEPT ![d] = "up"]
      /\ dsp' = [dsp EXCEPT ![d] = "native"]
      /\ rtp' = [rtp EXCEPT ![d] = "pcm"]
      /\ holds' = [holds EXCEPT ![d] = NoBackend]
  BY RecycleEffect DEF Listening, Swap, ForgetEnded
<1>2. Stages'
  BY <1>1 DEF Core, Stages, Before, InCall
<1>3. NewIsBlank' /\ Waits' /\ EndsOnce'
  BY <1>1 DEF Core, NewIsBlank, Waits, EndsOnce, sipVars
<1>4. Current' /\ ActiveIsReachable'
  BY <1>1 DEF Core, Current, ActiveIsReachable, sipVars
<1>5. LeaseMatches'
  BY <1>1 DEF Core, LeaseMatches, CheckoutSettled, Pool!TypeOK
<1> QED
  BY <1>2, <1>3, <1>4, <1>5 DEF Core

LEMMA SessionEventCore ==
  ASSUME IInv, Quiet, NEW d \in Dialog, SessionEvent(d)
  PROVE  Core'
<1>1. ForgetEnded /\ (CheckoutSettled(d) => holds[d] = NoBackend)
  BY DEF SessionEvent, Quiet, SessionDue
<1>2. Hangup(d) => active[d] \/ UNCHANGED <<sipVars, poolVars, sesVars>>
  BY DEF Hangup
<1>3. CASE Hangup(d) /\ active[d]
  BY <1>1, <1>3, HangupCore
<1>4. CASE UNCHANGED <<sipVars, poolVars, sesVars>>
  <2>1. UNCHANGED activeSession
    BY <1>1, <1>4 DEF ForgetEnded, sesVars
  <2> QED
    BY <1>4, <2>1, UnchangedMoves, PoolOnlyCore DEF IInv, sipVars
<1>5. CASE Listening(d) /\ MaySwap(d) /\ Swap(d)
  BY <1>1, <1>5, SwapCore
<1>6. CASE InviteAnswered(d) \/ Connected(d) \/ HoldExpires(d)
  BY <1>1, <1>6, AdvanceCore
<1> QED
  BY <1>2, <1>3, <1>4, <1>5, <1>6
  DEF SessionEvent, InviteFails, SilenceHangup, BackendError, UserDisconnects

LEMMA ShutdownCore ==
  ASSUME IInv, Quiet, Shutdown
  PROVE  Core'
<1>1. CASE activeSession # NoDialog /\ active[activeSession]
  <2>1. activeSession \in Dialog
    BY <1>1 DEF IInv, TypeOK
  <2>2. CheckoutSettled(activeSession) => holds[activeSession] = NoBackend
    BY <2>1 DEF Quiet, SessionDue
  <2> QED
    BY <1>1, <2>1, <2>2, HangupCore DEF Shutdown
<1>2. CASE ~(activeSession # NoDialog /\ active[activeSession])
  <2>1. UNCHANGED <<sipVars, poolVars, sesVars>>
    BY <1>2 DEF Shutdown, Hangup
  <2>2. UNCHANGED activeSession
    BY <2>1 DEF Shutdown, ForgetEnded, sesVars
  <2> QED
    BY <2>1, <2>2, UnchangedMoves, PoolOnlyCore DEF IInv, sipVars
<1> QED
  BY <1>1, <1>2

LEMMA MacrotaskCore ==
  ASSUME IInv, Macrotask
  PROVE  Core'
<1>1. Quiet /\ TypeOK /\ Core /\ Pool!TypeOK /\ Sip!TypeOK /\ DialogsSound
  BY SipFacts DEF Macrotask, IInv, TypeOK
<1>2. CASE Main \/ SipStopped \/ Exit \/ TcpConnects \/ TcpCloses
  <2>1. UNCHANGED <<sipVars, sesVars, activeSession>>
    BY <1>2 DEF Main, SipStopped, Exit, TcpConnects, TcpCloses
  <2>2. UNCHANGED poolVars \/ Pool!Start \/ Pool!Stop
    BY <1>2 DEF Main, SipStopped, StopPool, Exit, TcpConnects, TcpCloses
  <2> QED
    BY <1>1, <2>1, <2>2, UnchangedMoves, StartStopMove, PoolOnlyCore
    DEF sipVars
<1>3. CASE PoolCompletion
  BY <1>1, <1>3, CompletionMoves, PoolOnlyCore DEF PoolCompletion, sipVars
<1>4. ASSUME NEW b \in Backend, VmDies(b) PROVE Core'
  BY <1>1, <1>4, CrashMoves, PoolOnlyCore DEF VmDies, sipVars
<1>5. ASSUME NEW c \in CallId, Request(c) PROVE Core'
  <2>1. Sip!Request(c) /\ Listeners
    BY <1>5 DEF Request
  <2>2. CASE SipAnswers
    BY <1>1, <2>1, <2>2, AnswersCore
  <2>3. ASSUME NEW d \in Dialog,
               SipInvites(c, d) \/ SipConfirms(c, d) \/ SipEnds(d)
        PROVE  Core'
    BY <1>1, <2>1, <2>3, InviteCore, ConfirmCore, EndCore
  <2> QED
    BY <1>1, <2>1, <2>2, <2>3, RequestEffect
<1>6. ASSUME NEW d \in Dialog, AckTimer(d) PROVE Core'
  BY <1>1, <1>6, AckTimerEffect, AnswersCore, EndCore DEF AckTimer
<1> QED
  BY <1>1, <1>2, <1>3, <1>4, <1>5, <1>6, SessionEventCore, ShutdownCore
  DEF Macrotask

LEMMA StepCore ==
  ASSUME IInv, [Next]_vars
  PROVE  Core'
<1>1. CASE UNCHANGED vars
  BY <1>1, UnchangedMoves, PoolOnlyCore DEF IInv, vars, sipVars
<1> QED
  BY <1>1, MicrotaskCore, MacrotaskCore DEF Next

-----------------------------------------------------------------------------
(* The fields of the program and of the sessions keep their types.         *)

OwnTypes ==
  /\ SesTypeOK
  /\ activeSession \in Dialog \cup {NoDialog}
  /\ phase \in Phase
  /\ starting \in BOOLEAN /\ listens \in BOOLEAN /\ tcp \in BOOLEAN

LEMMA TypeParts == TypeOK <=> Sip!TypeOK /\ Pool!TypeOK /\ OwnTypes
<1>1. {starting, listens, tcp} \subseteq BOOLEAN
        <=> starting \in BOOLEAN /\ listens \in BOOLEAN /\ tcp \in BOOLEAN
  BY Zenon
<1> QED
  BY <1>1 DEF TypeOK, OwnTypes

LEMMA TypePartsNext == Sip!TypeOK' /\ Pool!TypeOK' /\ OwnTypes' => TypeOK'
<1>1. starting' \in BOOLEAN /\ listens' \in BOOLEAN /\ tcp' \in BOOLEAN
        => {starting', listens', tcp'} \subseteq BOOLEAN
  BY Zenon
<1> QED
  BY <1>1 DEF TypeOK, OwnTypes

LEMMA ForgetTypes ==
  ASSUME TypeOK, ForgetEnded
  PROVE  activeSession' \in Dialog \cup {NoDialog}
  BY DEF TypeOK, ForgetEnded

LEMMA SessionTypes ==
  ASSUME SesTypeOK, NEW d \in Dialog,
         \/ Setup(d) \/ ActivateGoesOn(d) \/ ActivateGivesUp(d)
         \/ SessionEvent(d) \/ Activate(d) \/ Teardown(d) \/ New(d) \/ Hangup(d)
  PROVE  SesTypeOK'
<1> USE DEF SesTypeOK, Act, Dsp, Rtp, Line
<1>1. Teardown(d) => SesTypeOK'
  BY DEF Teardown
<1>2. Hangup(d) => SesTypeOK'
  BY <1>1 DEF Hangup, sesVars
<1>3. New(d) \/ Setup(d) => SesTypeOK'
  BY DEF New, Setup, SetupAnswers, SetupFails
<1>4. Activate(d) => SesTypeOK'
  BY DEF Activate, sesVars
<1>5. ActivateGoesOn(d) \/ ActivateGivesUp(d) => SesTypeOK'
  BY <1>2 DEF ActivateGoesOn, ActivateGivesUp
<1>6. SessionEvent(d) => SesTypeOK'
  BY <1>2
  DEF SessionEvent, InviteAnswered, InviteFails, Connected, SilenceHangup, Swap,
      BackendError, HoldExpires, UserDisconnects
<1> QED
  BY <1>1, <1>2, <1>3, <1>4, <1>5, <1>6

LEMMA ListenersTypes ==
  ASSUME TypeOK, Listeners, event'.dialog \in Dialog \cup {NoDialog},
         event'.name = "invite" => event'.dialog \in Dialog
  PROVE  SesTypeOK' /\ activeSession' \in Dialog \cup {NoDialog}
<1>1. SesTypeOK /\ (activeSession # NoDialog => activeSession \in Dialog)
  BY DEF TypeOK
<1>2. UNCHANGED sesVars => SesTypeOK'
  BY <1>1 DEF sesVars, SesTypeOK
<1>3. CASE event'.name = "invite" /\ OnInvite(event'.dialog)
  BY <1>1, <1>2, <1>3, SessionTypes DEF OnInvite, TypeOK
<1>4. CASE OnAck(event'.dialog)
  BY <1>1, <1>2, <1>4, SessionTypes DEF OnAck, IsActive, TypeOK
<1>5. CASE OnByeOrCancel(event'.dialog)
  BY <1>1, <1>2, <1>5, SessionTypes, ForgetTypes
  DEF OnByeOrCancel, IsActive, OnBye
<1>6. CASE UNCHANGED <<sesVars, poolVars, activeSession>>
  BY <1>2, <1>6 DEF TypeOK
<1> QED
  BY <1>3, <1>4, <1>5, <1>6 DEF Listeners

LEMMA InviteNames ==
  ASSUME IInv, \/ \E c \in CallId : Request(c)
               \/ \E d \in Dialog : AckTimer(d)
  PROVE  event'.name = "invite" => event'.dialog \in Dialog
<1>1. Sip!TypeOK /\ DialogsSound
  BY SipFacts DEF IInv, TypeOK
<1>2. ASSUME NEW c \in CallId, Request(c)
      PROVE  event'.name = "invite" => event'.dialog \in Dialog
  BY <1>1, <1>2, RequestEffect
  DEF Request, SipAnswers, SipInvites, SipConfirms, SipEnds
<1>3. ASSUME NEW d \in Dialog, AckTimer(d)
      PROVE  event'.name = "invite" => event'.dialog \in Dialog
  BY <1>1, <1>3, AckTimerEffect DEF AckTimer, SipAnswers, SipEnds
<1> QED
  BY <1>2, <1>3

LEMMA StepTypeOK ==
  ASSUME IInv, [Next]_vars
  PROVE  TypeOK'
<1> SUFFICES OwnTypes'
  BY PartsInvariant, TypePartsNext
<1>1. TypeOK /\ SesTypeOK /\ OwnTypes
  BY TypeParts DEF IInv, TypeOK
<1>2. UNCHANGED sesVars => SesTypeOK'
  BY <1>1 DEF sesVars, SesTypeOK
<1>3. ASSUME SesTypeOK', activeSession' \in Dialog \cup {NoDialog}, Idle
      PROVE  OwnTypes'
  BY <1>1, <1>3 DEF OwnTypes, Idle, program
<1>4. CASE Microtask
  <2>1. ASSUME NEW d \in Dialog, Setup(d) PROVE OwnTypes'
    BY <1>1, <1>3, <2>1, SessionTypes DEF Setup, TypeOK
  <2>2. ASSUME NEW d \in Dialog, ActivateResumes(d) PROVE OwnTypes'
    BY <1>1, <1>3, <2>2, SessionTypes, ForgetTypes DEF ActivateResumes
  <2>3. CASE PoolMicrotask
    BY <1>1, <1>2, <2>3 DEF PoolMicrotask, OwnTypes, program
  <2>4. CASE Started \/ StopSip
    BY <1>1, <1>2, <2>4 DEF Started, StopSip, StopPool, OwnTypes, Phase
  <2> QED
    BY <1>4, <2>1, <2>2, <2>3, <2>4 DEF Microtask
<1>5. CASE Macrotask
  <2>1. CASE Main \/ SipStopped \/ Exit \/ TcpConnects \/ TcpCloses
    BY <1>1, <1>2, <2>1
    DEF Main, SipStopped, StopPool, Exit, TcpConnects, TcpCloses, OwnTypes, Phase
  <2>2. CASE Shutdown
    <3>1. SesTypeOK'
      BY <1>1, <1>2, <2>2, SessionTypes DEF Shutdown, OwnTypes
    <3> QED
      BY <1>1, <2>2, <3>1, ForgetTypes DEF Shutdown, OwnTypes, Phase
  <2>3. PoolCompletion \/ (\E b \in Backend : VmDies(b)) => OwnTypes'
    BY <1>1, <1>2 DEF PoolCompletion, VmDies, OwnTypes, program
  <2>4. Sip!TypeOK'
    BY PartsInvariant
  <2>6. CASE (\E c \in CallId : Request(c)) \/ (\E d \in Dialog : AckTimer(d))
    <3>1. event'.dialog \in Dialog \cup {NoDialog}
      BY <2>4 DEF Sip!TypeOK, Sip!Event
    <3>2. event'.name = "invite" => event'.dialog \in Dialog
      BY <2>6, InviteNames
    <3>3. Listeners /\ Idle
      BY <2>6 DEF Request, AckTimer
    <3> QED
      BY <1>1, <1>3, <3>1, <3>2, <3>3, ListenersTypes
  <2>7. ASSUME NEW d \in Dialog, SessionEvent(d) PROVE OwnTypes'
    BY <1>1, <1>3, <2>7, SessionTypes, ForgetTypes DEF SessionEvent
  <2> QED
    BY <1>5, <2>1, <2>2, <2>3, <2>6, <2>7 DEF Macrotask
<1>6. CASE UNCHANGED vars
  BY <1>1, <1>2, <1>6 DEF vars, OwnTypes, program
<1> QED
  BY <1>4, <1>5, <1>6 DEF Next

-----------------------------------------------------------------------------
(* What is due when.                                                       *)

(* Once a session exists, main() has its first VM and goes on.             *)
LEMMA CallMeansStarted ==
  ASSUME IInv, NEW d \in Dialog, act[d] # "none"
  PROVE  phase # "boot" /\ ~starting
  BY DEF IInv, Timing, NoCallYet

(* A step that starts no setup(), in a program that serves.                *)
LEMMA TimingLater ==
  ASSUME \A d \in Dialog : act'[d] # "setup",
         phase' \notin {"boot", "hungup"}, ~starting'
  PROVE  Timing'
  BY DEF Timing, SetupAlone, HungupAlone, NoCallYet

LEMMA MicrotaskTiming ==
  ASSUME IInv, Microtask
  PROVE  Timing'
<1> USE DEF IInv, TypeOK, SesTypeOK
<1>1. ASSUME NEW d \in Dialog, Setup(d) PROVE Timing'
  <2>1. act[d] = "setup" /\ activeSession = d /\ phase # "hungup"
    BY <1>1 DEF Setup, SetupAnswers, SetupFails, Timing, SetupAlone
  <2>2. \A e \in Dialog : act[e] = "setup" => e = d
    BY <2>1 DEF Timing, SetupAlone
  <2>3. \A e \in Dialog : act'[e] # "setup"
    BY <1>1, <2>2 DEF Setup, SetupAnswers, SetupFails
  <2>4. phase' \notin {"boot", "hungup"} /\ ~starting'
    BY <1>1, <2>1, CallMeansStarted DEF Setup, Idle, program
  <2> QED
    BY <2>3, <2>4, TimingLater
<1>2. ASSUME NEW d \in Dialog, ActivateResumes(d) PROVE Timing'
  <2>1. CheckoutSettled(d) \/ CheckoutFailed(d)
    BY <1>2 DEF ActivateResumes, ActivateGoesOn, ActivateGivesUp
  <2>2. /\ act[d] # "none" /\ phase # "hungup"
        /\ \A e \in Dialog : act[e] # "setup"
    BY <2>1 DEF CheckoutSettled, CheckoutFailed, Timing, SetupAlone, HungupAlone
  <2>3. \A e \in Dialog : act'[e] # "setup"
    BY <1>2, <2>2
    DEF ActivateResumes, ActivateGoesOn, ActivateGivesUp, Hangup, Teardown,
        sesVars
  <2>4. phase' \notin {"boot", "hungup"} /\ ~starting'
    BY <1>2, <2>2, CallMeansStarted DEF ActivateResumes, Idle, program
  <2> QED
    BY <2>3, <2>4, TimingLater
<1>3. CASE PoolMicrotask
  <2>1. ~Pool!Drained
    BY <1>3
    DEF PoolMicrotask, Pool!Microtask, Pool!Drained, Pool!CheckoutResumes,
        Pool!RecycleSettled, Pool!StopResumes
  <2>2. phase # "hungup" /\ \A e \in Dialog : act[e] # "setup"
    BY <2>1 DEF Timing, SetupAlone, HungupAlone
  <2>3. PoolMoves
    BY <1>3, MicrotaskMoves DEF PoolMicrotask
  <2> QED
    BY <1>3, <2>2, <2>3
    DEF PoolMicrotask, Timing, SetupAlone, HungupAlone, NoCallYet, PoolMoves,
        sesVars, program
<1>4. CASE Started
  <2>1. \A e \in Dialog : act[e] = "none"
    BY <1>4 DEF Started, StartDue, Timing, NoCallYet
  <2>2. phase' \notin {"boot", "hungup"} /\ ~starting'
    BY <1>4 DEF Started, StartDue, Timing, HungupAlone
  <2> QED
    BY <1>4, <2>1, <2>2, TimingLater DEF Started, sesVars
<1>5. CASE StopSip
  <2>1. \A e \in Dialog : act[e] # "setup"
    BY <1>5 DEF StopSip, Timing, SetupAlone
  <2>2. PoolMoves
    BY <1>5, UnchangedMoves, StartStopMove DEF StopSip, StopPool
  <2>3. phase' \in {"closing", "pool", "exited"} /\ ~listens'
    BY <1>5 DEF StopSip, StopPool
  <2> QED
    BY <1>5, <2>1, <2>2, <2>3
    DEF StopSip, Timing, SetupAlone, HungupAlone, NoCallYet, PoolMoves, sesVars
<1> QED
  BY <1>1, <1>2, <1>3, <1>4, <1>5 DEF Microtask

(* A new INVITE's setup() has the event loop to itself.                    *)
LEMMA InviteTiming ==
  ASSUME IInv, Quiet, NEW c \in CallId, NEW d \in Dialog, SipInvites(c, d),
         Listeners, Idle, phase # "boot", ~starting
  PROVE  Timing'
<1> USE DEF IInv, TypeOK, SesTypeOK
<1>1. /\ \A e \in Dialog : act[e] # "setup" /\ ~CheckoutSettled(e)
                           /\ ~CheckoutFailed(e)
      /\ Pool!Drained /\ phase \notin {"hungup", "exited"}
  BY DEF Quiet, SessionDue
<1>2. event' = [name |-> "invite", dialog |-> d] /\ OnInvite(d)
  BY DEF SipInvites, Listeners
<1>3. UNCHANGED program
  BY DEF Idle
<1>4. CASE UNCHANGED sesVars
  BY <1>1, <1>3, <1>4, TimingLater DEF sesVars, program
<1>5. CASE New(d) /\ activeSession' = d
  <2>1. UNCHANGED poolVars
    BY <1>2 DEF OnInvite
  <2>2. act' = [act EXCEPT ![d] = "setup"]
    BY <1>5 DEF New
  <2>3. Pool!Drained'
    BY <1>1, <2>1
    DEF poolVars, Pool!Drained, Pool!CheckoutDue, Pool!RecycleDue, Pool!StopDue
  <2>4. \A e \in Dialog : ~CheckoutSettled(e)' /\ ~CheckoutFailed(e)'
    BY <1>1, <2>1, <2>2 DEF CheckoutSettled, CheckoutFailed, poolVars
  <2>5. SetupAlone'
    BY <1>1, <1>2, <1>3, <1>5, <2>2, <2>3, <2>4
    DEF SetupAlone, StartDue, program
  <2> QED
    BY <1>1, <1>3, <2>5 DEF Timing, HungupAlone, NoCallYet, program
<1> QED
  BY <1>2, <1>4, <1>5 DEF OnInvite

(* The other listeners start no setup().                                   *)
LEMMA ListenersTiming ==
  ASSUME IInv, Quiet, event'.name # "invite", Listeners, Idle,
         phase # "boot", ~starting
  PROVE  Timing'
<1> USE DEF IInv, TypeOK, SesTypeOK
<1>1. \A e \in Dialog : act[e] # "setup"
  BY DEF Quiet, SessionDue
<1>2. \A e \in Dialog : act'[e] # "setup"
  BY <1>1
  DEF Listeners, OnAck, OnByeOrCancel, Activate, OnBye, Teardown, IsActive,
      sesVars
<1> QED
  BY <1>2, TimingLater DEF Quiet, Idle, program

LEMMA RequestTiming ==
  ASSUME IInv, Quiet, NEW c \in CallId, Request(c)
  PROVE  Timing'
<1>1. /\ Sip!TypeOK /\ DialogsSound /\ Sip!Request(c) /\ Listeners /\ Idle
      /\ phase # "boot" /\ ~starting
  BY SipFacts DEF Request, IInv, TypeOK, Timing, NoCallYet
<1>2. CASE event'.name # "invite"
  BY <1>1, <1>2, ListenersTiming
<1>3. ASSUME NEW d \in Dialog, SipInvites(c, d) PROVE Timing'
  BY <1>1, <1>3, InviteTiming
<1> QED
  BY <1>1, <1>2, <1>3, RequestEffect DEF SipAnswers, SipConfirms, SipEnds

(* A step that leaves the sessions and the program where they are, while   *)
(* nothing is due.                                                         *)
LEMMA QuietTiming ==
  ASSUME IInv, Quiet, UNCHANGED <<sesVars, program>>, PoolMoves
  PROVE  Timing'
<1>1. /\ \A e \in Dialog : act'[e] # "setup" /\ act'[e] = act[e]
      /\ phase' # "hungup" /\ UNCHANGED program
  BY DEF Quiet, SessionDue, sesVars, program
<1>2. NoCallYet'
  BY <1>1 DEF IInv, Timing, NoCallYet, PoolMoves, program
<1> QED
  BY <1>1, <1>2 DEF Timing, SetupAlone, HungupAlone

LEMMA AckTimerTiming ==
  ASSUME IInv, Quiet, NEW d \in Dialog, AckTimer(d)
  PROVE  Timing'
<1>1. DialogsSound /\ Sip!TypeOK /\ Sip!AckTimer(d) /\ Listeners /\ Idle
      /\ phase # "boot"
  BY SipFacts DEF IInv, TypeOK, AckTimer
<1>2. event'.name \in {"none", "bye", "cancel"}
  BY <1>1, AckTimerEffect DEF SipAnswers, SipEnds
<1>3. CASE starting
  <2>1. activeSession = NoDialog
    BY <1>3 DEF IInv, TypeOK, Core, Current, Timing, NoCallYet
  <2>2. UNCHANGED <<sesVars, poolVars>>
    BY <1>1, <1>2, <2>1 DEF Listeners, OnByeOrCancel, IsActive
  <2> QED
    BY <1>1, <2>2, QuietTiming, UnchangedMoves DEF Idle
<1>4. CASE ~starting
  BY <1>1, <1>2, <1>4, ListenersTiming
<1> QED
  BY <1>3, <1>4

LEMMA SessionEventTiming ==
  ASSUME IInv, Quiet, NEW d \in Dialog, SessionEvent(d)
  PROVE  Timing'
<1> USE DEF IInv, TypeOK, SesTypeOK
<1>1. /\ \A e \in Dialog : act[e] # "setup"
      /\ phase # "hungup" /\ UNCHANGED program
  BY DEF Quiet, SessionDue, SessionEvent, Idle
<1>2. CASE act[d] = "none"
  <2>1. ~active[d] /\ line[d] = "off"
    BY <1>2 DEF Core, Stages, Before
  <2>2. UNCHANGED <<sesVars, poolVars>>
    BY <1>2, <2>1
    DEF SessionEvent, InviteAnswered, InviteFails, Connected, SilenceHangup,
        BackendError, HoldExpires, UserDisconnects, Listening
  <2> QED
    BY <1>1, <2>2, QuietTiming, UnchangedMoves
<1>3. CASE act[d] # "none"
  <2>1. \A e \in Dialog : act'[e] # "setup"
    BY <1>1
    DEF SessionEvent, InviteAnswered, InviteFails, Connected, SilenceHangup,
        Swap, BackendError, HoldExpires, UserDisconnects, Hangup, Teardown,
        sesVars
  <2>2. phase' \notin {"boot", "hungup"} /\ ~starting'
    BY <1>1, <1>3, CallMeansStarted DEF program
  <2> QED
    BY <2>1, <2>2, TimingLater
<1> QED
  BY <1>2, <1>3

(* shutdown()'s hang-up leaves nothing due and no call.                    *)
LEMMA ShutdownTiming ==
  ASSUME IInv, Quiet, Shutdown
  PROVE  Timing'
<1> USE DEF IInv, TypeOK, SesTypeOK
<1>1. /\ \A e \in Dialog : act[e] # "setup" /\ ~CheckoutSettled(e)
                           /\ ~CheckoutFailed(e)
      /\ Pool!Drained /\ ~StartDue
      /\ phase' = "hungup" /\ UNCHANGED <<starting, listens, tcp>>
  BY DEF Quiet, SessionDue, Shutdown
<1>2. CASE activeSession # NoDialog /\ active[activeSession]
  <2> DEFINE d == activeSession
  <2>1. d \in Dialog /\ Hangup(d) /\ active[d]
    BY <1>2 DEF Shutdown
  <2>2. Teardown(d) /\ (dsp[d] = "pooled" => Pool!Recycle(d))
    BY <2>1, HangupEffect DEF Teardown
  <2> HIDE DEF d
  <2>3. act[d] # "none" /\ ~starting
    BY <2>1, CallMeansStarted DEF Core, Stages, Before
  <2>4. Pool!Drained'
    <3>1. CASE dsp[d] = "pooled"
      BY <1>1, <2>1, <2>2, <3>1, RecycleKeepsDrained
    <3>2. CASE dsp[d] # "pooled"
      BY <1>1, <2>2, <3>2
      DEF Teardown, poolVars, Pool!Drained, Pool!CheckoutDue, Pool!RecycleDue,
          Pool!StopDue
    <3> QED
      BY <3>1, <3>2
  <2>5. /\ \A e \in Dialog : waitsFor'[e] = waitsFor[e]
        /\ \A e \in Dialog \ {d} : holds'[e] = holds[e]
        /\ active' = [active EXCEPT ![d] = FALSE]
        /\ act' = [act EXCEPT ![d] = IF waitsFor[d] # NoBackend THEN @ ELSE "over"]
    BY <2>1, <2>2, RecycleEffect DEF Teardown, poolVars, Pool!TypeOK
  <2>6. \A e \in Dialog : ~active'[e]
    BY <2>1, <2>5 DEF Core, ActiveIsReachable
  <2>7. \A e \in Dialog : ~CheckoutSettled(e)' /\ ~CheckoutFailed(e)'
                           /\ act'[e] # "setup"
    BY <1>1, <2>1, <2>5 DEF CheckoutSettled, CheckoutFailed
  <2> QED
    BY <1>1, <2>3, <2>4, <2>6, <2>7
    DEF Timing, SetupAlone, HungupAlone, NoCallYet, StartDue
<1>3. CASE ~(activeSession # NoDialog /\ active[activeSession])
  <2>1. UNCHANGED <<poolVars, sesVars>>
    BY <1>3 DEF Shutdown, Hangup
  <2>2. \A e \in Dialog : ~active[e]
    BY <1>3, NamesAssumption DEF Core, ActiveIsReachable
  <2>3. Pool!Drained' /\ ~StartDue'
    BY <1>1, <2>1
    DEF poolVars, Pool!Drained, Pool!CheckoutDue, Pool!RecycleDue, Pool!StopDue,
        StartDue
  <2>4. \A e \in Dialog : ~CheckoutSettled(e)' /\ ~CheckoutFailed(e)'
                           /\ act'[e] # "setup" /\ ~active'[e]
    BY <1>1, <2>1, <2>2 DEF CheckoutSettled, CheckoutFailed, sesVars, poolVars
  <2>5. NoCallYet'
    BY <1>1, <2>1, UnchangedMoves
    DEF Timing, NoCallYet, PoolMoves, sesVars
  <2> QED
    BY <1>1, <2>3, <2>4, <2>5 DEF Timing, SetupAlone, HungupAlone
<1> QED
  BY <1>2, <1>3

LEMMA MacrotaskTiming ==
  ASSUME IInv, Macrotask
  PROVE  Timing'
<1>1. Quiet /\ Pool!TypeOK
  BY DEF Macrotask, IInv, TypeOK
<1>2. CASE Main \/ SipStopped \/ Exit \/ TcpConnects \/ TcpCloses
  <2>1. /\ UNCHANGED sesVars /\ phase' # "hungup"
        /\ UNCHANGED poolVars \/ Pool!Start \/ Pool!Stop
    BY <1>1, <1>2
    DEF Quiet, Main, SipStopped, StopPool, Exit, TcpConnects, TcpCloses
  <2>2. PoolMoves /\ \A e \in Dialog : act[e] # "setup"
    BY <1>1, <2>1, UnchangedMoves, StartStopMove DEF Quiet, SessionDue
  <2>3. phase' = "boot" \/ starting' =>
          (phase = "boot" \/ starting) /\ ~listens' /\ ~tcp'
    BY <1>2
    DEF IInv, Timing, NoCallYet, Main, SipStopped, StopPool, Exit, TcpConnects,
        TcpCloses
  <2> QED
    BY <2>1, <2>2, <2>3
    DEF IInv, Timing, SetupAlone, HungupAlone, NoCallYet, PoolMoves, sesVars
<1>3. CASE PoolCompletion
  BY <1>1, <1>3, CompletionMoves, QuietTiming DEF PoolCompletion
<1>4. ASSUME NEW b \in Backend, VmDies(b) PROVE Timing'
  BY <1>1, <1>4, CrashMoves, QuietTiming DEF VmDies
<1> QED
  BY <1>1, <1>2, <1>3, <1>4, ShutdownTiming, RequestTiming, AckTimerTiming,
     SessionEventTiming DEF Macrotask

LEMMA StepTiming ==
  ASSUME IInv, [Next]_vars
  PROVE  Timing'
<1>1. CASE UNCHANGED vars
  BY <1>1
  DEF vars, sipVars, poolVars, sesVars, program, IInv, Timing, SetupAlone,
      HungupAlone, NoCallYet, StartDue, CheckoutSettled, CheckoutFailed,
      Pool!Drained, Pool!CheckoutDue, Pool!RecycleDue, Pool!StopDue
<1> QED
  BY <1>1, MicrotaskTiming, MacrotaskTiming DEF Next

-----------------------------------------------------------------------------
(* The theorems.                                                           *)

LEMMA InitIInv == Init => IInv
<1> SUFFICES ASSUME Init PROVE IInv
  OBVIOUS
<1>1. PoolP!IInv /\ Pool!TypeOK
  BY SamePoolInit, PoolP!InitIInv, PoolTypes, NamesAssumption DEF Init
<1>2. SipP!IInv /\ Sip!TypeOK
  BY SameSipInit, SipP!InitIInv, SipTypes, NamesAssumption DEF Init
<1>3. OwnTypes
  BY DEF Init, SesInit, OwnTypes, SesTypeOK, Act, Dsp, Rtp, Line, Phase
<1>4. Core
  BY DEF Init, SesInit, Pool!Init, Core, Stages, Before, InCall, NewIsBlank,
     Current, Waits, ActiveIsReachable, LeaseMatches, EndsOnce
<1>5. Timing
  BY DEF Init, SesInit, Pool!Init, Timing, SetupAlone, HungupAlone, NoCallYet
<1> QED
  BY <1>1, <1>2, <1>3, <1>4, <1>5, TypeParts DEF IInv

LEMMA StepIInv == IInv /\ [Next]_vars => IInv'
  BY PartsInvariant, StepTypeOK, StepCore, StepTiming DEF IInv

LEMMA IInvAlways == Spec => []IInv
  BY InitIInv, StepIInv, PTL DEF Spec

(* Every field of the program, of the sessions and of the parts keeps its  *)
(* type.                                                                   *)
THEOREM TypeCorrect == Spec => []TypeOK
<1>1. IInv => TypeOK
  BY DEF IInv
<1> QED
  BY <1>1, IInvAlways, PTL

(* Whatever the order of requests, timers, VM events and signals: a call   *)
(* in progress is the one index.js and the SIP server would route its BYE  *)
(* to, and it ends once, with its port and its telnet connection gone.     *)
THEOREM CallSafeAlways == Spec => []CallSafe
<1>1. IInv => CallSafe
  BY DEF IInv, Core, CallSafe
<1> QED
  BY <1>1, IInvAlways, PTL

(* A call in progress is the one index.js has as active and the SIP server *)
(* still knows, so that its BYE is answered with a teardown.               *)
THEOREM ActiveAlwaysReachable == Spec => []ActiveIsReachable
<1>1. IInv => ActiveIsReachable
  BY DEF IInv, Core
<1> QED
  BY <1>1, IInvAlways, PTL

(* However a call ends, and however often it is told to: its 'ended' fires *)
(* once, and by then its port is released and its telnet side is closed.   *)
THEOREM EndsOnceAlways == Spec => []EndsOnce
<1>1. IInv => EndsOnce
  BY DEF IInv, Core
<1> QED
  BY <1>1, IInvAlways, PTL

(* The sessions and the pool always agree on who has a VM, and a session's *)
(* media path is the one of the modem it runs.                             *)
THEOREM LeaseMatchesAlways == Spec => []LeaseMatches
<1>1. IInv => LeaseMatches
  BY DEF IInv, Core
<1> QED
  BY <1>1, IInvAlways, PTL

(* index.js and the sessions keep to the rules of calling the pool and the *)
(* SIP server: what is proved of either part by itself holds in the whole  *)
(* program, one VM at a time and one reachable dialog among it.            *)
THEOREM PartsKeepRules == Spec => PartsSpec
<1>1. Init => Pool!Init /\ Sip!Init
  BY DEF Init
<1>2. IInv /\ [Next]_vars => [Pool!Next]_(Pool!vars) /\ [Sip!Next]_(Sip!vars)
  BY PartsKeep
<1> QED
  BY <1>1, <1>2, IInvAlways, PTL
  DEF Spec, PartsSpec, PoolSpec, SipSpec, Pool!Spec, Sip!Spec

-----------------------------------------------------------------------------
(* The end of the program.  Without a TCP client, the only thing that can  *)
(* follow a call into sipServer.stop(), no session has a VM left to return *)
(* when the pool stops.                                                    *)

(* While the SIP server's sockets close, there is no call.                 *)
NoCallClosing ==
  phase = "closing" => ~starting /\ ~listens /\ \A d \in Dialog : ~active[d]

(* On a stopped pool a call is only ever refused.                          *)
OnlyRefused ==
  stopped => \A d \in Dialog : active[d] => act[d] = "rejected"

StoppedVms ==
  stopPc = "done" => Pool!Running \subseteq {holds[d] : d \in Dialog}

(* In native mode the pool is never used.                                  *)
PoolIdle == ~UsesPool => starts = 0 /\ ~starting /\ ~stopped

ExitInv ==
  /\ PoolP!StopInv
  /\ ~tcp
  /\ NoCallClosing
  /\ OnlyRefused
  /\ PoolIdle
  /\ StoppedVms
  /\ ExitLeavesNoVm

(* On a stopped pool the session that is torn down has no VM to return.    *)
LEMMA TeardownStopped ==
  ASSUME IInv, OnlyRefused, stopped, NEW d \in Dialog, d # NoDialog,
         active[d] \/ activeSession = d, Teardown(d)
  PROVE  PoolMoves /\ \A e \in Dialog : active'[e] => act'[e] = "rejected"
<1> USE DEF IInv, TypeOK, SesTypeOK
<1>1. dsp[d] # "pooled"
  BY DEF Core, Stages, Before, InCall, Act, Current, OnlyRefused
<1>2. PoolMoves
  BY <1>1, UnchangedMoves DEF Teardown
<1>3. \A e \in Dialog : active'[e] => e # d /\ active[e] /\ act'[e] = act[e]
  BY DEF Teardown
<1> QED
  BY <1>2, <1>3 DEF OnlyRefused

LEMMA HangupStopped ==
  ASSUME IInv, OnlyRefused, stopped, NEW d \in Dialog, Hangup(d)
  PROVE  PoolMoves /\ \A e \in Dialog : active'[e] => act'[e] = "rejected"
<1>1. CASE active[d]
  BY <1>1, HangupEffect, TeardownStopped, NamesAssumption
<1>2. CASE ~active[d]
  BY <1>2, UnchangedMoves DEF Hangup, OnlyRefused, sesVars
<1> QED
  BY <1>1, <1>2

LEMMA ListenersStopped ==
  ASSUME IInv, ExitInv, stopped, Listeners
  PROVE  PoolMoves /\ \A e \in Dialog : active'[e] => act'[e] = "rejected"
<1>1. CASE UNCHANGED <<sesVars, poolVars>>
  BY <1>1, UnchangedMoves DEF ExitInv, OnlyRefused, sesVars
<1>2. CASE OnInvite(event'.dialog)
  <2>1. CASE activeSession # NoDialog /\ active[activeSession]
    BY <1>1, <1>2, <2>1 DEF OnInvite
  <2>2. CASE ~(activeSession # NoDialog /\ active[activeSession])
    <3>1. \A e \in Dialog : ~active[e]
      BY <2>2, NamesAssumption DEF IInv, Core, ActiveIsReachable
    <3> QED
      BY <1>2, <2>2, <3>1, UnchangedMoves DEF OnInvite, New
  <2> QED
    BY <2>1, <2>2
<1>3. ASSUME NEW d \in Dialog, Activate(d)
      PROVE  PoolMoves /\ \A e \in Dialog : active'[e] => act'[e] = "rejected"
  <2>1. CASE active[d]
    BY <1>1, <1>3, <2>1 DEF Activate
  <2>2. CASE ~active[d]
    <3>1. /\ active' = [active EXCEPT ![d] = TRUE]
          /\ act' = [act EXCEPT ![d] = "rejected"]
          /\ UNCHANGED poolVars
      BY <1>3, <2>2 DEF Activate, ExitInv, PoolIdle, CheckoutThrows
    <3> QED
      BY <3>1, UnchangedMoves
      DEF ExitInv, OnlyRefused, IInv, TypeOK, SesTypeOK
  <2> QED
    BY <2>1, <2>2
<1>4. CASE OnAck(event'.dialog)
  BY <1>1, <1>3, <1>4 DEF OnAck, IsActive, IInv, TypeOK
<1>5. CASE OnByeOrCancel(event'.dialog)
  BY <1>1, <1>5, TeardownStopped, NamesAssumption
  DEF OnByeOrCancel, OnBye, IsActive, IInv, TypeOK, ExitInv
<1> QED
  BY <1>1, <1>2, <1>4, <1>5 DEF Listeners

LEMMA SessionEventStopped ==
  ASSUME IInv, OnlyRefused, stopped, NEW d \in Dialog, SessionEvent(d)
  PROVE  PoolMoves /\ \A e \in Dialog : active'[e] => act'[e] = "rejected"
<1>1. CASE Hangup(d)
  BY <1>1, HangupStopped
<1>2. ~Listening(d) /\ act[d] # "inviting"
  BY DEF OnlyRefused, Listening, IInv, Core, Stages, InCall
<1>3. CASE HoldExpires(d)
  BY <1>3, UnchangedMoves DEF HoldExpires, OnlyRefused
<1> QED
  BY <1>1, <1>2, <1>3
  DEF SessionEvent, InviteAnswered, InviteFails, Connected, SilenceHangup,
      BackendError, UserDisconnects

(* So on a stopped pool nobody's VM is returned, and calls are refused.    *)
LEMMA StoppedMoves ==
  ASSUME IInv, ExitInv, stopped, [Next]_vars
  PROVE  PoolMoves /\ \A e \in Dialog : active'[e] => act'[e] = "rejected"
<1> DEFINE Goal == PoolMoves /\ \A e \in Dialog : active'[e] => act'[e] = "rejected"
<1>1. TypeOK /\ Pool!TypeOK /\ SesTypeOK /\ OnlyRefused
  BY DEF IInv, TypeOK, ExitInv
<1>2. ASSUME UNCHANGED sesVars, PoolMoves PROVE Goal
  BY <1>1, <1>2 DEF OnlyRefused, sesVars
<1>3. CASE Microtask
  <2>1. ASSUME NEW d \in Dialog, Setup(d) PROVE Goal
    BY <1>1, <2>1, UnchangedMoves
    DEF Setup, SetupAnswers, SetupFails, OnlyRefused, SesTypeOK
  <2>2. ASSUME NEW d \in Dialog, ActivateResumes(d) PROVE Goal
    <3>1. CASE ActivateGoesOn(d)
      BY <1>1, <3>1, UnchangedMoves
      DEF ActivateGoesOn, CheckoutSettled, OnlyRefused, SesTypeOK
    <3>2. CASE ActivateGivesUp(d) /\ active[d]
      BY <1>1, <3>2, HangupStopped DEF ActivateGivesUp
    <3>3. CASE ActivateGivesUp(d) /\ ~active[d]
      BY <1>1, <3>3, UnchangedMoves DEF ActivateGivesUp, OnlyRefused, SesTypeOK
    <3> QED
      BY <2>2, <3>1, <3>2, <3>3 DEF ActivateResumes
  <2>3. CASE PoolMicrotask
    BY <1>1, <1>2, <2>3, MicrotaskMoves DEF PoolMicrotask
  <2>4. CASE Started \/ StopSip
    BY <1>2, <2>4, UnchangedMoves, StartStopMove
    DEF Started, StopSip, StopPool
  <2> QED
    BY <1>3, <2>1, <2>2, <2>3, <2>4 DEF Microtask
<1>4. CASE Macrotask
  <2>1. CASE Main \/ SipStopped \/ Exit \/ TcpConnects \/ TcpCloses
    BY <1>2, <2>1, UnchangedMoves, StartStopMove
    DEF Main, SipStopped, StopPool, Exit, TcpConnects, TcpCloses
  <2>2. CASE Shutdown
    BY <1>1, <1>2, <2>2, HangupStopped, UnchangedMoves DEF Shutdown, TypeOK
  <2>3. CASE PoolCompletion
    BY <1>1, <1>2, <2>3, CompletionMoves DEF PoolCompletion
  <2>4. ASSUME NEW b \in Backend, VmDies(b) PROVE Goal
    BY <1>2, <2>4, CrashMoves DEF VmDies
  <2>5. (\E c \in CallId : Request(c)) \/ (\E d \in Dialog : AckTimer(d))
          => Goal
    BY ListenersStopped DEF Request, AckTimer
  <2>6. ASSUME NEW d \in Dialog, SessionEvent(d) PROVE Goal
    BY <1>1, <2>6, SessionEventStopped
  <2> QED
    BY <1>4, <2>1, <2>2, <2>3, <2>4, <2>5, <2>6 DEF Macrotask
<1>5. CASE UNCHANGED vars
  BY <1>2, <1>5, UnchangedMoves DEF vars
<1> QED
  BY <1>3, <1>4, <1>5 DEF Next

(* A caller that has a VM keeps it, as far as the pool is concerned.       *)
LEMMA MovesKeepHolds ==
  ASSUME IInv, PoolMoves, NEW d \in Dialog, holds[d] # NoBackend
  PROVE  holds'[d] = holds[d]
  BY DEF IInv, Core, Waits, Stages, LeaseMatches, CheckoutSettled, PoolMoves

LEMMA PoolStopKeeps ==
  ASSUME IInv, ExitInv, [Next]_vars
  PROVE  PoolP!StopInv'
<1>1. [PoolP!Next]_(PoolP!vars)
  BY PartsKeep, SamePoolNext
<1> QED
  BY <1>1, PoolP!StepStops, NamesAssumption DEF IInv, ExitInv

(* After stop() the VMs that run are still those the sessions hold.        *)
LEMMA StoppedVmsLater ==
  ASSUME IInv, ExitInv, [Next]_vars, stopPc = "done"
  PROVE  StoppedVms'
<1>1. stopped
  BY DEF IInv, PoolP!IInv, PoolP!StoppingVm
<1>2. \A d \in Dialog : holds[d] # NoBackend => holds'[d] = holds[d]
  BY <1>1, StoppedMoves, MovesKeepHolds
<1>3. \A b \in Backend : life'[b] # "dead" => life[b] # "dead"
  <2>1. [PoolP!Next]_(PoolP!vars)
    BY PartsKeep, SamePoolNext
  <2> QED
    BY <1>2, <2>1, PoolP!StoppedStays, NamesAssumption DEF IInv, ExitInv
<1>4. ASSUME NEW b \in Backend, life'[b] # "dead"
      PROVE  \E d \in Dialog : holds'[d] = b
  <2>1. b \in Pool!Running
    BY <1>3, <1>4 DEF Pool!Running
  <2>2. PICK d \in Dialog : holds[d] = b
    BY <2>1 DEF ExitInv, StoppedVms
  <2>3. holds'[d] = b
    BY <1>2, <2>2, NamesAssumption
  <2> QED
    BY <2>3
<1> QED
  BY <1>4 DEF StoppedVms, Pool!Running

LEMMA StoppedVmsStep ==
  ASSUME IInv, ExitInv, [Next]_vars
  PROVE  StoppedVms'
<1>1. CASE stopPc = "done"
  BY <1>1, StoppedVmsLater
<1>2. CASE stopPc # "done"
  <2>1. [PoolP!Next]_(PoolP!vars)
    BY PartsKeep, SamePoolNext
  <2>2. stopPc' = "done" => \A b \in Backend : life'[b] # "dead" =>
                               \E d \in Dialog : holds'[d] = b
    BY <1>2, <2>1, PoolP!StepStops, NamesAssumption DEF IInv, ExitInv
  <2> QED
    BY <2>2 DEF StoppedVms, Pool!Running
<1> QED
  BY <1>1, <1>2

(* The three places where the pool is stopped.                             *)
LEMMA StopsWithoutCall ==
  ASSUME IInv, ExitInv, Started \/ StopSip \/ SipStopped
  PROVE  UNCHANGED sesVars /\ \A d \in Dialog : ~active[d]
  BY DEF Started, StartDue, StopSip, SipStopped, IInv, Core, Stages, Before,
     Timing, HungupAlone, NoCallYet, ExitInv, NoCallClosing

LEMMA StartedStoppedElsewhere ==
  ASSUME IInv, [Next]_vars
  PROVE  \/ Main \/ Started \/ StopSip \/ SipStopped
         \/ UNCHANGED <<stopped, starts>>
<1> DEFINE Same == UNCHANGED <<stopped, starts>>
<1>1. ASSUME UNCHANGED poolVars PROVE Same
  BY <1>1 DEF poolVars
<1>2. ASSUME NEW d \in Dialog, Teardown(d) \/ Hangup(d) PROVE Same
  BY <1>1, <1>2 DEF Teardown, Hangup, Pool!Recycle
<1>3. ASSUME NEW d \in Dialog, Activate(d) PROVE Same
  BY <1>1, <1>3 DEF Activate, Pool!Checkout
<1>4. Listeners => Same
  BY <1>1, <1>2, <1>3
  DEF Listeners, OnInvite, OnAck, OnByeOrCancel, OnBye, IsActive, IInv, TypeOK
<1>5. ASSUME NEW d \in Dialog, SessionEvent(d) PROVE Same
  BY <1>1, <1>2, <1>5
  DEF SessionEvent, InviteAnswered, InviteFails, Connected, SilenceHangup,
      Swap, Pool!Recycle, BackendError, HoldExpires, UserDisconnects
<1>6. ASSUME NEW d \in Dialog, Setup(d) \/ ActivateResumes(d) PROVE Same
  BY <1>1, <1>2, <1>6
  DEF Setup, SetupAnswers, SetupFails, ActivateResumes, ActivateGoesOn,
      ActivateGivesUp
<1>7. PoolMicrotask \/ PoolCompletion => Same
  BY DEF PoolMicrotask, Pool!Microtask, Pool!CheckoutResumes,
     Pool!RecycleSettled, Pool!StopResumes, Pool!StopRunsFrom, PoolCompletion,
     Pool!Completion, Pool!WarmupReady, Pool!WarmupFails, Pool!WarmupAborted,
     Pool!RecycleStopped, Pool!StopReturns, Pool!fields
<1>8. Shutdown \/ Exit \/ TcpConnects \/ TcpCloses => Same
  BY <1>1, <1>2 DEF Shutdown, Exit, TcpConnects, TcpCloses, IInv, TypeOK
<1>9. ASSUME NEW b \in Backend, VmDies(b) PROVE Same
  BY <1>9 DEF VmDies, Pool!Crash, Pool!fields
<1> QED
  BY <1>1, <1>4, <1>5, <1>6, <1>7, <1>8, <1>9
  DEF Next, Microtask, Macrotask, Request, AckTimer, vars

LEMMA OnlyRefusedStep ==
  ASSUME IInv, ExitInv, [Next]_vars
  PROVE  OnlyRefused'
<1>1. CASE stopped
  BY <1>1, StoppedMoves DEF OnlyRefused
<1>2. CASE ~stopped
  <2>1. Main => ~stopped'
    BY <1>2 DEF Main, Pool!Start, poolVars
  <2> QED
    BY <1>2, <2>1, StartedStoppedElsewhere, StopsWithoutCall
    DEF OnlyRefused, sesVars
<1> QED
  BY <1>1, <1>2

LEMMA PoolIdleStep ==
  ASSUME IInv, ExitInv, [Next]_vars
  PROVE  PoolIdle'
<1> SUFFICES ASSUME ~UsesPool PROVE starts' = 0 /\ ~starting' /\ ~stopped'
  BY DEF PoolIdle, UsesPool
<1>1. starts = 0 /\ ~starting /\ ~stopped
  BY DEF ExitInv, PoolIdle
<1>2. Main \/ Started \/ StopSip \/ SipStopped => UNCHANGED <<stopped, starts>>
  BY <1>1
  DEF Main, Started, StartDue, StopSip, SipStopped, StopPool, poolVars
<1>3. ~starting'
  BY <1>1
  DEF Next, Microtask, Macrotask, Setup, ActivateResumes, PoolMicrotask,
      Started, StopSip, Main, Shutdown, SipStopped, Exit, Request, AckTimer,
      TcpConnects, TcpCloses, SessionEvent, PoolCompletion, VmDies, Idle,
      program, vars
<1> QED
  BY <1>1, <1>2, <1>3, StartedStoppedElsewhere

(* The sockets close for a while only after main() is through, and no      *)
(* request comes in then.                                                  *)
LEMMA NoCallClosingStep ==
  ASSUME ~SipOverTcp, IInv, ExitInv, [Next]_vars
  PROVE  NoCallClosing' /\ ~tcp'
<1> USE DEF ExitInv, IInv, TypeOK, SesTypeOK
<1>1. ~tcp'
  BY DEF Next, Microtask, Macrotask, Setup, ActivateResumes, PoolMicrotask,
     Started, StopSip, Main, Shutdown, SipStopped, Exit, Request, AckTimer,
     TcpConnects, TcpCloses, SessionEvent, PoolCompletion, VmDies, Idle,
     program, vars
<1>2. CASE StopSip
  BY <1>2 DEF StopSip, StopPool, Timing, HungupAlone, NoCallYet, NoCallClosing,
     sesVars
<1>3. CASE phase' = "closing" /\ ~StopSip
  <2>1. /\ phase = "closing" /\ UNCHANGED <<starting, listens>>
        /\ ~starting /\ ~listens /\ \A d \in Dialog : ~active[d]
    BY <1>3
    DEF Next, Microtask, Macrotask, Setup, ActivateResumes, PoolMicrotask,
        Started, StartDue, Main, Shutdown, SipStopped, StopPool, Exit, Request,
        AckTimer, TcpConnects, TcpCloses, SessionEvent, PoolCompletion, VmDies,
        Idle, program, vars, NoCallClosing
  <2>2. ASSUME NEW d \in Dialog, AckTimer(d) PROVE event'.name # "ack"
    BY <2>2, SipFacts, AckTimerEffect DEF AckTimer, SipAnswers, SipEnds
  <2>3. ASSUME NEW d \in Dialog, AckTimer(d)
        PROVE  \A e \in Dialog : ~active'[e]
    BY <2>1, <2>2, <2>3
    DEF AckTimer, Listeners, OnInvite, New, OnByeOrCancel, OnBye, Teardown,
        sesVars
  <2>4. ASSUME NEW d \in Dialog, SessionEvent(d) \/ Setup(d) \/ ActivateResumes(d)
        PROVE  \A e \in Dialog : ~active'[e]
    BY <2>1, <2>4
    DEF SessionEvent, InviteAnswered, InviteFails, Connected, SilenceHangup,
        Swap, BackendError, HoldExpires, UserDisconnects, Hangup, Setup,
        SetupAnswers, SetupFails, ActivateResumes, ActivateGoesOn,
        ActivateGivesUp, sesVars
  <2>5. \A e \in Dialog : ~active'[e]
    BY <1>3, <2>1, <2>3, <2>4
    DEF Next, Microtask, Macrotask, PoolMicrotask, Started, StartDue, Main,
        Shutdown, SipStopped, Exit, Request, TcpConnects, TcpCloses,
        PoolCompletion, VmDies, sesVars, vars
  <2> QED
    BY <1>1, <2>1, <2>5 DEF NoCallClosing
<1> QED
  BY <1>1, <1>2, <1>3 DEF NoCallClosing

(* main() exits when the first VM did not come up: then nothing runs that  *)
(* no session holds.                                                       *)
LEMMA StartedExits ==
  ASSUME IInv, ExitInv, Started, phase # "exited", phase' = "exited",
         NEW b \in Backend, life'[b] # "dead"
  PROVE  \E d \in Dialog : holds'[d] = b
<1>1. /\ state \notin {"ready", "warming"} /\ starting
      /\ \/ stopped /\ UNCHANGED poolVars
         \/ ~stopped /\ Pool!Stop
  BY DEF Started, StartDue
<1>2. backend = NoBackend /\ stopPc # "backend" /\ warming[b] = "no"
  BY <1>1
  DEF IInv, PoolP!IInv, PoolP!TypeOK, PoolP!Maybe, PoolP!Warming, PoolP!WarmVm,
      ExitInv, PoolP!StopInv, PoolP!StopStage, PoolP!OneWarmup
<1>3. recycling[b] = NoBackend
  BY <1>1 DEF IInv, Timing, NoCallYet
<1>4. life'[b] = life[b] /\ UNCHANGED holds
  BY <1>1, <1>2
  DEF poolVars, Pool!Stop, Pool!StopRunsFrom, Pool!StopAwaits
<1>5. b \in Pool!Running /\ b \in PoolP!Running
  BY <1>4 DEF Pool!Running, PoolP!Running
<1>6. b # NoBackend
  BY NamesAssumption
<1>7. CASE stopPc = "done"
  <2>1. PICK d \in Dialog : holds[d] = b
    BY <1>5, <1>7 DEF ExitInv, StoppedVms
  <2> QED
    BY <1>4, <2>1
<1>8. CASE stopPc # "done"
  <2>1. \E d \in Dialog : holds[d] = b
    BY <1>2, <1>3, <1>5, <1>6, <1>8
    DEF IInv, PoolP!IInv, PoolP!NoOrphan, ExitInv, PoolP!StopInv,
        PoolP!NoOrphanStopping
  <2> QED
    BY <1>4, <2>1
<1> QED
  BY <1>7, <1>8

LEMMA NativeExits ==
  ASSUME IInv, ExitInv, ~UsesPool
  PROVE  \A b \in Backend : life[b] = "dead"
  BY DEF ExitInv, PoolIdle, IInv, PoolP!IInv, PoolP!NotStarted

LEMMA ExitStep ==
  ASSUME IInv, ExitInv, [Next]_vars
  PROVE  ExitLeavesNoVm'
<1> SUFFICES ASSUME phase' = "exited", NEW b \in Backend, life'[b] # "dead"
             PROVE  \E d \in Dialog : holds'[d] = b
  BY DEF ExitLeavesNoVm, Pool!Running
<1>1. CASE phase = "exited"
  <2>1. UNCHANGED <<life, holds>>
    BY <1>1 DEF Next, Microtask, Macrotask, Quiet, vars, poolVars
  <2>2. b \in Pool!Running
    BY <2>1 DEF Pool!Running
  <2>3. PICK d \in Dialog : holds[d] = b
    BY <1>1, <2>2 DEF ExitInv, ExitLeavesNoVm
  <2> QED
    BY <2>1, <2>3
<1>2. CASE phase # "exited"
  <2>1. \/ Started \/ Exit
        \/ (StopSip \/ SipStopped) /\ ~UsesPool /\ UNCHANGED poolVars
    BY <1>2
    DEF Next, Microtask, Macrotask, Setup, ActivateResumes, PoolMicrotask,
        StopSip, StopPool, Main, Shutdown, SipStopped, Request, AckTimer,
        TcpConnects, TcpCloses, SessionEvent, PoolCompletion, VmDies, Idle,
        program, vars
  <2>2. CASE Started
    BY <1>2, <2>2, StartedExits
  <2>3. CASE Exit
    <3>1. UNCHANGED <<life, holds>> /\ stopPc = "done"
      BY <2>3 DEF Exit, poolVars
    <3>2. b \in Pool!Running
      BY <3>1 DEF Pool!Running
    <3>3. PICK d \in Dialog : holds[d] = b
      BY <3>1, <3>2 DEF ExitInv, StoppedVms
    <3> QED
      BY <3>1, <3>3
  <2>4. CASE ~UsesPool /\ UNCHANGED poolVars
    BY <2>4, NativeExits DEF poolVars
  <2> QED
    BY <2>1, <2>2, <2>3, <2>4
<1> QED
  BY <1>1, <1>2

LEMMA InitExit == Init => ExitInv
<1> SUFFICES ASSUME Init PROVE ExitInv
  OBVIOUS
<1>1. PoolP!StopInv
  BY SamePoolInit, PoolP!InitStops, NamesAssumption DEF Init
<1> QED
  BY <1>1
  DEF Init, Pool!Init, SesInit, ExitInv, NoCallClosing, OnlyRefused, PoolIdle,
      StoppedVms, ExitLeavesNoVm

(* Without TCP clients the program never exits with a VM running that it   *)
(* could still have stopped, whether it serves, boots or fails to boot     *)
(* when it ends.                                                           *)
THEOREM ExitLeavesNoVmAlways ==
  ASSUME ~SipOverTcp
  PROVE  Spec => []ExitLeavesNoVm
<1>1. IInv /\ ExitInv /\ [Next]_vars => ExitInv'
  BY PoolStopKeeps, NoCallClosingStep, OnlyRefusedStep, PoolIdleStep,
     StoppedVmsStep, ExitStep
  DEF ExitInv
<1>2. ExitInv => ExitLeavesNoVm
  BY DEF ExitInv
<1> QED
  BY <1>1, <1>2, InitExit, IInvAlways, PTL DEF Spec

-----------------------------------------------------------------------------
(* Every 'ended' comes with the VM's return.                               *)

Returns == \A d \in Dialog : ended'[d] # ended[d] => holds'[d] = NoBackend

LEMMA TeardownReturns ==
  ASSUME IInv, NEW d \in Dialog, CheckoutSettled(d) => holds[d] = NoBackend,
         Teardown(d)
  PROVE  Returns
<1> USE DEF IInv, TypeOK, SesTypeOK
<1>1. \A e \in Dialog \ {d} : ended'[e] = ended[e]
  BY DEF Teardown
<1>2. holds'[d] = NoBackend
  BY RecycleEffect DEF Teardown, Pool!TypeOK, poolVars, Core, LeaseMatches
<1> QED
  BY <1>1, <1>2 DEF Returns

LEMMA HangupReturns ==
  ASSUME IInv, NEW d \in Dialog, CheckoutSettled(d) => holds[d] = NoBackend,
         Hangup(d)
  PROVE  Returns
<1>1. CASE active[d]
  BY <1>1, HangupEffect, TeardownReturns
<1>2. CASE ~active[d]
  BY <1>2 DEF Hangup, sesVars, Returns
<1> QED
  BY <1>1, <1>2

LEMMA ListenersReturn ==
  ASSUME IInv, Quiet, Listeners
  PROVE  Returns
<1>1. activeSession # NoDialog =>
        /\ activeSession \in Dialog
        /\ CheckoutSettled(activeSession) => holds[activeSession] = NoBackend
  BY DEF IInv, TypeOK, Quiet, SessionDue
<1>2. UNCHANGED ended => Returns
  BY DEF Returns
<1>3. CASE OnByeOrCancel(event'.dialog)
  BY <1>1, <1>2, <1>3, TeardownReturns
  DEF OnByeOrCancel, OnBye, IsActive, sesVars
<1> QED
  BY <1>2, <1>3
  DEF Listeners, OnInvite, New, OnAck, Activate, sesVars

LEMMA StepReturns ==
  ASSUME IInv, [Next]_vars
  PROVE  Returns
<1>1. UNCHANGED ended => Returns
  BY DEF Returns
<1>2. CASE Microtask
  <2>1. ASSUME NEW d \in Dialog, ActivateGivesUp(d) PROVE Returns
    BY <1>1, <2>1, HangupReturns
    DEF ActivateGivesUp, CheckoutFailed, CheckoutSettled
  <2> QED
    BY <1>1, <1>2, <2>1
    DEF Microtask, Setup, SetupAnswers, SetupFails, ActivateResumes,
        ActivateGoesOn, PoolMicrotask, Started, StopSip, sesVars
<1>3. CASE Macrotask
  <2>1. Quiet /\ \A d \in Dialog : ~CheckoutSettled(d)
    BY <1>3 DEF Macrotask, Quiet, SessionDue
  <2>2. CASE Shutdown
    BY <1>1, <2>1, <2>2, HangupReturns DEF Shutdown, IInv, TypeOK, sesVars
  <2>3. ASSUME NEW d \in Dialog, SessionEvent(d) PROVE Returns
    BY <1>1, <2>1, <2>3, HangupReturns
    DEF SessionEvent, InviteAnswered, InviteFails, Connected, SilenceHangup,
        Swap, BackendError, HoldExpires, UserDisconnects
  <2>4. (\E c \in CallId : Request(c)) \/ (\E d \in Dialog : AckTimer(d))
          => Returns
    BY <2>1, ListenersReturn DEF Request, AckTimer
  <2> QED
    BY <1>1, <1>3, <2>2, <2>3, <2>4
    DEF Macrotask, Main, SipStopped, Exit, TcpConnects, TcpCloses,
        PoolCompletion, VmDies, sesVars
<1>4. CASE UNCHANGED vars
  BY <1>1, <1>4 DEF vars, sesVars
<1> QED
  BY <1>2, <1>3, <1>4 DEF Next

(* The step that ends a session leaves it no VM, also when the call ends   *)
(* while its checkout() still waits.                                       *)
THEOREM TeardownAlwaysReturnsLease == Spec => TeardownReturnsLease
<1>1. IInv /\ [Next]_vars =>
        [\A d \in Dialog : ended'[d] # ended[d] => holds'[d] = NoBackend]_vars
  BY StepReturns DEF Returns
<1> QED
  BY <1>1, IInvAlways, PTL DEF Spec, TeardownReturnsLease
=============================================================================
