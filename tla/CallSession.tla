---------------------------- MODULE CallSession -----------------------------
(***************************************************************************)
(* src/session/CallSession.js: one outside call, from the INVITE to the    *)
(* 'ended' event, between the SIP server, the pool of modem VMs, the RTP   *)
(* port and the telnet proxy.                                              *)
(*                                                                         *)
(* A session is named by its dialog.  Its operations are composed with     *)
(* the handlers that call them by module Gateway, which also orders the    *)
(* microtasks.  What a session awaits is act; the components it calls are  *)
(* instances of their own modules.                                         *)
(***************************************************************************)
EXTENDS Naturals

CONSTANTS
  CallId, Dialog, NoDialog, MaxResend, AcceptReInvite,   \* SipServer
  Backend, NoBackend,                                    \* ModemBackendPool
  Mode,          \* config.modem.backend
  SetupMayFail   \* no free RTP port, or the bind fails

Modes == {"native", "slmodemd-pjsip", "auto"}
ASSUME ModeAssumption == Mode \in Modes
ASSUME SetupAssumption == SetupMayFail \in BOOLEAN
ASSUME NamesAssumption ==
  NoDialog \notin Dialog /\ NoBackend \notin Backend /\ MaxResend \in Nat

VARIABLES
  dialogs, callOf, dstate, resends, event, sent,         \* SipServer
  state, backend, stopped, warmupPromise, recyclePromise, warming, recycling,
  waitsFor, stopPc, stopOn, life, holds, starts,         \* ModemBackendPool
  act,      \* [Dialog -> Act] : what setup() or activate() does next
  active,   \* _active
  dsp,      \* _dsp and _dspIsPooled: nothing, a leased VM, or in-process
  rtp,      \* the port and its socket: raw for the backend, pcm for RtpSession
  line,     \* the telnet proxy: off, held back after training, attached
  ever,     \* _everConnected
  ended     \* 'ended' events emitted

Sip  == INSTANCE SipServer
Pool == INSTANCE ModemBackendPool WITH Caller <- Dialog, MaxStarts <- 1

sesVars  == <<act, active, dsp, rtp, line, ever, ended>>
sipVars  == <<dialogs, callOf, dstate, resends, event, sent>>
poolVars == <<state, backend, stopped, warmupPromise, recyclePromise, warming,
              recycling, waitsFor, stopPc, stopOn, life, holds, starts>>

Act  == {"none", "setup", "failed", "answered", "checkout", "rejected",
         "inviting", "up", "over"}
Dsp  == {"none", "pooled", "native"}
Rtp  == {"none", "port", "raw", "pcm"}
Line == {"off", "hold", "attached"}

SesTypeOK ==
  /\ act \in [Dialog -> Act]
  /\ active \in [Dialog -> BOOLEAN]
  /\ dsp \in [Dialog -> Dsp]
  /\ rtp \in [Dialog -> Rtp]
  /\ line \in [Dialog -> Line]
  /\ ever \in [Dialog -> BOOLEAN]
  /\ ended \in [Dialog -> Nat]

SesInit ==
  /\ act = [d \in Dialog |-> "none"]
  /\ active = [d \in Dialog |-> FALSE]
  /\ dsp = [d \in Dialog |-> "none"]
  /\ rtp = [d \in Dialog |-> "none"]
  /\ line = [d \in Dialog |-> "off"]
  /\ ever = [d \in Dialog |-> FALSE]
  /\ ended = [d \in Dialog |-> 0]

UsesPool == Mode # "native"

-----------------------------------------------------------------------------
(* setup(): called for a new INVITE, answers it.  None of its awaits lets  *)
(* another packet in.                                                      *)

New(d) ==
  /\ act' = [act EXCEPT ![d] = "setup"]
  /\ UNCHANGED <<active, dsp, rtp, line, ever, ended>>

SetupAnswers(d) ==
  /\ act[d] = "setup"
  /\ act' = [act EXCEPT ![d] = "answered"]
  /\ rtp' = [rtp EXCEPT ![d] = IF UsesPool THEN "raw" ELSE "pcm"]
  /\ Sip!AnswerCall(d)
  /\ UNCHANGED <<active, dsp, line, ever, ended>>
  /\ UNCHANGED poolVars

(* It throws before it has a port, or after: then the port stays reserved. *)
SetupFails(d) ==
  /\ SetupMayFail
  /\ act[d] = "setup"
  /\ act' = [act EXCEPT ![d] = "failed"]
  /\ \E r \in {"none", "port"} : rtp' = [rtp EXCEPT ![d] = r]
  /\ UNCHANGED <<active, dsp, line, ever, ended>>
  /\ UNCHANGED <<sipVars, poolVars>>

-----------------------------------------------------------------------------
(* hangup(), onBye() and the teardown they share.                          *)

(* Mutant: the backend is forgotten, not recycled.                         *)
TeardownForgets(d) ==
  /\ active' = [active EXCEPT ![d] = FALSE]
  /\ dsp' = [dsp EXCEPT ![d] = "none"]
  /\ rtp' = [rtp EXCEPT ![d] = "none"]
  /\ line' = [line EXCEPT ![d] = "off"]
  /\ act' = [act EXCEPT ![d] = "over"]
  /\ ended' = [ended EXCEPT ![d] = @ + 1]
  /\ UNCHANGED ever
  /\ UNCHANGED poolVars

(* _finalizeTeardown().  An activate() that awaits checkout() is not told. *)
Teardown(d) ==
  /\ IF dsp[d] = "pooled" THEN Pool!Recycle(d) ELSE UNCHANGED poolVars
  /\ active' = [active EXCEPT ![d] = FALSE]
  /\ dsp' = [dsp EXCEPT ![d] = "none"]
  /\ rtp' = [rtp EXCEPT ![d] = "none"]
  /\ line' = [line EXCEPT ![d] = "off"]
  /\ act' = [act EXCEPT ![d] = IF waitsFor[d] # NoBackend THEN @ ELSE "over"]
  /\ ended' = [ended EXCEPT ![d] = @ + 1]
  /\ UNCHANGED ever

OnBye(d) == Teardown(d)

Hangup(d) ==
  IF active[d]
  THEN /\ IF Sip!CanBye(d) THEN Sip!SendBye(d) ELSE UNCHANGED sipVars
       /\ Teardown(d)
  ELSE UNCHANGED <<sipVars, poolVars, sesVars>>

-----------------------------------------------------------------------------
(* activate(): called for the ACK.                                         *)

CheckoutThrows ==
  stopped \/ ~(state = "warming" \/ Pool!CanTake)

Activate(d) ==
  IF active[d]
  THEN UNCHANGED <<poolVars, sesVars>>
  ELSE /\ active' = [active EXCEPT ![d] = TRUE]
       /\ IF ~UsesPool
          THEN /\ dsp' = [dsp EXCEPT ![d] = "native"]
               /\ act' = [act EXCEPT ![d] = "up"]
               /\ UNCHANGED poolVars
          ELSE /\ UNCHANGED dsp
               /\ IF CheckoutThrows
                  THEN /\ act' = [act EXCEPT ![d] = "rejected"]
                       /\ UNCHANGED poolVars
                  ELSE /\ act' = [act EXCEPT ![d] = "checkout"]
                       /\ Pool!Checkout(d)
       /\ UNCHANGED <<rtp, line, ever, ended>>

CheckoutSettled(d) == act[d] = "checkout" /\ waitsFor[d] = NoBackend

(* checkout() returned a VM.  The session may have ended meanwhile: then   *)
(* the VM's activate() throws for want of a socket, and hangup() does      *)
(* nothing.                                                                *)
ActivateGoesOn(d) ==
  /\ CheckoutSettled(d)
  /\ holds[d] # NoBackend
  /\ dsp' = [dsp EXCEPT ![d] = "pooled"]
  /\ act' = [act EXCEPT ![d] = IF rtp[d] = "raw" THEN "inviting" ELSE "over"]
  /\ UNCHANGED <<active, rtp, line, ever, ended>>
  /\ UNCHANGED <<sipVars, poolVars>>

CheckoutFailed(d) ==
  \/ act[d] = "rejected"
  \/ CheckoutSettled(d) /\ holds[d] = NoBackend

ActivateGivesUp(d) ==
  /\ CheckoutFailed(d)
  /\ IF active[d]
     THEN Hangup(d)
     ELSE /\ act' = [act EXCEPT ![d] = "over"]
          /\ UNCHANGED <<active, dsp, rtp, line, ever, ended>>
          /\ UNCHANGED <<sipVars, poolVars>>

-----------------------------------------------------------------------------
(* Events of the backend, which runs the modem.  A session listens to its  *)
(* backend while it has one.                                               *)

(* backend.activate() resolves: the VM's side of the call is up.           *)
InviteAnswered(d) ==
  /\ act[d] = "inviting"
  /\ life[holds[d]] = "live"
  /\ act' = [act EXCEPT ![d] = "up"]
  /\ UNCHANGED <<active, dsp, rtp, line, ever, ended>>
  /\ UNCHANGED <<sipVars, poolVars>>

(* ... or rejects: timeout, or the VM is dead.                             *)
InviteFails(d) ==
  /\ act[d] = "inviting"
  /\ Hangup(d)

Listening(d) == active[d] /\ act[d] \in {"inviting", "up"}

Connected(d) ==
  /\ Listening(d)
  /\ line[d] = "off"
  /\ line' = [line EXCEPT ![d] = "hold"]
  /\ ever' = [ever EXCEPT ![d] = TRUE]
  /\ UNCHANGED <<act, active, dsp, rtp, ended>>
  /\ UNCHANGED <<sipVars, poolVars>>

MaySwap(d) == Mode = "auto" /\ dsp[d] = "pooled" /\ ~ever[d]

(* Mutants: the VM stays leased; the VM is dropped, not handed back.       *)
SwapKeepsVm(d) ==
  /\ dsp' = [dsp EXCEPT ![d] = "native"]
  /\ rtp' = [rtp EXCEPT ![d] = "pcm"]
  /\ act' = [act EXCEPT ![d] = "up"]
  /\ UNCHANGED <<active, line, ever, ended>>
  /\ UNCHANGED <<sipVars, poolVars>>

SwapDropsVm(d) ==
  /\ holds' = [holds EXCEPT ![d] = NoBackend]
  /\ dsp' = [dsp EXCEPT ![d] = "native"]
  /\ rtp' = [rtp EXCEPT ![d] = "pcm"]
  /\ act' = [act EXCEPT ![d] = "up"]
  /\ UNCHANGED <<active, line, ever, ended>>
  /\ UNCHANGED <<state, backend, stopped, warmupPromise, recyclePromise,
                 warming, recycling, waitsFor, stopPc, stopOn, life, starts>>
  /\ UNCHANGED sipVars

(* _swapToNative(): the VM goes back to the pool and the in-process modem  *)
(* takes over the socket.  The VM's pending activate() never settles.      *)
Swap(d) ==
  /\ Pool!Recycle(d)
  /\ dsp' = [dsp EXCEPT ![d] = "native"]
  /\ rtp' = [rtp EXCEPT ![d] = "pcm"]
  /\ act' = [act EXCEPT ![d] = "up"]
  /\ UNCHANGED <<active, line, ever, ended>>
  /\ UNCHANGED sipVars

SilenceHangup(d) ==
  /\ Listening(d)
  /\ IF MaySwap(d) THEN Swap(d) ELSE Hangup(d)

(* The backend emits 'error': a VM that exits, a socket that closes.       *)
BackendError(d) ==
  /\ Listening(d)
  /\ Hangup(d)

-----------------------------------------------------------------------------
(* The telnet side.                                                        *)

(* The hold after training ends: the timers look at _active first.         *)
HoldExpires(d) ==
  /\ line[d] = "hold"
  /\ active[d]
  /\ line' = [line EXCEPT ![d] = "attached"]
  /\ UNCHANGED <<act, active, dsp, rtp, ever, ended>>
  /\ UNCHANGED <<sipVars, poolVars>>

UserDisconnects(d) ==
  /\ line[d] = "attached"
  /\ Hangup(d)
=============================================================================
