---------------------------- MODULE PjsipBackend ----------------------------
(***************************************************************************)
(* src/backends/PjsipBackend.js: the life of the backend that drives one   *)
(* VM, from QEMU's start to its end, and the one call it takes.  The SIP   *)
(* client of the call is SipUacInternal, with the modem's SIP side as its  *)
(* peer.  What the modem prints is reduced here to RING; ModemControl has  *)
(* the rest.  Configuration: that of the program (control channel,         *)
(* registrar, role answer).                                                *)
(*                                                                         *)
(* bind() and listen() on a literal address are answered before Node polls *)
(* for events, so code that awaits only these runs on in the same step.    *)
(***************************************************************************)
EXTENDS Naturals, Sequences

CONSTANTS
  InitCommands,    \* number of AT commands in atInit
  MaxRetransmits, MaxProbes, NetLimit   \* of SipUacInternal

ASSUME InitAssumption == InitCommands \in Nat

VARIABLES
  state,           \* this.state
  startP,          \* startAsync()'s promise ...
  startAt,         \* ... and what _startInternal() awaits
  failFast,        \* _vmFailedReject is set
  servers,         \* chardev listeners that are open
  accepted,        \* chardev sockets that were accepted and not destroyed
  control,         \* this.controlSocket is set
  listening,       \* the registrar's listener is on the tunnel
  sockets,         \* UDP sockets (tunnel's, client's) and tunnel exist
  bridge,          \* the RTP bridge runs, on the internal RTP socket
  activateP,       \* activate()'s promise
  client,          \* this._uac: "none", "live" or "closed"
  ringWatch,       \* the 'at-response' listener that looks for RING
  ringSeen,        \* ringSeen
  fallback,        \* the RING fallback timer is armed
  answering,       \* answerSequence(): commands left before ATA, or Quiet
  stopAt,          \* what stop() awaits
  reported,        \* 'error' events, 'silenceHangup' events (0, 1: some)
  (* The VM. *)
  vm,              \* the QEMU process
  modem,           \* the modem: "onhook", or what ATA has made of it
  atLog,           \* AT commands sent: "init" or "ATA"
  (* The SIP client: SipUacInternal. *)
  uacState, inflight, options, remoteTag, closed, invite, bye, probe, ended,
  probes, toPeer, toUac, peer

Uac == INSTANCE SipUacInternal WITH state <- uacState

ASSUME ClientAssumption == Uac!ConstantsOK

uacVars == <<uacState, inflight, options, remoteTag, closed, invite, bye,
             probe, ended, probes, toPeer, toUac, peer>>
startVars == <<startP, startAt, failFast, servers, accepted, control,
               listening, sockets>>
callVars == <<activateP, client, bridge>>
ringVars == <<ringWatch, ringSeen, fallback, answering, modem, atLog>>
vars == <<state, startVars, callVars, ringVars, stopAt, reported, vm, uacVars>>

Chardev == {"tunnel", "control"}
Quiet   == InitCommands + 1
Promise == {"none", "pending", "resolved", "rejected"}

TypeOK ==
  /\ state \in {"IDLE", "TCP_WAIT", "PROBING", "READY", "ACTIVATING",
                "CONFIRMED", "STOPPED"}
  /\ startP \in Promise /\ activateP \in Promise
  /\ startAt \in {"no", "sockets", "register"}
  /\ failFast \in BOOLEAN
  /\ servers \subseteq Chardev /\ accepted \subseteq Chardev
  /\ {control, listening, sockets, bridge} \subseteq BOOLEAN
  /\ client \in {"none", "live", "closed"}
  /\ {ringWatch, ringSeen, fallback} \subseteq BOOLEAN
  /\ answering \in 0 .. Quiet
  /\ stopAt \in {"no", "hangup", "tunnel", "kill", "done"}
  /\ reported \subseteq {"error", "silenceHangup"}
  /\ vm \in {"off", "running", "exited", "killed"}
  /\ modem \in {"onhook", "answered", "stuck"}
  /\ atLog \in Seq({"init", "ATA"})
  /\ Uac!TypeOK

Init ==
  /\ state = "IDLE"
  /\ startP = "none" /\ startAt = "no"
  /\ failFast = FALSE
  /\ servers = {} /\ accepted = {}
  /\ control = FALSE /\ listening = FALSE /\ sockets = FALSE
  /\ bridge = FALSE
  /\ activateP = "none"
  /\ client = "none"
  /\ ringWatch = FALSE /\ ringSeen = FALSE /\ fallback = FALSE
  /\ answering = Quiet
  /\ stopAt = "no"
  /\ reported = {}
  /\ vm = "off"
  /\ modem = "onhook"
  /\ atLog = <<>>
  /\ Uac!Init

-----------------------------------------------------------------------------
(* Start-up: _startInternal().                                             *)

(* startAsync() for the first time (later calls return the same promise):  *)
(* open the listeners and spawn QEMU.                                      *)
StartAsync ==
  /\ startP = "none"
  /\ startP' = "pending" /\ startAt' = "sockets"
  /\ state' = "TCP_WAIT"
  /\ servers' = Chardev
  /\ vm' = "running"
  /\ failFast' = TRUE
  /\ UNCHANGED <<accepted, control, listening, sockets, callVars, ringVars,
                 stopAt, reported, uacVars>>

(* QEMU dials a chardev.  When both are in, _startInternal() goes on: it   *)
(* closes the listeners, builds the tunnel, binds the UDP sockets and      *)
(* waits for the modem to register.                                        *)
Accept(c) ==
  /\ c \in servers \ accepted
  /\ vm = "running"
  /\ accepted' = accepted \cup {c}
  /\ IF accepted' = Chardev /\ startAt = "sockets"
       THEN /\ servers' = {}
            /\ control' = TRUE /\ sockets' = TRUE /\ listening' = TRUE
            /\ state' = "PROBING"
            /\ startAt' = "register"
       ELSE UNCHANGED <<servers, control, sockets, listening, state, startAt>>
  /\ UNCHANGED <<startP, failFast, callVars, ringVars, stopAt, reported, vm,
                 uacVars>>

StartFails ==
  /\ startP' = "rejected"
  /\ startAt' = "no"
  /\ reported' = reported \cup {"error"}

(* The timer of a listener nobody has dialled.                             *)
ChardevTimeout ==
  /\ startAt = "sockets" /\ accepted # Chardev
  /\ StartFails
  /\ UNCHANGED <<state, failFast, servers, accepted, control, listening,
                 sockets, callVars, ringVars, stopAt, vm, uacVars>>

(* Mutant: the registrar's listener outlives stop().                       *)
RegisteredLate ==
  /\ startAt = "register"
  /\ vm = "running"
  /\ startP' = "resolved" /\ startAt' = "no"
  /\ failFast' = FALSE
  /\ state' = "READY"
  /\ UNCHANGED <<servers, accepted, control, listening, sockets, callVars,
                 ringVars, stopAt, reported, vm, uacVars>>

(* The modem's REGISTER: the wait ends, the start-up is complete.          *)
Registered ==
  /\ startAt = "register" /\ listening
  /\ vm = "running"
  /\ startP' = "resolved" /\ startAt' = "no"
  /\ failFast' = FALSE
  /\ state' = "READY"
  /\ UNCHANGED <<servers, accepted, control, listening, sockets, callVars,
                 ringVars, stopAt, reported, vm, uacVars>>

(* Mutant: the registrar's stop() cancels the timer and leaves the wait.   *)
RegisterTimeoutIfListening ==
  /\ startAt = "register" /\ listening
  /\ StartFails
  /\ UNCHANGED <<state, failFast, servers, accepted, control, listening,
                 sockets, callVars, ringVars, stopAt, vm, uacVars>>

(* No REGISTER in time.  The registrar's stop() does not end this wait.    *)
RegisterTimeout ==
  /\ startAt = "register"
  /\ StartFails
  /\ UNCHANGED <<state, failFast, servers, accepted, control, listening,
                 sockets, callVars, ringVars, stopAt, vm, uacVars>>

(* QEMU dies by itself: its exit, and the end of its sockets, are reported *)
(* unless the backend is STOPPED.  Only the wait for the sockets is raced  *)
(* against its death.                                                      *)
VmExits ==
  /\ vm = "running" /\ state # "STOPPED"
  /\ vm' = "exited"
  /\ reported' = reported \cup {"error"}
  /\ accepted' = {}
  /\ IF failFast /\ startAt = "sockets"
       THEN startP' = "rejected" /\ startAt' = "no"
       ELSE UNCHANGED <<startP, startAt>>
  /\ UNCHANGED <<state, failFast, servers, control, listening, sockets,
                 callVars, ringVars, stopAt, uacVars>>

-----------------------------------------------------------------------------
(* The call: activate().                                                   *)

(* activate() up to the answer to its INVITE.                              *)
Activate ==
  /\ state = "READY" /\ client = "none"
  /\ state' = "ACTIVATING"
  /\ activateP' = "pending"
  /\ client' = "live"
  /\ ringWatch' = TRUE /\ fallback' = TRUE
  /\ Uac!Invite
  /\ UNCHANGED <<startVars, bridge, ringSeen, answering, modem, atLog, stopAt,
                 reported, vm>>

(* sendAt(): it throws without a control channel, which the caller only    *)
(* logs.  An ATA to a modem that does not ring yet wedges it.              *)
SendAt(cmd) ==
  IF ~control THEN UNCHANGED <<atLog, modem>>
  ELSE /\ atLog' = Append(atLog, cmd)
       /\ modem' = IF cmd # "ATA" \/ vm # "running" THEN modem
                   ELSE IF peer = "none" THEN "stuck" ELSE "answered"

(* Mutant: the sequence does not end with ATA.                             *)
AnswerOn(left) ==
  /\ SendAt(IF left > 0 THEN "init" ELSE "ATA")
  /\ answering' = left - 1

(* answerSequence(): the next AT command, then ATA.                        *)
Answer(left) ==
  /\ SendAt(IF left > 0 THEN "init" ELSE "ATA")
  /\ answering' = IF left > 0 THEN left - 1 ELSE Quiet

(* The listener has not heard RING yet.                                    *)
RingAwaited == ringWatch /\ ~ringSeen

(* The modem prints RING, in one piece: the sequence starts.               *)
Ring ==
  /\ vm = "running" /\ control /\ peer = "ringing"
  /\ RingAwaited
  /\ ringSeen' = TRUE
  /\ ringWatch' = FALSE
  /\ Answer(InitCommands)
  /\ UNCHANGED <<state, startVars, callVars, fallback, stopAt, reported, vm,
                 uacVars>>

(* Mutant: the fallback does not look whether RING was seen.               *)
RingFallbackBlind ==
  /\ fallback
  /\ fallback' = FALSE
  /\ ringWatch' = FALSE /\ Answer(InitCommands)
  /\ UNCHANGED <<state, startVars, callVars, ringSeen, stopAt, reported, vm,
                 uacVars>>

(* 3 s without RING (it may have come in two pieces, or not at all).       *)
RingFallback ==
  /\ fallback
  /\ fallback' = FALSE
  /\ IF ringSeen THEN UNCHANGED <<ringWatch, answering, modem, atLog>>
     ELSE ringWatch' = FALSE /\ Answer(InitCommands)
  /\ UNCHANGED <<state, startVars, callVars, ringSeen, stopAt, reported, vm,
                 uacVars>>

(* The 50 ms after an AT command are over.                                 *)
AnswerStep ==
  /\ answering # Quiet
  /\ Answer(answering)
  /\ UNCHANGED <<state, startVars, callVars, ringWatch, ringSeen, fallback,
                 stopAt, reported, vm, uacVars>>

(* Mutant: the bridge is started before the answer is looked at.           *)
AfterInviteAny ==
  IF invite' = invite THEN UNCHANGED <<state, callVars, ringWatch, fallback>>
  ELSE /\ ringWatch' = FALSE /\ fallback' = FALSE
       /\ activateP' = invite'
       /\ bridge' = TRUE
       /\ state' = IF invite' = "resolved" THEN "CONFIRMED" ELSE state
       /\ UNCHANGED client

(* activate() after its INVITE: it runs in the step that settles it.       *)
AfterInvite ==
  IF invite' = invite THEN UNCHANGED <<state, callVars, ringWatch, fallback>>
  ELSE /\ ringWatch' = FALSE /\ fallback' = FALSE
       /\ activateP' = invite'
       /\ IF invite' = "resolved"
            THEN bridge' = TRUE /\ state' = "CONFIRMED"
            ELSE UNCHANGED <<bridge, state>>
       /\ UNCHANGED client

(* The client's own steps.  'ended' is passed on as silenceHangup.         *)
AroundClient ==
  /\ AfterInvite
  /\ reported' = IF ended' = ended THEN reported
                 ELSE reported \cup {"silenceHangup"}
  /\ UNCHANGED <<startVars, ringSeen, answering, modem, atLog, stopAt, vm>>

ClientResends  == client = "live" /\ Uac!Retransmit /\ AroundClient
ClientTimesOut == client = "live" /\ Uac!TxnTimeout /\ AroundClient
ClientReads    == client = "live" /\ Uac!OnMessage /\ AroundClient

ClientStep == ClientResends \/ ClientTimesOut \/ ClientReads

(* The modem's SIP side.  It answers when ATA has answered the ring.       *)
PeerStep ==
  /\ vm = "running"
  /\ \/ Uac!PeerInvite \/ Uac!PeerRefuses \/ Uac!PeerAck \/ Uac!PeerHangsUp
     \/ Uac!PeerGivesUp \/ Uac!PeerBye \/ Uac!PeerOk
     \/ modem = "answered" /\ Uac!PeerAnswers
  /\ UNCHANGED <<state, startVars, callVars, ringVars, stopAt, reported, vm>>

-----------------------------------------------------------------------------
(* The end: stop().                                                        *)

(* After the client: sockets, tunnel.  tunnel.stop() waits for the sockets *)
(* to close.                                                               *)
StopFromTunnel ==
  /\ sockets' = FALSE
  /\ stopAt' = IF sockets THEN "tunnel" ELSE "kill"

(* ... control socket, listeners, and the process.                         *)
KillVm ==
  /\ control' = FALSE
  /\ servers' = {}
  /\ accepted' = {}
  /\ vm' = IF vm = "running" THEN "killed" ELSE vm

(* stop(), a no-op when IDLE or STOPPED.  It asks the client to hang up,   *)
(* and waits for that, if the dialog is confirmed; otherwise it goes on.   *)
Stop ==
  /\ state \notin {"IDLE", "STOPPED"}
  /\ state' = "STOPPED"
  /\ listening' = FALSE
  /\ bridge' = FALSE
  /\ IF client = "live" /\ uacState = "CONFIRMED"
       THEN /\ Uac!Hangup
            /\ stopAt' = "hangup"
            /\ UNCHANGED <<client, sockets, control, servers, accepted, vm>>
       ELSE /\ IF client = "live" THEN Uac!Close /\ client' = "closed"
               ELSE UNCHANGED <<uacVars, client>>
            /\ StopFromTunnel
            /\ IF sockets THEN UNCHANGED <<control, servers, accepted, vm>>
               ELSE KillVm
  /\ UNCHANGED <<startP, startAt, failFast, activateP, ringVars, reported>>

(* Mutant: a rejected hang-up is not caught.                               *)
StopHungUpResolved ==
  /\ stopAt = "hangup" /\ bye = "resolved"
  /\ Uac!Close /\ client' = "closed"
  /\ StopFromTunnel
  /\ UNCHANGED <<state, startP, startAt, failFast, servers, accepted, control,
                 listening, activateP, bridge, ringVars, reported, vm>>

(* The hang-up has settled.                                                *)
StopHungUp ==
  /\ stopAt = "hangup" /\ bye # "pending"
  /\ Uac!Close /\ client' = "closed"
  /\ StopFromTunnel
  /\ UNCHANGED <<state, startP, startAt, failFast, servers, accepted, control,
                 listening, activateP, bridge, ringVars, reported, vm>>

(* Mutant: the VM is left to end by itself.                                *)
StopTunnelDownNoKill ==
  /\ stopAt = "tunnel"
  /\ stopAt' = "kill"
  /\ control' = FALSE /\ servers' = {} /\ accepted' = {}
  /\ UNCHANGED <<state, startP, startAt, failFast, listening, sockets,
                 callVars, ringVars, reported, vm, uacVars>>

(* The tunnel's sockets have closed: kill the VM.                          *)
StopTunnelDown ==
  /\ stopAt = "tunnel"
  /\ stopAt' = "kill"
  /\ KillVm
  /\ UNCHANGED <<state, startP, startAt, failFast, listening, sockets,
                 callVars, ringVars, reported, uacVars>>

(* 200 ms after the SIGKILL.                                               *)
StopReturns ==
  /\ stopAt = "kill"
  /\ stopAt' = "done"
  /\ failFast' = FALSE
  /\ UNCHANGED <<state, startP, startAt, servers, accepted, control, listening,
                 sockets, callVars, ringVars, reported, vm, uacVars>>

-----------------------------------------------------------------------------
StopStep == StopHungUp \/ StopTunnelDown \/ StopReturns

Next ==
  \/ StartAsync \/ (\E c \in Chardev : Accept(c)) \/ ChardevTimeout
  \/ Registered \/ RegisterTimeout \/ VmExits
  \/ Activate \/ Ring \/ RingFallback \/ AnswerStep \/ ClientStep \/ PeerStep
  \/ Stop \/ StopStep

Spec == Init /\ [][Next]_vars

(* Timers fire, the client reads its socket, closed sockets say so.        *)
Fairness ==
  /\ WF_vars(ChardevTimeout) /\ WF_vars(RegisterTimeout)
  /\ WF_vars(RingFallback) /\ WF_vars(AnswerStep)
  /\ WF_vars(ClientResends) /\ WF_vars(ClientTimesOut) /\ WF_vars(ClientReads)
  /\ WF_vars(StopStep)

FairSpec == Spec /\ Fairness

-----------------------------------------------------------------------------
(* The life of the VM as the pool sees it.                                 *)
Life == IF stopAt = "done" THEN "gone"
        ELSE IF state = "STOPPED" THEN "stopping"
        ELSE IF startP = "none" THEN "dead"
        ELSE IF vm = "exited" \/ startP = "rejected" THEN "lost"
        ELSE IF startP = "pending" THEN "booting"
        ELSE "live"

VmLife == INSTANCE VmLife WITH life <- Life

(* A backend leads the life the pool counts on, step by step: started      *)
(* once, ready or lost, stopped; and every stop comes to its end.          *)
LeadsLife == VmLife!Order
StopEnds  == VmLife!Ending

(* When stop() has returned, nothing of the VM is left: no process, no     *)
(* socket, no listener, no bridge, whatever the start-up or the call was   *)
(* doing when it came.                                                     *)
NothingLeft ==
  stopAt = "done" =>
    /\ vm # "running"
    /\ servers = {} /\ accepted = {}
    /\ ~control /\ ~listening /\ ~sockets /\ ~bridge
    /\ client # "live"

(* A call gets one ATA, after all of atInit, whichever of RING and its     *)
(* fallback comes first.                                                   *)
AtaOnceAfterInit ==
  /\ Len(atLog) <= InitCommands + 1
  /\ \A i \in DOMAIN atLog : atLog[i] = "ATA" <=> i = InitCommands + 1

(* Media flow only when the modem has answered our INVITE and the backend  *)
(* is not stopping.  (The modem's BYE is passed on as silenceHangup: the   *)
(* media go on until stop().)                                              *)
BridgeMeansCall ==
  bridge => state = "CONFIRMED" /\ invite = "resolved" /\ client = "live"

(* startAsync() settles, stopped or not: the pool's race and its callers   *)
(* wait for it.  stop() returns.                                           *)
StartSettles == (startP = "pending") ~> (startP # "pending")

(* "any failure (spawn ENOENT, immediate exit, etc.) surfaces as a         *)
(* 'vmFailed' rejection.  We race every subsequent await against it so a   *)
(* dead VM doesn't just hang us until the pool's warmup timeout fires."    *)
VmDeathFailsStart == vm = "exited" => startP # "pending"

(* "Detach listeners/timers regardless of invite outcome": once the client *)
(* is closed, nothing waits for RING.                                      *)
RingWatchEnds == client = "closed" => ~ringWatch /\ ~fallback

(* What holds of a backend in every state: one ATA per call, media only    *)
(* after an answer, nothing left of it when it has stopped.                *)
BackendSafe ==
  TypeOK /\ NothingLeft /\ AtaOnceAfterInit /\ BridgeMeansCall

=============================================================================
