------------------------------ MODULE Gateway -------------------------------
(***************************************************************************)
(* src/index.js: the program.  It wires the SIP server, the call sessions  *)
(* and the pool together, on one event loop.                               *)
(*                                                                         *)
(* A step is a handler with everything it emits and calls at once.  What   *)
(* it leaves to an await that is already settled runs as microtasks before *)
(* the next packet, timer or VM event (Quiet).                             *)
(***************************************************************************)
EXTENDS CallSession

CONSTANT
  SipOverTcp     \* a caller may keep a TCP connection to the SIP port

ASSUME TcpAssumption == SipOverTcp \in BOOLEAN

VARIABLES
  activeSession, \* the session index.js routes to, or NoDialog
  phase,         \* where main() and shutdown() are
  starting,      \* main() awaits the pool's start
  listens,       \* the SIP server's sockets are open
  tcp            \* a SIP client's TCP connection is open

program == <<phase, starting, listens, tcp>>
vars == <<sipVars, poolVars, sesVars, activeSession, program>>

Phase == {"boot", "serving", "hungup", "closing", "pool", "exited"}

TypeOK ==
  /\ Sip!TypeOK
  /\ Pool!TypeOK
  /\ SesTypeOK
  /\ activeSession \in Dialog \cup {NoDialog}
  /\ phase \in Phase
  /\ {starting, listens, tcp} \subseteq BOOLEAN

Init ==
  /\ Sip!Init
  /\ Pool!Init
  /\ SesInit
  /\ activeSession = NoDialog
  /\ phase = "boot"
  /\ starting = FALSE /\ listens = FALSE /\ tcp = FALSE

Idle == UNCHANGED program

-----------------------------------------------------------------------------
(* The listeners of the SIP server's events.                               *)

(* The session of the dialog's Call-ID, if it is the active one.           *)
IsActive(d) == activeSession # NoDialog /\ callOf[activeSession] = callOf[d]

(* Mutant: no listener for 'ended'.                                        *)
EndedUnheard == UNCHANGED activeSession

(* 'ended': forget the session.                                            *)
ForgetEnded ==
  activeSession' = IF activeSession # NoDialog
                      /\ ended'[activeSession] # ended[activeSession]
                   THEN NoDialog ELSE activeSession

OnInvite(d) ==
  /\ IF activeSession # NoDialog /\ active[activeSession]
     THEN UNCHANGED <<sesVars, activeSession>>
     ELSE New(d) /\ activeSession' = d
  /\ UNCHANGED poolVars

OnAck(d) ==
  /\ IF IsActive(d) THEN Activate(activeSession)
                    ELSE UNCHANGED <<sesVars, poolVars>>
  /\ UNCHANGED activeSession

OnByeOrCancel(d) ==
  /\ IF IsActive(d) THEN OnBye(activeSession)
                    ELSE UNCHANGED <<sesVars, poolVars>>
  /\ ForgetEnded

Listeners ==
  CASE event'.name = "invite" -> OnInvite(event'.dialog)
    [] event'.name = "ack"    -> OnAck(event'.dialog)
    [] event'.name \in {"bye", "cancel"} -> OnByeOrCancel(event'.dialog)
    [] OTHER -> UNCHANGED <<sesVars, poolVars, activeSession>>

-----------------------------------------------------------------------------
(* Microtasks: the rest of what an await that is settled kept back.        *)

SessionDue ==
  \E d \in Dialog : act[d] = "setup" \/ CheckoutSettled(d) \/ CheckoutFailed(d)

StartDue == starting /\ state # "warming"

Quiet ==
  /\ Pool!Drained
  /\ ~SessionDue
  /\ ~StartDue
  /\ phase \notin {"hungup", "exited"}

(* index.js's catch around setup() only forgets the session.               *)
Setup(d) ==
  /\ \/ SetupAnswers(d) /\ UNCHANGED activeSession
     \/ SetupFails(d) /\ activeSession' = NoDialog
  /\ Idle

ActivateResumes(d) ==
  /\ ActivateGoesOn(d) \/ ActivateGivesUp(d)
  /\ ForgetEnded
  /\ Idle

PoolMicrotask ==
  /\ Pool!Microtask
  /\ UNCHANGED <<sipVars, sesVars, activeSession, program>>

(* main() after pool.start(): the SIP server starts, although shutdown()   *)
(* may have stopped it before, or the program exits.                       *)
Started ==
  /\ StartDue
  /\ starting' = FALSE
  /\ \/ /\ state = "ready"
        /\ listens' = TRUE
        /\ phase' = IF phase = "boot" THEN "serving" ELSE phase
        /\ UNCHANGED poolVars
     \/ /\ state # "ready"
        /\ phase' = "exited"
        /\ IF stopped THEN UNCHANGED poolVars ELSE Pool!Stop
        /\ UNCHANGED listens
  /\ UNCHANGED <<sipVars, sesVars, activeSession, tcp>>

(* Mutant: the dialogs are ended but stay in the map.                      *)
StopSipKeepsMap ==
  /\ phase = "hungup"
  /\ phase' = "closing"
  /\ dstate' = [d \in Dialog |-> IF d \in Sip!Mapped THEN "TERMINATED"
                                                     ELSE dstate[d]]
  /\ resends' = [d \in Dialog |-> Sip!Off]
  /\ sent' = {}
  /\ Sip!EmitNone
  /\ listens' = FALSE
  /\ UNCHANGED <<dialogs, callOf>>
  /\ UNCHANGED <<poolVars, sesVars, activeSession, starting, tcp>>

(* shutdown() after sipServer.stop().                                      *)
StopPool ==
  IF UsesPool THEN phase' = "pool" /\ Pool!Stop
              ELSE phase' = "exited" /\ UNCHANGED poolVars

(* shutdown() after hangup(): sipServer.stop() ends and forgets the        *)
(* dialogs, then awaits the close of its sockets, if it has any.           *)
StopSip ==
  /\ phase = "hungup"
  /\ Sip!Stop
  /\ IF listens THEN phase' = "closing" /\ UNCHANGED poolVars ELSE StopPool
  /\ listens' = FALSE
  /\ UNCHANGED <<sesVars, activeSession, starting, tcp>>

Microtask ==
  /\ phase # "exited"
  /\ \/ \E d \in Dialog : Setup(d) \/ ActivateResumes(d)
     \/ PoolMicrotask
     \/ Started
     \/ StopSip

-----------------------------------------------------------------------------
(* main() and shutdown().                                                  *)

Main ==
  /\ phase = "boot" /\ ~starting
  /\ IF UsesPool
     THEN Pool!Start /\ starting' = TRUE /\ UNCHANGED <<phase, listens>>
     ELSE phase' = "serving" /\ listens' = TRUE /\ UNCHANGED <<poolVars, starting>>
  /\ UNCHANGED <<sipVars, sesVars, activeSession, tcp>>

(* SIGINT, when main() has given way for the first time; a second one is   *)
(* ignored.                                                                *)
Shutdown ==
  /\ phase = "serving" \/ (phase = "boot" /\ starting)
  /\ phase' = "hungup"
  /\ IF activeSession # NoDialog THEN Hangup(activeSession)
                                 ELSE UNCHANGED <<sipVars, poolVars, sesVars>>
  /\ ForgetEnded
  /\ UNCHANGED <<starting, listens, tcp>>

(* net.Server.close() calls back when the last connection is gone; stop()  *)
(* destroys the connections only after that.                               *)
SipStopped ==
  /\ phase = "closing"
  /\ ~tcp
  /\ StopPool
  /\ UNCHANGED <<sipVars, sesVars, activeSession, starting, listens, tcp>>

(* Mutant: shutdown() does not await the pool's stop.                      *)
ExitAtOnce ==
  /\ phase = "pool"
  /\ phase' = "exited"
  /\ UNCHANGED <<sipVars, poolVars, sesVars, activeSession, starting, listens, tcp>>

Exit ==
  /\ phase = "pool"
  /\ stopPc = "done"
  /\ phase' = "exited"
  /\ UNCHANGED <<sipVars, poolVars, sesVars, activeSession, starting, listens, tcp>>

-----------------------------------------------------------------------------
(* Packets, timers and backends.                                           *)

(* stop() closes the UDP socket at once; an open TCP connection still      *)
(* delivers requests while it is waited for.                               *)
Request(c) ==
  /\ listens \/ (phase = "closing" /\ tcp)
  /\ Sip!Request(c)
  /\ Listeners
  /\ Idle

AckTimer(d) ==
  /\ phase # "boot"
  /\ Sip!AckTimer(d)
  /\ Listeners
  /\ Idle

TcpConnects ==
  /\ SipOverTcp /\ listens
  /\ ~tcp /\ tcp' = TRUE
  /\ UNCHANGED <<sipVars, poolVars, sesVars, activeSession, phase, starting, listens>>

TcpCloses ==
  /\ tcp
  /\ tcp' = FALSE
  /\ UNCHANGED <<sipVars, poolVars, sesVars, activeSession, phase, starting, listens>>

SessionEvent(d) ==
  /\ \/ InviteAnswered(d)
     \/ InviteFails(d)
     \/ Connected(d)
     \/ SilenceHangup(d)
     \/ BackendError(d)
     \/ HoldExpires(d)
     \/ UserDisconnects(d)
  /\ ForgetEnded
  /\ Idle

PoolCompletion ==
  /\ Pool!Completion
  /\ UNCHANGED <<sipVars, sesVars, activeSession, program>>

(* A VM dies with no session to hear of it: a warm one, or one that a      *)
(* session which has ended still holds.  Others die in BackendError.       *)
VmDies(b) ==
  /\ \A d \in Dialog : holds[d] = b => ~active[d]
  /\ Pool!Crash(b)
  /\ UNCHANGED <<sipVars, sesVars, activeSession, program>>

Macrotask ==
  /\ Quiet
  /\ \/ Main \/ Shutdown \/ SipStopped \/ Exit
     \/ TcpConnects \/ TcpCloses
     \/ \E c \in CallId : Request(c)
     \/ \E d \in Dialog : AckTimer(d) \/ SessionEvent(d)
     \/ PoolCompletion
     \/ \E b \in Backend : VmDies(b)

Next == Microtask \/ Macrotask

Spec == Init /\ [][Next]_vars

(* Settled awaits go on, timers fire, VM starts end or time out, VM stops  *)
(* end.  Nothing is owed by callers, users and TCP clients.                *)
Fairness ==
  /\ WF_vars(Microtask)
  /\ \A d \in Dialog : WF_vars(Quiet /\ AckTimer(d))
  /\ WF_vars(Quiet /\ PoolCompletion)
  /\ WF_vars(Quiet /\ SipStopped)
  /\ WF_vars(Quiet /\ Exit)

FairSpec == Spec /\ Fairness

-----------------------------------------------------------------------------
(* Properties.                                                             *)

(* The gateway keeps to the rules of calling the pool and the SIP server,  *)
(* so that what holds of them holds here.                                  *)
PoolSpec == Pool!Spec
SipSpec  == Sip!Spec

(* A call in progress can be ended from outside: index.js routes the BYE   *)
(* of its Call-ID to it, and the SIP server finds its dialog.              *)
ActiveIsReachable ==
  \A d \in Dialog : active[d] => /\ activeSession = d
                                 /\ dialogs[callOf[d]] = d
                                 /\ dstate[d] = "CONFIRMED"

(* A session and the pool agree on who has the VM, and the session's media *)
(* path fits the modem it runs: the raw socket is the VM's, RtpSession's   *)
(* is the in-process modem's.                                              *)
LeaseMatches ==
  \A d \in Dialog :
    /\ dsp[d] = "pooled" => holds[d] # NoBackend
    /\ dsp[d] # "pooled" /\ holds[d] # NoBackend => CheckoutSettled(d)
    /\ dsp[d] = "pooled" /\ active[d] => rtp[d] = "raw"
    /\ dsp[d] = "native" => active[d] /\ rtp[d] = "pcm"

(* However a call ends -- BYE, CANCEL, ACK timeout, hang-up by user,       *)
(* silence or backend, shutdown -- it ends once, and then it has no port   *)
(* and its telnet connection is down.                                      *)
EndsOnce ==
  \A d \in Dialog :
    /\ ended[d] <= 1
    /\ ended[d] = 1 => ~active[d] /\ rtp[d] = "none"
    /\ line[d] # "off" => active[d] /\ dsp[d] # "none"

(* A session that ends gives its VM back in the same step.                 *)
TeardownReturnsLease ==
  [][\A d \in Dialog : ended'[d] # ended[d] => holds'[d] = NoBackend]_vars

(* An answered call does not stay unconfirmed: the ACK or the ACK timer    *)
(* ends the wait, and the timer ends the session too.                      *)
AnswerSettles ==
  \A d \in Dialog : act[d] = "answered" /\ phase = "serving"
                     ~> active[d] \/ ended[d] = 1 \/ phase # "serving"

(* A call that waits for a VM gets one or is hung up.                      *)
CheckoutSettles ==
  \A d \in Dialog : act[d] = "checkout" ~> act[d] # "checkout"

(* However the program comes to its end -- a signal while it serves, one   *)
(* while the first VM boots, a first VM that fails -- no VM outlives it,   *)
(* except one that a session took and cannot give back any more.  (Without *)
(* a TCP client: a call that such a client places while sipServer.stop()   *)
(* waits for it ends after the pool has stopped, which drops its VM.)      *)
ExitLeavesNoVm ==
  phase = "exited" => Pool!Running \subseteq {holds[d] : d \in Dialog}

(* README: "To stop the gateway, press Ctrl-C".                            *)
ShutdownExits == phase = "hungup" ~> phase = "exited"

(* CallSession's comment: on hangup or bye the backend is returned to the  *)
(* pool.                                                                   *)
LeaseReturned ==
  \A d \in Dialog : ended[d] = 1 => holds[d] = NoBackend

(* activate()'s comment: a call that comes when the last one has just      *)
(* ended waits for the replacement VM.                                     *)
RecentCallWaits ==
  [][\A d \in Dialog : act[d] # "rejected" /\ act'[d] = "rejected"
                          => recyclePromise = NoBackend]_vars

(* The pool and the SIP server both, in one property.                      *)
PartsSpec == PoolSpec /\ SipSpec

(* No call waits for ever, for its ACK or for a VM.                        *)
CallsSettle == AnswerSettles /\ CheckoutSettles

(* What holds of a call whichever modem takes it.                          *)
CallSafe == ActiveIsReachable /\ EndsOnce

=============================================================================
