---------------------------- MODULE VmRegistrar ----------------------------
(***************************************************************************)
(* src/sip/VmRegistrar.js: the registrar that PJSIP in the VM announces    *)
(* itself to, between the tunnel and the SIP client.  It is shown every    *)
(* frame of the SIP channel and answers REGISTER; once the client has sent *)
(* something, the tunnel hands it the same frame as a datagram, and the    *)
(* client answers 405 to a REGISTER (SipUacInternal._onRequest).           *)
(*                                                                         *)
(* The tunnel keeps the order of frames (UdpTcpTunnel, FrameFifo).  PJSIP  *)
(* is external: it repeats a REGISTER that is not answered yet, and takes  *)
(* the first final response for the answer.                                *)
(***************************************************************************)
EXTENDS Naturals, Sequences

CONSTANTS
  Contacts,      \* addresses PJSIP may announce
  NoContact,     \* a REGISTER without a usable Contact
  MaxRegisters,  \* bound: REGISTER transactions of PJSIP
  QueueLimit     \* bound: REGISTERs and answers under way when PJSIP sends

VARIABLES
  life,          \* "new", "started" (this._started) or "stopped"
  binding,       \* this.currentBinding: its contact, or Unbound
  wait,          \* waitForRegistration(): its promise ...
  waited,        \* ... and the binding it resolved to
  registered,    \* 'registered' events
  clientKnown,   \* the tunnel has learnt the SIP client's socket
  toHost, toClient, toPjsip,
  pjsip          \* PJSIP: the transaction, its contact, and its outcome

vars == <<life, binding, wait, waited, registered, clientKnown,
          toHost, toClient, toPjsip, pjsip>>
hostVars == <<life, binding, wait, waited, registered>>

Unbound == "unbound"

ConstantsOK ==
  /\ NoContact \notin Contacts /\ Unbound \notin Contacts
  /\ MaxRegisters \in Nat /\ QueueLimit \in Nat

started == life = "started"
Register == [id : 1 .. MaxRegisters, contact : Contacts \cup {NoContact}]
Answer   == [id : 1 .. MaxRegisters, code : {200, 400, 405}]

TypeOK ==
  /\ life \in {"new", "started", "stopped"} /\ clientKnown \in BOOLEAN
  /\ {binding, waited} \subseteq Contacts \cup {Unbound}
  /\ registered \in Nat
  /\ wait \in {"none", "pending", "resolved", "rejected"}
  /\ toHost \in Seq(Register) /\ toClient \in Seq(Register)
  /\ toPjsip \in Seq(Answer)
  /\ pjsip \in [id : 0 .. MaxRegisters,
                contact : Contacts \cup {NoContact, Unbound},
                state : {"idle", "asking", "bound", "refused"}]

Init ==
  /\ life = "new"
  /\ binding = Unbound
  /\ wait = "none" /\ waited = Unbound
  /\ registered = 0
  /\ clientKnown = FALSE
  /\ toHost = <<>> /\ toClient = <<>> /\ toPjsip = <<>>
  /\ pjsip = [id |-> 0, contact |-> Unbound, state |-> "idle"]

-----------------------------------------------------------------------------
(* Calls of the backend, in its order: the client speaks once the modem    *)
(* has registered.                                                         *)

Start ==
  /\ life = "new"
  /\ life' = "started"
  /\ UNCHANGED <<binding, wait, waited, registered, clientKnown, toHost,
                 toClient, toPjsip, pjsip>>

Stop ==
  /\ started
  /\ life' = "stopped"
  /\ binding' = Unbound
  /\ UNCHANGED <<wait, waited, registered, clientKnown, toHost, toClient, toPjsip,
                 pjsip>>

(* Mutant: it waits for the event even when there is a binding.            *)
WaitAlways ==
  /\ wait = "none"
  /\ wait' = "pending"
  /\ UNCHANGED <<life, binding, waited, registered, clientKnown,
                 toHost, toClient, toPjsip, pjsip>>

(* waitForRegistration(), once.                                            *)
Wait ==
  /\ wait = "none"
  /\ IF binding # Unbound THEN wait' = "resolved" /\ waited' = binding
     ELSE wait' = "pending" /\ UNCHANGED waited
  /\ UNCHANGED <<life, binding, registered, clientKnown, toHost,
                 toClient, toPjsip, pjsip>>

(* Mutant: only while the registrar runs.                                  *)
WaitTimeoutIfStarted ==
  /\ wait = "pending" /\ started
  /\ wait' = "rejected"
  /\ UNCHANGED <<life, binding, waited, registered, clientKnown,
                 toHost, toClient, toPjsip, pjsip>>

WaitTimeout ==
  /\ wait = "pending"
  /\ wait' = "rejected"
  /\ UNCHANGED <<life, binding, waited, registered, clientKnown,
                 toHost, toClient, toPjsip, pjsip>>

(* The client sends its first datagram.                                    *)
ClientSends ==
  /\ wait = "resolved" /\ ~clientKnown
  /\ clientKnown' = TRUE
  /\ UNCHANGED <<hostVars, toHost, toClient, toPjsip, pjsip>>

-----------------------------------------------------------------------------
(* A frame arrives at the host.                                            *)

(* Mutant: the contact is taken for granted.                               *)
UsableAny(m) == TRUE

(* _handleRegister(): there is a Contact, and it can be parsed.            *)
Usable(m) == m.contact # NoContact

(* The event of a first registration wakes the waiter.                     *)
Emit(first, contact) ==
  /\ registered' = IF first THEN registered + 1 ELSE registered
  /\ IF first /\ wait = "pending"
       THEN wait' = "resolved" /\ waited' = contact
       ELSE UNCHANGED <<wait, waited>>

(* Mutant: every REGISTER is a registration.                               *)
IsFirstAlways == TRUE

(* Not a refresh.                                                          *)
IsFirst == binding = Unbound

(* Mutant: a refresh leaves the binding as it was.                         *)
BindOnce(contact) == binding' = IF binding = Unbound THEN contact ELSE binding

Bind(contact) == binding' = contact

(* 200 first, then the binding, then the event.                            *)
HandleRegister(m) ==
  IF ~started THEN UNCHANGED hostVars
  ELSE IF Usable(m)
    THEN /\ Bind(m.contact)
         /\ Emit(IsFirst, m.contact)
         /\ UNCHANGED life
    ELSE UNCHANGED hostVars

RegistrarAnswers(m) ==
  IF ~started THEN <<>>
  ELSE <<[id |-> m.id, code |-> IF Usable(m) THEN 200 ELSE 400]>>

(* Mutant: the frame goes to the client first, which answers at once.      *)
OnSipFrameLate ==
  /\ toHost # <<>>
  /\ LET m == Head(toHost) IN
       /\ HandleRegister(m)
       /\ toPjsip' = IF clientKnown
                       THEN Append(toPjsip, [id |-> m.id, code |-> 405])
                              \o RegistrarAnswers(m)
                       ELSE toPjsip \o RegistrarAnswers(m)
  /\ toHost' = Tail(toHost)
  /\ UNCHANGED <<clientKnown, toClient, pjsip>>

(* _onSipFrame(), called by the tunnel before it hands the frame on.       *)
OnSipFrame ==
  /\ toHost # <<>>
  /\ LET m == Head(toHost) IN
       /\ HandleRegister(m)
       /\ toPjsip' = toPjsip \o RegistrarAnswers(m)
       /\ toClient' = IF clientKnown THEN Append(toClient, m) ELSE toClient
  /\ toHost' = Tail(toHost)
  /\ UNCHANGED <<clientKnown, pjsip>>

(* The client's 405.                                                       *)
ClientRefuses ==
  /\ toClient # <<>>
  /\ toPjsip' = Append(toPjsip, [id |-> Head(toClient).id, code |-> 405])
  /\ toClient' = Tail(toClient)
  /\ UNCHANGED <<hostVars, clientKnown, toHost, pjsip>>

-----------------------------------------------------------------------------
(* PJSIP (external).                                                       *)

Sends(m) ==
  /\ Len(toHost) + Len(toClient) + Len(toPjsip) < QueueLimit
  /\ toHost' = Append(toHost, m)

(* A registration, or a refresh, perhaps from a new address.               *)
PjsipRegisters(c) ==
  /\ pjsip.id < MaxRegisters /\ pjsip.state # "asking"
  /\ pjsip' = [id |-> pjsip.id + 1, contact |-> c, state |-> "asking"]
  /\ Sends([id |-> pjsip.id + 1, contact |-> c])
  /\ UNCHANGED <<hostVars, clientKnown, toClient, toPjsip>>

PjsipResends ==
  /\ pjsip.state = "asking"
  /\ Sends([id |-> pjsip.id, contact |-> pjsip.contact])
  /\ UNCHANGED <<hostVars, clientKnown, toClient, toPjsip, pjsip>>

PjsipReads ==
  /\ toPjsip # <<>>
  /\ LET a == Head(toPjsip) IN
       pjsip' = IF pjsip.state # "asking" \/ a.id # pjsip.id THEN pjsip
                ELSE [pjsip EXCEPT !.state = IF a.code = 200 THEN "bound"
                                             ELSE "refused"]
  /\ toPjsip' = Tail(toPjsip)
  /\ UNCHANGED <<hostVars, clientKnown, toHost, toClient>>

-----------------------------------------------------------------------------
Next ==
  \/ Start \/ Stop \/ Wait \/ WaitTimeout \/ ClientSends
  \/ OnSipFrame \/ ClientRefuses
  \/ \E c \in Contacts \cup {NoContact} : PjsipRegisters(c)
  \/ PjsipResends \/ PjsipReads

Spec == Init /\ [][Next]_vars

(* Timers fire, and the host reads its socket.                             *)
Fairness == WF_vars(WaitTimeout) /\ WF_vars(OnSipFrame)

FairSpec == Spec /\ Fairness

-----------------------------------------------------------------------------
(* No registration is missed: whoever waits, waits for one that has not    *)
(* come, whether it came before the wait or during it.                     *)
NoMissedRegistration == wait = "pending" => binding = Unbound

(* The two SIP ends share a channel, and one of them refuses what the      *)
(* other accepts; PJSIP still never counts itself refused, unless it sent  *)
(* no Contact or the registrar was down when its request came.             *)
OkComesFirst ==
  pjsip.state = "refused" /\ pjsip.contact # NoContact => ~started

(* The address the gateway has is the one PJSIP counts as bound: no copy   *)
(* of an older REGISTER takes it back.                                     *)
BindingAgrees ==
  pjsip.state = "bound" /\ started => binding = pjsip.contact

(* One 'registered' event in the life of a registrar, however often        *)
(* PJSIP repeats itself.                                                   *)
RegisteredOnce == registered <= 1

(* The wait comes to an end, even when the registrar is stopped.           *)
WaitSettles == (wait = "pending") ~> (wait # "pending")

(* The first registration is told once and never missed, and the binding   *)
(* is PJSIP's own.                                                         *)
RegistrarSafe ==
  /\ TypeOK /\ NoMissedRegistration /\ OkComesFirst /\ BindingAgrees
  /\ RegisteredOnce

=============================================================================
