------------------------------ MODULE MCModemVm ------------------------------
(***************************************************************************)
(* Small instances of what drives one modem VM: the backend with its call, *)
(* its SIP client by itself, with calls in any order, and the registrar *)
(* its start waits for.  The three share no state, so TLC takes one at a   *)
(* time: part says which, and the others rest in their initial state.      *)
(***************************************************************************)
EXTENDS PjsipBackend

(* VmRegistrar's.                                                          *)
CONSTANTS Contacts, NoContact, MaxRegisters, QueueLimit

VARIABLES
  part,
  life, binding, wait, waited, registered, clientKnown,
  toHost, toClient, toPjsip, pjsip

Registrar == INSTANCE VmRegistrar

ASSUME BoundsAssumption == Registrar!ConstantsOK

registrarVars == <<life, binding, wait, waited, registered, clientKnown,
                   toHost, toClient, toPjsip, pjsip>>
rest == <<state, startVars, callVars, ringVars, stopAt, reported, vm>>
all  == <<part, vars, registrarVars>>

MCInit ==
  /\ part \in {"backend", "client", "registrar"}
  /\ Init /\ Registrar!Init

Runs(p) == part = p /\ UNCHANGED part
BackendRuns   == Runs("backend") /\ Next /\ UNCHANGED registrarVars
ClientRuns    == Runs("client") /\ Uac!Next /\ UNCHANGED <<rest, registrarVars>>
RegistrarRuns == Runs("registrar") /\ Registrar!Next /\ UNCHANGED vars

MCNext == BackendRuns \/ ClientRuns \/ RegistrarRuns

(* Nothing that is owed is enabled in the initial state of a part.         *)
MCSpec ==
  /\ MCInit /\ [][MCNext]_all
  /\ Fairness /\ Registrar!Fairness
  /\ WF_uacVars(part = "client" /\ Uac!Retransmit) /\ WF_uacVars(part = "client" /\ Uac!TxnTimeout)
  /\ WF_uacVars(part = "client" /\ Uac!ProbeTimeout) /\ WF_uacVars(part = "client" /\ Uac!OnMessage)

-----------------------------------------------------------------------------
(* Both who speak SIP with the VM keep their promises, as the other parts  *)
(* run too: the client and the registrar.                                  *)
SipHolds ==
  /\ [](Uac!ClientSafe /\ Registrar!RegistrarSafe)
  /\ Uac!TerminatedStays /\ Uac!CloseIsQuiet

(* What is begun with a VM ends: its start and its stop, the client's      *)
(* requests, the wait for the first REGISTER.                              *)
VmSettles ==
  StartSettles /\ StopEnds /\ Uac!RequestsSettle /\ Registrar!WaitSettles

=============================================================================
