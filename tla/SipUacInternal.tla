--------------------------- MODULE SipUacInternal ---------------------------
(***************************************************************************)
(* src/sip/SipUacInternal.js: the SIP client that places the internal call *)
(* to the modem in the VM, over UDP through the tunnel, with the peer      *)
(* (PJSIP inside d-modem, external) as it answers this client.             *)
(*                                                                         *)
(* One object is one dialog.  A request has one branch, so a transaction   *)
(* is known by its method; an OPTIONS probe is known by its number.  What  *)
(* is sent may be lost; what arrives, arrives in order.                    *)
(***************************************************************************)
EXTENDS Naturals, Sequences

CONSTANTS
  MaxRetransmits,  \* MAX_RETRANSMITS
  MaxProbes,       \* bound: probe() calls
  NetLimit         \* bound: messages under way in one direction; more are lost

ConstantsOK ==
  MaxRetransmits \in Nat /\ MaxProbes \in Nat /\ NetLimit \in Nat \ {0}

VARIABLES
  (* The fields of the object. *)
  state,       \* this.state
  inflight,    \* this._inflight: its method, how often it was sent again,
               \* and whether a provisional response has stopped that
  options,     \* this._options: the number of the pending probe, or NoProbe
  remoteTag,   \* this.remoteTag has been learnt
  closed,      \* close() was called: the socket has no listener any more
  (* What the caller sees: promises and events. *)
  invite, bye, probe,
  ended,       \* 'ended' events emitted
  probes,      \* probe() calls made
  (* The world around the object. *)
  toPeer, toUac,
  peer         \* the dialog at the peer

vars == <<state, inflight, options, remoteTag, closed, invite, bye, probe,
          ended, probes, toPeer, toUac, peer>>

State    == {"INIT", "TRYING", "EARLY", "CONFIRMED", "TERMINATED"}
Idle     == [method |-> "none", resends |-> 0, silent |-> TRUE]
Txn      == [method : {"INVITE", "BYE"}, resends : 0 .. MaxRetransmits,
             silent : BOOLEAN]
NoProbe  == 0
Promise  == {"none", "pending", "resolved", "rejected"}

Request(m)      == [kind |-> "request", method |-> m]
Probe(n)        == [kind |-> "probe", id |-> n]
Response(m, c)  == [kind |-> "response", method |-> m, code |-> c]
ProbeReply(n)   == [kind |-> "probeReply", id |-> n]

ToPeerMsg == {Request(m) : m \in {"INVITE", "ACK", "BYE", "OK"}}
             \cup {Probe(n) : n \in 1 .. MaxProbes}
ToUacMsg  == {Response("INVITE", c) : c \in {100, 180, 200, 486}}
             \cup {Response("BYE", c) : c \in {200, 481}}
             \cup {Request("BYE")} \cup {ProbeReply(n) : n \in 1 .. MaxProbes}

(* The peer: no call, ringing, answered (200 sent, no ACK yet), confirmed, *)
(* hanging up (BYE sent, no answer yet), over.                             *)
PeerState == {"none", "ringing", "answered", "confirmed", "leaving", "over"}

TypeOK ==
  /\ state \in State
  /\ inflight \in Txn \cup {Idle}
  /\ options \in 0 .. MaxProbes
  /\ remoteTag \in BOOLEAN /\ closed \in BOOLEAN
  /\ invite \in Promise /\ bye \in Promise /\ probe \in Promise
  /\ ended \in Nat
  /\ probes \in 0 .. MaxProbes
  /\ toPeer \in Seq(ToPeerMsg) /\ Len(toPeer) <= NetLimit
  /\ toUac \in Seq(ToUacMsg) /\ Len(toUac) <= NetLimit
  /\ peer \in PeerState

Init ==
  /\ state = "INIT"
  /\ inflight = Idle
  /\ options = NoProbe
  /\ remoteTag = FALSE
  /\ closed = FALSE
  /\ invite = "none" /\ bye = "none" /\ probe = "none"
  /\ ended = 0
  /\ probes = 0
  /\ toPeer = <<>> /\ toUac = <<>>
  /\ peer = "none"

caller == <<invite, bye, probe, ended, probes>>

-----------------------------------------------------------------------------
(* The network: queue is where the message goes, rest what is already there *)
(* (the step may have taken a message out of it).                          *)
Sends(queue, rest, m) ==
  \/ Len(rest) < NetLimit /\ queue' = Append(rest, m)
  \/ queue' = rest

SendRaw(m) == Sends(toPeer, toPeer, m)

-----------------------------------------------------------------------------
(* Requests.                                                               *)

(* _startTransaction(): it replaces the transaction in the slot.           *)
StartTransaction(m) ==
  /\ inflight' = [method |-> m, resends |-> 0, silent |-> FALSE]
  /\ SendRaw(Request(m))

(* invite(), in state INIT; in every other state it only rejects.          *)
Invite ==
  /\ state = "INIT" /\ ~closed
  /\ state' = "TRYING"
  /\ invite' = "pending"
  /\ StartTransaction("INVITE")
  /\ UNCHANGED <<options, remoteTag, closed, bye, probe, ended, probes, toUac,
                 peer>>

(* hangup(), in state CONFIRMED; otherwise it resolves or rejects at once. *)
Hangup ==
  /\ state = "CONFIRMED" /\ ~closed
  /\ bye = "none"
  /\ bye' = "pending"
  /\ StartTransaction("BYE")
  /\ UNCHANGED <<state, options, remoteTag, closed, invite, probe, ended,
                 probes, toUac, peer>>

(* Mutant: without the bound.                                              *)
CanResendForever == inflight # Idle /\ ~inflight.silent

(* The retransmit timer: not after a provisional response, and at most     *)
(* MAX_RETRANSMITS times.                                                  *)
CanResend ==
  inflight # Idle /\ ~inflight.silent /\ inflight.resends < MaxRetransmits

Retransmit ==
  /\ CanResend
  /\ inflight' = [inflight EXCEPT !.resends = @ + 1]
  /\ SendRaw(Request(inflight.method))
  /\ UNCHANGED <<state, options, remoteTag, closed, caller, toUac, peer>>

(* Mutant: the transaction stays in its slot.                              *)
TxnTimeoutKeeps ==
  /\ inflight # Idle /\ ~CanResend
  /\ state' = "TERMINATED"
  /\ IF inflight.method = "INVITE"
       THEN invite' = "rejected" /\ UNCHANGED bye
       ELSE bye' = "resolved" /\ UNCHANGED invite
  /\ UNCHANGED <<inflight, options, remoteTag, closed, probe, ended, probes,
                 toPeer, toUac, peer>>

(* Mutant: a provisional response stops the overall timer, too.            *)
TxnTimeoutUnlessSilent ==
  /\ inflight # Idle /\ ~CanResend /\ ~inflight.silent
  /\ inflight' = Idle
  /\ state' = "TERMINATED"
  /\ IF inflight.method = "INVITE"
       THEN invite' = "rejected" /\ UNCHANGED bye
       ELSE bye' = "resolved" /\ UNCHANGED invite
  /\ UNCHANGED <<options, remoteTag, closed, probe, ended, probes, toPeer,
                 toUac, peer>>

(* The overall timer of the transaction.  The last resend is due 2.4 s     *)
(* after the first send, and the shortest overall timer runs 3 s.          *)
TxnTimeout ==
  /\ inflight # Idle /\ ~CanResend
  /\ inflight' = Idle
  /\ state' = "TERMINATED"
  /\ IF inflight.method = "INVITE"
       THEN invite' = "rejected" /\ UNCHANGED bye
       ELSE bye' = "resolved" /\ UNCHANGED invite
  /\ UNCHANGED <<options, remoteTag, closed, probe, ended, probes, toPeer,
                 toUac, peer>>

(* probe(): a one-shot matcher beside the dialog's transaction.            *)
SendProbe ==
  /\ ~closed /\ probes < MaxProbes /\ probe # "pending"
  /\ probes' = probes + 1
  /\ options' = probes + 1
  /\ probe' = "pending"
  /\ SendRaw(Probe(probes + 1))
  /\ UNCHANGED <<state, inflight, remoteTag, closed, invite, bye, ended, toUac,
                 peer>>

(* Its timer, which close() does not find (_options has no field timer).   *)
ProbeTimeout ==
  /\ probe = "pending"
  /\ probe' = "rejected"
  /\ options' = NoProbe
  /\ UNCHANGED <<state, inflight, remoteTag, closed, invite, bye, ended, probes,
                 toPeer, toUac, peer>>

(* Mutant: close() leaves the transaction and its timers.                  *)
CloseKeepsTxn ==
  /\ ~closed
  /\ closed' = TRUE
  /\ options' = NoProbe
  /\ state' = "TERMINATED"
  /\ UNCHANGED <<inflight, remoteTag, caller, toPeer, toUac, peer>>

(* close(): the promises that are pending stay so.                         *)
Close ==
  /\ ~closed
  /\ closed' = TRUE
  /\ inflight' = Idle
  /\ options' = NoProbe
  /\ state' = "TERMINATED"
  /\ UNCHANGED <<remoteTag, caller, toPeer, toUac, peer>>

-----------------------------------------------------------------------------
(* Messages from the peer: _onMessage(), by kind.                          *)

Arrives(m) == toUac # <<>> /\ Head(toUac) = m /\ toUac' = Tail(toUac)

(* A response whose branch is that of the transaction in flight.           *)
Matches(m) == ~closed /\ inflight # Idle /\ inflight.method = m

(* A provisional response to INVITE.                                       *)
OnProvisional ==
  \E c \in {100, 180} :
    /\ Arrives(Response("INVITE", c))
    /\ Matches("INVITE")
    /\ inflight' = [inflight EXCEPT !.silent = TRUE]
    /\ state' = IF c >= 101 /\ state = "TRYING" THEN "EARLY" ELSE state
    /\ remoteTag' = (remoteTag \/ c >= 101)
    /\ UNCHANGED <<options, closed, caller, toPeer, peer>>

(* Mutant: 2xx is told from the rest by "at least 100".                    *)
On2xxEarly ==
  /\ \E c \in {180, 200} : Arrives(Response("INVITE", c))
  /\ Matches("INVITE")
  /\ inflight' = Idle
  /\ remoteTag' = TRUE
  /\ state' = "CONFIRMED"
  /\ invite' = "resolved"
  /\ SendRaw(Request("ACK"))
  /\ UNCHANGED <<options, closed, bye, probe, ended, probes, peer>>

(* _handle2xxInvite(): ACK, whatever the state.                            *)
On2xxInvite ==
  /\ Arrives(Response("INVITE", 200))
  /\ Matches("INVITE")
  /\ inflight' = Idle
  /\ remoteTag' = TRUE
  /\ state' = "CONFIRMED"
  /\ invite' = "resolved"
  /\ SendRaw(Request("ACK"))
  /\ UNCHANGED <<options, closed, bye, probe, ended, probes, peer>>

(* Any other final response: the ACK is part of the INVITE's transaction.  *)
OnInviteFailure ==
  /\ Arrives(Response("INVITE", 486))
  /\ Matches("INVITE")
  /\ inflight' = Idle
  /\ state' = "TERMINATED"
  /\ invite' = "rejected"
  /\ SendRaw(Request("ACK"))
  /\ UNCHANGED <<options, remoteTag, closed, bye, probe, ended, probes, peer>>

(* The final response to our BYE.                                          *)
OnByeResponse ==
  \E c \in {200, 481} :
    /\ Arrives(Response("BYE", c))
    /\ Matches("BYE")
    /\ inflight' = Idle
    /\ state' = "TERMINATED"
    /\ bye' = IF c < 300 THEN "resolved" ELSE "rejected"
    /\ UNCHANGED <<options, remoteTag, closed, invite, probe, ended, probes,
                   toPeer, peer>>

OnProbeReply ==
  \E n \in 1 .. MaxProbes :
    /\ Arrives(ProbeReply(n))
    /\ ~closed /\ options = n
    /\ options' = NoProbe
    /\ probe' = "resolved"
    /\ UNCHANGED <<state, inflight, remoteTag, closed, invite, bye, ended,
                   probes, toPeer, peer>>

(* Mutant: every BYE is reported.                                          *)
HandlePeerByeAlways ==
  /\ Arrives(Request("BYE"))
  /\ ~closed
  /\ SendRaw(Request("OK"))
  /\ state' = "TERMINATED"
  /\ ended' = ended + 1
  /\ UNCHANGED <<inflight, options, remoteTag, closed, invite, bye, probe,
                 probes, peer>>

(* _handlePeerBye(): 200, and 'ended' if the dialog was not over.          *)
HandlePeerBye ==
  /\ Arrives(Request("BYE"))
  /\ ~closed
  /\ SendRaw(Request("OK"))
  /\ state' = "TERMINATED"
  /\ ended' = IF state = "TERMINATED" THEN ended ELSE ended + 1
  /\ UNCHANGED <<inflight, options, remoteTag, closed, invite, bye, probe,
                 probes, peer>>

(* No transaction has this branch, or nobody listens any more.             *)
Unmatched ==
  /\ toUac # <<>>
  /\ LET m == Head(toUac) IN
       \/ closed
       \/ m.kind = "response" /\ ~Matches(m.method)
       \/ m.kind = "probeReply" /\ options # m.id
  /\ toUac' = Tail(toUac)
  /\ UNCHANGED <<state, inflight, options, remoteTag, closed, caller, toPeer,
                 peer>>

-----------------------------------------------------------------------------
(* The peer (external): a SIP user agent server that takes one call.       *)

client == <<state, inflight, options, remoteTag, closed, caller>>

Takes(m) == toPeer # <<>> /\ Head(toPeer) = m /\ toPeer' = Tail(toPeer)
Reply(m) == Sends(toUac, toUac, m)

(* An INVITE, or its copy, which gets the last response again.             *)
PeerInvite ==
  /\ Takes(Request("INVITE"))
  /\ peer' = IF peer = "none" THEN "ringing" ELSE peer
  /\ IF peer \in {"answered", "confirmed"}
       THEN Reply(Response("INVITE", 200))
       ELSE IF peer \in {"none", "ringing"}
              THEN \E c \in {100, 180} : Reply(Response("INVITE", c))
              ELSE UNCHANGED toUac
  /\ UNCHANGED client

(* It answers, and repeats that until the ACK comes.                       *)
PeerAnswers ==
  /\ peer \in {"ringing", "answered"}
  /\ peer' = "answered"
  /\ Reply(Response("INVITE", 200))
  /\ UNCHANGED <<client, toPeer>>

PeerRefuses ==
  /\ peer = "ringing"
  /\ peer' = "over"
  /\ Reply(Response("INVITE", 486))
  /\ UNCHANGED <<client, toPeer>>

PeerAck ==
  /\ Takes(Request("ACK"))
  /\ peer' = IF peer = "answered" THEN "confirmed" ELSE peer
  /\ UNCHANGED <<client, toUac>>

(* It hangs up, once the ACK is in, and repeats that.                      *)
PeerHangsUp ==
  /\ peer \in {"confirmed", "leaving"}
  /\ peer' = "leaving"
  /\ Reply(Request("BYE"))
  /\ UNCHANGED <<client, toPeer>>

(* It gives up on an ACK, or on an answer to its BYE, that never comes:    *)
(* after 32 s, when the 10 s of our INVITE are over.                       *)
PeerGivesUp ==
  /\ inflight.method # "INVITE"
  /\ \/ peer = "answered" /\ peer' = "leaving" /\ Reply(Request("BYE"))
     \/ peer = "leaving" /\ peer' = "over" /\ UNCHANGED toUac
  /\ UNCHANGED <<client, toPeer>>

PeerBye ==
  /\ Takes(Request("BYE"))
  /\ peer' = IF peer \in {"answered", "confirmed", "leaving"} THEN "over"
             ELSE peer
  /\ Reply(Response("BYE", IF peer = "over" THEN 481 ELSE 200))
  /\ UNCHANGED client

PeerOk ==
  /\ Takes(Request("OK"))
  /\ peer' = IF peer = "leaving" THEN "over" ELSE peer
  /\ UNCHANGED <<client, toUac>>

PeerProbed ==
  \E n \in 1 .. MaxProbes :
    /\ Takes(Probe(n))
    /\ Reply(ProbeReply(n))
    /\ UNCHANGED <<client, peer>>

-----------------------------------------------------------------------------
Timer == Retransmit \/ TxnTimeout \/ ProbeTimeout

OnMessage ==
  \/ OnProvisional \/ On2xxInvite \/ OnInviteFailure \/ OnByeResponse
  \/ OnProbeReply \/ HandlePeerBye \/ Unmatched

Peer ==
  \/ PeerInvite \/ PeerAnswers \/ PeerRefuses \/ PeerAck \/ PeerHangsUp
  \/ PeerGivesUp \/ PeerBye \/ PeerOk \/ PeerProbed

Next == Invite \/ Hangup \/ SendProbe \/ Close \/ Timer \/ OnMessage \/ Peer

Spec == Init /\ [][Next]_vars

(* Timers fire; the host reads its socket.  Nothing is owed by the peer.   *)
FairSpec ==
  /\ Spec
  /\ WF_vars(Retransmit) /\ WF_vars(TxnTimeout) /\ WF_vars(ProbeTimeout)
  /\ WF_vars(OnMessage)

-----------------------------------------------------------------------------
(* A confirmed dialog is one the peer answered, and its tag is known: the  *)
(* BYE that hangup() will build names the dialog the peer has.             *)
ConfirmedMeansAnswered ==
  state = "CONFIRMED" =>
    remoteTag /\ peer \in {"answered", "confirmed", "leaving", "over"}

(* The call is reported over by the peer at most once, however often the   *)
(* BYE is repeated, and whatever our own BYE does meanwhile.               *)
EndedOnce == ended <= 1

(* A dialog that is over stays over: no late 200 OK takes a call that has  *)
(* timed out or been closed back to CONFIRMED.                             *)
TerminatedStays == [][state = "TERMINATED" => state' = "TERMINATED"]_vars

(* After close() nothing is sent, reported or settled on behalf of the     *)
(* dialog: the backend that owned it is stopping.                          *)
CloseIsQuiet ==
  [][closed => /\ UNCHANGED <<invite, bye, ended>>
               /\ Len(toPeer') <= Len(toPeer)]_vars

(* invite() and hangup() come to an end, by an answer or by their timer,   *)
(* unless the client is closed; a probe ends even then.                    *)
RequestsSettle ==
  /\ (probe = "pending") ~> (probe # "pending")
  /\ (invite = "pending") ~> (invite # "pending" \/ closed)
  /\ (bye = "pending") ~> (bye # "pending" \/ closed)

(* What the backend counts on: a call that was answered, and one end.      *)
ClientSafe == TypeOK /\ ConfirmedMeansAnswered /\ EndedOnce

=============================================================================
