------------------------ MODULE PjsipBackend_proofs ------------------------
(***************************************************************************)
(* What TLAPS proves of the backend that drives one VM, of its SIP client  *)
(* and of the registrar, for any number of AT commands, resends, contacts  *)
(* and messages under way: first of the client by itself (Uac!Spec), then  *)
(* of the backend, which takes no step with its client that the client's   *)
(* specification does not allow, then of PJSIP's registration.             *)
(***************************************************************************)
EXTENDS MCModemVm, SequenceTheorems, FiniteSetTheorems, TLAPS

-----------------------------------------------------------------------------
(* The client.                                                             *)

Inviting == inflight.method = "INVITE"

(* There is one INVITE: it is on its way as long as its promise is         *)
(* pending, and nothing came before it but probes.                         *)
OneInvite ==
  /\ uacState = "INIT" => invite = "none"
  /\ Inviting => invite = "pending" /\ uacState \in {"TRYING", "EARLY"}
  /\ uacState = "CONFIRMED" => invite = "resolved"

Probes  == {Uac!Probe(n) : n \in 1 .. MaxProbes}
Replies == {Uac!ProbeReply(n) : n \in 1 .. MaxProbes}
NoAck   == Uac!ToPeerMsg \ {Uac!Request("ACK")}
NoBye   == Uac!ToUacMsg \ {Uac!Request("BYE")}
No200   == Uac!ToUacMsg \ {Uac!Response("INVITE", 200)}

Untouched ==
  invite = "none" =>
    /\ peer = "none" /\ inflight = Uac!Idle
    /\ toPeer \in Seq(Probes) /\ toUac \in Seq(Replies)

(* The peer hangs up after the ACK, and that after the answer: as long as  *)
(* the INVITE is in flight, there is neither ACK nor BYE.                  *)
NothingAfterAnswer ==
  Inviting =>
    /\ peer \notin {"confirmed", "leaving"}
    /\ toPeer \in Seq(NoAck) /\ toUac \in Seq(NoBye)

(* A 200 on its way was sent by a peer that answered.                      *)
AnswerIsReal ==
  peer \in {"none", "ringing"} => toUac \in Seq(No200)

OverOnce == Uac!EndedOnce /\ (ended = 0 \/ uacState = "TERMINATED")
ClosedIsOver == closed => inflight = Uac!Idle /\ uacState = "TERMINATED"

ClientInv ==
  /\ Uac!TypeOK
  /\ OneInvite
  /\ Untouched
  /\ NothingAfterAnswer
  /\ AnswerIsReal
  /\ Uac!ConfirmedMeansAnswered
  /\ OverOnce
  /\ ClosedIsOver

-----------------------------------------------------------------------------
(* The backend.                                                            *)

(* TypeOK, in the parts the proofs deal with.                              *)
Types ==
  /\ state \in {"IDLE", "TCP_WAIT", "PROBING", "READY", "ACTIVATING",
                "CONFIRMED", "STOPPED"}
  /\ startP \in Promise /\ activateP \in Promise
  /\ startAt \in {"no", "sockets", "register"}
  /\ servers \subseteq Chardev /\ accepted \subseteq Chardev
  /\ client \in {"none", "live", "closed"}
  /\ stopAt \in {"no", "hangup", "tunnel", "kill", "done"}
  /\ reported \subseteq {"error", "silenceHangup"}
  /\ vm \in {"off", "running", "exited", "killed"}

Flags ==
  /\ failFast \in BOOLEAN
  /\ {control, listening, sockets, bridge} \subseteq BOOLEAN
  /\ {ringWatch, ringSeen, fallback} \subseteq BOOLEAN

AnswerTypes ==
  /\ answering \in 0 .. Quiet
  /\ modem \in {"onhook", "answered", "stuck"}
  /\ atLog \in Seq({"init", "ATA"})

(* Where start-up, call and stop() are, as state tells it.                 *)
Stages ==
  /\ stopAt # "no" <=> state = "STOPPED"
  /\ startP = "none" <=> state = "IDLE"
  /\ startP = "pending" <=> startAt # "no"
  /\ startAt = "sockets" => state \in {"TCP_WAIT", "STOPPED"}
  /\ startAt = "register" => state \in {"PROBING", "STOPPED"}
  /\ client = "none" => state \notin {"ACTIVATING", "CONFIRMED"}
  /\ client # "none" => state \in {"ACTIVATING", "CONFIRMED", "STOPPED"}

(* The listeners are closed when the UDP sockets are opened, and these     *)
(* stay open to the end.                                                   *)
Resources ==
  /\ servers # {} => state = "TCP_WAIT"
  /\ sockets => servers = {}
  /\ state \in {"PROBING", "READY", "ACTIVATING", "CONFIRMED"} => sockets
  /\ startP = "none" => vm = "off" /\ ~sockets

(* What each stage of stop() has done.                                     *)
StopStages ==
  /\ state = "STOPPED" => ~listening /\ ~bridge
  /\ stopAt = "hangup" =>
       sockets /\ client = "live" /\ invite = "resolved"
  /\ stopAt \in {"tunnel", "kill", "done"} => ~sockets /\ client # "live"
  /\ stopAt \in {"kill", "done"} =>
       vm # "running" /\ servers = {} /\ accepted = {} /\ ~control

(* The answer sequence runs once: until RING or its fallback nothing was   *)
(* sent, then the log has what the sequence is through with.               *)
AnswersOnce ==
  /\ answering # Quiet /\ control => Len(atLog) = InitCommands - answering
  /\ ringWatch \/ (fallback /\ ~ringSeen) => atLog = <<>> /\ answering = Quiet
  /\ ringSeen => ~ringWatch
  /\ client = "none" =>
       /\ atLog = <<>> /\ answering = Quiet
       /\ ~ringWatch /\ ~ringSeen /\ ~fallback

(* The client is in the state it was made in until activate() uses it.     *)
FreshClient == client = "none" => invite = "none"

(* The invariant, in four parts: what a step of the backend does to its    *)
(* client, to its flags, to its stages and to the answer sequence is       *)
(* looked at apart.                                                        *)
StagesInv ==
  /\ Types
  /\ Stages
  /\ Resources
  /\ StopStages
  /\ FreshClient
  /\ BridgeMeansCall

AnswerInv == AnswerTypes /\ AnswersOnce /\ AtaOnceAfterInit

IInv == ClientInv /\ Flags /\ StagesInv /\ AnswerInv

-----------------------------------------------------------------------------
(* Messages, and what a step does to what is under way.                    *)

LEMMA Messages ==
  /\ Probes \subseteq NoAck /\ NoAck \subseteq Uac!ToPeerMsg
  /\ \A m \in {"INVITE", "BYE", "OK"} : Uac!Request(m) \in NoAck
  /\ Uac!Request("ACK") \in Uac!ToPeerMsg
  /\ \A n \in 1 .. MaxProbes : Uac!Probe(n) \in Probes
  /\ \A m \in {"INVITE", "ACK", "BYE", "OK"} : Uac!Request(m) \notin Probes
<1>1. \A m, n : Uac!Request(m).kind = "request" /\ Uac!Probe(n).kind = "probe"
  BY DEF Uac!Request, Uac!Probe
<1>2. \A m \in {"INVITE", "BYE", "OK"} : Uac!Request(m) # Uac!Request("ACK")
  BY DEF Uac!Request
<1> QED
  BY <1>1, <1>2 DEF Probes, NoAck, Uac!ToPeerMsg

LEMMA Answers ==
  /\ Replies \subseteq NoBye /\ Replies \subseteq No200
  /\ NoBye \subseteq Uac!ToUacMsg /\ No200 \subseteq Uac!ToUacMsg
  /\ \A c \in {100, 180, 486} :
       Uac!Response("INVITE", c) \in NoBye /\ Uac!Response("INVITE", c) \in No200
  /\ Uac!Response("INVITE", 200) \in NoBye
  /\ \A c \in {200, 481} :
       Uac!Response("BYE", c) \in NoBye /\ Uac!Response("BYE", c) \in No200
  /\ Uac!Request("BYE") \in No200
  /\ \A n \in 1 .. MaxProbes : Uac!ProbeReply(n) \in Replies
  /\ Uac!Request("BYE") \notin Replies
  /\ \A m, c : Uac!Response(m, c) \notin Replies
<1>1. \A m, c, n : /\ Uac!Response(m, c).kind = "response"
                  /\ Uac!ProbeReply(n).kind = "probeReply"
                  /\ Uac!Request(m).kind = "request"
  BY DEF Uac!Request, Uac!Response, Uac!ProbeReply
<1>2. \A c, d : c # d => Uac!Response("INVITE", c) # Uac!Response("INVITE", d)
  BY DEF Uac!Response
<1>3. \A c, d : Uac!Response("BYE", c) # Uac!Response("INVITE", d)
  BY DEF Uac!Response
<1> QED
  BY <1>1, <1>2, <1>3 DEF Replies, NoBye, No200, Uac!ToUacMsg

LEMMA PeerQueue ==
  ASSUME NEW S, toPeer \in Seq(S), NEW m
  PROVE  /\ m \in S /\ Uac!SendRaw(m) => toPeer' \in Seq(S)
         /\ Uac!Takes(m) => m \in S /\ toPeer' \in Seq(S)
<1>1. ASSUME m \in S PROVE Append(toPeer, m) \in Seq(S)
  BY <1>1, AppendProperties
<1>2. ASSUME toPeer # <<>> PROVE Head(toPeer) \in S /\ Tail(toPeer) \in Seq(S)
  BY <1>2, HeadTailProperties
<1> QED
  BY <1>1, <1>2 DEF Uac!SendRaw, Uac!Sends, Uac!Takes

LEMMA UacQueue ==
  ASSUME NEW S, toUac \in Seq(S), NEW m
  PROVE  /\ m \in S /\ Uac!Reply(m) => toUac' \in Seq(S)
         /\ Uac!Arrives(m) => m \in S /\ toUac' \in Seq(S)
         /\ toUac # <<>> => Tail(toUac) \in Seq(S)
<1>1. ASSUME m \in S PROVE Append(toUac, m) \in Seq(S)
  BY <1>1, AppendProperties
<1>2. ASSUME toUac # <<>> PROVE Head(toUac) \in S /\ Tail(toUac) \in Seq(S)
  BY <1>2, HeadTailProperties
<1> QED
  BY <1>1, <1>2 DEF Uac!Reply, Uac!Sends, Uac!Arrives

(* The bound on what is under way.                                         *)
LEMMA QueueBounds ==
  ASSUME Uac!TypeOK, NEW m
  PROVE  /\ Uac!SendRaw(m) => Len(toPeer') <= NetLimit
         /\ Uac!Takes(m) => Len(toPeer') <= NetLimit
         /\ Uac!Reply(m) => Len(toUac') <= NetLimit
         /\ Uac!Arrives(m) => Len(toUac') <= NetLimit
         /\ toUac # <<>> => Len(Tail(toUac)) <= NetLimit
<1> USE ClientAssumption DEF Uac!ConstantsOK
<1>1. /\ toPeer \in Seq(Uac!ToPeerMsg) /\ Len(toPeer) <= NetLimit
      /\ toUac \in Seq(Uac!ToUacMsg) /\ Len(toUac) <= NetLimit
  BY DEF Uac!TypeOK
<1>2. /\ Len(Append(toPeer, m)) = Len(toPeer) + 1
      /\ Len(Append(toUac, m)) = Len(toUac) + 1
  BY <1>1
<1>3. /\ toPeer # <<>> => Len(Tail(toPeer)) = Len(toPeer) - 1
      /\ toUac # <<>> => Len(Tail(toUac)) = Len(toUac) - 1
  BY <1>1, HeadTailProperties
<1>4. Len(toPeer) \in Nat /\ Len(toUac) \in Nat
  BY <1>1, LenProperties
<1> QED
  BY <1>1, <1>2, <1>3, <1>4 DEF Uac!SendRaw, Uac!Reply, Uac!Sends, Uac!Takes,
     Uac!Arrives

-----------------------------------------------------------------------------
(* Every step of the client and of its peer keeps the client's invariant.  *)

LEMMA InitClient == ASSUME Uac!Init PROVE ClientInv
<1>1. /\ <<>> \in Seq(Uac!ToPeerMsg) /\ <<>> \in Seq(Uac!ToUacMsg)
      /\ <<>> \in Seq(Probes) /\ <<>> \in Seq(Replies)
      /\ <<>> \in Seq(No200) /\ Len(<<>>) = 0
  BY EmptySeq
<1> USE <1>1, ClientAssumption DEF Uac!Init, Uac!ConstantsOK
<1>2. Uac!TypeOK
  <2>1. toPeer \in Seq(Uac!ToPeerMsg) /\ toUac \in Seq(Uac!ToUacMsg)
    OBVIOUS
  <2>2. Len(toPeer) <= NetLimit /\ Len(toUac) <= NetLimit
    OBVIOUS
  <2>3. inflight \in Uac!Txn \cup {Uac!Idle}
    OBVIOUS
  <2>4. options \in 0 .. MaxProbes /\ probes \in 0 .. MaxProbes /\ ended \in Nat
    BY DEF Uac!NoProbe
  <2>5. /\ uacState \in Uac!State /\ peer \in Uac!PeerState
        /\ invite \in Uac!Promise /\ bye \in Uac!Promise
        /\ probe \in Uac!Promise
    BY DEF Uac!State, Uac!PeerState, Uac!Promise
  <2>6. remoteTag \in BOOLEAN /\ closed \in BOOLEAN
    OBVIOUS
  <2> HIDE <1>1, ClientAssumption DEF Uac!Init, Uac!ConstantsOK
  <2> QED
    BY <2>1, <2>2, <2>3, <2>4, <2>5, <2>6 DEF Uac!TypeOK
<1>3. OneInvite /\ Untouched /\ NothingAfterAnswer /\ AnswerIsReal
  BY DEF OneInvite, Untouched, NothingAfterAnswer, AnswerIsReal, Inviting,
         Uac!Idle
<1> QED
  BY <1>2, <1>3
     DEF ClientInv, Uac!ConfirmedMeansAnswered, OverOnce, Uac!EndedOnce,
         ClosedIsOver

LEMMA RestsClient ==
  ASSUME ClientInv, UNCHANGED uacVars PROVE ClientInv'
BY DEF uacVars, ClientInv, Uac!TypeOK, OneInvite, Untouched,
       NothingAfterAnswer, AnswerIsReal, Uac!ConfirmedMeansAnswered,
       OverOnce, Uac!EndedOnce, ClosedIsOver, Inviting

LEMMA InviteClient == ASSUME ClientInv, Uac!Invite PROVE ClientInv'
<1> USE ClientAssumption
    DEF ClientInv, Uac!Invite, Uac!StartTransaction, Uac!ConstantsOK
<1>1. invite = "none" /\ Untouched
  BY DEF OneInvite
<1>2. /\ toPeer \in Seq(NoAck) /\ toUac \in Seq(NoBye)
      /\ toUac \in Seq(No200) /\ peer = "none"
  BY <1>1, Messages, Answers, SeqMonotonic DEF Untouched
<1>3. toPeer' \in Seq(NoAck)
  BY <1>2, Messages, PeerQueue
<1>4. Uac!TypeOK'
  <2>1. toPeer' \in Seq(Uac!ToPeerMsg) /\ Len(toPeer') <= NetLimit
    BY <1>3, Messages, SeqMonotonic, QueueBounds
  <2> QED
    BY <2>1 DEF Uac!TypeOK, Uac!State, Uac!Promise, Uac!Txn
<1>5. OneInvite' /\ Untouched' /\ NothingAfterAnswer'
  BY <1>2, <1>3 DEF OneInvite, Untouched, NothingAfterAnswer, Inviting
<1>6. AnswerIsReal' /\ Uac!ConfirmedMeansAnswered'
  BY <1>2 DEF AnswerIsReal, Uac!ConfirmedMeansAnswered
<1>7. OverOnce' /\ ClosedIsOver'
  BY DEF OverOnce, Uac!EndedOnce, ClosedIsOver
<1> QED
  BY <1>4, <1>5, <1>6, <1>7

LEMMA HangupClient == ASSUME ClientInv, Uac!Hangup PROVE ClientInv'
<1> USE ClientAssumption
    DEF ClientInv, Uac!Hangup, Uac!StartTransaction, Uac!ConstantsOK
<1>1. toPeer' \in Seq(Uac!ToPeerMsg) /\ Len(toPeer') <= NetLimit
  BY Messages, PeerQueue, QueueBounds DEF Uac!TypeOK
<1>2. Uac!TypeOK'
  BY <1>1 DEF Uac!TypeOK, Uac!State, Uac!Promise, Uac!Txn
<1>3. OneInvite' /\ Untouched' /\ NothingAfterAnswer'
  BY DEF OneInvite, Untouched, NothingAfterAnswer, Inviting
<1>4. AnswerIsReal' /\ Uac!ConfirmedMeansAnswered'
  BY DEF AnswerIsReal, Uac!ConfirmedMeansAnswered
<1>5. OverOnce' /\ ClosedIsOver'
  BY DEF OverOnce, Uac!EndedOnce, ClosedIsOver
<1> QED
  BY <1>2, <1>3, <1>4, <1>5

LEMMA RetransmitClient == ASSUME ClientInv, Uac!Retransmit PROVE ClientInv'
<1> USE ClientAssumption
    DEF ClientInv, Uac!Retransmit, Uac!CanResend, Uac!ConstantsOK, Uac!caller
<1>1. inflight \in Uac!Txn /\ inflight.method \in {"INVITE", "BYE"}
  BY DEF Uac!TypeOK, Uac!Txn
<1>2. /\ inflight' \in Uac!Txn /\ inflight' # Uac!Idle
      /\ inflight'.method = inflight.method
  BY <1>1 DEF Uac!Txn, Uac!Idle
<1>s. PICK m : m = Uac!Request(inflight.method) /\ Uac!SendRaw(m)
  BY DEF Uac!SendRaw
<1>3. toPeer' \in Seq(Uac!ToPeerMsg) /\ Len(toPeer') <= NetLimit
  BY <1>1, <1>s, Messages, PeerQueue, QueueBounds DEF Uac!TypeOK
<1>4. Uac!TypeOK'
  BY <1>2, <1>3 DEF Uac!TypeOK
<1>5. OneInvite' /\ Untouched'
  BY <1>2 DEF OneInvite, Untouched, Inviting
<1>6. NothingAfterAnswer'
  BY <1>1, <1>2, <1>s, Messages, PeerQueue DEF NothingAfterAnswer, Inviting
<1>7. AnswerIsReal' /\ Uac!ConfirmedMeansAnswered'
  BY DEF AnswerIsReal, Uac!ConfirmedMeansAnswered
<1>8. OverOnce' /\ ClosedIsOver'
  BY DEF OverOnce, Uac!EndedOnce, ClosedIsOver
<1> QED
  BY <1>4, <1>5, <1>6, <1>7, <1>8

LEMMA TxnTimeoutClient == ASSUME ClientInv, Uac!TxnTimeout PROVE ClientInv'
<1> USE ClientAssumption DEF ClientInv, Uac!TxnTimeout, Uac!ConstantsOK
<1>1. Uac!TypeOK'
  BY DEF Uac!TypeOK, Uac!State, Uac!Promise
<1>2. OneInvite' /\ Untouched' /\ NothingAfterAnswer'
  BY DEF OneInvite, Untouched, NothingAfterAnswer, Inviting, Uac!Idle
<1>3. AnswerIsReal' /\ Uac!ConfirmedMeansAnswered'
  BY DEF AnswerIsReal, Uac!ConfirmedMeansAnswered
<1>4. OverOnce' /\ ClosedIsOver'
  BY DEF OverOnce, Uac!EndedOnce, ClosedIsOver
<1> QED
  BY <1>1, <1>2, <1>3, <1>4

LEMMA CloseClient == ASSUME ClientInv, Uac!Close PROVE ClientInv'
<1> USE ClientAssumption
    DEF ClientInv, Uac!Close, Uac!ConstantsOK, Uac!caller
<1>1. Uac!TypeOK'
  BY DEF Uac!TypeOK, Uac!State, Uac!NoProbe
<1>2. OneInvite' /\ Untouched' /\ NothingAfterAnswer'
  BY DEF OneInvite, Untouched, NothingAfterAnswer, Inviting, Uac!Idle
<1>3. AnswerIsReal' /\ Uac!ConfirmedMeansAnswered'
  BY DEF AnswerIsReal, Uac!ConfirmedMeansAnswered
<1>4. OverOnce' /\ ClosedIsOver'
  BY DEF OverOnce, Uac!EndedOnce, ClosedIsOver
<1> QED
  BY <1>1, <1>2, <1>3, <1>4

LEMMA SendProbeClient == ASSUME ClientInv, Uac!SendProbe PROVE ClientInv'
<1> USE ClientAssumption DEF ClientInv, Uac!SendProbe, Uac!ConstantsOK
<1>1. probes + 1 \in 1 .. MaxProbes /\ Uac!Probe(probes + 1) \in Probes
  BY Messages DEF Uac!TypeOK
<1>2. Uac!Probe(probes + 1) \in NoAck /\ Uac!Probe(probes + 1) \in Uac!ToPeerMsg
  BY <1>1, Messages
<1>s. PICK m : m = Uac!Probe(probes + 1) /\ Uac!SendRaw(m)
  BY DEF Uac!SendRaw
<1>3. toPeer' \in Seq(Uac!ToPeerMsg) /\ Len(toPeer') <= NetLimit
  BY <1>2, <1>s, PeerQueue, QueueBounds DEF Uac!TypeOK
<1>4. Uac!TypeOK'
  BY <1>1, <1>3 DEF Uac!TypeOK, Uac!Promise
<1>5. OneInvite' /\ Untouched' /\ NothingAfterAnswer'
  BY <1>1, <1>2, <1>s, PeerQueue DEF OneInvite, Untouched, NothingAfterAnswer, Inviting
<1>6. AnswerIsReal' /\ Uac!ConfirmedMeansAnswered'
  BY DEF AnswerIsReal, Uac!ConfirmedMeansAnswered
<1>7. OverOnce' /\ ClosedIsOver'
  BY DEF OverOnce, Uac!EndedOnce, ClosedIsOver
<1> QED
  BY <1>4, <1>5, <1>6, <1>7

LEMMA ProbeTimeoutClient == ASSUME ClientInv, Uac!ProbeTimeout PROVE ClientInv'
<1> USE ClientAssumption DEF ClientInv, Uac!ProbeTimeout, Uac!ConstantsOK
<1>1. Uac!TypeOK'
  BY DEF Uac!TypeOK, Uac!Promise, Uac!NoProbe
<1>2. OneInvite' /\ Untouched' /\ NothingAfterAnswer'
  BY DEF OneInvite, Untouched, NothingAfterAnswer, Inviting
<1>3. AnswerIsReal' /\ Uac!ConfirmedMeansAnswered'
  BY DEF AnswerIsReal, Uac!ConfirmedMeansAnswered
<1>4. OverOnce' /\ ClosedIsOver'
  BY DEF OverOnce, Uac!EndedOnce, ClosedIsOver
<1> QED
  BY <1>1, <1>2, <1>3, <1>4

LEMMA OnProvisionalClient == ASSUME ClientInv, Uac!OnProvisional PROVE ClientInv'
<1> USE ClientAssumption DEF ClientInv, Uac!ConstantsOK, Uac!caller
<1>0. PICK c \in {100, 180} : Uac!OnProvisional!(c)
  BY DEF Uac!OnProvisional
<1>1. Inviting /\ ~closed /\ inflight \in Uac!Txn
  BY <1>0 DEF Uac!Matches, Inviting, Uac!TypeOK
<1>2. /\ inflight' \in Uac!Txn /\ inflight'.method = "INVITE"
      /\ uacState' \in {"TRYING", "EARLY"} /\ remoteTag' \in BOOLEAN
  BY <1>0, <1>1 DEF Uac!Txn, Inviting, OneInvite, Uac!TypeOK
<1>3. toUac' \in Seq(Uac!ToUacMsg) /\ Len(toUac') <= NetLimit
  BY <1>0, UacQueue, QueueBounds DEF Uac!TypeOK
<1>4. Uac!TypeOK'
  BY <1>0, <1>2, <1>3 DEF Uac!TypeOK, Uac!State
<1>5. OneInvite' /\ Untouched'
  BY <1>0, <1>1, <1>2 DEF OneInvite, Untouched, Inviting
<1>6. NothingAfterAnswer' /\ AnswerIsReal' /\ Uac!ConfirmedMeansAnswered'
  BY <1>0, <1>1, <1>2, UacQueue
     DEF NothingAfterAnswer, AnswerIsReal, Uac!ConfirmedMeansAnswered, Inviting
<1>7. OverOnce' /\ ClosedIsOver'
  BY <1>0, <1>1, <1>2 DEF OverOnce, Uac!EndedOnce, ClosedIsOver, OneInvite
<1> QED
  BY <1>4, <1>5, <1>6, <1>7

LEMMA On2xxInviteClient == ASSUME ClientInv, Uac!On2xxInvite PROVE ClientInv'
<1> USE ClientAssumption DEF ClientInv, Uac!On2xxInvite, Uac!ConstantsOK
<1>1. Inviting /\ ~closed
  BY DEF Uac!Matches, Inviting
<1>2. peer \notin {"none", "ringing"}
  BY UacQueue DEF AnswerIsReal, No200
<1>3. toUac' \in Seq(Uac!ToUacMsg) /\ Len(toUac') <= NetLimit
  BY UacQueue, QueueBounds DEF Uac!TypeOK
<1>4. toPeer' \in Seq(Uac!ToPeerMsg) /\ Len(toPeer') <= NetLimit
  BY Messages, PeerQueue, QueueBounds DEF Uac!TypeOK
<1>5. Uac!TypeOK'
  BY <1>3, <1>4 DEF Uac!TypeOK, Uac!State, Uac!Promise
<1>6. OneInvite' /\ Untouched' /\ NothingAfterAnswer'
  BY DEF OneInvite, Untouched, NothingAfterAnswer, Inviting, Uac!Idle
<1>7. AnswerIsReal' /\ Uac!ConfirmedMeansAnswered'
  BY <1>2 DEF AnswerIsReal, Uac!ConfirmedMeansAnswered, Uac!TypeOK, Uac!PeerState
<1>8. OverOnce' /\ ClosedIsOver'
  BY <1>1 DEF OverOnce, Uac!EndedOnce, ClosedIsOver, OneInvite
<1> QED
  BY <1>5, <1>6, <1>7, <1>8

LEMMA OnInviteFailureClient ==
  ASSUME ClientInv, Uac!OnInviteFailure PROVE ClientInv'
<1> USE ClientAssumption DEF ClientInv, Uac!OnInviteFailure, Uac!ConstantsOK
<1>1. toUac' \in Seq(Uac!ToUacMsg) /\ Len(toUac') <= NetLimit
  BY UacQueue, QueueBounds DEF Uac!TypeOK
<1>2. toPeer' \in Seq(Uac!ToPeerMsg) /\ Len(toPeer') <= NetLimit
  BY Messages, PeerQueue, QueueBounds DEF Uac!TypeOK
<1>3. Uac!TypeOK'
  BY <1>1, <1>2 DEF Uac!TypeOK, Uac!State, Uac!Promise
<1>4. OneInvite' /\ Untouched' /\ NothingAfterAnswer'
  BY DEF OneInvite, Untouched, NothingAfterAnswer, Inviting, Uac!Idle
<1>5. AnswerIsReal' /\ Uac!ConfirmedMeansAnswered'
  BY UacQueue DEF AnswerIsReal, Uac!ConfirmedMeansAnswered
<1>6. OverOnce' /\ ClosedIsOver'
  BY DEF OverOnce, Uac!EndedOnce, ClosedIsOver
<1> QED
  BY <1>3, <1>4, <1>5, <1>6

LEMMA OnByeResponseClient == ASSUME ClientInv, Uac!OnByeResponse PROVE ClientInv'
<1> USE ClientAssumption DEF ClientInv, Uac!ConstantsOK
<1>0. PICK c \in {200, 481} : Uac!OnByeResponse!(c)
  BY DEF Uac!OnByeResponse
<1>1. toUac' \in Seq(Uac!ToUacMsg) /\ Len(toUac') <= NetLimit
  BY <1>0, UacQueue, QueueBounds DEF Uac!TypeOK
<1>2. Uac!TypeOK'
  BY <1>0, <1>1 DEF Uac!TypeOK, Uac!State, Uac!Promise
<1>3. OneInvite' /\ Untouched' /\ NothingAfterAnswer'
  BY <1>0 DEF OneInvite, Untouched, NothingAfterAnswer, Inviting, Uac!Idle,
              Uac!Matches
<1>4. AnswerIsReal' /\ Uac!ConfirmedMeansAnswered'
  BY <1>0, UacQueue DEF AnswerIsReal, Uac!ConfirmedMeansAnswered
<1>5. OverOnce' /\ ClosedIsOver'
  BY <1>0 DEF OverOnce, Uac!EndedOnce, ClosedIsOver
<1> QED
  BY <1>2, <1>3, <1>4, <1>5

LEMMA OnProbeReplyClient == ASSUME ClientInv, Uac!OnProbeReply PROVE ClientInv'
<1> USE ClientAssumption DEF ClientInv, Uac!ConstantsOK
<1>0. PICK n \in 1 .. MaxProbes : Uac!OnProbeReply!(n)
  BY DEF Uac!OnProbeReply
<1>1. toUac' \in Seq(Uac!ToUacMsg) /\ Len(toUac') <= NetLimit
  BY <1>0, UacQueue, QueueBounds DEF Uac!TypeOK
<1>2. Uac!TypeOK'
  BY <1>0, <1>1 DEF Uac!TypeOK, Uac!NoProbe, Uac!Promise
<1>3. OneInvite' /\ Untouched' /\ NothingAfterAnswer'
  BY <1>0, UacQueue DEF OneInvite, Untouched, NothingAfterAnswer, Inviting
<1>4. AnswerIsReal' /\ Uac!ConfirmedMeansAnswered'
  BY <1>0, UacQueue DEF AnswerIsReal, Uac!ConfirmedMeansAnswered
<1>5. OverOnce' /\ ClosedIsOver'
  BY <1>0 DEF OverOnce, Uac!EndedOnce, ClosedIsOver
<1> QED
  BY <1>2, <1>3, <1>4, <1>5

LEMMA HandlePeerByeClient == ASSUME ClientInv, Uac!HandlePeerBye PROVE ClientInv'
<1> USE ClientAssumption DEF ClientInv, Uac!HandlePeerBye, Uac!ConstantsOK
<1>1. ~Inviting
  BY UacQueue DEF NothingAfterAnswer, NoBye
<1>2. invite # "none"
  BY UacQueue, Answers DEF Untouched
<1>3. toUac' \in Seq(Uac!ToUacMsg) /\ Len(toUac') <= NetLimit
  BY UacQueue, QueueBounds DEF Uac!TypeOK
<1>4. toPeer' \in Seq(Uac!ToPeerMsg) /\ Len(toPeer') <= NetLimit
  BY Messages, PeerQueue, QueueBounds DEF Uac!TypeOK
<1>5. Uac!TypeOK'
  BY <1>3, <1>4 DEF Uac!TypeOK, Uac!State
<1>6. OneInvite' /\ Untouched' /\ NothingAfterAnswer'
  BY <1>1, <1>2 DEF OneInvite, Untouched, NothingAfterAnswer, Inviting
<1>7. AnswerIsReal' /\ Uac!ConfirmedMeansAnswered'
  BY UacQueue DEF AnswerIsReal, Uac!ConfirmedMeansAnswered
<1>8. OverOnce' /\ ClosedIsOver'
  BY DEF OverOnce, Uac!EndedOnce, ClosedIsOver, Uac!TypeOK
<1> QED
  BY <1>5, <1>6, <1>7, <1>8

LEMMA UnmatchedClient == ASSUME ClientInv, Uac!Unmatched PROVE ClientInv'
<1> USE ClientAssumption
    DEF ClientInv, Uac!Unmatched, Uac!ConstantsOK, Uac!caller
<1>1. toUac' \in Seq(Uac!ToUacMsg) /\ Len(toUac') <= NetLimit
  BY UacQueue, QueueBounds DEF Uac!TypeOK
<1>2. Uac!TypeOK'
  BY <1>1 DEF Uac!TypeOK
<1>3. OneInvite' /\ Untouched' /\ NothingAfterAnswer'
  BY UacQueue DEF OneInvite, Untouched, NothingAfterAnswer, Inviting
<1>4. AnswerIsReal' /\ Uac!ConfirmedMeansAnswered'
  BY UacQueue DEF AnswerIsReal, Uac!ConfirmedMeansAnswered
<1>5. OverOnce' /\ ClosedIsOver'
  BY DEF OverOnce, Uac!EndedOnce, ClosedIsOver
<1> QED
  BY <1>2, <1>3, <1>4, <1>5

(* The peer's steps leave the client's own fields alone.                   *)
LEMMA PeerInviteClient == ASSUME ClientInv, Uac!PeerInvite PROVE ClientInv'
<1> USE ClientAssumption
    DEF ClientInv, Uac!PeerInvite, Uac!ConstantsOK, Uac!client, Uac!caller
<1>1. invite # "none"
  BY PeerQueue, Messages DEF Untouched
<1>2. toPeer' \in Seq(Uac!ToPeerMsg) /\ Len(toPeer') <= NetLimit
  BY PeerQueue, QueueBounds DEF Uac!TypeOK
<1>3. /\ toUac' \in Seq(Uac!ToUacMsg) /\ Len(toUac') <= NetLimit
      /\ toUac \in Seq(NoBye) => toUac' \in Seq(NoBye)
      /\ peer \in {"none", "ringing"} /\ toUac \in Seq(No200)
           => toUac' \in Seq(No200)
  <2>1. CASE peer \in {"answered", "confirmed"}
    BY <2>1, UacQueue, QueueBounds, Answers DEF Uac!TypeOK
  <2>2. CASE peer \in {"none", "ringing"}
    <3>1. PICK c \in {100, 180} : Uac!Reply(Uac!Response("INVITE", c))
      BY <2>2
    <3> QED
      BY <2>2, <3>1, UacQueue, QueueBounds, Answers DEF Uac!TypeOK
  <2>3. CASE peer \notin {"none", "ringing", "answered", "confirmed"}
    BY <2>3 DEF Uac!TypeOK
  <2> QED
    BY <2>1, <2>2, <2>3
<1>4. Uac!TypeOK'
  BY <1>2, <1>3 DEF Uac!TypeOK, Uac!PeerState
<1>5. OneInvite' /\ Untouched' /\ NothingAfterAnswer'
  BY <1>1, <1>3, PeerQueue DEF OneInvite, Untouched, NothingAfterAnswer, Inviting
<1>6. AnswerIsReal' /\ Uac!ConfirmedMeansAnswered'
  BY <1>3 DEF AnswerIsReal, Uac!ConfirmedMeansAnswered
<1>7. OverOnce' /\ ClosedIsOver'
  BY DEF OverOnce, Uac!EndedOnce, ClosedIsOver
<1> QED
  BY <1>4, <1>5, <1>6, <1>7

LEMMA PeerAnswersClient == ASSUME ClientInv, Uac!PeerAnswers PROVE ClientInv'
<1> USE ClientAssumption
    DEF ClientInv, Uac!PeerAnswers, Uac!ConstantsOK, Uac!client, Uac!caller
<1>1. invite # "none"
  BY DEF Untouched
<1>2. toUac' \in Seq(Uac!ToUacMsg) /\ Len(toUac') <= NetLimit
  BY UacQueue, QueueBounds, Answers DEF Uac!TypeOK
<1>3. Uac!TypeOK'
  BY <1>2 DEF Uac!TypeOK, Uac!PeerState
<1>4. OneInvite' /\ Untouched' /\ NothingAfterAnswer'
  BY <1>1, UacQueue, Answers
     DEF OneInvite, Untouched, NothingAfterAnswer, Inviting
<1>5. AnswerIsReal' /\ Uac!ConfirmedMeansAnswered'
  BY DEF AnswerIsReal, Uac!ConfirmedMeansAnswered
<1>6. OverOnce' /\ ClosedIsOver'
  BY DEF OverOnce, Uac!EndedOnce, ClosedIsOver
<1> QED
  BY <1>3, <1>4, <1>5, <1>6

LEMMA PeerRefusesClient == ASSUME ClientInv, Uac!PeerRefuses PROVE ClientInv'
<1> USE ClientAssumption
    DEF ClientInv, Uac!PeerRefuses, Uac!ConstantsOK, Uac!client, Uac!caller
<1>1. invite # "none"
  BY DEF Untouched
<1>2. toUac' \in Seq(Uac!ToUacMsg) /\ Len(toUac') <= NetLimit
  BY UacQueue, QueueBounds, Answers DEF Uac!TypeOK
<1>3. Uac!TypeOK'
  BY <1>2 DEF Uac!TypeOK, Uac!PeerState
<1>4. OneInvite' /\ Untouched' /\ NothingAfterAnswer'
  BY <1>1, UacQueue, Answers
     DEF OneInvite, Untouched, NothingAfterAnswer, Inviting
<1>5. AnswerIsReal' /\ Uac!ConfirmedMeansAnswered'
  BY DEF AnswerIsReal, Uac!ConfirmedMeansAnswered
<1>6. OverOnce' /\ ClosedIsOver'
  BY DEF OverOnce, Uac!EndedOnce, ClosedIsOver
<1> QED
  BY <1>3, <1>4, <1>5, <1>6

LEMMA PeerAckClient == ASSUME ClientInv, Uac!PeerAck PROVE ClientInv'
<1> USE ClientAssumption
    DEF ClientInv, Uac!PeerAck, Uac!ConstantsOK, Uac!client, Uac!caller
<1>1. ~Inviting /\ invite # "none"
  BY PeerQueue, Messages DEF NothingAfterAnswer, NoAck, Untouched
<1>2. toPeer' \in Seq(Uac!ToPeerMsg) /\ Len(toPeer') <= NetLimit
  BY PeerQueue, QueueBounds DEF Uac!TypeOK
<1>3. Uac!TypeOK'
  BY <1>2 DEF Uac!TypeOK, Uac!PeerState
<1>4. OneInvite' /\ Untouched' /\ NothingAfterAnswer'
  BY <1>1 DEF OneInvite, Untouched, NothingAfterAnswer, Inviting
<1>5. AnswerIsReal' /\ Uac!ConfirmedMeansAnswered'
  BY DEF AnswerIsReal, Uac!ConfirmedMeansAnswered
<1>6. OverOnce' /\ ClosedIsOver'
  BY DEF OverOnce, Uac!EndedOnce, ClosedIsOver
<1> QED
  BY <1>3, <1>4, <1>5, <1>6

LEMMA PeerHangsUpClient == ASSUME ClientInv, Uac!PeerHangsUp PROVE ClientInv'
<1> USE ClientAssumption
    DEF ClientInv, Uac!PeerHangsUp, Uac!ConstantsOK, Uac!client, Uac!caller
<1>1. ~Inviting /\ invite # "none"
  BY DEF NothingAfterAnswer, Untouched
<1>2. toUac' \in Seq(Uac!ToUacMsg) /\ Len(toUac') <= NetLimit
  <2>1. Uac!Request("BYE") \in Uac!ToUacMsg
    BY Answers
  <2> QED
    BY <2>1, UacQueue, QueueBounds DEF Uac!TypeOK
<1>3. Uac!TypeOK'
  BY <1>2 DEF Uac!TypeOK, Uac!PeerState
<1>4. OneInvite' /\ Untouched' /\ NothingAfterAnswer'
  BY <1>1 DEF OneInvite, Untouched, NothingAfterAnswer, Inviting
<1>5. AnswerIsReal' /\ Uac!ConfirmedMeansAnswered'
  BY DEF AnswerIsReal, Uac!ConfirmedMeansAnswered
<1>6. OverOnce' /\ ClosedIsOver'
  BY DEF OverOnce, Uac!EndedOnce, ClosedIsOver
<1> QED
  BY <1>3, <1>4, <1>5, <1>6

LEMMA PeerGivesUpClient == ASSUME ClientInv, Uac!PeerGivesUp PROVE ClientInv'
<1> USE ClientAssumption
    DEF ClientInv, Uac!PeerGivesUp, Uac!ConstantsOK, Uac!client, Uac!caller
<1>1. ~Inviting /\ invite # "none"
  BY DEF Inviting, Untouched
<1>2. toUac' \in Seq(Uac!ToUacMsg) /\ Len(toUac') <= NetLimit
  <2>1. Uac!Request("BYE") \in Uac!ToUacMsg
    BY Answers
  <2> QED
    BY <2>1, UacQueue, QueueBounds DEF Uac!TypeOK
<1>3. Uac!TypeOK'
  BY <1>2 DEF Uac!TypeOK, Uac!PeerState
<1>4. OneInvite' /\ Untouched' /\ NothingAfterAnswer'
  BY <1>1 DEF OneInvite, Untouched, NothingAfterAnswer, Inviting
<1>5. AnswerIsReal' /\ Uac!ConfirmedMeansAnswered'
  BY DEF AnswerIsReal, Uac!ConfirmedMeansAnswered
<1>6. OverOnce' /\ ClosedIsOver'
  BY DEF OverOnce, Uac!EndedOnce, ClosedIsOver
<1> QED
  BY <1>3, <1>4, <1>5, <1>6

LEMMA PeerByeClient == ASSUME ClientInv, Uac!PeerBye PROVE ClientInv'
<1> USE ClientAssumption
    DEF ClientInv, Uac!PeerBye, Uac!ConstantsOK, Uac!client, Uac!caller
<1>0. PICK c \in {200, 481} : Uac!Reply(Uac!Response("BYE", c))
  <2>1. CASE peer = "over"
    BY <2>1 DEF Uac!Reply
  <2>2. CASE peer # "over"
    BY <2>2 DEF Uac!Reply
  <2> QED
    BY <2>1, <2>2
<1>1. invite # "none"
  BY PeerQueue, Messages DEF Untouched
<1>2. toPeer' \in Seq(Uac!ToPeerMsg) /\ Len(toPeer') <= NetLimit
  BY PeerQueue, QueueBounds DEF Uac!TypeOK
<1>3. toUac' \in Seq(Uac!ToUacMsg) /\ Len(toUac') <= NetLimit
  BY <1>0, UacQueue, QueueBounds, Answers DEF Uac!TypeOK
<1>4. Uac!TypeOK'
  BY <1>2, <1>3 DEF Uac!TypeOK, Uac!PeerState
<1>5. OneInvite' /\ Untouched' /\ NothingAfterAnswer'
  BY <1>0, <1>1, UacQueue, PeerQueue, Answers
     DEF OneInvite, Untouched, NothingAfterAnswer, Inviting
<1>6. AnswerIsReal' /\ Uac!ConfirmedMeansAnswered'
  BY <1>0, UacQueue, Answers DEF AnswerIsReal, Uac!ConfirmedMeansAnswered
<1>7. OverOnce' /\ ClosedIsOver'
  BY DEF OverOnce, Uac!EndedOnce, ClosedIsOver
<1> QED
  BY <1>4, <1>5, <1>6, <1>7

LEMMA PeerOkClient == ASSUME ClientInv, Uac!PeerOk PROVE ClientInv'
<1> USE ClientAssumption
    DEF ClientInv, Uac!PeerOk, Uac!ConstantsOK, Uac!client, Uac!caller
<1>1. invite # "none"
  BY PeerQueue, Messages DEF Untouched
<1>2. toPeer' \in Seq(Uac!ToPeerMsg) /\ Len(toPeer') <= NetLimit
  BY PeerQueue, QueueBounds DEF Uac!TypeOK
<1>3. Uac!TypeOK'
  BY <1>2 DEF Uac!TypeOK, Uac!PeerState
<1>4. OneInvite' /\ Untouched' /\ NothingAfterAnswer'
  BY <1>1, PeerQueue DEF OneInvite, Untouched, NothingAfterAnswer, Inviting
<1>5. AnswerIsReal' /\ Uac!ConfirmedMeansAnswered'
  BY DEF AnswerIsReal, Uac!ConfirmedMeansAnswered
<1>6. OverOnce' /\ ClosedIsOver'
  BY DEF OverOnce, Uac!EndedOnce, ClosedIsOver
<1> QED
  BY <1>3, <1>4, <1>5, <1>6

LEMMA PeerProbedClient == ASSUME ClientInv, Uac!PeerProbed PROVE ClientInv'
<1> USE ClientAssumption
    DEF ClientInv, Uac!ConstantsOK, Uac!client, Uac!caller
<1>0. PICK n \in 1 .. MaxProbes : Uac!PeerProbed!(n)
  BY DEF Uac!PeerProbed
<1>1. /\ Uac!ProbeReply(n) \in Replies /\ Uac!ProbeReply(n) \in NoBye
      /\ Uac!ProbeReply(n) \in No200 /\ Uac!ProbeReply(n) \in Uac!ToUacMsg
  BY Answers
<1>2. toPeer' \in Seq(Uac!ToPeerMsg) /\ Len(toPeer') <= NetLimit
  BY <1>0, PeerQueue, QueueBounds DEF Uac!TypeOK
<1>3. toUac' \in Seq(Uac!ToUacMsg) /\ Len(toUac') <= NetLimit
  BY <1>0, <1>1, UacQueue, QueueBounds DEF Uac!TypeOK
<1>4. Uac!TypeOK'
  BY <1>0, <1>2, <1>3 DEF Uac!TypeOK
<1>5. OneInvite' /\ Untouched' /\ NothingAfterAnswer'
  BY <1>0, <1>1, PeerQueue, UacQueue
     DEF OneInvite, Untouched, NothingAfterAnswer, Inviting
<1>6. AnswerIsReal' /\ Uac!ConfirmedMeansAnswered'
  BY <1>0, <1>1, UacQueue DEF AnswerIsReal, Uac!ConfirmedMeansAnswered
<1>7. OverOnce' /\ ClosedIsOver'
  BY <1>0 DEF OverOnce, Uac!EndedOnce, ClosedIsOver
<1> QED
  BY <1>4, <1>5, <1>6, <1>7

LEMMA StepClient == ASSUME ClientInv, Uac!Next PROVE ClientInv'
BY InviteClient, HangupClient, SendProbeClient, CloseClient, RetransmitClient,
   TxnTimeoutClient, ProbeTimeoutClient, OnProvisionalClient,
   On2xxInviteClient, OnInviteFailureClient, OnByeResponseClient,
   OnProbeReplyClient, HandlePeerByeClient, UnmatchedClient, PeerInviteClient,
   PeerAnswersClient, PeerRefusesClient, PeerAckClient, PeerHangsUpClient,
   PeerGivesUpClient, PeerByeClient, PeerOkClient, PeerProbedClient
   DEF Uac!Next, Uac!Timer, Uac!OnMessage, Uac!Peer

LEMMA StepTerminated ==
  ASSUME ClientInv, Uac!Next, uacState = "TERMINATED"
  PROVE  uacState' = "TERMINATED"
BY DEF ClientInv, OneInvite, Inviting, Uac!Next, Uac!Timer, Uac!OnMessage,
       Uac!Peer, Uac!Invite, Uac!Hangup, Uac!SendProbe, Uac!Close,
       Uac!Retransmit, Uac!TxnTimeout, Uac!ProbeTimeout, Uac!OnProvisional,
       Uac!On2xxInvite, Uac!OnInviteFailure, Uac!OnByeResponse,
       Uac!OnProbeReply, Uac!HandlePeerBye, Uac!Unmatched, Uac!PeerInvite,
       Uac!PeerAnswers, Uac!PeerRefuses, Uac!PeerAck, Uac!PeerHangsUp,
       Uac!PeerGivesUp, Uac!PeerBye, Uac!PeerOk, Uac!PeerProbed, Uac!client,
       Uac!Matches

LEMMA StepClosed ==
  ASSUME ClientInv, Uac!Next, closed
  PROVE  UNCHANGED <<invite, bye, ended>> /\ Len(toPeer') <= Len(toPeer)
<1>1. inflight = Uac!Idle
  BY DEF ClientInv, ClosedIsOver
<1>2. toPeer \in Seq(Uac!ToPeerMsg) /\ Len(toPeer) \in Nat
  BY LenProperties DEF ClientInv, Uac!TypeOK
<1>3. toPeer # <<>> => Len(Tail(toPeer)) = Len(toPeer) - 1
  BY <1>2, HeadTailProperties
<1>4. ~Uac!Timer \/ Uac!ProbeTimeout
  BY <1>1 DEF Uac!Timer, Uac!Retransmit, Uac!CanResend, Uac!TxnTimeout
<1>5. CASE Uac!Invite \/ Uac!Hangup \/ Uac!SendProbe \/ Uac!Close
  BY <1>5 DEF Uac!Invite, Uac!Hangup, Uac!SendProbe, Uac!Close
<1>6. CASE Uac!ProbeTimeout
  BY <1>2, <1>6 DEF Uac!ProbeTimeout
<1>7. CASE Uac!OnMessage
  BY <1>2, <1>7
     DEF Uac!OnMessage, Uac!OnProvisional, Uac!On2xxInvite,
         Uac!OnInviteFailure, Uac!OnByeResponse, Uac!OnProbeReply,
         Uac!HandlePeerBye, Uac!Unmatched, Uac!Matches, Uac!caller
<1>8. CASE Uac!Peer
  <2> USE DEF Uac!Peer, Uac!PeerInvite, Uac!PeerAnswers, Uac!PeerRefuses,
              Uac!PeerAck, Uac!PeerHangsUp, Uac!PeerGivesUp, Uac!PeerBye,
              Uac!PeerOk, Uac!PeerProbed
  <2>1. UNCHANGED Uac!client
    BY <1>8
  <2>2. toPeer' = toPeer \/ (toPeer # <<>> /\ toPeer' = Tail(toPeer))
    BY <1>8 DEF Uac!Takes
  <2> QED
    BY <1>2, <1>3, <2>1, <2>2 DEF Uac!client, Uac!caller
<1> QED
  BY <1>4, <1>5, <1>6, <1>7, <1>8 DEF Uac!Next

LEMMA ClientInvAlways == Uac!Spec => []ClientInv
<1>1. Uac!Init => ClientInv
  BY InitClient
<1>2. ClientInv /\ [Uac!Next]_Uac!vars => ClientInv'
  BY StepClient, RestsClient DEF uacVars, Uac!vars
<1> QED
  BY <1>1, <1>2, PTL DEF Uac!Spec

(* A confirmed dialog is one the peer has answered, and its end is         *)
(* reported once at most: _handle2xxInvite() and _handlePeerBye() of       *)
(* SipUacInternal.js, however messages are lost, repeated and crossed.     *)
THEOREM ClientSafeAlways == Uac!Spec => []Uac!ClientSafe
<1>1. ClientInv => Uac!ClientSafe
  BY DEF ClientInv, OverOnce, Uac!ClientSafe
<1> QED
  BY <1>1, ClientInvAlways, PTL

(* A dialog that is over stays over: no 200 comes after its BYE.           *)
THEOREM ClientTerminatedStays == Uac!Spec => Uac!TerminatedStays
<1>1. ClientInv /\ [Uac!Next]_Uac!vars =>
        [uacState = "TERMINATED" => uacState' = "TERMINATED"]_Uac!vars
  BY StepTerminated
<1> QED
  BY <1>1, ClientInvAlways, PTL DEF Uac!Spec, Uac!TerminatedStays

(* After close() nothing is sent, reported or settled.                     *)
THEOREM ClientCloseIsQuiet == Uac!Spec => Uac!CloseIsQuiet
<1>1. ClientInv /\ [Uac!Next]_Uac!vars =>
        [closed => /\ UNCHANGED <<invite, bye, ended>>
                   /\ Len(toPeer') <= Len(toPeer)]_Uac!vars
  BY StepClosed
<1> QED
  BY <1>1, ClientInvAlways, PTL DEF Uac!Spec, Uac!CloseIsQuiet

-----------------------------------------------------------------------------
(* The backend and its client.                                             *)

LEMMA IInvIsSafe == ASSUME IInv PROVE BackendSafe
<1>1. TypeOK
  <2>1. Uac!TypeOK
    BY DEF IInv, ClientInv
  <2>2. Types /\ Flags /\ AnswerTypes
    BY DEF IInv, StagesInv, AnswerInv
  <2> QED
    BY <2>1, <2>2, Zenon DEF Types, Flags, AnswerTypes, TypeOK
<1>2. NothingLeft
  BY DEF IInv, StagesInv, Stages, StopStages, NothingLeft
<1>3. AtaOnceAfterInit /\ BridgeMeansCall
  BY DEF IInv, StagesInv, AnswerInv
<1> QED
  BY <1>1, <1>2, <1>3 DEF BackendSafe

(* The backend calls no method of its client the client's specification    *)
(* does not allow, and nothing else changes the client.                    *)
LEMMA ClientOrRest == ASSUME Next PROVE [Uac!Next]_uacVars
BY DEF Next, StartAsync, Accept, ChardevTimeout, Registered, RegisterTimeout,
       VmExits, Activate, Ring, RingFallback, AnswerStep, ClientStep,
       ClientResends, ClientTimesOut, ClientReads, PeerStep, Stop, StopStep,
       StopHungUp, StopTunnelDown, StopReturns, Uac!Next, Uac!Timer, Uac!Peer

LEMMA NextClient == ASSUME ClientInv, [Next]_vars PROVE ClientInv'
BY ClientOrRest, StepClient, RestsClient DEF vars

(* The INVITE's promise: pending until the client settles it, once.        *)
LEMMA InviteSettles ==
  ASSUME ClientInv, Uac!Retransmit \/ Uac!TxnTimeout \/ Uac!OnMessage,
         invite' # invite
  PROVE  invite = "pending" /\ invite' \in {"resolved", "rejected"}
BY DEF ClientInv, OneInvite, Inviting, Uac!Retransmit, Uac!TxnTimeout,
       Uac!OnMessage, Uac!OnProvisional, Uac!On2xxInvite,
       Uac!OnInviteFailure, Uac!OnByeResponse, Uac!OnProbeReply,
       Uac!HandlePeerBye, Uac!Unmatched, Uac!Matches, Uac!caller

LEMMA PeerLeavesInvite == ASSUME Uac!Peer PROVE UNCHANGED Uac!client
BY DEF Uac!Peer, Uac!PeerInvite, Uac!PeerAnswers, Uac!PeerRefuses,
       Uac!PeerAck, Uac!PeerHangsUp, Uac!PeerGivesUp, Uac!PeerBye,
       Uac!PeerOk, Uac!PeerProbed

-----------------------------------------------------------------------------
(* Flags.                                                                  *)
LEMMA StepFlags == ASSUME Flags, Next PROVE Flags'
<1> USE DEF Flags, startVars, callVars, ringVars
<1>1. CASE StartAsync
  BY <1>1 DEF StartAsync
<1>2. CASE \E c \in Chardev : Accept(c)
  BY <1>2 DEF Accept
<1>3. CASE ChardevTimeout \/ Registered \/ RegisterTimeout \/ VmExits
  BY <1>3 DEF ChardevTimeout, Registered, RegisterTimeout, VmExits
<1>4. CASE Activate
  BY <1>4 DEF Activate
<1>5. CASE Ring \/ RingFallback \/ AnswerStep
  BY <1>5 DEF Ring, RingFallback, AnswerStep, Answer
<1>6. CASE ClientStep
  BY <1>6 DEF ClientStep, ClientResends, ClientTimesOut, ClientReads,
              AroundClient, AfterInvite
<1>7. CASE PeerStep
  BY <1>7 DEF PeerStep
<1>8. CASE Stop
  BY <1>8 DEF Stop, StopFromTunnel, KillVm
<1>9. CASE StopStep
  BY <1>9 DEF StopStep, StopHungUp, StopTunnelDown, StopReturns,
              StopFromTunnel, KillVm
<1> QED
  BY <1>1, <1>2, <1>3, <1>4, <1>5, <1>6, <1>7, <1>8, <1>9 DEF Next

-----------------------------------------------------------------------------
(* Stages: start-up, call and end.                                         *)
LEMMA StartAsyncStages == ASSUME StagesInv, StartAsync PROVE StagesInv'
<1> USE DEF StagesInv, StartAsync, uacVars, callVars, startVars
<1>1. state = "IDLE" /\ stopAt = "no" /\ ~sockets
  BY DEF Stages, Resources
<1>2. Types' /\ Stages'
  BY <1>1 DEF Types, Stages, Promise
<1>3. Resources' /\ StopStages'
  BY <1>1 DEF Resources, StopStages
<1>4. FreshClient' /\ BridgeMeansCall'
  BY <1>1 DEF FreshClient, BridgeMeansCall
<1> QED
  BY <1>2, <1>3, <1>4

LEMMA AcceptStages ==
  ASSUME StagesInv, NEW c \in Chardev, Accept(c) PROVE StagesInv'
<1> USE DEF StagesInv, Accept, callVars, uacVars
<1>1. state = "TCP_WAIT" /\ ~sockets
  BY DEF Resources
<1>2. Types'
  BY DEF Types
<1>3. Stages'
  BY <1>1 DEF Stages
<1>4. Resources'
  BY <1>1 DEF Resources
<1>5. StopStages' /\ FreshClient' /\ BridgeMeansCall'
  BY <1>1 DEF StopStages, Stages, FreshClient, BridgeMeansCall
<1> QED
  BY <1>2, <1>3, <1>4, <1>5

LEMMA StartEndsStages ==
  ASSUME StagesInv, ChardevTimeout \/ RegisterTimeout PROVE StagesInv'
<1>1. /\ StartFails /\ startAt # "no"
      /\ UNCHANGED <<state, servers, accepted, control, listening, sockets,
                     callVars, stopAt, vm, uacVars>>
  BY DEF ChardevTimeout, RegisterTimeout
<1> USE <1>1 DEF StagesInv, StartFails, uacVars, callVars
<1>2. Types' /\ Stages'
  BY DEF Types, Stages, Promise
<1>3. Resources' /\ StopStages'
  BY DEF Resources, StopStages, Stages
<1>4. FreshClient' /\ BridgeMeansCall'
  BY DEF FreshClient, BridgeMeansCall
<1> QED
  BY <1>2, <1>3, <1>4

LEMMA RegisteredStages == ASSUME StagesInv, Registered PROVE StagesInv'
BY DEF StagesInv, Registered, Types, Stages, Resources, StopStages,
       FreshClient, BridgeMeansCall, Promise, uacVars, callVars

LEMMA VmExitsStages == ASSUME StagesInv, VmExits PROVE StagesInv'
BY DEF StagesInv, VmExits, Types, Stages, Resources, StopStages,
       FreshClient, BridgeMeansCall, Promise, uacVars, callVars

LEMMA ActivateStages == ASSUME StagesInv, Activate PROVE StagesInv'
BY DEF StagesInv, Activate, Types, Stages, Resources, StopStages,
       FreshClient, BridgeMeansCall, Promise, startVars

LEMMA AnswerStages ==
  ASSUME StagesInv, Ring \/ RingFallback \/ AnswerStep PROVE StagesInv'
<1>1. UNCHANGED <<state, startVars, callVars, stopAt, reported, vm, uacVars>>
  BY DEF Ring, RingFallback, AnswerStep
<1> QED
  BY <1>1 DEF StagesInv, Types, Stages, Resources, StopStages, FreshClient,
              BridgeMeansCall, uacVars, startVars, callVars

LEMMA PeerStages == ASSUME StagesInv, PeerStep PROVE StagesInv'
<1>1. UNCHANGED Uac!client
  BY PeerLeavesInvite DEF PeerStep, Uac!Peer
<1> QED
  BY <1>1
     DEF StagesInv, PeerStep, Types, Stages, Resources, StopStages,
         FreshClient, BridgeMeansCall, Uac!client, Uac!caller, startVars,
         callVars

LEMMA ClientStages == ASSUME ClientInv, StagesInv, ClientStep PROVE StagesInv'
<1> USE DEF StagesInv, AroundClient, startVars, callVars
<1>1. client = "live" /\ AroundClient
  BY DEF ClientStep, ClientResends, ClientTimesOut, ClientReads
<1>2. invite' # invite =>
        invite = "pending" /\ invite' \in {"resolved", "rejected"}
  BY InviteSettles DEF ClientStep, ClientResends, ClientTimesOut, ClientReads
<1>3. CASE invite' = invite
  BY <1>1, <1>3 DEF AfterInvite, Types, Stages, Resources, StopStages,
                    FreshClient, BridgeMeansCall
<1>4. CASE invite' # invite
  <2>1. state \in {"ACTIVATING", "CONFIRMED"} \/ state = "STOPPED"
    BY <1>1 DEF Stages
  <2>2. state # "STOPPED"
    BY <1>1, <1>2, <1>4 DEF Stages, StopStages, Types
  <2> QED
    BY <1>1, <1>2, <1>4, <2>1, <2>2
       DEF AfterInvite, Types, Stages, Resources, StopStages,
           FreshClient, BridgeMeansCall, Promise
<1> QED
  BY <1>3, <1>4

LEMMA StopsStages == ASSUME ClientInv, StagesInv, Stop PROVE StagesInv'
<1> USE DEF StagesInv, Stop
<1>1. stopAt = "no" /\ stopAt' # "no" /\ state' = "STOPPED"
  BY DEF Stages, StopFromTunnel
<1>2. CASE client = "live" /\ uacState = "CONFIRMED"
  <2>1. sockets /\ servers = {} /\ invite = "resolved" /\ invite' = invite
    BY <1>2 DEF Stages, Resources, ClientInv, OneInvite, Uac!Hangup
  <2> QED
    BY <1>1, <1>2, <2>1 DEF Types, Stages, Resources, StopStages, FreshClient,
                            BridgeMeansCall
<1>3. CASE ~(client = "live" /\ uacState = "CONFIRMED")
  <2>1. invite' = invite /\ client' # "live"
    BY <1>3 DEF Uac!Close, Uac!caller, uacVars
  <2>2. /\ client' \in {"none", "closed"} /\ (client' = "none" <=> client = "none")
        /\ servers' = {}
        /\ servers' \subseteq Chardev /\ accepted' \subseteq Chardev
    BY <1>3 DEF Types, Resources, KillVm
  <2>3. IF sockets
        THEN stopAt' = "tunnel"
        ELSE stopAt' = "kill" /\ vm' # "running" /\ accepted' = {} /\ ~control'
    BY <1>3 DEF StopFromTunnel, KillVm
  <2>4. vm' \in {vm, "killed"} /\ (vm' = "killed" => vm = "running" \/ vm = "killed")
    BY <1>3 DEF KillVm
  <2>5. ~sockets'
    BY <1>3 DEF StopFromTunnel
  <2> QED
    BY <1>1, <2>1, <2>2, <2>3, <2>4, <2>5
       DEF Types, Stages, Resources, StopStages, FreshClient, BridgeMeansCall
<1> QED
  BY <1>2, <1>3

LEMMA StopHungUpStages == ASSUME StagesInv, StopHungUp PROVE StagesInv'
BY DEF StagesInv, StopHungUp, StopFromTunnel, Types, Stages, Resources,
       StopStages, FreshClient, BridgeMeansCall, Uac!Close, Uac!caller

LEMMA StopTunnelDownStages ==
  ASSUME StagesInv, StopTunnelDown PROVE StagesInv'
BY DEF StagesInv, StopTunnelDown, KillVm, Types, Stages, Resources,
       StopStages, FreshClient, BridgeMeansCall, uacVars, callVars

LEMMA StopReturnsStages == ASSUME StagesInv, StopReturns PROVE StagesInv'
BY DEF StagesInv, StopReturns, Types, Stages, Resources, StopStages,
       FreshClient, BridgeMeansCall, uacVars, callVars

LEMMA StepStages == ASSUME ClientInv, StagesInv, Next PROVE StagesInv'
BY StartAsyncStages, AcceptStages, StartEndsStages, RegisteredStages,
   VmExitsStages, ActivateStages, AnswerStages, PeerStages, ClientStages,
   StopsStages, StopHungUpStages, StopTunnelDownStages, StopReturnsStages
   DEF Next, StopStep

-----------------------------------------------------------------------------
(* The answer sequence.                                                    *)

LEMMA LogGrows ==
  ASSUME NEW log \in Seq({"init", "ATA"}), NEW cmd \in {"init", "ATA"},
         NEW n \in Nat,
         Len(log) <= n, cmd = "ATA" <=> Len(log) = n,
         \A i \in DOMAIN log : log[i] = "ATA" <=> i = n + 1
  PROVE  LET next == Append(log, cmd) IN
           /\ next \in Seq({"init", "ATA"}) /\ Len(next) = Len(log) + 1
           /\ Len(next) <= n + 1
           /\ \A i \in DOMAIN next : next[i] = "ATA" <=> i = n + 1
<1> DEFINE next == Append(log, cmd)
<1>1. /\ next \in Seq({"init", "ATA"}) /\ Len(next) = Len(log) + 1
      /\ \A i \in 1 .. Len(log) : next[i] = log[i]
      /\ next[Len(log) + 1] = cmd
  BY AppendProperties
<1>2. DOMAIN log = 1 .. Len(log) /\ DOMAIN next = 1 .. Len(log) + 1
  BY <1>1, LenProperties
<1>3. Len(log) \in Nat
  BY LenProperties
<1>4. ASSUME NEW i \in DOMAIN next PROVE next[i] = "ATA" <=> i = n + 1
  <2>1. CASE i = Len(log) + 1
    BY <1>1, <1>3, <2>1, SMTT(30)
  <2>2. CASE i # Len(log) + 1
    <3>1. i \in 1 .. Len(log)
      <4>1. i \in 1 .. Len(log) + 1
        BY <1>2, <1>4
      <4> QED
        BY <4>1, <1>3, <2>2, SMTT(30)
    <3> QED
      BY <1>1, <1>2, <3>1
  <2> QED
    BY <2>1, <2>2
<1> QED
  BY <1>1, <1>3, <1>4

(* One step of the sequence, from the place it is at: left commands are    *)
(* to come before ATA.                                                     *)
LEMMA AnswerGoesOn ==
  ASSUME AnswerTypes, AtaOnceAfterInit,
         NEW left \in 0 .. InitCommands, Answer(left),
         control => Len(atLog) = InitCommands - left
  PROVE  /\ AnswerTypes' /\ AtaOnceAfterInit'
         /\ control /\ answering' # Quiet => Len(atLog') = InitCommands - answering'
<1> USE InitAssumption
<1>1. answering' \in 0 .. Quiet /\ (left > 0 => answering' = left - 1)
      /\ (left = 0 => answering' = Quiet)
  BY DEF Answer, Quiet
<1>2. CASE ~control
  BY <1>1, <1>2 DEF Answer, SendAt, AnswerTypes, AtaOnceAfterInit, Quiet
<1>3. CASE control
  <2> DEFINE cmd == IF left > 0 THEN "init" ELSE "ATA"
  <2>1. /\ atLog' = Append(atLog, cmd)
        /\ modem' \in {"onhook", "answered", "stuck"}
    BY <1>3 DEF Answer, SendAt, AnswerTypes
  <2>2. /\ atLog \in Seq({"init", "ATA"}) /\ cmd \in {"init", "ATA"}
        /\ Len(atLog) <= InitCommands /\ (cmd = "ATA" <=> Len(atLog) = InitCommands)
    BY <1>3 DEF AnswerTypes
  <2>3. \A i \in DOMAIN atLog : atLog[i] = "ATA" <=> i = InitCommands + 1
    BY DEF AtaOnceAfterInit
  <2> HIDE DEF cmd
  <2>4. /\ atLog' \in Seq({"init", "ATA"}) /\ Len(atLog') = Len(atLog) + 1
        /\ Len(atLog') <= InitCommands + 1
        /\ \A i \in DOMAIN atLog' : atLog'[i] = "ATA" <=> i = InitCommands + 1
    BY <2>1, <2>2, <2>3, LogGrows
  <2>5. AnswerTypes' /\ AtaOnceAfterInit'
    BY <1>1, <2>1, <2>4 DEF AnswerTypes, AtaOnceAfterInit, Quiet
  <2>6. answering' # Quiet => Len(atLog') = InitCommands - answering'
    BY <1>1, <1>3, <2>4
  <2> QED
    BY <2>5, <2>6
<1> QED
  BY <1>2, <1>3

LEMMA BeginsWithNothing ==
  atLog = <<>> => Len(atLog) = InitCommands - InitCommands
BY InitAssumption

LEMMA RingAnswers == ASSUME AnswerInv, Ring PROVE AnswerInv'
<1> USE InitAssumption DEF AnswerInv, Ring, RingAwaited, startVars, callVars
<1>1. atLog = <<>> /\ client # "none"
  BY DEF AnswersOnce
<1>2. /\ AnswerTypes' /\ AtaOnceAfterInit'
      /\ control /\ answering' # Quiet => Len(atLog') = InitCommands - answering'
  BY <1>1, AnswerGoesOn, BeginsWithNothing
<1> QED
  BY <1>1, <1>2 DEF AnswersOnce

LEMMA RingFallbackAnswers == ASSUME AnswerInv, RingFallback PROVE AnswerInv'
<1> USE InitAssumption DEF AnswerInv, RingFallback, startVars, callVars
<1>1. client # "none"
  BY DEF AnswersOnce
<1>2. CASE ringSeen
  BY <1>1, <1>2 DEF AnswersOnce, AnswerTypes, AtaOnceAfterInit, Quiet
<1>3. CASE ~ringSeen
  <2>1. atLog = <<>>
    BY <1>3 DEF AnswersOnce
  <2>2. /\ AnswerTypes' /\ AtaOnceAfterInit'
        /\ control /\ answering' # Quiet
             => Len(atLog') = InitCommands - answering'
    BY <1>3, <2>1, AnswerGoesOn, BeginsWithNothing
  <2> QED
    BY <1>1, <1>3, <2>2 DEF AnswersOnce
<1> QED
  BY <1>2, <1>3

LEMMA AnswerStepAnswers == ASSUME AnswerInv, AnswerStep PROVE AnswerInv'
<1> USE InitAssumption DEF AnswerInv, AnswerStep, startVars, callVars
<1>1. /\ client # "none" /\ ~ringWatch /\ (fallback => ringSeen)
      /\ control => Len(atLog) = InitCommands - answering
  BY DEF AnswersOnce
<1>2. answering \in 0 .. InitCommands
  BY DEF AnswerTypes, Quiet
<1>3. PICK left \in 0 .. InitCommands : left = answering /\ Answer(left)
  BY <1>2 DEF Answer
<1>4. /\ AnswerTypes' /\ AtaOnceAfterInit'
      /\ control /\ answering' # Quiet => Len(atLog') = InitCommands - answering'
  BY <1>1, <1>3, AnswerGoesOn
<1> QED
  BY <1>1, <1>4 DEF AnswersOnce

(* The other steps do not send anything.  The control channel comes before *)
(* the call; activate() is called once.                                    *)
LEMMA OthersAnswer ==
  ASSUME AnswerInv, StagesInv, Next, ~Ring, ~RingFallback, ~AnswerStep
  PROVE  AnswerInv'
<1> USE DEF AnswerInv, startVars, callVars, ringVars
<1>1. UNCHANGED <<answering, modem, atLog, ringSeen>>
  BY DEF Next, StartAsync, Accept, ChardevTimeout, Registered,
         RegisterTimeout, VmExits, Activate, ClientStep, ClientResends,
         ClientTimesOut, ClientReads, AroundClient, PeerStep, Stop, StopStep,
         StopHungUp, StopTunnelDown, StopReturns
<1>2. AnswerTypes' /\ AtaOnceAfterInit'
  BY <1>1 DEF AnswerTypes, AtaOnceAfterInit, Quiet
<1>3. control' => control \/ client = "none"
  BY DEF StagesInv, Stages, Resources, Next, StartAsync, Accept,
         ChardevTimeout, Registered,
         RegisterTimeout, VmExits, Activate, ClientStep, ClientResends,
         ClientTimesOut, ClientReads, AroundClient, PeerStep, Stop, StopStep,
         StopHungUp, StopTunnelDown, StopReturns, KillVm
<1>4. client' = "none" => client = "none"
  BY DEF Next, StartAsync, Accept, ChardevTimeout, Registered,
         RegisterTimeout, VmExits, Activate, ClientStep, ClientResends,
         ClientTimesOut, ClientReads, AroundClient, AfterInvite, PeerStep,
         Stop, StopStep, StopHungUp, StopTunnelDown, StopReturns
<1>5. CASE Activate
  BY <1>1, <1>2, <1>3, <1>5 DEF Activate, AnswersOnce, Quiet
<1>6. CASE ~Activate
  <2>1. (ringWatch' => ringWatch) /\ (fallback' => fallback)
    BY <1>6 DEF Next, StartAsync, Accept, ChardevTimeout, Registered,
         RegisterTimeout, VmExits, ClientStep, ClientResends,
         ClientTimesOut, ClientReads, AroundClient, AfterInvite, PeerStep,
         Stop, StopStep, StopHungUp, StopTunnelDown, StopReturns
  <2> QED
    BY <1>1, <1>2, <1>3, <1>4, <2>1 DEF AnswersOnce, Quiet
<1> QED
  BY <1>5, <1>6

LEMMA StepAnswers == ASSUME AnswerInv, StagesInv, Next PROVE AnswerInv'
BY RingAnswers, RingFallbackAnswers, AnswerStepAnswers, OthersAnswer

-----------------------------------------------------------------------------
LEMMA InitIInv == ASSUME Init PROVE IInv
<1>1. Uac!Init /\ ClientInv
  BY InitClient DEF Init
<1>2. Flags
  BY DEF Init, Flags
<1>3. StagesInv
  BY DEF Init, Uac!Init, StagesInv, Types, Stages, Resources, StopStages,
         FreshClient, BridgeMeansCall, Promise
<1>4. AnswerInv
  <2>1. <<>> \in Seq({"init", "ATA"}) /\ Len(<<>>) = 0 /\ DOMAIN <<>> = {}
    BY EmptySeq
  <2> QED
    BY <2>1, InitAssumption
       DEF Init, AnswerInv, AnswerTypes, AnswersOnce, AtaOnceAfterInit, Quiet
<1> QED
  BY <1>1, <1>2, <1>3, <1>4 DEF IInv

LEMMA RestIInv == ASSUME IInv, UNCHANGED vars PROVE IInv'
<1> USE DEF vars, startVars, callVars, ringVars
<1>1. ClientInv'
  BY RestsClient DEF IInv
<1>2. Flags'
  BY DEF IInv, Flags
<1>3. StagesInv'
  BY DEF IInv, StagesInv, Types, Stages, Resources, StopStages, FreshClient,
         BridgeMeansCall, uacVars
<1>4. AnswerInv'
  BY DEF IInv, AnswerInv, AnswerTypes, AnswersOnce, AtaOnceAfterInit, Quiet
<1> QED
  BY <1>1, <1>2, <1>3, <1>4 DEF IInv

LEMMA StepIInv == ASSUME IInv, [Next]_vars PROVE IInv'
<1>1. ClientInv'
  BY NextClient DEF IInv
<1>2. CASE Next
  BY <1>1, <1>2, StepFlags, StepStages, StepAnswers DEF IInv
<1>3. CASE UNCHANGED vars
  BY <1>3, RestIInv
<1> QED
  BY <1>2, <1>3

LEMMA IInvAlways == Spec => []IInv
BY InitIInv, StepIInv, PTL DEF Spec

(* When stop() has returned, nothing of the VM is left; a call gets one    *)
(* ATA, after all of atInit; media flow only in a confirmed call: whatever *)
(* start-up, call and stop() of PjsipBackend.js do between each other's    *)
(* awaits.                                                                 *)
THEOREM BackendSafeAlways == Spec => []BackendSafe
BY IInvAlways, IInvIsSafe, PTL

(* The backend uses its client as SipUacInternal.js expects to be used:    *)
(* every behaviour of the backend is, for its client, a behaviour of the   *)
(* client's specification.                                                 *)
THEOREM BackendRunsClient == Spec => Uac!Spec
<1>1. Init => Uac!Init
  BY DEF Init
<1>2. [Next]_vars => [Uac!Next]_Uac!vars
  BY ClientOrRest DEF vars, uacVars, Uac!vars
<1> QED
  BY <1>1, <1>2, PTL DEF Spec, Uac!Spec

(* So what was proved of the client holds in the backend: a dialog that is *)
(* over stays over, and a closed client is quiet.                          *)
THEOREM BackendClientKeepsRules ==
  Spec => Uac!TerminatedStays /\ Uac!CloseIsQuiet
BY BackendRunsClient, ClientTerminatedStays, ClientCloseIsQuiet, PTL

-----------------------------------------------------------------------------
(* The life the pool counts on.                                            *)

LEMMA LifeBegins == ASSUME Init PROVE VmLife!Init
BY DEF Init, VmLife!Init, Life

LEMMA LifeRests ==
  ASSUME UNCHANGED <<stopAt, state, startP, vm>> PROVE Life' = Life
BY DEF Life

LEMMA LifeStep == ASSUME IInv, Next PROVE [VmLife!Next]_Life
<1> USE DEF IInv, StagesInv, VmLife!Next
<1>1. CASE StartAsync
  <2>1. /\ stopAt = "no" /\ state = "IDLE" /\ startP = "none"
        /\ stopAt' = "no" /\ state' = "TCP_WAIT" /\ startP' = "pending"
        /\ vm' = "running"
    BY <1>1 DEF StartAsync, Stages
  <2>2. Life = "dead" /\ Life' = "booting"
    BY <2>1 DEF Life
  <2> QED
    BY <2>2 DEF VmLife!Start
<1>2. ASSUME NEW c \in Chardev, Accept(c) PROVE Life' = Life
  BY <1>2 DEF Accept, Life, Stages, Resources
<1>3. CASE ChardevTimeout \/ RegisterTimeout
  <2>1. startP = "pending" /\ startP' = "rejected" /\ UNCHANGED <<state, stopAt, vm>>
    BY <1>3 DEF ChardevTimeout, RegisterTimeout, StartFails, Stages
  <2>2. Life' = Life \/ (Life \in {"booting", "live"} /\ Life' = "lost")
    BY <2>1 DEF Life
  <2> QED
    BY <2>2 DEF VmLife!Lose
<1>4. CASE Registered
  <2>1. Life = "booting" /\ Life' = "live"
    BY <1>4 DEF Registered, Life, Stages, StopStages
  <2> QED
    BY <2>1 DEF VmLife!Ready
<1>5. CASE VmExits
  <2>1. /\ stopAt = "no" /\ state # "STOPPED" /\ startP # "none"
        /\ stopAt' = "no" /\ state' # "STOPPED" /\ startP' # "none"
        /\ vm' = "exited"
    BY <1>5 DEF VmExits, Stages, Resources
  <2>2. Life \in {"booting", "live", "lost"} /\ Life' = "lost"
    BY <2>1 DEF Life
  <2> QED
    BY <2>2 DEF VmLife!Lose
<1>6. CASE Activate
  BY <1>6 DEF Activate, Life, Stages, startVars
<1>7. CASE Ring \/ RingFallback \/ AnswerStep \/ PeerStep
  BY <1>7, LifeRests DEF Ring, RingFallback, AnswerStep, PeerStep, startVars
<1>8. CASE ClientStep
  <2>1. UNCHANGED <<startP, stopAt, vm>>
    BY <1>8 DEF ClientStep, ClientResends, ClientTimesOut, ClientReads,
                AroundClient, startVars
  <2>2. state = "STOPPED" <=> state' = "STOPPED"
    BY <1>8, <2>1, StepStages DEF Stages
  <2> QED
    BY <2>1, <2>2 DEF Life
<1>9. CASE Stop
  <2>1. Life \in {"booting", "live", "lost"}
    BY <1>9 DEF Stop, Life, Stages, Types
  <2>2. state' = "STOPPED" /\ stopAt' # "done"
    BY <1>9 DEF Stop, StopFromTunnel
  <2>3. Life' = "stopping"
    BY <2>2 DEF Life
  <2> QED
    BY <2>1, <2>3 DEF VmLife!Stop
<1>10. CASE StopHungUp \/ StopTunnelDown
  <2>1. state = "STOPPED" /\ state' = "STOPPED"
    BY <1>10 DEF StopHungUp, StopTunnelDown, Stages
  <2>2. stopAt # "done" /\ stopAt' # "done"
    BY <1>10 DEF StopHungUp, StopTunnelDown, StopFromTunnel
  <2> QED
    BY <2>1, <2>2 DEF Life
<1>11. CASE StopReturns
  <2>1. stopAt = "kill" /\ state = "STOPPED" /\ stopAt' = "done"
    BY <1>11 DEF StopReturns, Stages
  <2>2. Life = "stopping" /\ Life' = "gone"
    BY <2>1 DEF Life
  <2> QED
    BY <2>2 DEF VmLife!Stopped
<1> QED
  BY <1>1, <1>2, <1>3, <1>4, <1>5, <1>6, <1>7, <1>8, <1>9, <1>10, <1>11
     DEF Next, StopStep

(* A backend leads the life ModemBackendPool counts on, step by step:      *)
(* started once, ready or lost, stopped, gone.  (That every stop() comes   *)
(* to its end is liveness, StopEnds.)                                      *)
THEOREM BackendLeadsLife == Spec => LeadsLife
<1>1. Init => VmLife!Init
  BY LifeBegins
<1>2. IInv /\ [Next]_vars => [VmLife!Next]_Life
  BY LifeStep, LifeRests DEF vars, startVars
<1> QED
  BY <1>1, <1>2, IInvAlways, PTL DEF Spec, LeadsLife, VmLife!Order

-----------------------------------------------------------------------------
(* The registration.                                                       *)

(* The tunnel is a queue, and a transaction ends before the next begins:   *)
(* the copies of a REGISTER come to the host after those of earlier ones.  *)
InOrder ==
  /\ \A i \in 1 .. Len(toHost) :
       /\ toHost[i].id <= pjsip.id
       /\ toHost[i].id = pjsip.id => toHost[i].contact = pjsip.contact
  /\ \A i, j \in 1 .. Len(toHost) :
       i <= j => toHost[i].id <= toHost[j].id
  /\ \A i \in 1 .. Len(toClient) : toClient[i].id <= pjsip.id
  /\ \A i \in 1 .. Len(toPjsip) : toPjsip[i].id <= pjsip.id

(* A copy of PJSIP's current REGISTER has been answered, or will be by the *)
(* client.                                                                 *)
Reached ==
  \/ pjsip.state \in {"bound", "refused"}
  \/ \E i \in 1 .. Len(toClient) : toClient[i].id = pjsip.id
  \/ \E i \in 1 .. Len(toPjsip) : toPjsip[i].id = pjsip.id

OnlyCopiesFollow ==
  Reached => \A i \in 1 .. Len(toHost) : toHost[i].id = pjsip.id

Granted(i) == toPjsip[i].id = pjsip.id /\ toPjsip[i].code = 200

(* The registrar's 200 is ahead of the client's 405, on the way to PJSIP   *)
(* and before the client has spoken.                                       *)
GrantedFirst ==
  pjsip.state = "asking" /\ pjsip.contact # NoContact /\ Registrar!started =>
    /\ \A i \in 1 .. Len(toPjsip) :
         toPjsip[i].id = pjsip.id => \E j \in 1 .. i : Granted(j)
    /\ (\E i \in 1 .. Len(toClient) : toClient[i].id = pjsip.id) =>
         \E j \in 1 .. Len(toPjsip) : Granted(j)

(* A 200 on its way speaks of the binding the registrar has.               *)
GrantIsBinding ==
  \A i \in 1 .. Len(toPjsip) :
    Granted(i) => /\ pjsip.contact # NoContact
                  /\ Registrar!started => binding = pjsip.contact

(* Before start() nothing has been answered, and the client speaks only    *)
(* after a registration.                                                   *)
Quiescent ==
  /\ life = "new" => /\ binding = Registrar!Unbound /\ wait # "resolved"
                     /\ toPjsip = <<>> /\ pjsip.state \in {"idle", "asking"}
  /\ clientKnown => wait = "resolved"
  /\ ~clientKnown => toClient = <<>>

(* PJSIP's transaction has a number and a contact of its own.              *)
AskedFor ==
  pjsip.state # "idle" =>
    pjsip.id \in 1 .. MaxRegisters /\ pjsip.contact \in Contacts \cup {NoContact}

FirstIsOnce ==
  /\ registered <= 1
  /\ Registrar!started /\ binding = Registrar!Unbound => registered = 0
  /\ life = "new" => registered = 0

RegistrarInv ==
  /\ Registrar!TypeOK
  /\ InOrder
  /\ OnlyCopiesFollow
  /\ GrantedFirst
  /\ GrantIsBinding
  /\ Quiescent
  /\ AskedFor
  /\ FirstIsOnce
  /\ Registrar!NoMissedRegistration
  /\ Registrar!OkComesFirst
  /\ Registrar!BindingAgrees

(* What stays behind the head of a queue, and what comes after its end.    *)
LEMMA QueueTail ==
  ASSUME NEW S, NEW q \in Seq(S), q # <<>>
  PROVE  /\ Head(q) \in S /\ Head(q) = q[1] /\ Len(q) \in Nat /\ Len(q) >= 1
         /\ Tail(q) \in Seq(S) /\ Len(Tail(q)) = Len(q) - 1
         /\ \A i \in 1 .. Len(Tail(q)) :
              i + 1 \in 2 .. Len(q) /\ Tail(q)[i] = q[i + 1]
  BY HeadTailProperties, SMT

LEMMA QueueAppend ==
  ASSUME NEW S, NEW q \in Seq(S), NEW x \in S
  PROVE  /\ Append(q, x) \in Seq(S) /\ Len(Append(q, x)) = Len(q) + 1
         /\ Append(q, x)[Len(q) + 1] = x /\ Len(q) \in Nat
         /\ \A i \in 1 .. Len(q) : Append(q, x)[i] = q[i]
  BY AppendProperties

LEMMA InitRegistrar == Registrar!Init /\ Registrar!ConstantsOK => RegistrarInv
<1> SUFFICES ASSUME Registrar!Init, Registrar!ConstantsOK
             PROVE  RegistrarInv
  OBVIOUS
<1>1. /\ toHost = <<>> /\ toClient = <<>> /\ toPjsip = <<>>
      /\ pjsip.state = "idle"
  BY DEF Registrar!Init
<1>2. Registrar!TypeOK
  <2>1. pjsip \in [id : 0 .. MaxRegisters,
                   contact : Contacts \cup {NoContact, Registrar!Unbound},
                   state : {"idle", "asking", "bound", "refused"}]
    BY DEF Registrar!Init, Registrar!ConstantsOK
  <2> QED
    BY <2>1, EmptySeq DEF Registrar!Init, Registrar!TypeOK
<1>3. InOrder /\ OnlyCopiesFollow /\ GrantedFirst /\ GrantIsBinding
  BY <1>1 DEF InOrder, OnlyCopiesFollow, GrantedFirst, GrantIsBinding
<1>4. Quiescent /\ AskedFor /\ FirstIsOnce
  BY DEF Registrar!Init, Quiescent, AskedFor, FirstIsOnce, Registrar!started
<1>5. /\ Registrar!NoMissedRegistration /\ Registrar!OkComesFirst
      /\ Registrar!BindingAgrees
  BY <1>1 DEF Registrar!Init, Registrar!NoMissedRegistration,
     Registrar!OkComesFirst, Registrar!BindingAgrees
<1> QED
  BY <1>2, <1>3, <1>4, <1>5 DEF RegistrarInv

(* The backend's calls leave the channel alone.                            *)
LEMMA CallsKeep ==
  ASSUME Registrar!ConstantsOK, RegistrarInv,
         \/ Registrar!Start \/ Registrar!Stop \/ Registrar!Wait
         \/ Registrar!WaitTimeout \/ Registrar!ClientSends
  PROVE  RegistrarInv'
<1>1. UNCHANGED <<toHost, toClient, toPjsip, pjsip>>
  BY DEF Registrar!Start, Registrar!Stop, Registrar!Wait,
     Registrar!WaitTimeout, Registrar!ClientSends
<1>2. Registrar!TypeOK'
  BY DEF RegistrarInv, Registrar!TypeOK, Registrar!Start, Registrar!Stop,
     Registrar!Wait, Registrar!WaitTimeout, Registrar!ClientSends,
     Registrar!hostVars
<1>3. InOrder' /\ OnlyCopiesFollow'
  BY <1>1 DEF RegistrarInv, InOrder, OnlyCopiesFollow, Reached
<1>4. /\ life' = "started" => life \in {"new", "started"}
      /\ life' = "started" => binding' = binding
      /\ life' = "new" => life = "new" /\ binding' = binding
  BY DEF Registrar!Start, Registrar!Stop, Registrar!Wait,
     Registrar!WaitTimeout, Registrar!ClientSends, Registrar!hostVars,
     Registrar!started
<1>5. life = "new" => toClient = <<>> /\ toPjsip = <<>>
  BY DEF RegistrarInv, Quiescent
<1>6. GrantedFirst'
  BY <1>1, <1>4, <1>5
  DEF RegistrarInv, GrantedFirst, Granted, Registrar!started
<1>7. GrantIsBinding'
  BY <1>1, <1>4, <1>5
  DEF RegistrarInv, GrantIsBinding, Granted, Registrar!started
<1>8. Quiescent' /\ FirstIsOnce' /\ Registrar!NoMissedRegistration'
  BY DEF RegistrarInv, Registrar!TypeOK, Quiescent, FirstIsOnce,
     Registrar!NoMissedRegistration, Registrar!Start, Registrar!Stop,
     Registrar!Wait, Registrar!WaitTimeout, Registrar!ClientSends,
     Registrar!hostVars, Registrar!started, Registrar!Unbound,
     Registrar!ConstantsOK
<1>9. AskedFor' /\ Registrar!OkComesFirst' /\ Registrar!BindingAgrees'
  BY <1>1, <1>4 DEF RegistrarInv, Quiescent, AskedFor, Registrar!started,
     Registrar!OkComesFirst, Registrar!BindingAgrees
<1> QED
  BY <1>2, <1>3, <1>6, <1>7, <1>8, <1>9 DEF RegistrarInv

(* A REGISTER from the tunnel: the answer is put on its way before the     *)
(* client gets its copy.                                                   *)
LEMMA FrameKeeps ==
  ASSUME Registrar!ConstantsOK, RegistrarInv, Registrar!OnSipFrame
  PROVE  RegistrarInv'
<1> DEFINE m == toHost[1]
           answer == [id |-> m.id, code |-> IF m.contact # NoContact
                                            THEN 200 ELSE 400]
<1>1. /\ toHost \in Seq(Registrar!Register)
      /\ toClient \in Seq(Registrar!Register)
      /\ toPjsip \in Seq(Registrar!Answer) /\ toHost # <<>>
  BY DEF RegistrarInv, Registrar!TypeOK, Registrar!OnSipFrame
<1>2. /\ m \in Registrar!Register /\ Head(toHost) = m
      /\ toHost' \in Seq(Registrar!Register)
      /\ Len(toHost) \in Nat /\ Len(toHost) >= 1
      /\ Len(toHost') = Len(toHost) - 1
      /\ \A i \in 1 .. Len(toHost') :
           i + 1 \in 2 .. Len(toHost) /\ toHost'[i] = toHost[i + 1]
  BY <1>1, QueueTail DEF Registrar!OnSipFrame
<1>3. /\ m.id \in 1 .. MaxRegisters /\ m.contact \in Contacts \cup {NoContact}
      /\ answer \in Registrar!Answer
  BY <1>2 DEF Registrar!Register, Registrar!Answer
<1>4. CASE Registrar!started
  <2>1. /\ toPjsip' = Append(toPjsip, answer)
        /\ toClient' = IF clientKnown THEN Append(toClient, m) ELSE toClient
        /\ UNCHANGED <<clientKnown, pjsip>>
    BY <1>1, <1>2, <1>3, <1>4
    DEF Registrar!OnSipFrame, Registrar!RegistrarAnswers, Registrar!Usable
  <2>2. /\ toPjsip' \in Seq(Registrar!Answer)
        /\ Len(toPjsip) \in Nat /\ Len(toPjsip') = Len(toPjsip) + 1
        /\ toPjsip'[Len(toPjsip) + 1] = answer
        /\ \A i \in 1 .. Len(toPjsip) : toPjsip'[i] = toPjsip[i]
    BY <1>1, <1>3, <2>1, QueueAppend
  <2>3. /\ toClient' \in Seq(Registrar!Register)
        /\ Len(toClient) \in Nat
        /\ Len(toClient') \in {Len(toClient), Len(toClient) + 1}
        /\ \A i \in 1 .. Len(toClient) : toClient'[i] = toClient[i]
        /\ Len(toClient') > Len(toClient) => toClient'[Len(toClient) + 1] = m
    <3>1. CASE clientKnown
      BY <1>1, <1>2, <2>1, <3>1, QueueAppend
    <3>2. CASE ~clientKnown
      BY <1>1, <2>1, <3>2
    <3> QED
      BY <3>1, <3>2
  <2>4. /\ life' = "started"
        /\ m.contact # NoContact =>
             /\ binding' = m.contact
             /\ registered' = IF binding = Registrar!Unbound
                              THEN registered + 1 ELSE registered
             /\ IF binding = Registrar!Unbound /\ wait = "pending"
                THEN wait' = "resolved" /\ waited' = m.contact
                ELSE UNCHANGED <<wait, waited>>
        /\ m.contact = NoContact =>
             UNCHANGED <<binding, registered, wait, waited>>
    BY <1>2, <1>4
    DEF Registrar!OnSipFrame, Registrar!HandleRegister, Registrar!Usable,
        Registrar!Bind, Registrar!Emit, Registrar!IsFirst, Registrar!started,
        Registrar!hostVars
  <2>5. /\ m.id <= pjsip.id /\ pjsip.id \in Nat
        /\ m.id = pjsip.id => m.contact = pjsip.contact
        /\ \A i \in 1 .. Len(toHost) :
             /\ toHost[i].id \in Nat
             /\ m.id <= toHost[i].id /\ toHost[i].id <= pjsip.id
    <3>1. /\ 1 \in 1 .. Len(toHost) /\ pjsip.id \in Nat
          /\ \A i \in 1 .. Len(toHost) : 1 <= i
      BY <1>2 DEF RegistrarInv, Registrar!TypeOK, Registrar!ConstantsOK
    <3>2. \A i \in 1 .. Len(toHost) : toHost[i] \in Registrar!Register
      BY <1>1, ElementOfSeq
    <3>3. \A i \in 1 .. Len(toHost) : toHost[i].id \in Nat
      BY <3>2 DEF Registrar!Register, Registrar!ConstantsOK
    <3> QED
      BY <3>1, <3>3 DEF RegistrarInv, InOrder
  <2>6. Registrar!TypeOK'
    BY <1>2, <1>3, <2>1, <2>2, <2>3, <2>4
    DEF RegistrarInv, Registrar!TypeOK
  <2>7. InOrder'
    <3>1. \A i \in 1 .. Len(toHost') :
            /\ toHost'[i].id <= pjsip.id
            /\ toHost'[i].id = pjsip.id => toHost'[i].contact = pjsip.contact
      <4>1. \A i \in 1 .. Len(toHost') : i + 1 \in 1 .. Len(toHost)
        BY <1>2
      <4> QED
        BY <1>2, <4>1 DEF RegistrarInv, InOrder
    <3>2. \A i, j \in 1 .. Len(toHost') :
            i <= j => toHost'[i].id <= toHost'[j].id
      BY <1>2, SMTT(30) DEF RegistrarInv, InOrder
    <3>3. \A i \in 1 .. Len(toClient') : toClient'[i].id <= pjsip.id
      BY <2>3, <2>5 DEF RegistrarInv, InOrder
    <3>4. \A i \in 1 .. Len(toPjsip') : toPjsip'[i].id <= pjsip.id
      BY <2>2, <2>5 DEF RegistrarInv, InOrder
    <3> QED
      BY <2>1, <3>1, <3>2, <3>3, <3>4 DEF InOrder
  <2>8. Reached' => m.id = pjsip.id \/ Reached
    BY <2>1, <2>2, <2>3 DEF Reached
  <2>9. OnlyCopiesFollow'
    <3> SUFFICES ASSUME m.id = pjsip.id \/ Reached, NEW i \in 1 .. Len(toHost')
                 PROVE  toHost'[i].id = pjsip.id
      BY <2>1, <2>8 DEF OnlyCopiesFollow
    <3>1. i + 1 \in 1 .. Len(toHost) /\ toHost'[i] = toHost[i + 1]
      BY <1>2
    <3>2. CASE Reached
      BY <3>1, <3>2 DEF RegistrarInv, OnlyCopiesFollow
    <3>3. CASE m.id = pjsip.id
      BY <2>5, <3>1, <3>3
    <3> QED
      BY <3>2, <3>3
  <2>10. Reached => m.id = pjsip.id
    BY <1>2 DEF RegistrarInv, OnlyCopiesFollow
  <2>11. GrantedFirst'
    <3> SUFFICES ASSUME pjsip.state = "asking", pjsip.contact # NoContact
                 PROVE  /\ \A i \in 1 .. Len(toPjsip') : toPjsip'[i].id = pjsip.id
                             => \E j \in 1 .. i : Granted(j)'
                        /\ (\E i \in 1 .. Len(toClient') :
                              toClient'[i].id = pjsip.id) =>
                             \E j \in 1 .. Len(toPjsip') : Granted(j)'
      BY <2>1 DEF GrantedFirst
    <3>1. \A j \in 1 .. Len(toPjsip) : Granted(j) => Granted(j)'
      BY <2>1, <2>2 DEF Granted
    <3>0. PICK n \in Nat : n = Len(toPjsip) + 1
      BY <2>2
    <3>2. m.id = pjsip.id => Granted(n)' /\ n \in 1 .. Len(toPjsip')
      BY <1>3, <2>1, <2>2, <2>5, <3>0 DEF Granted
    <3>3. ASSUME NEW i \in 1 .. Len(toPjsip'), toPjsip'[i].id = pjsip.id
          PROVE  \E j \in 1 .. i : Granted(j)'
      <4>1. CASE i = Len(toPjsip) + 1
        BY <2>2, <3>0, <3>2, <3>3, <4>1
      <4>2. CASE i # Len(toPjsip) + 1
        <5>1. i \in 1 .. Len(toPjsip) /\ toPjsip[i].id = pjsip.id
          BY <2>2, <3>3, <4>2
        <5>2. PICK j \in 1 .. i : Granted(j)
          BY <1>4, <5>1 DEF RegistrarInv, GrantedFirst
        <5>3. j \in 1 .. Len(toPjsip)
          BY <2>2, <5>1
        <5> QED
          BY <3>1, <5>2, <5>3
      <4> QED
        BY <4>1, <4>2
    <3>4. ASSUME NEW i \in 1 .. Len(toClient'), toClient'[i].id = pjsip.id
          PROVE  \E j \in 1 .. Len(toPjsip') : Granted(j)'
      <4>1. CASE i \in 1 .. Len(toClient)
        BY <1>4, <2>2, <2>3, <3>1, <3>4, <4>1 DEF RegistrarInv, GrantedFirst
      <4>2. CASE i \notin 1 .. Len(toClient)
        BY <2>3, <3>2, <3>4, <4>2
      <4> QED
        BY <4>1, <4>2
    <3> QED
      BY <3>3, <3>4
  <2>12. GrantIsBinding'
    <3>1. ASSUME NEW i \in 1 .. Len(toPjsip'), Granted(i)'
          PROVE  pjsip.contact # NoContact /\ binding' = pjsip.contact
      <4>1. m.id = pjsip.id
        BY <2>1, <2>2, <2>10, <3>1 DEF Granted, Reached
      <4>2. pjsip.contact # NoContact
        BY <2>1, <2>2, <2>5, <3>1, <4>1
        DEF RegistrarInv, GrantIsBinding, Granted
      <4> QED
        BY <2>4, <2>5, <4>1, <4>2
    <3> QED
      BY <2>1, <3>1 DEF GrantIsBinding
  <2>13. Quiescent' /\ FirstIsOnce' /\ Registrar!NoMissedRegistration'
    <3>1. m.contact # NoContact => m.contact # Registrar!Unbound
      BY <1>3 DEF Registrar!ConstantsOK
    <3>2. Quiescent'
      BY <2>1, <2>4 DEF RegistrarInv, Quiescent
    <3>3. FirstIsOnce'
      BY <1>4, <2>4, <3>1 DEF RegistrarInv, FirstIsOnce, Registrar!started
    <3>4. Registrar!NoMissedRegistration'
      BY <2>4 DEF RegistrarInv, Registrar!NoMissedRegistration
    <3> QED
      BY <3>2, <3>3, <3>4
  <2>14. AskedFor' /\ Registrar!OkComesFirst'
    BY <1>4, <2>1, <2>4 DEF RegistrarInv, AskedFor, Registrar!OkComesFirst,
       Registrar!started
  <2>15. Registrar!BindingAgrees'
    BY <1>4, <2>1, <2>4, <2>5, <2>10 DEF RegistrarInv, Registrar!BindingAgrees,
       Registrar!started, Reached
  <2> QED
    BY <2>6, <2>7, <2>9, <2>11, <2>12, <2>13, <2>14, <2>15 DEF RegistrarInv
<1>5. CASE ~Registrar!started
  <2>1. /\ UNCHANGED <<life, binding, wait, waited, registered, clientKnown, pjsip>>
        /\ toPjsip' = toPjsip
        /\ toClient' = IF clientKnown THEN Append(toClient, m) ELSE toClient
    BY <1>1, <1>2, <1>5, ConcatEmptySeq
    DEF Registrar!OnSipFrame, Registrar!HandleRegister,
        Registrar!RegistrarAnswers, Registrar!hostVars
  <2>2. /\ toClient' \in Seq(Registrar!Register)
        /\ Len(toClient) \in Nat
        /\ Len(toClient') \in {Len(toClient), Len(toClient) + 1}
        /\ \A i \in 1 .. Len(toClient) : toClient'[i] = toClient[i]
        /\ Len(toClient') > Len(toClient) => toClient'[Len(toClient) + 1] = m
    <3>1. CASE clientKnown
      BY <1>1, <1>2, <2>1, <3>1, QueueAppend
    <3>2. CASE ~clientKnown
      BY <1>1, <2>1, <3>2
    <3> QED
      BY <3>1, <3>2
  <2>3. /\ 1 \in 1 .. Len(toHost)
        /\ \A i \in 1 .. Len(toHost) : 1 <= i
        /\ \A i \in 1 .. Len(toHost') : i + 1 \in 1 .. Len(toHost)
    BY <1>2
  <2>4. /\ pjsip.id \in Nat
        /\ \A i \in 1 .. Len(toHost) : toHost[i].id \in Nat
    <3>1. \A i \in 1 .. Len(toHost) : toHost[i] \in Registrar!Register
      BY <1>1, ElementOfSeq
    <3>2. \A i \in 1 .. Len(toHost) : toHost[i].id \in Nat
      BY <3>1 DEF Registrar!Register, Registrar!ConstantsOK
    <3>3. pjsip.id \in Nat
      BY DEF RegistrarInv, Registrar!TypeOK, Registrar!ConstantsOK
    <3> QED
      BY <3>2, <3>3
  <2>5. Registrar!TypeOK'
    BY <1>2, <2>1, <2>2 DEF RegistrarInv, Registrar!TypeOK
  <2>6. InOrder'
    <3>1. \A i \in 1 .. Len(toClient') : toClient'[i].id <= pjsip.id
      BY <2>2, <2>3 DEF RegistrarInv, InOrder
    <3>2. \A i \in 1 .. Len(toHost') :
            /\ toHost'[i].id <= pjsip.id
            /\ toHost'[i].id = pjsip.id => toHost'[i].contact = pjsip.contact
      BY <1>2, <2>3 DEF RegistrarInv, InOrder
    <3>3. \A i, j \in 1 .. Len(toHost') :
            i <= j => toHost'[i].id <= toHost'[j].id
      BY <1>2 DEF RegistrarInv, InOrder
    <3> QED
      BY <2>1, <3>1, <3>2, <3>3 DEF RegistrarInv, InOrder
  <2>7. OnlyCopiesFollow'
    <3>1. Reached' => m.id = pjsip.id \/ Reached
      BY <2>1, <2>2 DEF Reached
    <3>2. \A i \in 1 .. Len(toHost) :
            m.id <= toHost[i].id /\ toHost[i].id <= pjsip.id
      BY <2>3 DEF RegistrarInv, InOrder
    <3> QED
      BY <1>2, <2>1, <2>3, <2>4, <3>1, <3>2 DEF RegistrarInv, OnlyCopiesFollow
  <2>8. GrantedFirst' /\ GrantIsBinding'
    BY <1>5, <2>1
    DEF RegistrarInv, GrantedFirst, GrantIsBinding, Granted, Registrar!started
  <2>9. Quiescent' /\ AskedFor' /\ FirstIsOnce'
    BY <2>1 DEF RegistrarInv, Quiescent, AskedFor, FirstIsOnce, Registrar!started
  <2>10. /\ Registrar!NoMissedRegistration' /\ Registrar!OkComesFirst'
         /\ Registrar!BindingAgrees'
    BY <2>1 DEF RegistrarInv, Registrar!NoMissedRegistration,
       Registrar!OkComesFirst, Registrar!BindingAgrees, Registrar!started
  <2> QED
    BY <2>5, <2>6, <2>7, <2>8, <2>9, <2>10 DEF RegistrarInv
<1> QED
  BY <1>4, <1>5

(* The client's 405 goes behind the 200 that is on its way.                *)
LEMMA RefusalKeeps ==
  ASSUME Registrar!ConstantsOK, RegistrarInv, Registrar!ClientRefuses
  PROVE  RegistrarInv'
<1> DEFINE m == toClient[1]
           answer == [id |-> m.id, code |-> 405]
<1>1. /\ toClient \in Seq(Registrar!Register) /\ toClient # <<>>
      /\ toPjsip \in Seq(Registrar!Answer)
      /\ UNCHANGED <<life, binding, wait, waited, registered, clientKnown,
                     toHost, pjsip>>
  BY DEF RegistrarInv, Registrar!TypeOK, Registrar!ClientRefuses,
     Registrar!hostVars
<1>2. /\ m \in Registrar!Register /\ Head(toClient) = m
      /\ toClient' \in Seq(Registrar!Register)
      /\ Len(toClient) \in Nat /\ Len(toClient) >= 1
      /\ Len(toClient') = Len(toClient) - 1
      /\ \A i \in 1 .. Len(toClient') :
           i + 1 \in 2 .. Len(toClient) /\ toClient'[i] = toClient[i + 1]
  BY <1>1, QueueTail DEF Registrar!ClientRefuses
<1>3. answer \in Registrar!Answer
  BY <1>2 DEF Registrar!Register, Registrar!Answer
<1>4. /\ toPjsip' \in Seq(Registrar!Answer)
      /\ Len(toPjsip) \in Nat /\ Len(toPjsip') = Len(toPjsip) + 1
      /\ toPjsip'[Len(toPjsip) + 1] = answer
      /\ \A i \in 1 .. Len(toPjsip) : toPjsip'[i] = toPjsip[i]
  BY <1>1, <1>2, <1>3, QueueAppend DEF Registrar!ClientRefuses
<1>5. /\ 1 \in 1 .. Len(toClient)
      /\ \A i \in 1 .. Len(toClient') : i + 1 \in 1 .. Len(toClient)
  BY <1>2
<1>6. Registrar!TypeOK'
  BY <1>1, <1>2, <1>4 DEF RegistrarInv, Registrar!TypeOK
<1>7. InOrder'
  <2>1. \A i \in 1 .. Len(toClient') : toClient'[i].id <= pjsip.id
    BY <1>2, <1>5 DEF RegistrarInv, InOrder
  <2>2. \A i \in 1 .. Len(toPjsip') : toPjsip'[i].id <= pjsip.id
    BY <1>4, <1>5 DEF RegistrarInv, InOrder
  <2> QED
    BY <1>1, <2>1, <2>2 DEF RegistrarInv, InOrder
<1>8. Reached' => Reached
  <2>1. ASSUME NEW i \in 1 .. Len(toPjsip'), toPjsip'[i].id = pjsip.id
        PROVE  Reached
    <3>1. CASE i \in 1 .. Len(toPjsip)
      BY <1>4, <2>1, <3>1 DEF Reached
    <3>2. CASE i \notin 1 .. Len(toPjsip)
      <4>1. i = Len(toPjsip) + 1
        BY <1>4, <2>1, <3>2
      <4> QED
        BY <1>4, <1>5, <2>1, <4>1 DEF Reached
    <3> QED
      BY <3>1, <3>2
  <2>2. ASSUME NEW i \in 1 .. Len(toClient'), toClient'[i].id = pjsip.id
        PROVE  Reached
    BY <1>2, <1>5, <2>2 DEF Reached
  <2> QED
    BY <1>1, <2>1, <2>2 DEF Reached
<1>9. OnlyCopiesFollow'
  BY <1>1, <1>8 DEF RegistrarInv, OnlyCopiesFollow
<1>10. \A j \in 1 .. Len(toPjsip) :
         j \in 1 .. Len(toPjsip') /\ (Granted(j) <=> Granted(j)')
  BY <1>1, <1>4 DEF Granted
<1>11. GrantedFirst'
  <2> SUFFICES ASSUME pjsip.state = "asking", pjsip.contact # NoContact,
                      Registrar!started
               PROVE  /\ \A i \in 1 .. Len(toPjsip') :
                           toPjsip'[i].id = pjsip.id
                             => \E j \in 1 .. i : Granted(j)'
                      /\ (\E i \in 1 .. Len(toClient') :
                            toClient'[i].id = pjsip.id) =>
                           \E j \in 1 .. Len(toPjsip') : Granted(j)'
    BY <1>1 DEF GrantedFirst, Registrar!started
  <2>1. ASSUME NEW i \in 1 .. Len(toClient), toClient[i].id = pjsip.id
        PROVE  \E j \in 1 .. Len(toPjsip) : Granted(j)'
    BY <1>10, <2>1 DEF RegistrarInv, GrantedFirst
  <2>2. ASSUME NEW i \in 1 .. Len(toPjsip'), toPjsip'[i].id = pjsip.id
        PROVE  \E j \in 1 .. i : Granted(j)'
    <3>1. CASE i \in 1 .. Len(toPjsip)
      <4>1. PICK j \in 1 .. i : Granted(j)
        BY <1>4, <2>2, <3>1 DEF RegistrarInv, GrantedFirst
      <4>2. j \in 1 .. Len(toPjsip)
        BY <1>4, <3>1
      <4> QED
        BY <1>10, <4>1, <4>2
    <3>2. CASE i \notin 1 .. Len(toPjsip)
      <4>1. i = Len(toPjsip) + 1
        BY <1>4, <2>2, <3>2
      <4>2. PICK j \in 1 .. Len(toPjsip) : Granted(j)'
        BY <1>4, <1>5, <2>1, <2>2, <4>1, SMTT(30)
      <4> QED
        BY <1>4, <4>1, <4>2
    <3> QED
      BY <3>1, <3>2
  <2>3. ASSUME NEW i \in 1 .. Len(toClient'), toClient'[i].id = pjsip.id
        PROVE  \E j \in 1 .. Len(toPjsip') : Granted(j)'
    BY <1>2, <1>5, <1>10, <2>1, <2>3
  <2> QED
    BY <2>2, <2>3
<1>12. GrantIsBinding'
  <2>1. \A i \in 1 .. Len(toPjsip') : Granted(i)' => i \in 1 .. Len(toPjsip)
    BY <1>3, <1>4 DEF Granted
  <2> QED
    BY <1>1, <1>10, <2>1 DEF RegistrarInv, GrantIsBinding, Registrar!started
<1>13. Quiescent' /\ AskedFor' /\ FirstIsOnce'
  BY <1>1, <1>2 DEF RegistrarInv, Quiescent, AskedFor, FirstIsOnce,
     Registrar!started
<1>14. /\ Registrar!NoMissedRegistration' /\ Registrar!OkComesFirst'
       /\ Registrar!BindingAgrees'
  BY <1>1 DEF RegistrarInv, Registrar!NoMissedRegistration,
     Registrar!OkComesFirst, Registrar!BindingAgrees, Registrar!started
<1> QED
  BY <1>6, <1>7, <1>9, <1>11, <1>12, <1>13, <1>14 DEF RegistrarInv

(* PJSIP asks, for the first time, for a refresh, or again: the REGISTER   *)
(* goes behind every other, and a new one has a number no other has.       *)
Asks ==
  /\ toHost' = Append(toHost, [id |-> pjsip'.id, contact |-> pjsip'.contact])
  /\ UNCHANGED <<life, binding, wait, waited, registered, clientKnown,
                 toClient, toPjsip>>
  /\ pjsip'.state = "asking"
  /\ pjsip' \in [id : 1 .. MaxRegisters, contact : Contacts \cup {NoContact},
                 state : {"asking"}]
  /\ UNCHANGED pjsip \/ pjsip'.id = pjsip.id + 1

LEMMA PjsipAsks ==
  ASSUME Registrar!ConstantsOK, RegistrarInv,
         \/ \E c \in Contacts \cup {NoContact} : Registrar!PjsipRegisters(c)
         \/ Registrar!PjsipResends
  PROVE  Asks
<1>1. pjsip \in [id : 0 .. MaxRegisters,
                 contact : Contacts \cup {NoContact, Registrar!Unbound},
                 state : {"idle", "asking", "bound", "refused"}]
  BY DEF RegistrarInv, Registrar!TypeOK
<1>2. ASSUME Registrar!PjsipResends PROVE Asks
  <2>1. /\ pjsip.state = "asking" /\ pjsip.id \in 1 .. MaxRegisters
        /\ pjsip.contact \in Contacts \cup {NoContact}
    BY <1>2 DEF RegistrarInv, AskedFor, Registrar!PjsipResends
  <2>2. pjsip \in [id : 1 .. MaxRegisters, contact : Contacts \cup {NoContact},
                   state : {"asking"}]
    BY <1>1, <2>1
  <2> QED
    BY <1>2, <2>1, <2>2 DEF Asks, Registrar!PjsipResends, Registrar!Sends,
       Registrar!hostVars
<1>3. ASSUME NEW c \in Contacts \cup {NoContact}, Registrar!PjsipRegisters(c)
      PROVE  Asks
  BY <1>1, <1>3 DEF Asks, Registrar!PjsipRegisters, Registrar!Sends,
     Registrar!hostVars, Registrar!ConstantsOK
<1> QED
  BY <1>2, <1>3

LEMMA AskingKeeps ==
  ASSUME Registrar!ConstantsOK, RegistrarInv, Asks
  PROVE  RegistrarInv'
<1> DEFINE new == [id |-> pjsip'.id, contact |-> pjsip'.contact]
<1>1. /\ toHost \in Seq(Registrar!Register)
      /\ toHost' = Append(toHost, new)
      /\ new \in Registrar!Register /\ pjsip'.id \in Nat /\ pjsip.id \in Nat
  BY DEF RegistrarInv, Registrar!TypeOK, Asks, Registrar!Register,
     Registrar!ConstantsOK
<1>2. /\ toHost' \in Seq(Registrar!Register)
      /\ Len(toHost) \in Nat /\ Len(toHost') = Len(toHost) + 1
      /\ toHost'[Len(toHost) + 1] = new
      /\ \A i \in 1 .. Len(toHost) : toHost'[i] = toHost[i]
  BY <1>1, QueueAppend
<1>3. /\ \A i \in 1 .. Len(toHost) : toHost[i].id \in Nat
      /\ \A i \in 1 .. Len(toClient) : toClient[i].id \in Nat
      /\ \A i \in 1 .. Len(toPjsip) : toPjsip[i].id \in Nat
  <2>1. /\ \A i \in 1 .. Len(toHost) : toHost[i] \in Registrar!Register
        /\ \A i \in 1 .. Len(toClient) : toClient[i] \in Registrar!Register
        /\ \A i \in 1 .. Len(toPjsip) : toPjsip[i] \in Registrar!Answer
    BY ElementOfSeq DEF RegistrarInv, Registrar!TypeOK
  <2> QED
    BY <2>1 DEF Registrar!Register, Registrar!Answer, Registrar!ConstantsOK
<1>4. Registrar!TypeOK'
  BY <1>2 DEF RegistrarInv, Registrar!TypeOK, Asks
<1>5. /\ pjsip.id <= pjsip'.id
      /\ pjsip'.id = pjsip.id => UNCHANGED pjsip
  BY <1>1 DEF Asks
<1>6. InOrder'
  <2>1. \A i \in 1 .. Len(toHost') :
          i \in 1 .. Len(toHost) \/ toHost'[i] = new
    BY <1>2
  <2>2. \A i \in 1 .. Len(toHost') :
          /\ toHost'[i].id <= pjsip'.id
          /\ toHost'[i].id = pjsip'.id => toHost'[i].contact = pjsip'.contact
    BY <1>1, <1>2, <1>3, <1>5, <2>1 DEF RegistrarInv, InOrder
  <2>3. ASSUME NEW i \in 1 .. Len(toHost'), NEW j \in 1 .. Len(toHost'),
               i <= j
        PROVE  toHost'[i].id <= toHost'[j].id
    <3>1. CASE j \in 1 .. Len(toHost)
      <4>1. i \in 1 .. Len(toHost)
        BY <1>2, <2>3, <3>1
      <4> QED
        BY <1>2, <2>3, <3>1, <4>1 DEF RegistrarInv, InOrder
    <3>2. CASE toHost'[j] = new
      BY <2>2, <3>2
    <3> QED
      BY <2>1, <3>1, <3>2
  <2>4. /\ \A i \in 1 .. Len(toClient) : toClient[i].id <= pjsip'.id
        /\ \A i \in 1 .. Len(toPjsip) : toPjsip[i].id <= pjsip'.id
    BY <1>1, <1>3, <1>5 DEF RegistrarInv, InOrder
  <2> QED
    BY <2>2, <2>3, <2>4 DEF InOrder, Asks
<1>7. CASE UNCHANGED pjsip
  <2>1. Reached' => Reached
    BY <1>7 DEF Reached, Asks
  <2>2. OnlyCopiesFollow'
    BY <1>2, <1>7, <2>1 DEF RegistrarInv, OnlyCopiesFollow
  <2>3. GrantedFirst' /\ GrantIsBinding'
    BY <1>7 DEF RegistrarInv, GrantedFirst, GrantIsBinding, Granted, Asks,
       Registrar!started
  <2>4. Quiescent' /\ AskedFor' /\ FirstIsOnce'
    BY <1>7 DEF RegistrarInv, Quiescent, AskedFor, FirstIsOnce, Asks,
       Registrar!started
  <2>5. /\ Registrar!NoMissedRegistration' /\ Registrar!OkComesFirst'
        /\ Registrar!BindingAgrees'
    BY <1>7 DEF RegistrarInv, Registrar!NoMissedRegistration, Asks,
       Registrar!OkComesFirst, Registrar!BindingAgrees, Registrar!started
  <2> QED
    BY <1>4, <1>6, <2>2, <2>3, <2>4, <2>5 DEF RegistrarInv
<1>8. CASE pjsip'.id = pjsip.id + 1
  <2>1. /\ \A i \in 1 .. Len(toClient) : toClient[i].id # pjsip'.id
        /\ \A i \in 1 .. Len(toPjsip) : toPjsip[i].id # pjsip'.id
    BY <1>1, <1>3, <1>8 DEF RegistrarInv, InOrder
  <2>2. ~Reached'
    BY <2>1 DEF Reached, Asks
  <2>3. OnlyCopiesFollow' /\ GrantedFirst' /\ GrantIsBinding'
    BY <2>1, <2>2 DEF OnlyCopiesFollow, GrantedFirst, GrantIsBinding, Granted,
       Asks
  <2>4. Quiescent' /\ AskedFor' /\ FirstIsOnce'
    BY DEF RegistrarInv, Quiescent, AskedFor, FirstIsOnce, Asks,
       Registrar!started
  <2>5. /\ Registrar!NoMissedRegistration' /\ Registrar!OkComesFirst'
        /\ Registrar!BindingAgrees'
    BY DEF RegistrarInv, Registrar!NoMissedRegistration, Asks,
       Registrar!OkComesFirst, Registrar!BindingAgrees
  <2> QED
    BY <1>4, <1>6, <2>3, <2>4, <2>5 DEF RegistrarInv
<1> QED
  BY <1>7, <1>8 DEF Asks

(* PJSIP reads an answer: the first one to its REGISTER decides.           *)
LEMMA ReadingKeeps ==
  ASSUME Registrar!ConstantsOK, RegistrarInv, Registrar!PjsipReads
  PROVE  RegistrarInv'
<1> DEFINE a == toPjsip[1]
<1>1. /\ toPjsip \in Seq(Registrar!Answer) /\ toPjsip # <<>>
      /\ UNCHANGED <<life, binding, wait, waited, registered, clientKnown,
                     toHost, toClient>>
  BY DEF RegistrarInv, Registrar!TypeOK, Registrar!PjsipReads,
     Registrar!hostVars
<1>2. /\ Head(toPjsip) = a
      /\ toPjsip' \in Seq(Registrar!Answer)
      /\ Len(toPjsip) \in Nat /\ Len(toPjsip) >= 1
      /\ Len(toPjsip') = Len(toPjsip) - 1
      /\ \A i \in 1 .. Len(toPjsip') :
           i + 1 \in 2 .. Len(toPjsip) /\ toPjsip'[i] = toPjsip[i + 1]
  BY <1>1, QueueTail DEF Registrar!PjsipReads
<1>3. /\ 1 \in 1 .. Len(toPjsip)
      /\ \A i \in 1 .. Len(toPjsip') : i + 1 \in 1 .. Len(toPjsip)
  BY <1>2
<1>4. pjsip \in [id : 0 .. MaxRegisters,
                 contact : Contacts \cup {NoContact, Registrar!Unbound},
                 state : {"idle", "asking", "bound", "refused"}]
  BY DEF RegistrarInv, Registrar!TypeOK
<1>5. /\ pjsip'.id = pjsip.id /\ pjsip'.contact = pjsip.contact
      /\ \/ UNCHANGED pjsip /\ (pjsip.state = "asking" => a.id # pjsip.id)
         \/ /\ pjsip.state = "asking" /\ a.id = pjsip.id
            /\ pjsip'.state = IF a.code = 200 THEN "bound" ELSE "refused"
      /\ pjsip' \in [id : 0 .. MaxRegisters,
                     contact : Contacts \cup {NoContact, Registrar!Unbound},
                     state : {"idle", "asking", "bound", "refused"}]
  BY <1>2, <1>4 DEF Registrar!PjsipReads
<1>6. Registrar!TypeOK'
  BY <1>1, <1>2, <1>5 DEF RegistrarInv, Registrar!TypeOK
<1>7. InOrder'
  <2>1. \A i \in 1 .. Len(toPjsip') : toPjsip'[i].id <= pjsip.id
    BY <1>2, <1>3 DEF RegistrarInv, InOrder
  <2> QED
    BY <1>1, <1>5, <2>1 DEF RegistrarInv, InOrder
<1>8. Reached' => Reached
  BY <1>1, <1>2, <1>3, <1>5 DEF Reached
<1>9. OnlyCopiesFollow'
  BY <1>1, <1>5, <1>8 DEF RegistrarInv, OnlyCopiesFollow
<1>10. GrantIsBinding'
  <2>1. \A i \in 1 .. Len(toPjsip') : Granted(i)' => Granted(i + 1)
    BY <1>2, <1>5 DEF Granted
  <2> QED
    BY <1>1, <1>3, <1>5, <2>1 DEF RegistrarInv, GrantIsBinding,
       Registrar!started
<1>11. GrantedFirst'
  <2> SUFFICES ASSUME pjsip'.state = "asking", pjsip.contact # NoContact,
                      Registrar!started
               PROVE  /\ \A i \in 1 .. Len(toPjsip') :
                           toPjsip'[i].id = pjsip.id
                             => \E j \in 1 .. i : Granted(j)'
                      /\ (\E i \in 1 .. Len(toClient) :
                            toClient[i].id = pjsip.id) =>
                           \E j \in 1 .. Len(toPjsip') : Granted(j)'
    BY <1>1, <1>5 DEF GrantedFirst, Registrar!started
  <2>1. pjsip.state = "asking" /\ a.id # pjsip.id
    BY <1>5
  <2>2. ASSUME NEW k \in 1 .. Len(toPjsip), Granted(k)
        PROVE  \E j \in 1 .. Len(toPjsip') : j + 1 = k /\ Granted(j)'
    <3>1. k # 1
      BY <2>1, <2>2 DEF Granted
    <3>2. PICK j \in 1 .. Len(toPjsip') : j + 1 = k
      BY <1>2, <3>1
    <3> QED
      BY <1>2, <1>5, <2>2, <3>2 DEF Granted
  <2>3. ASSUME NEW i \in 1 .. Len(toPjsip'), toPjsip'[i].id = pjsip.id
        PROVE  \E j \in 1 .. i : Granted(j)'
    <3>1. PICK k \in 1 .. (i + 1) : Granted(k)
      BY <1>2, <1>3, <2>1, <2>3 DEF RegistrarInv, GrantedFirst
    <3>2. k \in 1 .. Len(toPjsip)
      BY <1>3, <1>2
    <3>3. PICK j \in 1 .. Len(toPjsip') : j + 1 = k /\ Granted(j)'
      BY <2>2, <3>1, <3>2
    <3>4. j \in 1 .. i
      BY <3>1, <3>3
    <3> QED
      BY <3>3, <3>4
  <2>4. ASSUME NEW i \in 1 .. Len(toClient), toClient[i].id = pjsip.id
        PROVE  \E j \in 1 .. Len(toPjsip') : Granted(j)'
    BY <2>1, <2>2, <2>4 DEF RegistrarInv, GrantedFirst
  <2> QED
    BY <2>3, <2>4
<1>12. Registrar!OkComesFirst'
  <2> SUFFICES ASSUME pjsip'.state = "refused", pjsip.contact # NoContact,
                      Registrar!started
               PROVE  FALSE
    BY <1>1, <1>5 DEF Registrar!OkComesFirst, Registrar!started
  <2>1. pjsip.state = "asking" /\ a.id = pjsip.id /\ a.code # 200
    BY <1>5 DEF RegistrarInv, Registrar!OkComesFirst
  <2>2. \E j \in 1 .. 1 : Granted(j)
    BY <1>3, <2>1 DEF RegistrarInv, GrantedFirst
  <2> QED
    BY <2>1, <2>2 DEF Granted
<1>13. Registrar!BindingAgrees'
  BY <1>1, <1>3, <1>5 DEF RegistrarInv, Registrar!BindingAgrees, GrantIsBinding,
     Granted, Registrar!started
<1>14. Quiescent' /\ AskedFor' /\ FirstIsOnce'
  <2>1. life = "new" => toPjsip = <<>>
    BY DEF RegistrarInv, Quiescent
  <2> QED
    BY <1>1, <1>5, <2>1 DEF RegistrarInv, Quiescent, AskedFor, FirstIsOnce,
       Registrar!started
<1>15. Registrar!NoMissedRegistration'
  BY <1>1 DEF RegistrarInv, Registrar!NoMissedRegistration
<1> QED
  BY <1>6, <1>7, <1>9, <1>10, <1>11, <1>12, <1>13, <1>14, <1>15 DEF RegistrarInv

LEMMA RegistrarInvAlways ==
  ASSUME Registrar!ConstantsOK
  PROVE  Registrar!Spec => []RegistrarInv
<1>1. ASSUME RegistrarInv, UNCHANGED Registrar!vars PROVE RegistrarInv'
  <2>1. Registrar!TypeOK'
    BY <1>1 DEF RegistrarInv, Registrar!vars, Registrar!TypeOK
  <2>2. InOrder' /\ OnlyCopiesFollow'
    BY <1>1 DEF RegistrarInv, Registrar!vars, InOrder, OnlyCopiesFollow, Reached
  <2>3. GrantedFirst' /\ GrantIsBinding'
    BY <1>1 DEF RegistrarInv, Registrar!vars, GrantedFirst, GrantIsBinding, Granted,
       Registrar!started
  <2>4. Quiescent' /\ AskedFor' /\ FirstIsOnce'
    BY <1>1 DEF RegistrarInv, Registrar!vars, Quiescent, AskedFor, FirstIsOnce,
       Registrar!started
  <2>5. /\ Registrar!NoMissedRegistration' /\ Registrar!OkComesFirst'
        /\ Registrar!BindingAgrees'
    BY <1>1 DEF RegistrarInv, Registrar!vars, Registrar!NoMissedRegistration,
       Registrar!OkComesFirst, Registrar!BindingAgrees, Registrar!started
  <2> QED
    BY <2>1, <2>2, <2>3, <2>4, <2>5 DEF RegistrarInv
<1>2. RegistrarInv /\ [Registrar!Next]_(Registrar!vars) => RegistrarInv'
  BY <1>1, CallsKeep, FrameKeeps, RefusalKeeps, PjsipAsks, AskingKeeps,
     ReadingKeeps
  DEF Registrar!Next
<1> QED
  BY <1>2, InitRegistrar, PTL DEF Registrar!Spec

(* The first registration is told once and never missed; the binding is    *)
(* PJSIP's own; and PJSIP, whose REGISTER is answered by two, never counts *)
(* itself refused while the registrar serves it: for any number of         *)
(* addresses, transactions, copies and messages under way.                 *)
THEOREM RegistrarSafeAlways ==
  ASSUME Registrar!ConstantsOK
  PROVE  Registrar!Spec => []Registrar!RegistrarSafe
<1>1. RegistrarInv => Registrar!RegistrarSafe
  BY DEF RegistrarInv, FirstIsOnce, Registrar!RegistrarSafe,
     Registrar!RegisteredOnce
<1> QED
  BY <1>1, RegistrarInvAlways, PTL

-----------------------------------------------------------------------------
(* The parts side by side, as TLC runs them.                               *)

(* The client runs by itself, or the backend runs it.                      *)
LEMMA ClientRunsOrRests == MCSpec => Uac!Spec
<1> DEFINE Alone == part = "client"
<1>1. MCInit => Init /\ Uac!Init
  BY DEF MCInit, Init
<1>2. [MCNext]_all /\ Alone => Alone' /\ [Uac!Next]_(Uac!vars)
  BY DEF MCNext, BackendRuns, ClientRuns, RegistrarRuns, Runs, all, vars, uacVars,
         Uac!vars
<1>3. [MCNext]_all /\ ~Alone => ~Alone' /\ [Next]_vars
  BY DEF MCNext, BackendRuns, ClientRuns, RegistrarRuns, Runs, all
<1>4. Init /\ [][Next]_vars => Uac!Init /\ [][Uac!Next]_(Uac!vars)
  BY BackendRunsClient DEF Spec, Uac!Spec
<1> HIDE DEF Alone
<1>5. MCInit /\ [][MCNext]_all => Uac!Init /\ [][Uac!Next]_(Uac!vars)
  BY <1>1, <1>2, <1>3, <1>4, PTL
<1> QED
  BY <1>5, PTL DEF MCSpec, Uac!Spec

LEMMA RegistrarRunsOrRests == MCSpec => Registrar!Spec
<1>1. MCInit => Registrar!Init
  BY DEF MCInit
<1>2. [MCNext]_all => [Registrar!Next]_(Registrar!vars)
  BY DEF MCNext, BackendRuns, ClientRuns, RegistrarRuns, Runs, all, registrarVars,
         Registrar!vars
<1> QED
  BY <1>1, <1>2, PTL DEF MCSpec, Registrar!Spec

(* Both who speak SIP with the VM keep their promises: the client's dialog *)
(* has one end and no way back, and a closed client is quiet; the first    *)
(* REGISTER is told once and never missed, its 200 comes before any 405,   *)
(* and the binding is PJSIP's own.                                         *)
THEOREM SipHoldsAlways == Registrar!ConstantsOK => (MCSpec => SipHolds)
<1>1. CASE Registrar!ConstantsOK
  <2>1. Registrar!Spec => []Registrar!RegistrarSafe
    BY <1>1, RegistrarSafeAlways
  <2> QED
    BY <2>1, ClientRunsOrRests, RegistrarRunsOrRests, ClientSafeAlways,
       ClientTerminatedStays, ClientCloseIsQuiet, PTL DEF SipHolds
<1> QED
  BY <1>1

=============================================================================
