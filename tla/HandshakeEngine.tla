--------------------------- MODULE HandshakeEngine ----------------------------
(***************************************************************************)
(* The handshake of the native modem: HandshakeEngine                      *)
(* (src/dsp/Handshake.js) under ModemDSP (src/dsp/ModemDSP.js).            *)
(*                                                                         *)
(* Time goes in units, in each of which a packet is received, audio is     *)
(* generated and the engine's timer may fire, in any order.  V.8 itself is *)
(* in V8Sequencer, the V.22 classes in V22Startup; here they appear as     *)
(* what they tell the engine.                                              *)
(***************************************************************************)
EXTENDS Naturals, Sequences

CONSTANTS
  Roles, Forceds, Callers, SkipV8, \* what is tried
  AnswerDelay,        \* answerToneDelayMs
  AnsQueue,           \* the silences and the ANS tone of a forced protocol
  V8Time,             \* V.8's timeout
  V22Time,            \* V22BIS_HANDSHAKE_TIMEOUT_MS
  Configured,         \* trainingDurationMs of V21 and Bell103
  DefaultTraining,    \* its default
  WindowV21, WindowBell103,   \* listenMs of the probes; the default is the latter
  Stable,             \* cdStableMs
  SilentMax           \* silenceHangupPackets

V22s == {"V22", "V22bis"}
FSK == {"V21", "Bell103"}
Null == "null"

ASSUME HandshakeAssumption ==
  /\ Roles \subseteq {"answer", "originate"} /\ SkipV8 \subseteq BOOLEAN
  /\ Forceds \subseteq V22s \cup FSK \cup {Null}
  /\ Callers \subseteq {"V22bis", "V21", "Bell103"}
  /\ {AnswerDelay, AnsQueue, Configured} \subseteq Nat
  /\ {V8Time, V22Time, DefaultTraining, Stable, WindowV21, WindowBell103,
      SilentMax} \subseteq Nat \ {0}

VARIABLES
  line,     \* role, forced protocol, who is on the other end, and whether the
            \* stream of packets has stopped (cut)
  h,        \* the engine and its protocol instance
  silent,   \* _silentPkts
  over,     \* CallSession was told to hang up, or has stopped the modem
  todo      \* what is left of this unit of time

vars == <<line, h, silent, over, todo>>

Chain == <<"V22bis", "V21", "Bell103">>
States == {"NEW", "IDLE", "ANS_SEND", "V8_NEGOTIATE", "TRAINING", "DATA", "FAILED"}

(* What may be left of the chain of probes.                                *)
Suffixes == {Chain, <<"V21", "Bell103">>, <<"Bell103">>, <<>>}

Engine ==
  [state : States, proto : V22s \cup FSK \cup {Null}, live : SUBSET (V22s \cup FSK),
   chain : BOOLEAN, chained : BOOLEAN, probes : Suffixes,
   timer : {"none", "train", "poll"}, age : Nat, since : Nat, window : Nat,
   disc : BOOLEAN, queue : Nat, v8 : 0 .. V8Time, tone : BOOLEAN,
   detected : BOOLEAN, ran : Nat, cd : {"silence"} \cup Callers,
   connects : 0 .. 2, fails : 0 .. 2]

TypeOK ==
  /\ line \in [role : Roles, forced : Forceds, skip : SkipV8, caller : Callers,
               v8 : BOOLEAN, willing : BOOLEAN, cut : BOOLEAN]
  /\ h \in Engine
  /\ silent \in 0 .. SilentMax - 1 /\ over \in BOOLEAN
  /\ todo \subseteq {"rx", "tx", "timer"}
  \* The class is never held without an instance of it.
  /\ h.state \in {"TRAINING", "DATA"} => h.proto # Null

Init ==
  /\ line \in [role : Roles, forced : Forceds, skip : SkipV8, caller : Callers,
               v8 : BOOLEAN, willing : BOOLEAN, cut : {FALSE}]
  /\ h = [state |-> "NEW", proto |-> Null, live |-> {}, chain |-> FALSE,
          chained |-> FALSE, probes |-> <<>>, timer |-> "none", age |-> 0,
          since |-> 0, window |-> 0, disc |-> FALSE, queue |-> 0, v8 |-> 0,
          tone |-> FALSE,
          detected |-> FALSE, ran |-> 0, cd |-> "silence",
          connects |-> 0, fails |-> 0]
  /\ silent = 0 /\ over = FALSE /\ todo = {}

Once(n) == IF n = 0 THEN 1 ELSE 2

-----------------------------------------------------------------------------
(* Choosing a protocol.                                                    *)

(* trainingDurationMs[name] || 600                                         *)
Training == IF Configured = 0 THEN DefaultTraining ELSE Configured

(* Mutant: the last probe finds the queue empty.                           *)
DiscriminatesQueue(g) == line.role = "answer" /\ g.chain /\ g.probes # <<>>

(* The probes of the chain listen for the other FSK protocol, too.         *)
Discriminates(g) == line.role = "answer" /\ g.chain

Armed(g, w, disc) ==
  [g EXCEPT !.timer = "train", !.age = 0, !.since = 0, !.window = w,
            !.queue = @ + Training, !.disc = disc]

SelectProtocol(g, p, w) ==
  LET i == [g EXCEPT !.proto = p, !.live = @ \cup {p}, !.state = "TRAINING",
                     !.detected = FALSE, !.ran = 0, !.cd = "silence"]
  IN IF p \in V22s THEN [i EXCEPT !.timer = "none", !.disc = FALSE]
     ELSE Armed(i, w, Discriminates(g))

WindowOf(p) == IF p = "V21" THEN WindowV21 ELSE WindowBell103

(* Mutant: the listeners of the instance are left.                         *)
AdvanceProbeKeeps(g) ==
  SelectProtocol([g EXCEPT !.timer = "none", !.probes = Tail(@)],
                 Head(g.probes), WindowOf(Head(g.probes)))

AdvanceProbe(g) ==
  SelectProtocol([g EXCEPT !.live = @ \ {g.proto}, !.timer = "none",
                           !.probes = Tail(@)],
                 Head(g.probes), WindowOf(Head(g.probes)))

StartChain(g) ==
  AdvanceProbe([g EXCEPT !.chain = TRUE, !.chained = TRUE, !.probes = Chain])

(* Mutant: a failure ends the chain.                                       *)
ProtocolFailureEnds(g) ==
  [g EXCEPT !.fails = Once(@), !.state = "FAILED"]

(* _handleProtocolFailure()                                                *)
ProtocolFailure(g) ==
  CASE g.chain /\ g.probes # <<>> -> AdvanceProbe(g)
    [] g.chain /\ g.probes = <<>> ->
         [g EXCEPT !.fails = Once(@), !.state = "FAILED"]
    [] ~g.chain -> [g EXCEPT !.fails = Once(@), !.state = "IDLE"]

Connected(g) ==
  [g EXCEPT !.state = "DATA", !.chain = FALSE, !.probes = <<>>,
            !.connects = Once(@)]

(* Bell103 is the last of protocolPreference.                              *)
Fallback == "Bell103"

Start ==
  /\ h.state = "NEW" /\ ~over
  /\ h' = CASE line.skip -> StartChain(h)
            [] ~line.skip /\ line.forced # Null /\ line.role = "answer" ->
                 [h EXCEPT !.state = "ANS_SEND", !.queue = AnsQueue]
            [] ~line.skip /\ line.forced # Null /\ line.role = "originate" ->
                 SelectProtocol(h, line.forced, WindowBell103)
            [] OTHER ->
                 [h EXCEPT !.state = "V8_NEGOTIATE",
                           !.queue = IF line.role = "answer" THEN AnswerDelay
                                     ELSE 0]
  /\ UNCHANGED <<line, silent, over, todo>>

(* Mutant: the state is left.                                              *)
StopKeepsState ==
  /\ h.state # "NEW"
  /\ h' = [h EXCEPT !.live = @ \ {h.proto}, !.proto = Null, !.timer = "none"]
  /\ over' = TRUE /\ todo' = {}
  /\ UNCHANGED <<line, silent>>

(* ModemDSP.stop(); the call may end at any time.                          *)
Stop ==
  /\ h.state # "NEW"
  /\ h' = [h EXCEPT !.state = "IDLE", !.live = @ \ {h.proto}, !.proto = Null,
                    !.timer = "none"]
  /\ over' = TRUE /\ todo' = {}
  /\ UNCHANGED <<line, silent>>

-----------------------------------------------------------------------------
(* What the V.8 sequencer tells.                                           *)

(* What was heard ends the negotiation, and the packet.                    *)
V8Hears ==
  /\ h.state = "V8_NEGOTIATE" /\ h.v8 > 0
  /\ "rx" \in todo /\ todo' = todo \ {"rx"}
  /\ silent' = 0
  /\ UNCHANGED <<line, over>>

(* A result without a protocol gets an instance of V21.                    *)
V8Result ==
  /\ V8Hears /\ line.v8
  /\ \E p \in {line.caller, "V21"} : h' = SelectProtocol(h, p, WindowBell103)

(* The negotiation breaks off; 'non-v8' is never told.                     *)
V8Breaks ==
  /\ V8Hears
  /\ line.v8 \/ line.role = "originate"
  /\ h' = SelectProtocol(h, Fallback, WindowBell103)

-----------------------------------------------------------------------------
(* Audio.                                                                  *)

Drained(g) == [g EXCEPT !.queue = IF @ = 0 THEN 0 ELSE @ - 1]

(* A V.22 instance gives up on silence, or reports when it has trained.    *)
V22Plays(g, trained) ==
  LET i == [g EXCEPT !.ran = IF @ < V22Time THEN @ + 1 ELSE @]
  IN CASE ~g.detected /\ i.ran >= V22Time -> ProtocolFailure(i)
       [] g.detected /\ trained -> Connected(i)
       [] OTHER -> i

GenerateAudio(trained) ==
  CASE h.state = "V8_NEGOTIATE" ->
         [Drained(h) EXCEPT !.tone = TRUE]
    [] h.state = "ANS_SEND" /\ h.queue = 0 ->
         SelectProtocol(h, line.forced, WindowBell103)
    [] h.state = "TRAINING" /\ h.queue = 0 /\ h.proto \in V22s ->
         V22Plays(h, trained)
    [] OTHER -> Drained(h)

TxTick ==
  /\ "tx" \in todo /\ todo' = todo \ {"tx"}
  /\ \E trained \in BOOLEAN : h' = GenerateAudio(trained)
  /\ UNCHANGED <<line, silent, over>>

(* What is made of a sound of the caller.  V.8 has no clock but the audio  *)
(* it receives; when nobody has answered, the chain begins.                *)
ReceiveAudio(sound) ==
  CASE h.state = "V8_NEGOTIATE" ->
         IF h.v8 + 1 >= V8Time THEN StartChain(h) ELSE [h EXCEPT !.v8 = @ + 1]
    [] h.state \in {"TRAINING", "DATA"} ->
         [h EXCEPT !.cd = sound,
                   !.detected = @ \/ (h.proto \in V22s /\ sound = "V22bis")]
    [] OTHER -> h

(* A willing caller is heard when his modulation is; before, and from      *)
(* others, anything comes.                                                 *)
Sounds ==
  IF line.willing /\ h.proto # Null
     /\ (h.proto = line.caller \/ {h.proto, line.caller} \subseteq V22s)
  THEN {line.caller} ELSE {"silence", line.caller}

(* receiveAudio() of ModemDSP: it counts silence first.                    *)
RxPacket ==
  /\ "rx" \in todo /\ todo' = todo \ {"rx"}
  /\ \E sound \in Sounds :
       /\ h' = ReceiveAudio(sound)
       /\ silent' = IF sound # "silence" \/ silent + 1 >= SilentMax THEN 0
                    ELSE silent + 1
       /\ over' = (over \/ (sound = "silence" /\ silent + 1 >= SilentMax))
  /\ UNCHANGED line

(* No more packets come.                                                   *)
Cut ==
  /\ h.state # "NEW" /\ ~line.cut
  /\ line' = [line EXCEPT !.cut = TRUE]
  /\ todo' = todo \ {"rx"}
  /\ UNCHANGED <<h, silent, over>>

-----------------------------------------------------------------------------
(* The timers of an FSK protocol.                                          *)

TrainEnds ==
  /\ "timer" \in todo /\ h.timer = "train"
  /\ todo' = todo \ {"timer"}
  /\ h' = IF h.age < Training THEN h
          ELSE [h EXCEPT !.timer = "poll", !.age = 0, !.since = 0]
  /\ UNCHANGED <<line, silent, over>>

(* The filters let the other FSK protocol through; V.22 comes through as   *)
(* it likes (`leak').                                                      *)
CarrierDetected(leak) ==
  \/ h.cd = h.proto
  \/ h.cd \in FSK /\ h.cd # h.proto /\ ~h.disc
  \/ h.cd \in V22s /\ leak /\ (h.disc => h.proto = "Bell103")

(* Mutant: it is not cleared when the carrier is stable.                   *)
PollCDGoesOn(leak) ==
  LET cd == CarrierDetected(leak)
      start == IF ~cd THEN 0 ELSE IF h.since = 0 THEN h.age ELSE h.since
      held == IF cd THEN h.age - start ELSE 0
  IN CASE held >= Stable -> Connected(h)
       [] held < Stable /\ h.age >= h.window ->
            ProtocolFailure([h EXCEPT !.timer = "none"])
       [] OTHER -> [h EXCEPT !.since = start]

(* The interval: stability is looked at before the window.  `since' is the *)
(* age at which the carrier was first seen.                                *)
PollCD(leak) ==
  LET cd == CarrierDetected(leak)
      start == IF ~cd THEN 0 ELSE IF h.since = 0 THEN h.age ELSE h.since
      held == IF cd THEN h.age - start ELSE 0
  IN CASE held >= Stable -> Connected([h EXCEPT !.timer = "none"])
       [] held < Stable /\ h.age >= h.window ->
            ProtocolFailure([h EXCEPT !.timer = "none"])
       [] OTHER -> [h EXCEPT !.since = start]

Poll ==
  /\ "timer" \in todo /\ h.timer = "poll"
  /\ todo' = todo \ {"timer"}
  /\ \E leak \in BOOLEAN : h' = PollCD(leak)
  /\ UNCHANGED <<line, silent, over>>

(* The next unit of time.                                                  *)
Tick ==
  /\ h.state # "NEW" /\ todo \ {"timer"} = {}
  /\ "timer" \in todo => h.timer = "none"
  /\ ~(over /\ h.state = "IDLE")
  /\ todo' = {"tx"} \cup (IF line.cut THEN {} ELSE {"rx"})
             \cup (IF h.timer = "none" THEN {} ELSE {"timer"})
  /\ h' = [h EXCEPT !.age = IF h.timer = "none" THEN 0 ELSE @ + 1]
  /\ UNCHANGED <<line, silent, over>>

-----------------------------------------------------------------------------
Step == Start \/ V8Result \/ V8Breaks \/ TxTick \/ RxPacket \/ TrainEnds \/ Poll
        \/ Tick

Next == Step \/ Stop \/ Cut

Spec == Init /\ [][Next]_vars

(* Everything but the end of the call comes with the clock.  A V.22        *)
(* instance that goes on hearing its caller trains (CarrierIsAnswered of   *)
(* V22Startup).                                                            *)
Trains == TxTick /\ h'.connects > h.connects
FairSpec == Spec /\ WF_vars(Step) /\ SF_vars(Trains)

-----------------------------------------------------------------------------
(* An FSK caller who is found by the chain of probes is connected with his *)
(* own protocol, although each of the two gets through the other's filters. *)
ConnectsToCaller ==
  h.state = "DATA" /\ h.chained /\ line.role = "answer" /\ line.caller \in FSK
    => h.proto = line.caller

(* Only the current instance has listeners, and only one that trains has   *)
(* timers.                                                                 *)
OnlyCurrent ==
  /\ h.live \subseteq {h.proto}
  /\ h.timer # "none" => h.state = "TRAINING" /\ h.proto \in FSK

(* A handshake ends once, with one of its two events.                      *)
OneOutcome == h.connects + h.fails <= 1

(* A caller without V.8 who answers his own modulation is connected by the *)
(* chain of probes, unless he was silent for too long, has hung up or can  *)
(* not be heard any more.                                                  *)
CallerIsReached ==
  (h.chained /\ line.willing) ~> (h.state = "DATA" \/ over \/ line.cut)

(* Handshake.js: "generateAudio will drain the queued silence first before *)
(* delegating to the sequencer".                                           *)
SilenceFirst == [][h'.tone /\ ~h.tone => h.queue = 0]_vars

(* config.js, of V21 and Bell103: "FSK — no training needed".              *)
NoTraining == h.timer = "train" => h.queue = 0

(* Handshake.js, of a caller "silently waiting": "We need to probe down    *)
(* through V.22bis -> V.21 -> Bell103".                                    *)
BellIsProbed == over /\ h.chained /\ h.state = "TRAINING" => h.proto = "Bell103"

(* Handshake.js: "emit 'handshake-failed' so the upper layer can hang up / *)
(* retry".                                                                 *)
FailureEndsCall == (h.fails > 0) ~> over

(* config.js, of rtpTimeoutMs: "How long (ms) of silence on RTP before     *)
(* considering the call dead".                                             *)
DeadStreamEndsCall == line.cut ~> over

(* A caller gets his own protocol, from one instance, with one outcome.    *)
HandshakeSafe == TypeOK /\ ConnectsToCaller /\ OnlyCurrent /\ OneOutcome

=============================================================================
