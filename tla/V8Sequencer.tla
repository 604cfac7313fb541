----------------------------- MODULE V8Sequencer ------------------------------
(***************************************************************************)
(* V.8 between an answering and a calling sequencer                        *)
(* (src/dsp/V8Sequencer.js) over a line that damages messages.             *)
(*                                                                         *)
(* Time goes in units of about one message.  In each, both sides generate  *)
(* what they send, and then receive what the other has sent.  The          *)
(* sequencers have no other clock: their timers count received audio.      *)
(* `Foreign' replaces one of them by a modem that sends what it likes.     *)
(***************************************************************************)
EXTENDS Naturals, Sequences, Functions

CONSTANTS
  Protocols,    \* those that can be advertised
  Ansam,        \* answerToneDurationMs
  Wait1s, Te, CiOff, MaxCi, PostSig,   \* WAIT_1S_MS, TE_MS, ...
  CmWait, JmWait,                      \* ..._WAIT_TIMEOUT_MS
  Foreign,      \* the side that is not ours
  Noise         \* the line may damage messages

ConstantsOK ==
  /\ {Ansam, Wait1s, Te, CiOff, MaxCi, PostSig, CmWait, JmWait} \subseteq Nat \ {0}
  /\ Foreign \in {"none", "answer", "originate"} /\ Noise \in BOOLEAN
  /\ Protocols \subseteq {"V22bis", "V22", "V23", "V21", "Bell103"}

VARIABLES
  side,     \* the two sequencers
  air,      \* what each side has sent in this unit
  todo      \* who has not received it

vars == <<side, air, todo>>

Sides == {"answer", "originate"}
Peer(i) == CHOOSE j \in Sides : j # i

(* A message has a bit for each mode; V.22 and V.22bis share theirs.       *)
Preference == <<"V22bis", "V22", "V23", "V21", "Bell103">>
Bit == [V22bis |-> "v22bis", V22 |-> "v22bis", V23 |-> "v23", V21 |-> "v21",
        Bell103 |-> "none"]
Modes == {Bit[p] : p \in Protocols} \ {"none"}

LocalModes(s) == {Bit[p] : p \in s.local} \cap Modes

(* A message, or another sound.  Damaged ones are never alike.             *)
Sound(type, modes) == [type |-> type, modes |-> modes, bad |-> FALSE]
Silence == Sound("silence", {})
None == Sound("none", {})
Sounds == [type : {"none", "silence", "ansam", "ans", "CI", "CM", "CJ"},
           modes : SUBSET Modes, bad : BOOLEAN]

States == {"WAIT_1S", "CI_ON", "CI_OFF", "HEARD_ANSAM", "CM_ON", "CJ_ON", "SIGC",
           "CM_WAIT", "JM_ON", "SIGA", "PARKED"}

(* One of them; `post' is the silence before the first JM, `neg' runs to   *)
(* the timeout, `pend' is a message that may go on, `last' the one before. *)
Sequencer ==
  [state : States, local : SUBSET Protocols, far : SUBSET Modes,
   timer : 0 .. Wait1s + Te + CiOff + PostSig, neg : 0 .. CmWait + JmWait,
   ansam : 0 .. Ansam, post : 0 .. PostSig, ci : 0 .. MaxCi, fsk : BOOLEAN,
   q : Seq(Sounds), pend : Sounds, last : Sounds,
   out : {"none", "result", "failed"}, proto : Range(Preference) \cup {"null"}]

TypeOK ==
  /\ side \in [Sides -> Sequencer]
  /\ air \in [Sides -> Sounds]
  /\ todo \subseteq Sides
  /\ \A i \in Sides : Len(side[i].q) <= 1
  \* Each role keeps to its own states.
  /\ side["answer"].state \in {"CM_WAIT", "JM_ON", "SIGA", "PARKED"}
  /\ side["originate"].state \notin {"CM_WAIT", "JM_ON", "SIGA"}

Blank ==
  [state |-> "PARKED", local |-> {}, far |-> {}, timer |-> 0, neg |-> CmWait,
   ansam |-> 0, post |-> 0, ci |-> 0, fsk |-> FALSE, q |-> <<>>, pend |-> None,
   last |-> None, out |-> "none", proto |-> "null"]

(* Both have been started.                                                 *)
Init ==
  /\ \E a, o \in (SUBSET Protocols) \ {{}} :
       side = [i \in Sides |->
                 IF i = "answer"
                 THEN [Blank EXCEPT !.state = "CM_WAIT", !.ansam = Ansam, !.local = a]
                 ELSE [Blank EXCEPT !.state = "WAIT_1S", !.timer = Wait1s, !.local = o]]
  /\ air = [i \in Sides |-> Silence]
  /\ todo = {}

(* V8.selectProtocol(): the first of the preference that is in the modes.  *)
SelectProtocol(modes) ==
  LET in == {n \in DOMAIN Preference : Bit[Preference[n]] \in modes}
  IN IF in = {} THEN "null"
     ELSE Preference[CHOOSE n \in in : \A k \in in : n <= k]

Park(s, out) == [s EXCEPT !.state = "PARKED", !.out = out]

-----------------------------------------------------------------------------
(* Sending.                                                                *)

(* The engine asks a parked sequencer no more.                             *)
GenerateAudio(s) ==
  CASE s.state = "PARKED" -> <<Silence, s>>
    [] s.state # "PARKED" /\ s.ansam > 0 -> <<Sound("ansam", {}), [s EXCEPT !.ansam = @ - 1]>>
    [] s.state # "PARKED" /\ s.ansam = 0 /\ s.post > 0 -> <<Silence, [s EXCEPT !.post = @ - 1]>>
    [] s.state # "PARKED" /\ s.ansam = 0 /\ s.post = 0 /\ s.fsk /\ s.q # <<>> ->
         <<Head(s.q), [s EXCEPT !.q = Tail(@)]>>
    [] OTHER -> <<Silence, s>>

(* A modem that is not ours sends anything.                                *)
Sends(i) ==
  CASE Foreign # i -> {GenerateAudio(side[i])[1]}
    [] Foreign = i /\ i = "answer" -> {Silence, Sound("ansam", {}), Sound("ans", {})}
    [] Foreign = i /\ i = "originate" ->
         {Silence, Sound("CI", {}), Sound("CJ", {}), Sound("CM", LocalModes(side[i]))}

(* The next unit of time, until both are done.                             *)
Tick ==
  /\ todo = {}
  /\ \E i \in Sides : side[i].state # "PARKED" /\ Foreign # i
  /\ \E a \in Sends("answer"), o \in Sends("originate") :
       air' = [i \in Sides |-> IF i = "answer" THEN a ELSE o]
  /\ side' = [i \in Sides |-> GenerateAudio(side[i])[2]]
  /\ todo' = Sides \ {Foreign}

-----------------------------------------------------------------------------
(* The answering side.                                                     *)

AnswerStartJm(s, far) ==
  LET deal == far \cap LocalModes(s)
  IN [s EXCEPT !.far = deal, !.q = <<Sound("CM", deal)>>, !.neg = JmWait,
               !.ansam = 0, !.post = PostSig, !.fsk = TRUE, !.state = "JM_ON"]

Same(m, n) == m = n /\ ~m.bad

(* Mutant: one is enough.                                                  *)
OnCmReceivedOnce(s, m) == AnswerStartJm(s, m.modes)

(* Two identical messages are needed.                                      *)
OnCmReceived(s, m) ==
  IF Same(m, s.last) THEN AnswerStartJm(s, m.modes) ELSE [s EXCEPT !.last = m]

OnCjReceived(s) ==
  [s EXCEPT !.q = <<>>, !.fsk = FALSE, !.timer = PostSig, !.state = "SIGA",
            !.proto = SelectProtocol(s.far)]

-----------------------------------------------------------------------------
(* The calling side.                                                       *)

OriginateStartCj(s, far) ==
  IF SelectProtocol(far) = "null" THEN Park([s EXCEPT !.far = far], "failed")
  ELSE [s EXCEPT !.far = far, !.q = <<Sound("CJ", {})>>, !.fsk = TRUE,
                 !.proto = SelectProtocol(far), !.state = "CJ_ON", !.timer = 0]

(* Mutant: one is enough.                                                  *)
OnJmReceivedOnce(s, m) == OriginateStartCj(s, m.modes)

OnJmReceived(s, m) ==
  IF Same(m, s.last) THEN OriginateStartCj(s, m.modes) ELSE [s EXCEPT !.last = m]

OriginateStartCm(s) ==
  [s EXCEPT !.q = <<Sound("CM", LocalModes(s))>>, !.fsk = TRUE, !.neg = CmWait,
            !.state = "CM_ON"]

CiBurst(s) ==
  [s EXCEPT !.q = <<Sound("CI", {})>>, !.fsk = TRUE, !.timer = 0, !.state = "CI_ON"]

(* The detector only looks for 2100 Hz, which plain ANS has, too.          *)
DriveOriginateCi(s, heard) ==
  LET t == [s EXCEPT !.timer = IF @ = 0 THEN 0 ELSE @ - 1]
      tone == heard.type \in {"ansam", "ans"}
  IN CASE tone ->
            [s EXCEPT !.fsk = FALSE, !.q = <<>>, !.timer = Te, !.state = "HEARD_ANSAM"]
       [] ~tone /\ t.timer > 0 -> t
       [] ~tone /\ t.timer = 0 /\ s.state = "WAIT_1S" -> CiBurst(t)
       [] ~tone /\ t.timer = 0 /\ s.state = "CI_ON" ->
            IF s.q # <<>> THEN t
            ELSE [t EXCEPT !.fsk = FALSE, !.timer = CiOff, !.state = "CI_OFF"]
       [] OTHER ->
            IF s.ci + 1 >= MaxCi THEN Park([t EXCEPT !.ci = @ + 1], "failed")
            ELSE CiBurst([t EXCEPT !.ci = @ + 1])

-----------------------------------------------------------------------------
(* Receiving.                                                              *)

(* Mutant: nobody looks at the role.                                       *)
HandleParsedMsgAnswers(s, m) ==
  CASE m.type = "CM" -> OnCmReceived(s, m)
    [] m.type = "CJ" /\ s.state = "JM_ON" -> OnCjReceived(s)
    [] OTHER -> s

HandleParsedMsg(s, m) ==
  CASE m.type = "CM" /\ s.state = "CM_WAIT" -> OnCmReceived(s, m)
    [] m.type = "CJ" /\ s.state = "JM_ON" -> OnCjReceived(s)
    [] m.type = "CM" /\ s.state = "CM_ON" -> OnJmReceived(s, m)
    [] OTHER -> s

(* The parser gives a CM or JM away when the next message begins.          *)
Parse(s, heard) ==
  LET done == IF s.pend.type = "CM" THEN HandleParsedMsg(s, s.pend) ELSE s
  IN CASE heard.type = "CM" -> [done EXCEPT !.pend = heard]
       [] heard.type \in {"CI", "CJ"} ->
            [HandleParsedMsg(done, heard) EXCEPT !.pend = None]
       [] OTHER -> s

RxActive(s) == s.state \in {"CM_WAIT", "JM_ON", "CM_ON", "CJ_ON"}

(* Mutant: a JM that is not answered is repeated for ever.                 *)
HandleTimeoutCm(s) ==
  IF s.state \in {"CM_WAIT", "CM_ON"} THEN Park(s, "failed") ELSE s

(* Mutant: the watchdog barks at whatever goes on.                         *)
HandleTimeoutAny(s) ==
  IF s.state # "PARKED" THEN Park(s, "failed") ELSE s

(* Mutant: the watchdog barks when all is over.                            *)
HandleTimeoutParked(s) ==
  IF s.state \in {"CM_WAIT", "JM_ON", "CM_ON", "PARKED"} THEN Park(s, "failed") ELSE s

(* In the other states the block is skipped, no more.                      *)
HandleTimeout(s) ==
  IF s.state \in {"CM_WAIT", "JM_ON", "CM_ON"} THEN Park(s, "failed") ELSE s

(* Mutant: the message is sent once.                                       *)
RefillNever(s, m) == s

Refill(s, m) == [s EXCEPT !.q = IF @ = <<>> THEN <<m>> ELSE @]

(* The queue is topped up; the silence after CJ ends; CM follows the       *)
(* silence after ANSam; CJ is out; or CI goes on.                          *)
Drive(s, heard) ==
  LET t == [s EXCEPT !.timer = IF @ = 0 THEN 0 ELSE @ - 1]
  IN CASE s.state = "JM_ON" -> Refill(s, Sound("CM", s.far))
       [] s.state = "CM_ON" -> Refill(s, Sound("CM", LocalModes(s)))
       [] s.state \in {"SIGA", "SIGC"} ->
            IF t.timer = 0 THEN Park([t EXCEPT !.fsk = FALSE], "result") ELSE t
       [] s.state = "HEARD_ANSAM" -> IF t.timer = 0 THEN OriginateStartCm(t) ELSE t
       [] s.state = "CJ_ON" ->
            IF s.q # <<>> THEN s
            ELSE [s EXCEPT !.fsk = FALSE, !.timer = PostSig, !.state = "SIGC"]
       [] s.state \in {"WAIT_1S", "CI_ON", "CI_OFF"} -> DriveOriginateCi(s, heard)
       [] OTHER -> s

ReceiveAudio(s, heard) ==
  LET p == IF RxActive(s) THEN Parse(s, heard) ELSE s
      n == [p EXCEPT !.neg = IF @ = 0 THEN 0 ELSE @ - 1]
  IN IF p.neg = 1 THEN HandleTimeout(n) ELSE Drive(n, heard)

(* What arrives: a damaged message has lost its bits or gained all others, *)
(* or is not recognized.                                                   *)
Arrives(m) ==
  {m} \cup (IF ~Noise THEN {} ELSE {Silence})
      \cup (IF ~Noise \/ m.type # "CM" THEN {}
            ELSE {[m EXCEPT !.modes = x, !.bad = TRUE] : x \in {{}, Modes}})

Rx(i) ==
  /\ i \in todo /\ todo' = todo \ {i}
  /\ \E heard \in Arrives(air[Peer(i)]) :
       side' = [side EXCEPT ![i] = ReceiveAudio(@, heard)]
  /\ UNCHANGED air

(* stop() of the engine.                                                   *)
Stop(i) ==
  /\ side[i].state # "PARKED"
  /\ side' = [side EXCEPT ![i].state = "PARKED", ![i].ansam = 0]
  /\ UNCHANGED <<air, todo>>

-----------------------------------------------------------------------------
Go == Tick \/ \E i \in Sides : Rx(i)
Next == Go \/ \E i \in Sides : Stop(i)

(* Audio keeps flowing both ways.                                          *)
Spec == Init /\ [][Next]_vars
FairSpec == Spec /\ WF_vars(Go)

Dealt(i) == side[i].out = "result"

(* When both sides have a result, it is the same protocol, whatever the    *)
(* line has done to the messages, and one that both have advertised.       *)
ProtocolsAgree ==
  Dealt("answer") /\ Dealt("originate") =>
    /\ side["answer"].proto = side["originate"].proto
    /\ Bit[side["answer"].proto] \in
         LocalModes(side["answer"]) \cap LocalModes(side["originate"])

(* The calling side does not go on without the answering one having agreed *)
(* to the very protocol.                                                   *)
CallerFollows ==
  side["originate"].state \in {"CJ_ON", "SIGC"} =>
    Bit[side["originate"].proto] \in side["answer"].far

(* A sequencer that is parked tells nothing more.                          *)
ParkedIsFinal ==
  [][\A i \in Sides : side[i].state = "PARKED" => side'[i].out = side[i].out]_vars

(* Every event leaves the sequencer parked, and after CJ there is no       *)
(* failure.                                                                *)
EventsPark ==
  [][\A i \in Sides : side'[i].out # side[i].out =>
       /\ side'[i].state = "PARKED"
       /\ (side[i].state \in {"SIGA", "SIGC", "CJ_ON"}) => side'[i].out = "result"]_vars

(* Every negotiation ends.                                                 *)
Settles == \A i \in Sides : <>(Foreign = i \/ side[i].state = "PARKED")

(* On a line that damages nothing, two that have a mode in common make a   *)
(* deal.                                                                   *)
CleanLineDeals ==
  LocalModes(side["answer"]) \cap LocalModes(side["originate"]) # {} ~>
    \/ Dealt("answer") /\ Dealt("originate")
    \/ \E i \in Sides : side[i].state = "PARKED" /\ side[i].out = "none"

(* V8Sequencer.js: "'result' Negotiation succeeded", "'no-deal'            *)
(* (intersection empty)".                                                  *)
ResultHasProtocol == Dealt("answer") => side["answer"].proto # "null"

(* config.js, of advertiseProtocol: "'V22' - answer side will select V22   *)
(* because we only advertise V22".                                         *)
AdvertisedIsChosen ==
  Dealt("answer") /\ side["originate"].local = {"V22"} => side["answer"].proto = "V22"

(* V8Sequencer.js: "'non-v8' Plain ANS detected (originate side only)".    *)
PlainIsDetected ==
  [][side["originate"].state # "HEARD_ANSAM" /\ side'["originate"].state = "HEARD_ANSAM"
       => air["answer"].type = "ansam"]_vars

(* Two sides that both have a result have agreed on it, neither goes on    *)
(* alone, and each reports once, at its end.                               *)
NegotiationHolds ==
  /\ [](ProtocolsAgree /\ CallerFollows)
  /\ ParkedIsFinal /\ EventsPark

=============================================================================
