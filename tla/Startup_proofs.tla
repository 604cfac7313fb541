---------------------------- MODULE Startup_proofs ----------------------------
(***************************************************************************)
(* What TLAPS proves of how a native call gets its modulation: of the      *)
(* handshake engine, for all durations, callers and configurations, and of *)
(* the start-up of V.22 and V.22bis, for all durations in the order the    *)
(* code has them in.                                                       *)
(***************************************************************************)
EXTENDS MCStartup, TLAPS

Protocols == V22s \cup FSK

(* No protocol has been tried yet.                                         *)
Untried(g) ==
  g.state \in {"NEW", "ANS_SEND", "V8_NEGOTIATE"} =>
    g.live = {} /\ g.timer = "none" /\ ~g.chained /\ ~g.chain

(* Nothing is reported before the engine has come to an end.               *)
Unreported(g) ==
  /\ g.state \in {"NEW", "ANS_SEND", "V8_NEGOTIATE", "TRAINING"} =>
       g.connects = 0 /\ g.fails = 0
  /\ g.connects + g.fails <= 1

(* An instance of the chain listens for its own protocol only.             *)
Listens(g) ==
  g.chained /\ g.state = "TRAINING" =>
    g.chain /\ (line.role = "answer" /\ g.proto \in FSK => g.disc)

(* What was heard came from the caller.                                    *)
HeardHim(g) ==
  /\ g.cd \in {"silence", line.caller}
  /\ g.detected => line.caller = "V22bis"

HasHim(g) ==
  g.state = "DATA" /\ g.chained /\ line.role = "answer" /\ line.caller \in FSK
    => g.proto = line.caller

Current(g) ==
  /\ g.live \subseteq {g.proto}
  /\ g.timer # "none" => g.state = "TRAINING" /\ g.proto \in FSK
  /\ g.state \in {"TRAINING", "DATA"} => g.proto # Null
  /\ g.state = "ANS_SEND" => line.forced # Null

Fit(g) ==
  /\ g \in Engine
  /\ Untried(g) /\ Unreported(g) /\ Listens(g) /\ HeardHim(g) /\ HasHim(g)
  /\ Current(g)

IInv == TypeOK /\ Fit(h)

-----------------------------------------------------------------------------
LEMMA Probes ==
  ASSUME NEW s \in Suffixes, s # <<>>
  PROVE  Tail(s) \in Suffixes /\ Head(s) \in Protocols
<1>1. CASE s = <<"V22bis", "V21", "Bell103">>
  BY <1>1 DEF Suffixes, Protocols, V22s, FSK
<1>2. CASE s = <<"V21", "Bell103">>
  BY <1>2 DEF Suffixes, Protocols, V22s, FSK
<1>3. CASE s = <<"Bell103">>
  BY <1>3 DEF Suffixes, Protocols, V22s, FSK
<1> QED
  BY <1>1, <1>2, <1>3 DEF Suffixes, Chain

LEMMA Durations ==
  /\ Training \in Nat
  /\ \A p : WindowOf(p) \in Nat
  /\ WindowBell103 \in Nat
  /\ V8Time \in Nat \ {0} /\ V22Time \in Nat \ {0} /\ Stable \in Nat \ {0}
  /\ SilentMax \in Nat \ {0} /\ AnswerDelay \in Nat /\ AnsQueue \in Nat
BY HandshakeAssumption DEF Training, WindowOf

LEMMA ArmedIs ==
  ASSUME NEW g \in Engine, NEW w \in Nat, NEW d \in BOOLEAN
  PROVE  LET r == Armed(g, w, d)
         IN /\ r \in Engine /\ r.timer = "train" /\ r.disc = d
            /\ \A f \in {"state", "proto", "live", "chain", "chained", "cd",
                        "detected", "connects", "fails"} : r[f] = g[f]
<1>1. PICK q \in Nat : q = g.queue + Training
  BY Durations DEF Engine
<1>2. Armed(g, w, d) = [g EXCEPT !.timer = "train", !.age = 0, !.since = 0,
                                 !.window = w, !.queue = q, !.disc = d]
  BY <1>1 DEF Armed
<1> SUFFICES ASSUME NEW r, r = [g EXCEPT !.timer = "train", !.age = 0,
                                !.since = 0, !.window = w, !.queue = q, !.disc = d]
             PROVE  /\ r \in Engine /\ r.timer = "train" /\ r.disc = d
                    /\ \A f \in {"state", "proto", "live", "chain", "chained",
                                "cd", "detected", "connects", "fails"} :
                         r[f] = g[f]
  BY <1>2
<1>3. r \in Engine
  BY DEF Engine
<1>4. /\ r.timer = "train" /\ r.disc = d
      /\ \A f \in {"state", "proto", "live", "chain", "chained", "cd",
                  "detected", "connects", "fails"} : r[f] = g[f]
  BY DEF Engine
<1> QED
  BY <1>3, <1>4

LEMMA ConnectedType ==
  ASSUME NEW g \in Engine
  PROVE  Connected(g) \in Engine
<1>1. <<>> \in Suffixes /\ Once(g.connects) \in 0 .. 2 /\ "DATA" \in States
  BY DEF Suffixes, Once, States
<1>2. PICK p \in Suffixes, n \in 0 .. 2, s \in States :
        p = <<>> /\ n = Once(g.connects) /\ s = "DATA"
  BY <1>1
<1>3. Connected(g) = [g EXCEPT !.state = s, !.chain = FALSE, !.probes = p,
                               !.connects = n]
  BY <1>2 DEF Connected
<1> SUFFICES ASSUME NEW r, r = [g EXCEPT !.state = s, !.chain = FALSE,
                                !.probes = p, !.connects = n]
             PROVE  r \in Engine
  BY <1>3
<1> QED
  BY DEF Engine

(* A new instance of a protocol, in the place of none.                     *)
LEMMA SelectFits ==
  ASSUME NEW g \in Engine, NEW p \in Protocols, NEW w \in Nat,
         g.live = {}, g.connects = 0, g.fails = 0, g.chained => g.chain,
         g.timer = "none"
  PROVE  Fit(SelectProtocol(g, p, w))
<1> DEFINE i == [g EXCEPT !.proto = p, !.live = @ \cup {p}, !.state = "TRAINING",
                          !.detected = FALSE, !.ran = 0, !.cd = "silence"]
<1>1. i \in Engine
  BY DEF Engine, States, Protocols
<1>2. /\ i.proto = p /\ i.live = {p} /\ i.state = "TRAINING"
      /\ i.cd = "silence" /\ i.connects = 0 /\ i.fails = 0
      /\ i.chain = g.chain /\ i.chained = g.chained /\ i.timer = "none"
      /\ ~i.detected
  BY DEF Engine
<1> HIDE DEF i
<1> SUFFICES ASSUME NEW r, r = SelectProtocol(g, p, w)
             PROVE  Fit(r)
  OBVIOUS
<1>3. /\ r \in Engine /\ r.proto = p /\ r.live = {p} /\ r.state = "TRAINING"
      /\ r.cd = "silence" /\ r.connects = 0 /\ r.fails = 0 /\ ~r.detected
      /\ r.chain = i.chain /\ r.chained = i.chained
      /\ r.timer # "none" => p \in FSK
      /\ p \in FSK => r.disc = Discriminates(g)
  <2>1. CASE p \in V22s
    <3>1. r = [i EXCEPT !.timer = "none", !.disc = FALSE]
      BY <2>1 DEF SelectProtocol, i
    <3>2. p \notin FSK
      BY <2>1 DEF V22s, FSK
    <3> QED
      BY <1>1, <1>2, <3>1, <3>2, ZenonT(30) DEF Engine
  <2>2. CASE p \notin V22s
    <3>1. r = Armed(i, w, Discriminates(g))
      BY <2>2 DEF SelectProtocol, i
    <3>2. p \in FSK /\ Discriminates(g) \in BOOLEAN
      BY <2>2 DEF Protocols, Discriminates
    <3> QED
      BY <1>1, <1>2, <3>1, <3>2, ArmedIs
  <2> QED
    BY <2>1, <2>2
<1>4. Listens(r)
  BY <1>2, <1>3 DEF Listens, Discriminates
<1>5. p # Null
  BY DEF Protocols, V22s, FSK, Null
<1> QED
  BY <1>3, <1>4, <1>5
     DEF Fit, Untried, Unreported, HeardHim, HasHim, Current, FSK

LEMMA AdvanceFits ==
  ASSUME NEW g \in Engine, g.probes # <<>>, g.live \subseteq {g.proto},
         g.connects = 0, g.fails = 0, g.chain
  PROVE  Fit(AdvanceProbe(g))
<1> DEFINE i == [g EXCEPT !.live = @ \ {g.proto}, !.timer = "none",
                          !.probes = Tail(@)]
           p == Head(g.probes)
<1>1. Tail(g.probes) \in Suffixes /\ p \in Protocols
  BY Probes DEF Engine
<1>2. i \in Engine
  BY <1>1 DEF Engine
<1>3. /\ i.live = {} /\ i.connects = 0 /\ i.fails = 0 /\ i.chain
      /\ i.timer = "none"
  BY DEF Engine
<1>4. AdvanceProbe(g) = SelectProtocol(i, p, WindowOf(p))
  BY DEF AdvanceProbe
<1> HIDE DEF i, p
<1> QED
  BY <1>1, <1>2, <1>3, <1>4, Durations, SelectFits

LEMMA ChainFits ==
  ASSUME NEW g \in Engine, g.live = {}, g.connects = 0, g.fails = 0
  PROVE  Fit(StartChain(g))
<1> DEFINE i == [g EXCEPT !.chain = TRUE, !.chained = TRUE, !.probes = Chain]
<1>1. Chain \in Suffixes /\ Chain # <<>>
  BY DEF Chain, Suffixes
<1>2. i \in Engine
  BY <1>1 DEF Engine
<1>3. /\ i.live = {} /\ i.connects = 0 /\ i.fails = 0 /\ i.chain
      /\ i.probes = Chain
  BY DEF Engine
<1>4. StartChain(g) = AdvanceProbe(i)
  BY DEF StartChain
<1> HIDE DEF i
<1> QED
  BY <1>1, <1>2, <1>3, <1>4, AdvanceFits

(* A failure leads to the next probe, or is the end.                       *)
LEMMA FailureFits ==
  ASSUME NEW g, Fit(g), g.state = "TRAINING", g.timer = "none"
  PROVE  Fit(ProtocolFailure(g))
<1>0. /\ g \in Engine /\ g.live \subseteq {g.proto} /\ g.connects = 0
      /\ g.fails = 0 /\ HeardHim(g)
  BY DEF Fit, Unreported, Current
<1>1. CASE g.chain /\ g.probes # <<>>
  <2>1. ProtocolFailure(g) = AdvanceProbe(g)
    BY <1>1 DEF ProtocolFailure
  <2> QED
    BY <1>0, <1>1, <2>1, AdvanceFits
<1>2. ASSUME NEW s \in {"FAILED", "IDLE"}
      PROVE  Fit([g EXCEPT !.fails = Once(@), !.state = s])
  <2> SUFFICES ASSUME NEW r, r = [g EXCEPT !.fails = Once(@), !.state = s]
               PROVE  Fit(r)
    OBVIOUS
  <2>1. Once(g.fails) = 1
    BY <1>0 DEF Once
  <2>2. r \in Engine
    <3>1. r = [g EXCEPT !.fails = 1, !.state = s]
      BY <2>1
    <3>2. s \in States
      BY DEF States
    <3>3. ASSUME NEW n \in 0 .. 2, r = [g EXCEPT !.fails = n, !.state = s]
          PROVE  r \in Engine
      BY <1>0, <3>2, <3>3 DEF Engine
    <3> QED
      BY <3>1, <3>3
  <2>3. /\ r.state = s /\ r.fails = 1 /\ r.connects = 0 /\ r.live = g.live
        /\ r.proto = g.proto /\ r.timer = "none" /\ r.cd = g.cd
    BY <1>0, <2>1 DEF Engine
  <2>4. r.detected = g.detected
    BY <1>0 DEF Engine
  <2> QED
    BY <1>0, <2>2, <2>3, <2>4
       DEF Fit, Untried, Unreported, Listens, HeardHim, HasHim, Current
<1>3. CASE ~(g.chain /\ g.probes # <<>>)
  <2>1. \E s \in {"FAILED", "IDLE"} :
          ProtocolFailure(g) = [g EXCEPT !.fails = Once(@), !.state = s]
    BY <1>3 DEF ProtocolFailure
  <2> QED
    BY <1>2, <2>1
<1> QED
  BY <1>1, <1>3

(* A caller who is connected has been found in his own protocol.           *)
LEMMA ConnectedFits ==
  ASSUME NEW g, Fit(g), g.state = "TRAINING", g.timer = "none",
         g.chained /\ line.role = "answer" /\ line.caller \in FSK =>
           g.proto = line.caller
  PROVE  Fit(Connected(g))
<1>0. /\ g \in Engine /\ g.live \subseteq {g.proto} /\ g.connects = 0
      /\ g.fails = 0 /\ HeardHim(g) /\ g.proto # Null
  BY DEF Fit, Unreported, Current
<1> SUFFICES ASSUME NEW r, r = Connected(g)
             PROVE  Fit(r)
  OBVIOUS
<1>1. Once(g.connects) = 1 /\ <<>> \in Suffixes
  BY <1>0 DEF Once, Suffixes
<1>2. r \in Engine
  BY <1>0, ConnectedType
<1>3. /\ r.state = "DATA" /\ r.fails = 0 /\ r.connects = 1 /\ r.live = g.live
      /\ r.proto = g.proto /\ r.timer = "none" /\ r.cd = g.cd
  BY <1>0, <1>1 DEF Connected, Engine
<1>4. r.detected = g.detected /\ r.chained = g.chained
  BY <1>0 DEF Connected, Engine
<1> QED
  BY <1>0, <1>2, <1>3, <1>4
     DEF Fit, Untried, Unreported, Listens, HeardHim, HasHim, Current

(* Nothing but the clocks, the queue and what is heard has changed.        *)
LEMMA QuietFits ==
  ASSUME NEW g, Fit(g), NEW r \in Engine,
         \A f \in {"state", "proto", "live", "chain", "chained", "disc",
                   "connects", "fails"} : r[f] = g[f],
         r.timer \in {g.timer, "none"} \/ (g.timer = "train" /\ r.timer = "poll"),
         HeardHim(r)
  PROVE  Fit(r)
<1>1. /\ r.state = g.state /\ r.proto = g.proto /\ r.live = g.live
      /\ r.connects = g.connects /\ r.fails = g.fails
  OBVIOUS
<1>2. r.chain = g.chain /\ r.chained = g.chained /\ r.disc = g.disc
  OBVIOUS
<1> QED
  BY <1>1, <1>2 DEF Fit, Untried, Unreported, Listens, HasHim, Current

-----------------------------------------------------------------------------
LEMMA InitIInv == Init => IInv
<1> SUFFICES ASSUME Init PROVE IInv
  OBVIOUS
<1>1. <<>> \in Suffixes /\ 0 \in 0 .. V8Time /\ 0 \in 0 .. SilentMax - 1
  BY Durations DEF Suffixes
<1>2. h \in Engine
  BY <1>1 DEF Init, Engine, States
<1>3. TypeOK
  BY <1>1, <1>2 DEF Init, TypeOK
<1> QED
  BY <1>2, <1>3
     DEF Init, IInv, Fit, Untried, Unreported, Listens, HeardHim, HasHim, Current

LEMMA LineType ==
  ASSUME TypeOK
  PROVE  /\ line.caller \in {"V22bis", "V21", "Bell103"}
         /\ line.caller \in Callers /\ line.caller \in Protocols
         /\ line.forced \in Protocols \cup {Null}
BY HandshakeAssumption DEF TypeOK, Protocols, V22s, FSK

LEMMA StartFits ==
  ASSUME IInv, Start
  PROVE  Fit(h')
<1>0. /\ h \in Engine /\ h.state = "NEW" /\ h.live = {} /\ h.timer = "none"
      /\ ~h.chained /\ ~h.chain /\ h.connects = 0 /\ h.fails = 0 /\ HeardHim(h)
  BY DEF IInv, Start, Fit, Untried, Unreported
<1>1. CASE line.skip
  BY <1>0, <1>1, ChainFits DEF Start
<1>2. CASE ~line.skip /\ line.forced # Null /\ line.role = "originate"
  <2>1. h' = SelectProtocol(h, line.forced, WindowBell103)
    BY <1>2 DEF Start
  <2>2. line.forced \in Protocols
    BY <1>2, LineType DEF IInv
  <2> QED
    BY <1>0, <2>1, <2>2, Durations, SelectFits
<1>3. ASSUME NEW s \in {"ANS_SEND", "V8_NEGOTIATE"}, NEW n \in Nat,
             s = "ANS_SEND" => line.forced # Null,
             h' = [h EXCEPT !.state = s, !.queue = n]
      PROVE  Fit(h')
  <2>1. h' \in Engine
    BY <1>0, <1>3 DEF Engine, States
  <2>2. /\ h'.state = s /\ h'.live = {} /\ h'.timer = "none" /\ ~h'.chained
        /\ ~h'.chain /\ h'.connects = 0 /\ h'.fails = 0 /\ h'.cd = h.cd
        /\ h'.detected = h.detected
    BY <1>0, <1>3 DEF Engine
  <2> QED
    BY <1>0, <1>3, <2>1, <2>2
       DEF Fit, Untried, Unreported, Listens, HeardHim, HasHim, Current
<1>4. CASE ~line.skip /\ line.forced # Null /\ line.role = "answer"
  <2>1. h' = [h EXCEPT !.state = "ANS_SEND", !.queue = AnsQueue]
    BY <1>4 DEF Start
  <2> QED
    BY <1>3, <1>4, <2>1, Durations
<1>5. CASE ~line.skip /\ line.forced = Null
  <2>1. h' = [h EXCEPT !.state = "V8_NEGOTIATE",
                       !.queue = IF line.role = "answer" THEN AnswerDelay ELSE 0]
    BY <1>5 DEF Start
  <2> QED
    BY <1>3, <2>1, Durations
<1>6. line.role \in {"answer", "originate"}
  BY HandshakeAssumption DEF IInv, TypeOK
<1> QED
  BY <1>1, <1>2, <1>4, <1>5, <1>6

LEMMA StopFits ==
  ASSUME IInv, Stop
  PROVE  Fit(h')
<1>0. h \in Engine /\ Fit(h)
  BY DEF IInv, TypeOK
<1>1. h' = [h EXCEPT !.state = "IDLE", !.live = @ \ {h.proto}, !.proto = Null,
                     !.timer = "none"]
  BY DEF Stop
<1>2. h' \in Engine
  BY <1>0, <1>1 DEF Engine, States
<1>3. /\ h'.state = "IDLE" /\ h'.live = h.live \ {h.proto} /\ h'.timer = "none"
      /\ h'.connects = h.connects /\ h'.fails = h.fails /\ h'.cd = h.cd
      /\ h'.detected = h.detected
  BY <1>0, <1>1 DEF Engine
<1> QED
  BY <1>0, <1>2, <1>3
     DEF Fit, Untried, Unreported, Listens, HeardHim, HasHim, Current

LEMMA V8Fits ==
  ASSUME IInv, V8Result \/ V8Breaks
  PROVE  Fit(h')
<1>0. /\ h \in Engine /\ h.live = {} /\ h.timer = "none" /\ ~h.chained
      /\ h.connects = 0 /\ h.fails = 0
  BY DEF IInv, V8Result, V8Breaks, V8Hears, Fit, Untried, Unreported
<1>1. PICK p \in Protocols : h' = SelectProtocol(h, p, WindowBell103)
  BY LineType DEF V8Result, V8Breaks, Fallback, IInv, Protocols, FSK
<1> QED
  BY <1>0, <1>1, Durations, SelectFits

LEMMA TxTickFits ==
  ASSUME IInv, TxTick
  PROVE  Fit(h')
<1>0. h \in Engine /\ Fit(h)
  BY DEF IInv, TypeOK
<1>1. PICK trained \in BOOLEAN : h' = GenerateAudio(trained)
  BY DEF TxTick
<1> DEFINE q == IF h.queue = 0 THEN 0 ELSE h.queue - 1
<1>q. q \in Nat
  BY <1>0 DEF Engine
<1>2. CASE h.state = "V8_NEGOTIATE"
  <2>1. h' = [h EXCEPT !.queue = q, !.tone = TRUE]
    BY <1>0, <1>1, <1>2 DEF GenerateAudio, Drained, Engine
  <2> HIDE DEF q
  <2>2. h' \in Engine
    BY <1>0, <1>q, <2>1 DEF Engine
  <2>3. /\ \A f \in {"state", "proto", "live", "chain", "chained", "disc",
                     "connects", "fails"} : h'[f] = h[f]
        /\ h'.timer = h.timer /\ h'.cd = h.cd /\ h'.detected = h.detected
    BY <1>0, <2>1 DEF Engine
  <2> QED
    BY <1>0, <2>2, <2>3, QuietFits DEF Fit, HeardHim
<1>3. CASE h.state = "ANS_SEND" /\ h.queue = 0
  <2>1. h' = SelectProtocol(h, line.forced, WindowBell103)
    BY <1>1, <1>3 DEF GenerateAudio
  <2>2. /\ line.forced \in Protocols /\ h.live = {} /\ h.timer = "none"
        /\ ~h.chained /\ h.connects = 0 /\ h.fails = 0
    BY <1>0, <1>3, LineType DEF IInv, Fit, Current, Untried, Unreported
  <2> QED
    BY <1>0, <2>1, <2>2, Durations, SelectFits
<1>4. CASE h.state = "TRAINING" /\ h.queue = 0 /\ h.proto \in V22s
  <2> DEFINE i == [h EXCEPT !.ran = IF @ < V22Time THEN @ + 1 ELSE @]
  <2>1. h' = V22Plays(h, trained)
    BY <1>1, <1>4 DEF GenerateAudio
  <2>2. i \in Engine
    <3>1. (IF h.ran < V22Time THEN h.ran + 1 ELSE h.ran) \in Nat
      BY <1>0 DEF Engine
    <3> QED
      BY <1>0, <3>1 DEF Engine
  <2>3. /\ \A f \in {"state", "proto", "live", "chain", "chained", "disc",
                     "connects", "fails"} : i[f] = h[f]
        /\ i.timer = h.timer /\ i.cd = h.cd /\ i.detected = h.detected
    BY <1>0 DEF Engine
  <2>4. \/ h' = ProtocolFailure(i)
        \/ h.detected /\ h' = Connected(i)
        \/ h' = i
    BY <2>1 DEF V22Plays
  <2> HIDE DEF i
  <2>5. Fit(i)
    BY <1>0, <2>2, <2>3, QuietFits DEF Fit, HeardHim
  <2>6. i.state = "TRAINING" /\ i.timer = "none"
    BY <1>0, <1>4, <2>3 DEF Fit, Current, V22s, FSK
  <2>7. h.detected => line.caller \notin FSK
    BY <1>0 DEF Fit, HeardHim, FSK
  <2> QED
    BY <2>4, <2>5, <2>6, <2>7, FailureFits, ConnectedFits
<1>5. CASE ~ \/ h.state = "V8_NEGOTIATE"
             \/ h.state = "ANS_SEND" /\ h.queue = 0
             \/ h.state = "TRAINING" /\ h.queue = 0 /\ h.proto \in V22s
  <2>1. h' = [h EXCEPT !.queue = q]
    BY <1>1, <1>5 DEF GenerateAudio, Drained
  <2> HIDE DEF q
  <2>2. h' \in Engine
    BY <1>0, <1>q, <2>1 DEF Engine
  <2>3. /\ \A f \in {"state", "proto", "live", "chain", "chained", "disc",
                     "connects", "fails"} : h'[f] = h[f]
        /\ h'.timer = h.timer /\ h'.cd = h.cd /\ h'.detected = h.detected
    BY <1>0, <2>1 DEF Engine
  <2> QED
    BY <1>0, <2>2, <2>3, QuietFits DEF Fit, HeardHim
<1> QED
  BY <1>2, <1>3, <1>4, <1>5

LEMMA RxPacketFits ==
  ASSUME IInv, RxPacket
  PROVE  Fit(h')
<1>0. h \in Engine /\ Fit(h)
  BY DEF IInv, TypeOK
<1>1. PICK sound \in Sounds : h' = ReceiveAudio(sound)
  BY DEF RxPacket
<1>s. sound \in {"silence", line.caller} /\ sound \in {"silence"} \cup Callers
  BY <1>1, LineType DEF Sounds, IInv
<1>2. CASE h.state = "V8_NEGOTIATE"
  <2>1. CASE h.v8 + 1 >= V8Time
    <3>1. h' = StartChain(h)
      BY <1>1, <1>2, <2>1 DEF ReceiveAudio
    <3>2. h.live = {} /\ h.connects = 0 /\ h.fails = 0
      BY <1>0, <1>2 DEF Fit, Untried, Unreported
    <3> QED
      BY <1>0, <3>1, <3>2, ChainFits
  <2>2. CASE ~(h.v8 + 1 >= V8Time)
    <3>1. h' = [h EXCEPT !.v8 = @ + 1]
      BY <1>1, <1>2, <2>2 DEF ReceiveAudio
    <3>2. h.v8 + 1 \in 0 .. V8Time
      BY <1>0, <2>2, Durations DEF Engine
    <3>3. h' \in Engine
      BY <1>0, <3>1, <3>2 DEF Engine
    <3>4. /\ \A f \in {"state", "proto", "live", "chain", "chained", "disc",
                       "connects", "fails"} : h'[f] = h[f]
          /\ h'.timer = h.timer /\ h'.cd = h.cd /\ h'.detected = h.detected
      BY <1>0, <3>1 DEF Engine
    <3> QED
      BY <1>0, <3>3, <3>4, QuietFits DEF Fit, HeardHim
  <2> QED
    BY <2>1, <2>2
<1>3. CASE h.state \in {"TRAINING", "DATA"}
  <2> DEFINE d == h.detected \/ (h.proto \in V22s /\ sound = "V22bis")
  <2>1. h' = [h EXCEPT !.cd = sound, !.detected = d]
    BY <1>1, <1>3 DEF ReceiveAudio
  <2>2. d \in BOOLEAN /\ (d => line.caller = "V22bis")
    BY <1>0, <1>s DEF Fit, HeardHim, Engine
  <2> HIDE DEF d
  <2>3. h' \in Engine
    BY <1>0, <1>s, <2>1, <2>2 DEF Engine
  <2>4. /\ \A f \in {"state", "proto", "live", "chain", "chained", "disc",
                     "connects", "fails"} : h'[f] = h[f]
        /\ h'.timer = h.timer /\ h'.cd = sound
    BY <1>0, <2>1 DEF Engine
  <2>5. h'.detected = d
    BY <1>0, <2>1, <2>2 DEF Engine
  <2>6. HeardHim(h')
    BY <1>s, <2>2, <2>4, <2>5 DEF HeardHim
  <2> QED
    BY <1>0, <2>3, <2>4, <2>6, QuietFits
<1>4. CASE h.state \notin {"V8_NEGOTIATE", "TRAINING", "DATA"}
  BY <1>0, <1>1, <1>4 DEF ReceiveAudio
<1> QED
  BY <1>2, <1>3, <1>4

LEMMA TrainEndsFits ==
  ASSUME IInv, TrainEnds
  PROVE  Fit(h')
<1>0. h \in Engine /\ Fit(h) /\ h.timer = "train"
  BY DEF IInv, TypeOK, TrainEnds
<1>1. CASE h' = h
  BY <1>0, <1>1
<1>2. CASE h' = [h EXCEPT !.timer = "poll", !.age = 0, !.since = 0]
  <2>1. h' \in Engine
    BY <1>0, <1>2 DEF Engine
  <2>2. /\ \A f \in {"state", "proto", "live", "chain", "chained", "disc",
                     "connects", "fails"} : h'[f] = h[f]
        /\ h'.timer = "poll" /\ h'.cd = h.cd /\ h'.detected = h.detected
    BY <1>0, <1>2 DEF Engine
  <2> QED
    BY <1>0, <2>1, <2>2, QuietFits DEF Fit, HeardHim
<1> QED
  BY <1>1, <1>2 DEF TrainEnds

(* Neither filter of the chain lets a caller through who has the other     *)
(* modulation.                                                             *)
LEMMA PollFits ==
  ASSUME IInv, Poll
  PROVE  Fit(h')
<1>0. h \in Engine /\ Fit(h) /\ h.timer = "poll"
  BY DEF IInv, TypeOK, Poll
<1>t. h.state = "TRAINING" /\ h.proto \in FSK /\ h.age \in Nat /\ h.since \in Nat
  BY <1>0 DEF Fit, Current, Engine
<1>1. PICK leak \in BOOLEAN : h' = PollCD(leak)
  BY DEF Poll
<1> DEFINE i == [h EXCEPT !.timer = "none"]
           cd == CarrierDetected(leak)
           start == IF ~cd THEN 0 ELSE IF h.since = 0 THEN h.age ELSE h.since
           held == IF cd THEN h.age - start ELSE 0
<1>2. /\ i \in Engine
      /\ \A f \in {"state", "proto", "live", "chain", "chained", "disc",
                   "connects", "fails"} : i[f] = h[f]
      /\ i.timer = "none" /\ i.cd = h.cd /\ i.detected = h.detected
  BY <1>0 DEF Engine
<1>3. \/ held >= Stable /\ h' = Connected(i)
      \/ h' = ProtocolFailure(i)
      \/ h' = [h EXCEPT !.since = start]
  BY <1>1 DEF PollCD
<1>4. start \in Nat /\ (held >= Stable => cd)
  BY <1>t, Durations
<1>5. cd /\ h.chained /\ line.role = "answer" /\ line.caller \in FSK =>
        h.proto = line.caller
  BY <1>0, <1>t DEF CarrierDetected, Fit, Listens, HeardHim, FSK, V22s
<1> HIDE DEF i, cd, start, held
<1>6. Fit(i) /\ i.state = "TRAINING"
  BY <1>0, <1>t, <1>2, QuietFits DEF Fit, HeardHim
<1>7. CASE held >= Stable /\ h' = Connected(i)
  BY <1>2, <1>4, <1>5, <1>6, <1>7, ConnectedFits
<1>8. CASE h' = ProtocolFailure(i)
  BY <1>2, <1>6, <1>8, FailureFits
<1>9. CASE h' = [h EXCEPT !.since = start]
  <2>1. h' \in Engine
    BY <1>0, <1>4, <1>9 DEF Engine
  <2>2. /\ \A f \in {"state", "proto", "live", "chain", "chained", "disc",
                     "connects", "fails"} : h'[f] = h[f]
        /\ h'.timer = h.timer /\ h'.cd = h.cd /\ h'.detected = h.detected
    BY <1>0, <1>9 DEF Engine
  <2> QED
    BY <1>0, <2>1, <2>2, QuietFits DEF Fit, HeardHim
<1> QED
  BY <1>3, <1>7, <1>8, <1>9

LEMMA TickFits ==
  ASSUME IInv, Tick
  PROVE  Fit(h')
<1>0. h \in Engine /\ Fit(h)
  BY DEF IInv, TypeOK
<1>1. PICK n \in Nat : h' = [h EXCEPT !.age = n]
  <2>1. (IF h.timer = "none" THEN 0 ELSE h.age + 1) \in Nat
    BY <1>0 DEF Engine
  <2>2. h' = [h EXCEPT !.age = IF h.timer = "none" THEN 0 ELSE h.age + 1]
    BY DEF Tick
  <2> QED
    BY <2>1, <2>2
<1>2. h' \in Engine
  BY <1>0, <1>1 DEF Engine
<1>3. /\ \A f \in {"state", "proto", "live", "chain", "chained", "disc",
                   "connects", "fails"} : h'[f] = h[f]
      /\ h'.timer = h.timer /\ h'.cd = h.cd /\ h'.detected = h.detected
  BY <1>0, <1>1 DEF Engine
<1> QED
  BY <1>0, <1>2, <1>3, QuietFits DEF Fit, HeardHim

-----------------------------------------------------------------------------
(* Fit depends on the line by its role, its caller and the forced protocol *)
(* only.                                                                   *)
LEMMA SameLine ==
  ASSUME Fit(h'), line'.role = line.role, line'.caller = line.caller,
         line'.forced = line.forced
  PROVE  Fit(h)'
BY DEF Fit, Untried, Unreported, Listens, HeardHim, HasHim, Current

LEMMA OthersType ==
  ASSUME IInv, Next, h' \in Engine,
         h'.state \in {"TRAINING", "DATA"} => h'.proto # Null
  PROVE  TypeOK' /\ line'.role = line.role /\ line'.caller = line.caller
         /\ line'.forced = line.forced
<1>1. /\ line' \in [role : Roles, forced : Forceds, skip : SkipV8,
                    caller : Callers, v8 : BOOLEAN, willing : BOOLEAN,
                    cut : BOOLEAN]
      /\ line'.role = line.role /\ line'.caller = line.caller
      /\ line'.forced = line.forced
  BY DEF IInv, TypeOK, Next, Step, Start, V8Result, V8Breaks, V8Hears, TxTick,
         RxPacket, TrainEnds, Poll, Tick, Stop, Cut
<1>2. silent' \in 0 .. SilentMax - 1
  BY Durations
     DEF IInv, TypeOK, Next, Step, Start, V8Result, V8Breaks, V8Hears, TxTick,
         RxPacket, TrainEnds, Poll, Tick, Stop, Cut
<1>3. over' \in BOOLEAN
  BY DEF IInv, TypeOK, Next, Step, Start, V8Result, V8Breaks, V8Hears, TxTick,
         RxPacket, TrainEnds, Poll, Tick, Stop, Cut
<1>4. todo' \subseteq {"rx", "tx", "timer"}
  BY DEF IInv, TypeOK, Next, Step, Start, V8Result, V8Breaks, V8Hears, TxTick,
         RxPacket, TrainEnds, Poll, Tick, Stop, Cut
<1> QED
  BY <1>1, <1>2, <1>3, <1>4 DEF TypeOK

LEMMA NextIInv ==
  ASSUME IInv, [Next]_vars
  PROVE  IInv'
<1>1. CASE UNCHANGED vars
  BY <1>1 DEF vars, IInv, TypeOK, Fit, Untried, Unreported, Listens, HeardHim,
              HasHim, Current
<1>2. CASE Next
  <2>1. Cut => Fit(h')
    BY DEF Cut, IInv
  <2>2. Fit(h')
    BY <1>2, <2>1, StartFits, StopFits, V8Fits, TxTickFits, RxPacketFits,
       TrainEndsFits, PollFits, TickFits DEF Next, Step
  <2>3. h' \in Engine /\ (h'.state \in {"TRAINING", "DATA"} => h'.proto # Null)
    BY <2>2 DEF Fit, Current
  <2> QED
    BY <1>2, <2>2, <2>3, OthersType, SameLine DEF IInv
<1> QED
  BY <1>1, <1>2

(* For all callers, windows and durations: the chain of probes connects an *)
(* FSK caller with his own protocol, from the only instance that still     *)
(* listens, and the engine reports once.                                   *)
THEOREM HandshakeSafeHolds == Spec => []HandshakeSafe
<1>1. Init => IInv
  BY InitIInv
<1>2. IInv /\ [Next]_vars => IInv'
  BY NextIInv
<1>3. IInv => HandshakeSafe
  BY DEF IInv, Fit, HandshakeSafe, ConnectsToCaller, HasHim, OnlyCurrent, Current,
         OneOutcome, Unreported
<1> QED
  BY <1>1, <1>2, <1>3, PTL DEF Spec

-----------------------------------------------------------------------------
(* The start-up of V.22 and V.22bis.                                       *)

(* The classes have phases of their own, and only the last one is          *)
(* reported.                                                               *)
PhaseOfKind ==
  /\ kind = "V22" => phase \in {"init", "usb1", "sb1", "data"}
  /\ kind = "V22bis" => phase \notin {"usb1", "sb1"}
  /\ ready # "none" => phase = "data"
  /\ phase = "data" => ready # "none"
  /\ phase = "silence" => inPhase < Silence

(* 2400 bit/s is settled only with a caller who has been heard, and whoever *)
(* has been heard is connected.                                            *)
FastIsHeard == bps = 2400 => detected /\ ready # "failed"

Sliced(r) ==
  /\ r.sixteen => r.rate = 2400
  /\ r.stage = "wait" => r.sixteen

(* Blocks that may have been heard so far.                                 *)
BlocksHeard ==
  (IF phase = "init" THEN 0 ELSE inPhase + 1) + (IF turn = "tx" THEN 1 ELSE 0)

(* The receiver cannot have finished before the answerer waits for it.     *)
ReceiverIsEarly ==
  phase \in {"init", "silence"} /\ ~rx.sixteen =>
    rx.stage \in {"acquisition", "scrambled"} /\ rx.count <= BlocksHeard

(* So when the rate is settled, a receiver in normal operation has the     *)
(* slicer of its rate ...                                                  *)
RateUnsettled(r) ==
  /\ r.stage = "normal" => r.sixteen
  /\ r.stage = "sustaining" => r.rate = 1200
BeforeRate == phase \in {"init", "silence", "u11"} => RateUnsettled(rx)

(* ... and keeps it, or starts over.                                       *)
RateSettled(r, b) ==
  /\ r.rate = b
  /\ b = 1200 => r.stage = "normal"
  /\ b = 2400 => r.stage # "sustaining" /\ (r.stage = "normal" => r.sixteen)
AfterRate ==
  kind = "V22bis" /\ phase \notin {"init", "silence", "u11"}
    /\ ready # "failed" /\ ~restarted => RateSettled(rx, bps)

V22Inv ==
  /\ V22!TypeOK
  /\ V22!SilenceIsGivenUp
  /\ PhaseOfKind
  /\ FastIsHeard
  /\ Sliced(rx)
  /\ ReceiverIsEarly
  /\ BeforeRate
  /\ AfterRate

-----------------------------------------------------------------------------
(* What the receiver makes of a block: of q it makes r.                    *)

Slow(q, r) == q.rate = 1200 => r.rate = 1200

(* Without the sixteen-way slicer it has trained for another block.        *)
Retrains(q, r) ==
  \/ r = V22!Fresh
  \/ r.sixteen
  \/ /\ ~q.sixteen
     /\ q.stage \in {"acquisition", "scrambled"} /\ q.count + 1 < Scrambled =>
          r.stage \in {"acquisition", "scrambled"} /\ r.count <= q.count + 1

Finishes(q, r) ==
  /\ r.stage = "normal" =>
       /\ q.stage \in {"normal", "wait", "sustaining"}
       /\ r.sixteen = q.sixteen /\ r.rate = q.rate
  /\ r.stage = "sustaining" =>
       /\ \/ q.stage = "sustaining" /\ r.rate = q.rate
          \/ q.stage = "scrambled" /\ q.rate = 1200
       /\ r.sixteen = q.sixteen

ReceiverGoesOn(q, r) ==
  /\ q.rate = 2400 /\ q.stage # "normal" => r.rate = 2400
  /\ q.stage = "normal" => r = q

Heeds(q, r, sound) ==
  /\ r \in V22!Receiver
  /\ sound = "none" => r = V22!Fresh
  /\ kind = "V22" => Slow(q, r)
  /\ Sliced(q) => Sliced(r)
  /\ Retrains(q, r)
  /\ Finishes(q, r)
  /\ V22!StartedOver(q, sound) \/ ReceiverGoesOn(q, r)

(* A receiver, field by field.                                             *)
ReceiverIs(r, stage, count, rate, sixteen) ==
  /\ r \in V22!Receiver
  /\ r.stage = stage /\ r.count = count /\ r.rate = rate /\ r.sixteen = sixteen

LEMMA ReceiverFields ==
  ASSUME NEW q \in V22!Receiver
  PROVE  /\ ReceiverIs(q, q.stage, q.count, q.rate, q.sixteen)
         /\ q.stage \in V22!Stages /\ q.count \in Nat
         /\ q.rate \in {1200, 2400} /\ q.sixteen \in BOOLEAN
BY DEF ReceiverIs, V22!Receiver

LEMMA CountedIs ==
  ASSUME NEW q \in V22!Receiver
  PROVE  ReceiverIs(V22!Counted(q), q.stage, q.count + 1, q.rate, q.sixteen)
BY DEF ReceiverIs, V22!Receiver, V22!Counted

LEMMA RecountIs ==
  ASSUME NEW q \in V22!Receiver
  PROVE  ReceiverIs(V22!Recount(q), q.stage, 0, q.rate, q.sixteen)
BY DEF ReceiverIs, V22!Receiver, V22!Recount

LEMMA GotoIs ==
  ASSUME NEW q \in V22!Receiver, NEW s \in V22!Stages
  PROVE  ReceiverIs(V22!Goto(q, s), s, q.count, q.rate, q.sixteen)
BY DEF ReceiverIs, V22!Receiver, V22!Goto

LEMMA AtRateIs ==
  ASSUME NEW q \in V22!Receiver, NEW b \in {1200, 2400}
  PROVE  ReceiverIs(V22!AtRate(q, b), q.stage, q.count, b, q.sixteen)
BY DEF ReceiverIs, V22!Receiver, V22!AtRate

LEMMA SliceSixteenIs ==
  ASSUME NEW q \in V22!Receiver
  PROVE  ReceiverIs(V22!SliceSixteen(q), q.stage, q.count, q.rate, TRUE)
<1>1. \A b \in BOOLEAN : ReceiverIs([q EXCEPT !.sixteen = b], q.stage, q.count, q.rate, b)
  BY DEF ReceiverIs, V22!Receiver
<1> QED
  BY <1>1, Zenon DEF V22!SliceSixteen

LEMMA ReceiverStep ==
  ASSUME V22!ConstantsOK, kind \in {"V22", "V22bis"}, NEW q \in V22!Receiver,
         NEW sound \in V22!Lines, NEW pick \in BOOLEAN
  PROVE  Heeds(q, V22!Demodulate(q, sound, pick), sound)
<1> SUFFICES ASSUME NEW r, r = V22!Demodulate(q, sound, pick)
             PROVE  Heeds(q, r, sound)
  OBVIOUS
<1>0. /\ q.stage \in V22!Stages /\ q.count \in Nat /\ q.rate \in {1200, 2400}
      /\ q.sixteen \in BOOLEAN
  BY ReceiverFields
<1>c. /\ Scrambled \in Nat \ {0} /\ Acquire \in Nat \ {0}
      /\ Sustain \in Nat \ {0} /\ Sixteen \in Nat \ {0}
  BY DEF V22!ConstantsOK
<1>n. V22!Counted(q) \in V22!Receiver
  BY CountedIs DEF ReceiverIs
<1> USE DEF V22!Stages, Slow, Retrains, Finishes, ReceiverGoesOn, Sliced, Heeds, ReceiverIs
<1>1. CASE sound = "none"
  <2>1. r = V22!Fresh
    BY <1>1 DEF V22!Demodulate
  <2>2. V22!Fresh \in V22!Receiver /\ V22!Fresh.rate = 1200 /\ V22!Fresh.stage = "acquisition"
        /\ V22!Fresh.sixteen = FALSE
    BY DEF V22!Fresh, V22!Receiver
  <2> QED
    BY <1>1, <2>1, <2>2 DEF V22!StartedOver
<1>2. CASE sound # "none" /\ q.stage = "acquisition"
  <2>1. r = V22!Acquisition(q)
    BY <1>2 DEF V22!Demodulate
  <2>2. \/ ReceiverIs(r, "scrambled", q.count + 1, q.rate, q.sixteen)
        \/ ReceiverIs(r, "acquisition", q.count + 1, q.rate, q.sixteen)
    BY <1>2, <1>n, <2>1, CountedIs, GotoIs DEF V22!Acquisition
  <2> QED
    BY <1>0, <1>2, <1>c, <2>2
<1>3. CASE sound # "none" /\ q.stage = "scrambled"
  <2>1. PICK s \in BOOLEAN : r = V22!ScrambledOnes(q, s)
    BY <1>3 DEF V22!Demodulate
  <2> DEFINE rate  == IF s /\ kind = "V22bis" THEN 2400 ELSE q.rate
             heard == V22!AtRate(V22!Counted(q), rate)
  <2>h. rate \in {1200, 2400}
    BY <1>0
  <2>i. ReceiverIs(heard, "scrambled", q.count + 1, rate, q.sixteen)
    BY <1>3, <1>n, <2>h, CountedIs, AtRateIs
  <2>2. CASE q.rate = 1200 /\ q.count + 1 >= Scrambled
    <3>1. r = V22!Recount(V22!Goto(heard, "sustaining"))
      BY <1>0, <1>3, <1>c, <2>1, <2>2 DEF V22!ScrambledOnes
    <3>2. ReceiverIs(r, "sustaining", 0, rate, q.sixteen)
      BY <2>i, <3>1, RecountIs, GotoIs
    <3> QED
      BY <1>0, <1>3, <1>c, <2>2, <3>2
  <2>3. CASE q.rate = 1200 /\ q.count + 1 < Scrambled
    <3>1. r = heard
      BY <1>0, <1>3, <1>c, <2>1, <2>3 DEF V22!ScrambledOnes
    <3> QED
      BY <1>0, <1>3, <1>c, <2>3, <2>i, <3>1
  <2>4. CASE q.rate = 2400 /\ q.count + 1 >= Sixteen
    <3>1. r = V22!SliceSixteen(V22!Goto(V22!Counted(q), "wait"))
      BY <1>3, <2>1, <2>4 DEF V22!ScrambledOnes
    <3>2. ReceiverIs(V22!Goto(V22!Counted(q), "wait"), "wait", q.count + 1, q.rate, q.sixteen)
      BY <1>3, <1>n, CountedIs, GotoIs
    <3>3. /\ r \in V22!Receiver /\ r.stage = "wait" /\ r.rate = q.rate
          /\ r.sixteen
      BY <3>1, <3>2, SliceSixteenIs
    <3> QED
      BY <1>0, <1>3, <1>c, <2>4, <3>3
  <2>5. CASE q.rate = 2400 /\ q.count + 1 < Sixteen
    <3>1. r = V22!Counted(q)
      BY <1>0, <1>3, <1>c, <2>1, <2>5 DEF V22!ScrambledOnes
    <3> QED
      BY <1>0, <1>3, <1>c, <2>5, <3>1, CountedIs
  <2> QED
    BY <1>0, <1>c, <2>2, <2>3, <2>4, <2>5
<1>4. CASE sound # "none" /\ q.stage = "sustaining"
  <2>1. r = V22!Sustaining(q)
    BY <1>4 DEF V22!Demodulate
  <2>2. \/ ReceiverIs(r, "normal", q.count + 1, q.rate, q.sixteen)
        \/ ReceiverIs(r, "sustaining", q.count + 1, q.rate, q.sixteen)
    BY <1>4, <1>n, <2>1, CountedIs, GotoIs DEF V22!Sustaining
  <2> QED
    BY <1>0, <1>4, <1>c, <2>2
<1>5. CASE sound # "none" /\ q.stage = "wait"
  <2>1. PICK o \in BOOLEAN : r = V22!WaitFor2400(q, o)
    BY <1>5 DEF V22!Demodulate
  <2>2. \/ ReceiverIs(r, "normal", q.count, q.rate, q.sixteen)
        \/ ReceiverIs(r, "wait", q.count, q.rate, q.sixteen)
    BY <1>5, <2>1, GotoIs DEF V22!WaitFor2400
  <2> QED
    BY <1>0, <1>5, <1>c, <2>2
<1>6. CASE sound # "none" /\ q.stage = "normal"
  <2>1. CASE r = q
    BY <1>0, <1>6, <2>1
  <2>2. CASE r # q
    <3>1. /\ r = V22!Recount(V22!Goto(q, "scrambled"))
          /\ V22!Demodulate(q, sound, TRUE) = r
      BY <1>6, <2>2 DEF V22!Demodulate, V22!Normal
    <3>2. ReceiverIs(r, "scrambled", 0, q.rate, q.sixteen)
      BY <3>1, RecountIs, GotoIs
    <3>3. V22!StartedOver(q, sound)
      BY <1>6, <3>1, <3>2 DEF V22!StartedOver
    <3> QED
      BY <1>0, <1>6, <1>c, <3>2, <3>3
  <2> QED
    BY <2>1, <2>2
<1> QED
  BY <1>0, <1>1, <1>2, <1>3, <1>4, <1>5, <1>6

LEMMA PromotedStep ==
  ASSUME NEW q \in V22!Receiver
  PROVE  /\ V22!Promoted(q) \in V22!Receiver
         /\ V22!Promoted(q).rate = 2400 /\ V22!Promoted(q).sixteen = q.sixteen
         /\ V22!Promoted(q).stage = IF q.stage = "sustaining" THEN "scrambled"
                                ELSE q.stage
<1>1. CASE q.stage = "sustaining"
  BY <1>1, GotoIs, RecountIs, AtRateIs DEF V22!Promoted, ReceiverIs, V22!Stages
<1>2. CASE q.stage # "sustaining"
  BY <1>2, AtRateIs DEF V22!Promoted, ReceiverIs
<1> QED
  BY <1>1, <1>2

-----------------------------------------------------------------------------
LEMMA V22InitInv ==
  ASSUME V22!ConstantsOK, V22!Init
  PROVE  V22Inv
<1>1. V22!Fresh \in V22!Receiver /\ V22!Fresh.rate = 1200 /\ V22!Fresh.stage = "acquisition"
      /\ V22!Fresh.sixteen = FALSE /\ V22!Fresh.count = 0
  BY DEF V22!Fresh, V22!Receiver, V22!Stages
<1>n. /\ Detect \in Nat /\ S1Run \in Nat /\ Timeout \in Nat \ {0}
      /\ Kinds \subseteq {"V22", "V22bis"}
  BY DEF V22!ConstantsOK
<1>2. V22!TypeOK
  <2>1. /\ kind \in Kinds /\ phase \in V22!Phases /\ last \in V22!Lines
        /\ ready \in {"none", "connected", "failed"} /\ turn \in {"rx", "tx"}
    BY DEF V22!Init, V22!Phases, V22!Lines
  <2>2. detected \in BOOLEAN /\ restarted \in BOOLEAN
    BY DEF V22!Init
  <2>3. /\ inPhase \in Nat /\ total \in 0 .. Timeout /\ bps \in {1200, 2400}
        /\ above \in 0 .. Detect /\ s1Run \in 0 .. S1Run /\ bps = 1200
    BY <1>n DEF V22!Init
  <2>4. rx \in V22!Receiver /\ rx.rate = 1200
    BY <1>1 DEF V22!Init
  <2> QED
    BY <2>1, <2>2, <2>3, <2>4 DEF V22!TypeOK
<1> QED
  BY <1>1, <1>n, <1>2 DEF V22!Init, V22Inv, V22!SilenceIsGivenUp, PhaseOfKind,
                    FastIsHeard, Sliced, ReceiverIsEarly, BeforeRate, RateUnsettled, AfterRate,
                    BlocksHeard

LEMMA V22ReceiveInv ==
  ASSUME V22!ConstantsOK, V22Inv, NEW sound \in V22!Lines, NEW pick \in BOOLEAN,
         NEW coarse \in V22!Coarse(sound), V22!Receive(sound, coarse, pick)
  PROVE  V22Inv'
<1> DEFINE seen == detected \/ V22!Run(sound, coarse) >= Detect
           run == IF sound = "s1" THEN s1Run + 1 ELSE 0
<1> SUFFICES ASSUME NEW r, r = V22!Demodulate(rx, sound, pick)
             PROVE  V22Inv'
  OBVIOUS
<1> DEFINE waiting == phase = "u11"
           told == waiting /\ sound # "none" /\ r.rate = 2400 /\ rx.rate = 1200
           done == waiting /\ r.stage = "normal" /\ rx.stage # "normal"
                   /\ r.rate = 1200
           spectral == waiting /\ ~told /\ ~done /\ run >= S1Run
<1>k. kind \in {"V22", "V22bis"} /\ rx \in V22!Receiver
  BY DEF V22Inv, V22!TypeOK, V22!ConstantsOK
<1>r. Heeds(rx, r, sound)
  BY <1>k, ReceiverStep
<1>c. coarse \in BOOLEAN
  BY DEF V22!Coarse
<1>n. /\ Silence \in Nat \ {0} /\ Scrambled \in Nat \ {0} /\ Silence + 1 < Scrambled
      /\ Detect \in Nat \ {0} /\ S1Run \in Nat \ {0} /\ Timeout \in Nat \ {0}
  BY DEF V22!ConstantsOK
<1>f. /\ rx.stage \in V22!Stages /\ rx.count \in Nat /\ rx.rate \in {1200, 2400}
      /\ rx.sixteen \in BOOLEAN
      /\ r.stage \in V22!Stages /\ r.count \in Nat /\ r.rate \in {1200, 2400}
      /\ r.sixteen \in BOOLEAN
  BY <1>k, <1>r, ReceiverFields DEF Heeds
<1>a. above' \in 0 .. Detect
  BY <1>n, <1>c DEF V22!Receive, V22!Run, V22Inv, V22!TypeOK
<1>d. seen \in BOOLEAN /\ (detected => seen)
  BY DEF V22Inv, V22!TypeOK
<1>s. /\ turn = "rx" /\ turn' = "tx" /\ last' = sound
      /\ kind' = kind /\ total' = total /\ ready' = ready
      /\ s1Run' \in 0 .. S1Run
  BY <1>n DEF V22!Receive, V22Inv, V22!TypeOK
<1>1. CASE told \/ spectral
  <2>1. /\ rx' = V22!Promoted(r) /\ phase' = "u0011" /\ inPhase' = 0 /\ bps' = 2400
        /\ detected' = TRUE /\ restarted' = FALSE /\ phase = "u11"
    BY <1>1 DEF V22!Receive, V22!OnS1
  <2>2. kind = "V22bis"
    BY <1>k, <2>1 DEF V22Inv, PhaseOfKind
  <2>3. r.stage = "normal" => r.sixteen
    BY <1>1, <1>r, <1>f, <2>1
       DEF Heeds, Finishes, Sliced, V22Inv, BeforeRate, RateUnsettled
  <2>4. /\ rx' \in V22!Receiver /\ rx'.rate = 2400 /\ rx'.sixteen = r.sixteen
        /\ rx'.stage = IF r.stage = "sustaining" THEN "scrambled" ELSE r.stage
    BY <1>r, <2>1, PromotedStep DEF Heeds
  <2>5. V22!TypeOK'
    <3>1. phase' \in V22!Phases /\ inPhase' \in Nat /\ bps' \in {1200, 2400}
      BY <2>1 DEF V22!Phases
    <3>2. detected' \in BOOLEAN /\ restarted' \in BOOLEAN
      BY <2>1, Zenon
    <3> QED
      BY <1>a, <1>s, <2>2, <2>4, <3>1, <3>2 DEF V22Inv, V22!TypeOK
  <2>6. Sliced(rx)'
    BY <1>r, <2>4 DEF V22Inv, Heeds, Sliced
  <2>7. AfterRate'
    BY <2>1, <2>3, <2>4 DEF AfterRate, RateSettled
  <2> QED
    BY <1>s, <2>1, <2>2, <2>5, <2>6, <2>7
       DEF V22Inv, V22!SilenceIsGivenUp, PhaseOfKind, FastIsHeard, ReceiverIsEarly, BeforeRate
<1>2. CASE ~told /\ ~spectral /\ done
  <2>1. /\ rx' = r /\ phase' = "timed_s11" /\ inPhase' = 0 /\ bps' = 1200
        /\ detected' = seen /\ phase = "u11"
    BY <1>2 DEF V22!Receive
  <2>2. kind = "V22bis"
    BY <1>k, <2>1 DEF V22Inv, PhaseOfKind
  <2>3. restarted' \in BOOLEAN
    <3>1. restarted' = (~done /\ (restarted \/ V22!StartedOver(rx, sound)))
      BY <1>2 DEF V22!Receive
    <3> QED
      BY <3>1
  <2>5. V22!TypeOK'
    <3>1. /\ detected' \in BOOLEAN /\ restarted' \in BOOLEAN
          /\ phase' \in V22!Phases /\ inPhase' \in Nat /\ bps' \in {1200, 2400}
      BY <1>d, <2>1, <2>3 DEF V22!Phases
    <3> QED
      BY <1>a, <1>s, <1>r, <2>1, <2>2, <3>1 DEF V22Inv, V22!TypeOK, Heeds
  <2>6. Sliced(rx)'
    BY <1>r, <2>1 DEF V22Inv, Heeds, Sliced
  <2>7. AfterRate'
    BY <1>2, <2>1 DEF AfterRate, RateSettled
  <2>8. FastIsHeard' /\ ReceiverIsEarly' /\ BeforeRate'
    BY <2>1 DEF FastIsHeard, ReceiverIsEarly, BeforeRate
  <2>9. V22!SilenceIsGivenUp' /\ PhaseOfKind'
    BY <1>s, <1>d, <2>1, <2>2 DEF V22Inv, V22!SilenceIsGivenUp, PhaseOfKind
  <2> QED
    BY <2>5, <2>6, <2>7, <2>8, <2>9 DEF V22Inv
<1>3. CASE ~told /\ ~spectral /\ ~done
  <2>1. /\ rx' = r /\ detected' = seen
        /\ phase' = phase /\ inPhase' = inPhase /\ bps' = bps
        /\ restarted' = (restarted \/ V22!StartedOver(rx, sound))
    BY <1>3 DEF V22!Receive
  <2>b. restarted' \in BOOLEAN
    BY <2>1
  <2>5. V22!TypeOK'
    BY <1>a, <1>s, <1>r, <1>d, <2>1, <2>b DEF V22Inv, V22!TypeOK, Heeds, Slow
  <2>6. Sliced(rx)'
    BY <1>r, <2>1 DEF V22Inv, Heeds, Sliced
  <2>i. inPhase \in Nat
    BY DEF V22Inv, V22!TypeOK
  <2>7. ReceiverIsEarly' /\ (phase \in {"init", "silence"} => RateUnsettled(r))
    <3> SUFFICES ASSUME phase \in {"init", "silence"}
                 PROVE  ReceiverIsEarly' /\ RateUnsettled(r)
      BY <2>1 DEF ReceiverIsEarly
    <3>1. CASE rx.sixteen
      <4>1. r = V22!Fresh \/ r.sixteen
        BY <1>r, <3>1 DEF Heeds, Retrains
      <4>2. V22!Fresh.stage = "acquisition" /\ V22!Fresh.count = 0
        BY DEF V22!Fresh
      <4>3. BlocksHeard' \in Nat
        BY <1>s, <2>1, <2>i DEF BlocksHeard
      <4>4. ReceiverIsEarly'
        BY <2>1, <4>1, <4>2, <4>3 DEF ReceiverIsEarly
      <4>5. rx.rate = 2400 /\ rx.stage # "sustaining"
        BY <3>1 DEF V22Inv, BeforeRate, Sliced, RateUnsettled
      <4>6. RateUnsettled(r)
        <5>1. r.stage = "normal" => r.sixteen
          BY <1>r, <3>1, Zenon DEF Heeds, Finishes
        <5>2. r.stage = "sustaining" => rx.rate = 1200
          BY <1>r, <4>5 DEF Heeds, Finishes
        <5> QED
          BY <4>5, <5>1, <5>2 DEF RateUnsettled
      <4> QED
        BY <4>4, <4>6
    <3>2. CASE ~rx.sixteen
      <4>1. /\ rx.stage \in {"acquisition", "scrambled"}
            /\ rx.count + 1 < Scrambled /\ rx.count + 1 <= BlocksHeard' /\ BlocksHeard' \in Nat
        BY <1>n, <1>s, <1>f, <2>1, <2>i, <3>2 DEF V22Inv, ReceiverIsEarly, BlocksHeard, PhaseOfKind
      <4>2. V22!Fresh.stage = "acquisition" /\ V22!Fresh.count = 0
        BY DEF V22!Fresh
      <4>3. \/ r.sixteen
            \/ r.stage \in {"acquisition", "scrambled"} /\ r.count <= BlocksHeard'
        BY <1>r, <1>f, <4>1, <4>2 DEF Heeds, Retrains
      <4>4. ReceiverIsEarly'
        BY <2>1, <4>3 DEF ReceiverIsEarly
      <4>5. RateUnsettled(r)
        BY <1>r, <1>f, <3>2, <4>1, <4>3 DEF Heeds, Finishes, RateUnsettled
      <4> QED
        BY <4>4, <4>5
    <3> QED
      BY <3>1, <3>2
  <2>8. BeforeRate'
    <3>1. CASE phase = "u11"
      <4>1. V22!Fresh.stage = "acquisition"
        BY DEF V22!Fresh
      <4>2. RateUnsettled(r)
        BY <1>3, <1>r, <1>f, <3>1, <4>1
           DEF Heeds, Finishes, V22Inv, BeforeRate, Sliced, RateUnsettled
      <4> QED
        BY <2>1, <4>2 DEF BeforeRate
    <3>2. CASE phase # "u11"
      BY <2>1, <2>7, <3>2 DEF BeforeRate
    <3> QED
      BY <3>1, <3>2
  <2>9. AfterRate'
    <3> SUFFICES ASSUME kind = "V22bis", phase \notin {"init", "silence", "u11"},
                        ready # "failed", ~restarted, ~V22!StartedOver(rx, sound)
                 PROVE  RateSettled(r, bps)
      BY <1>s, <2>1 DEF AfterRate
    <3>1. RateSettled(rx, bps) /\ ReceiverGoesOn(rx, r)
      BY <1>r DEF V22Inv, AfterRate, Heeds
    <3>2. bps \in {1200, 2400}
      BY DEF V22Inv, V22!TypeOK
    <3> QED
      BY <1>r, <1>f, <3>1, <3>2 DEF RateSettled, ReceiverGoesOn, Heeds, Finishes, V22Inv, Sliced
  <2>d. detected => detected'
    BY <1>d, <2>1, Zenon
  <2>10. FastIsHeard' /\ V22!SilenceIsGivenUp' /\ PhaseOfKind'
    BY <1>s, <2>d, <2>1 DEF V22Inv, V22!SilenceIsGivenUp, PhaseOfKind, FastIsHeard
  <2> QED
    BY <2>5, <2>6, <2>7, <2>8, <2>9, <2>10 DEF V22Inv
<1> QED
  BY <1>1, <1>2, <1>3

LEMMA V22MissInv ==
  ASSUME V22!ConstantsOK, V22Inv, V22!Miss
  PROVE  V22Inv'
<1>1. V22!TypeOK' /\ V22!SilenceIsGivenUp' /\ PhaseOfKind' /\ FastIsHeard' /\ Sliced(rx)'
      /\ BeforeRate' /\ AfterRate'
  BY DEF V22Inv, V22!Miss, V22!TypeOK, V22!SilenceIsGivenUp, PhaseOfKind, FastIsHeard, Sliced,
         BeforeRate, AfterRate, RateUnsettled, RateSettled
<1>2. ReceiverIsEarly'
  BY DEF V22Inv, V22!Miss, V22!TypeOK, V22!Receiver, ReceiverIsEarly, BlocksHeard
<1> QED
  BY <1>1, <1>2 DEF V22Inv

(* _advanceHandshake(), as far as the invariant goes.                      *)
PhaseAdvances ==
  /\ phase' \in V22!Phases /\ inPhase' \in Nat
  /\ ready' \in {"none", "connected", "failed"}
  /\ phase' = "data" <=> ready' # "none"
  /\ kind = "V22" => phase' \in {"init", "usb1", "sb1", "data"}
  /\ kind = "V22bis" => phase' \notin {"usb1", "sb1"}
  /\ phase' = "silence" =>
       /\ inPhase' < Silence
       /\ \/ phase = "init" /\ inPhase' = 0
          \/ phase = "silence" /\ inPhase' = inPhase + 1
  /\ phase' # "init" /\ (phase = "data" => phase' = "data")
  /\ phase' = "u11" => phase \in {"silence", "u11"}
  /\ phase' \notin {"init", "silence", "u11"} /\ ready' # "failed"
       /\ kind = "V22bis" => phase \notin {"init", "silence", "u11"}
  /\ ready' # "failed" => ready # "failed"
  /\ phase \notin {"init", "data"} /\ V22!GivesUp => ready' = "failed"
  /\ phase' # phase /\ ready' = "failed" => ~detected
  /\ phase' = phase => ready' = ready

LEMMA AdvanceStep ==
  ASSUME V22!ConstantsOK, V22Inv, V22!Advance
  PROVE  PhaseAdvances
<1>n. Silence \in Nat \ {0} /\ kind \in {"V22", "V22bis"}
  <2>1. kind \in Kinds
    BY DEF V22Inv, V22!TypeOK
  <2> QED
    BY <2>1 DEF V22!ConstantsOK
<1>t. /\ phase \in V22!Phases /\ inPhase \in Nat /\ detected \in BOOLEAN
      /\ ready \in {"none", "connected", "failed"} /\ PhaseOfKind
  BY DEF V22Inv, V22!TypeOK
<1> USE DEF V22!Phases, PhaseOfKind, PhaseAdvances
<1>1. CASE phase = "init"
  BY <1>1, <1>n, <1>t DEF V22!Advance, V22!Enter
<1>2. CASE phase = "data"
  BY <1>2, <1>n, <1>t DEF V22!Advance
<1>3. CASE phase \notin {"init", "data"} /\ V22!GivesUp
  BY <1>3, <1>n, <1>t DEF V22!Advance, V22!Enter, V22!GivesUp
<1>4. CASE phase = "usb1" /\ ~V22!GivesUp
  BY <1>4, <1>n, <1>t DEF V22!Advance, V22!Enter
<1>5. CASE phase = "u11" /\ ~V22!GivesUp
  BY <1>5, <1>n, <1>t DEF V22!Advance
<1>6. CASE phase \in {"silence", "u0011", "timed_s11", "s1111", "sb1"} /\ ~V22!GivesUp
  BY <1>6, <1>n, <1>t DEF V22!Advance, V22!Enter, V22!Duration, V22!Following
<1> QED
  BY <1>1, <1>2, <1>3, <1>4, <1>5, <1>6, <1>t

LEMMA V22SendInv ==
  ASSUME V22!ConstantsOK, V22Inv, V22!Send
  PROVE  V22Inv'
<1>1. /\ turn = "tx" /\ turn' = "rx"
      /\ kind' = kind /\ above' = above /\ detected' = detected /\ s1Run' = s1Run
      /\ rx' = rx /\ last' = last /\ restarted' = restarted
  BY DEF V22!Send
<1>2. PhaseAdvances
  BY AdvanceStep DEF V22!Send
<1>t. /\ phase \in V22!Phases /\ inPhase \in Nat /\ total \in 0 .. Timeout
      /\ Timeout \in Nat \ {0} /\ bps \in {1200, 2400} /\ detected \in BOOLEAN
      /\ V22!TypeOK /\ ReceiverIsEarly /\ BeforeRate /\ AfterRate /\ FastIsHeard /\ Sliced(rx)
      /\ V22!SilenceIsGivenUp /\ PhaseOfKind
  BY DEF V22Inv, V22!TypeOK, V22!ConstantsOK
<1>3. bps' = bps \/ (bps' = 1200 /\ ready' = "failed")
  BY <1>2 DEF PhaseAdvances, V22!Send
<1>4. total' = IF phase \notin {"init", "data"} /\ total < Timeout
               THEN total + 1 ELSE total
  BY DEF V22!Send
<1>5. V22!TypeOK'
  BY <1>1, <1>2, <1>3, <1>4, <1>t DEF PhaseAdvances, V22!TypeOK
<1>6. V22!SilenceIsGivenUp'
  BY <1>1, <1>2, <1>4, <1>t DEF PhaseAdvances, V22!SilenceIsGivenUp, V22!GivesUp, PhaseOfKind
<1>7. PhaseOfKind' /\ FastIsHeard'
  BY <1>1, <1>2, <1>3, <1>t DEF PhaseAdvances, PhaseOfKind, FastIsHeard
<1>8. Sliced(rx)' /\ BeforeRate'
  BY <1>1, <1>2, <1>t DEF PhaseAdvances, Sliced, BeforeRate, RateUnsettled
<1>9. ReceiverIsEarly'
  BY <1>1, <1>2, <1>t DEF PhaseAdvances, ReceiverIsEarly, BlocksHeard
<1>10. AfterRate'
  BY <1>1, <1>2, <1>3, <1>t DEF PhaseAdvances, AfterRate
<1> QED
  BY <1>5, <1>6, <1>7, <1>8, <1>9, <1>10 DEF V22Inv

-----------------------------------------------------------------------------
LEMMA V22NextInv ==
  ASSUME V22!ConstantsOK, V22Inv, [V22!Next]_(V22!vars)
  PROVE  V22Inv'
<1>1. CASE V22!Packet
  BY <1>1, V22ReceiveInv DEF V22!Packet
<1>2. CASE V22!Miss
  BY <1>2, V22MissInv
<1>3. CASE V22!Send
  BY <1>3, V22SendInv
<1>4. CASE UNCHANGED V22!vars
  BY <1>4 DEF V22!vars, V22Inv, V22!TypeOK, V22!SilenceIsGivenUp, PhaseOfKind, FastIsHeard,
              Sliced, ReceiverIsEarly, BlocksHeard, BeforeRate, AfterRate, RateUnsettled, RateSettled
<1> QED
  BY <1>1, <1>2, <1>3, <1>4 DEF V22!Next

LEMMA V22InvIsSafe ==
  ASSUME V22!ConstantsOK, V22Inv
  PROVE  V22!V22Safe
<1>1. V22!RatesMatch
  <2> SUFFICES ASSUME ready = "connected", ~restarted
               PROVE  /\ rx.rate = bps
                      /\ rx.stage = "normal" => rx.sixteen = (bps = 2400)
    BY DEF V22!RatesMatch
  <2>1. phase = "data" /\ bps \in {1200, 2400} /\ rx \in V22!Receiver
    BY DEF V22Inv, PhaseOfKind, V22!TypeOK
  <2>2. rx.sixteen \in BOOLEAN /\ (rx.sixteen => rx.rate = 2400)
    BY <2>1, ReceiverFields DEF V22Inv, Sliced
  <2>3. CASE kind = "V22"
    <3>1. bps = 1200 /\ rx.rate = 1200
      BY <2>3 DEF V22Inv, V22!TypeOK
    <3> QED
      BY <2>2, <3>1
  <2>4. CASE kind = "V22bis"
    <3>1. RateSettled(rx, bps)
      BY <2>1, <2>4 DEF V22Inv, AfterRate
    <3> QED
      BY <2>1, <2>2, <3>1 DEF RateSettled
  <2>5. kind \in {"V22", "V22bis"}
    BY DEF V22Inv, V22!TypeOK, V22!ConstantsOK
  <2> QED
    BY <2>3, <2>4, <2>5
<1>2. V22!FastIsConnected
  BY DEF V22Inv, FastIsHeard, V22!FastIsConnected
<1> QED
  BY <1>1, <1>2 DEF V22!V22Safe, V22Inv

(* An answerer that reports a connection sends and receives at the same    *)
(* rate unless its receiver has started over since; 2400 bit/s is never    *)
(* reported as a failure; and a silent line is given up in time.           *)
THEOREM V22StartsSafely ==
  ASSUME V22!ConstantsOK
  PROVE  V22!Spec => []V22!V22Safe
<1>1. V22!Init => V22Inv
  BY V22InitInv
<1>2. V22Inv /\ [V22!Next]_(V22!vars) => V22Inv'
  BY V22NextInv
<1>3. V22Inv => V22!V22Safe
  BY V22InvIsSafe
<1> QED
  BY <1>1, <1>2, <1>3, PTL DEF V22!Spec

(* The event that says how the start-up ended is never taken back.         *)
THEOREM V22ReportsOnce ==
  ASSUME V22!ConstantsOK
  PROVE  V22!Spec => V22!OneReady
<1>1. ASSUME V22Inv, [V22!Next]_(V22!vars)
      PROVE  ready = "none" \/ ready' = ready
  <2>1. CASE V22!Packet \/ V22!Miss \/ UNCHANGED V22!vars
    BY <2>1 DEF V22!Packet, V22!Receive, V22!Miss, V22!vars
  <2>2. CASE V22!Send
    <3>1. PhaseAdvances
      BY <1>1, <2>2, AdvanceStep DEF V22!Send
    <3> QED
      BY <1>1, <3>1 DEF PhaseAdvances, V22Inv, PhaseOfKind
  <2> QED
    BY <1>1, <2>1, <2>2 DEF V22!Next
<1>2. V22!Spec => []V22Inv
  BY V22InitInv, V22NextInv, PTL DEF V22!Spec
<1> QED
  BY <1>1, <1>2, PTL DEF V22!Spec, V22!OneReady

(* The composition takes steps of one of them at a time.                   *)
LEMMA EachRuns == MCSpec => V22!Init /\ [][V22!Next]_(V22!vars) /\ Spec
<1>1. MCInit => V22!Init /\ Init
  BY DEF MCInit
<1>2. [MCNext]_all => [V22!Next]_(V22!vars) /\ [Next]_vars
  BY DEF MCNext, HandshakeRuns, V22Runs, Runs, all, v22Vars, V22!vars
<1> QED
  BY <1>1, <1>2, PTL DEF MCSpec, Spec

(* The same of the two side by side, as they are run.                      *)
THEOREM V22SafeAlways == V22!ConstantsOK => (MCSpec => []V22Safe)
<1>1. V22!Spec <=> V22!Init /\ [][V22!Next]_(V22!vars)
  BY DEF V22!Spec
<1>2. V22Safe <=> V22!V22Safe
  BY DEF V22Safe
<1>3. CASE V22!ConstantsOK
  <2>1. V22!Spec => []V22!V22Safe
    BY <1>3, V22StartsSafely
  <2> QED
    BY <1>1, <1>2, <2>1, EachRuns, PTL
<1> QED
  BY <1>3

=============================================================================
