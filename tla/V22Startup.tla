----------------------------- MODULE V22Startup ------------------------------
(***************************************************************************)
(* How the native V.22 and V.22bis answerers start up                      *)
(* (src/dsp/protocols/V22.js), together with the receiver they listen with *)
(* (src/dsp/protocols/V22Demodulator.js).                                  *)
(*                                                                         *)
(* Audio is counted in blocks.  In each block the caller's line carries    *)
(* nothing, a V.22 carrier, the S1 pattern that asks for 2400 bit/s, or    *)
(* another sound; then a block is sent.  Filters, equalizer and slicer are *)
(* reduced to what their thresholds say of such a block; `pick' is what    *)
(* the symbols of a block leave open.                                      *)
(***************************************************************************)
EXTENDS Naturals

CONSTANTS
  Kinds,                   \* the classes that are tried
  Silence, S1, S11at2400, S11at1200, S1111, SB1,   \* durations sent
  Acquire, Scrambled, Sustain, Sixteen,            \* durations received
  Detect,                  \* ..._REMOTE_DETECT_MS
  S1Run,                   \* V22BIS_S1_DETECTOR_RUN_LEN
  Timeout                  \* ..._HANDSHAKE_TIMEOUT_MS

(* The opening silence (75 ms) is over before the receiver can have found  *)
(* the caller's scrambled ones (270 ms).                                   *)
ConstantsOK ==
  /\ Kinds \subseteq {"V22", "V22bis"}
  /\ {Silence, S1, S11at2400, S11at1200, S1111, SB1, Acquire, Scrambled,
      Sustain, Sixteen, Detect, S1Run, Timeout} \subseteq Nat \ {0}
  /\ Silence + 1 < Scrambled

VARIABLES
  kind,        \* the class of the instance
  phase,       \* _phase
  inPhase,     \* _phaseSamples
  total,       \* _totalSamples, up to Timeout
  above,       \* _remoteMagAboveSamp, up to Detect
  detected,    \* _remoteDetected
  s1Run,       \* _s1RunLen
  bps,         \* _negotiatedBps
  ready,       \* the 'ready' event: "none", "connected" or "failed"
  rx,          \* the demodulator
  last,        \* the line in the last block received
  restarted,   \* the receiver started over since the rate was settled
  turn         \* "rx" or "tx"

vars == <<kind, phase, inPhase, total, above, detected, s1Run, bps, ready, rx,
          last, restarted, turn>>

Lines == {"none", "carrier", "s1", "other"}
Phases == {"init", "silence", "u11", "u0011", "timed_s11", "s1111",
           "usb1", "sb1", "data"}
Stages == {"acquisition", "scrambled", "sustaining", "wait", "normal"}
Receiver == [stage : Stages, count : Nat, rate : {1200, 2400}, sixteen : BOOLEAN]

TypeOK ==
  /\ kind \in Kinds /\ phase \in Phases
  /\ inPhase \in Nat /\ total \in 0 .. Timeout
  /\ above \in 0 .. Detect /\ s1Run \in 0 .. S1Run
  /\ detected \in BOOLEAN /\ restarted \in BOOLEAN
  /\ bps \in {1200, 2400} /\ ready \in {"none", "connected", "failed"}
  /\ rx \in Receiver
  /\ last \in Lines /\ turn \in {"rx", "tx"}
  /\ kind = "V22" => bps = 1200 /\ rx.rate = 1200

Fresh ==
  [stage |-> "acquisition", count |-> 0, rate |-> 1200, sixteen |-> FALSE]

Init ==
  /\ kind \in Kinds
  /\ phase = "init" /\ inPhase = 0 /\ total = 0
  /\ above = 0 /\ detected = FALSE /\ s1Run = 0 /\ bps = 1200 /\ ready = "none"
  /\ rx = Fresh /\ last = "none" /\ restarted = FALSE /\ turn = "rx"

-----------------------------------------------------------------------------
(* The receiver.                                                           *)

Counted(r) == [r EXCEPT !.count = @ + 1]
Recount(r) == [r EXCEPT !.count = 0]
Goto(r, stage) == [r EXCEPT !.stage = stage]
AtRate(r, rate) == [r EXCEPT !.rate = rate]
SliceSixteen(r) == [r EXCEPT !.sixteen = TRUE]

(* Mutant: it falls back to 1200 bit/s.                                    *)
AcquisitionPessimist(r) ==
  IF r.count + 1 >= Acquire
  THEN AtRate(Goto(Counted(r), "scrambled"), 1200) ELSE Counted(r)

(* The rate is not touched when the symbol timing has settled.             *)
Acquisition(r) ==
  IF r.count + 1 >= Acquire THEN Goto(Counted(r), "scrambled") ELSE Counted(r)

(* Mutant: plain V22 acts on S1, too.                                      *)
ScrambledOnesAny(r, sawS1) ==
  LET heard == AtRate(Counted(r), IF sawS1 THEN 2400 ELSE r.rate)
  IN CASE r.rate = 1200 /\ r.count + 1 >= Scrambled ->
            Recount(Goto(heard, "sustaining"))
       [] r.rate = 1200 /\ r.count + 1 < Scrambled -> heard
       [] r.rate = 2400 /\ r.count + 1 >= Sixteen ->
            SliceSixteen(Goto(Counted(r), "wait"))
       [] OTHER -> Counted(r)

(* At 1200 bit/s it looks for S1 (which only V22bis lets it act on); at    *)
(* 2400 it waits for the sixteen-way slicer.                               *)
ScrambledOnes(r, sawS1) ==
  LET heard == AtRate(Counted(r),
                      IF sawS1 /\ kind = "V22bis" THEN 2400 ELSE r.rate)
  IN CASE r.rate = 1200 /\ r.count + 1 >= Scrambled ->
            Recount(Goto(heard, "sustaining"))
       [] r.rate = 1200 /\ r.count + 1 < Scrambled -> heard
       [] r.rate = 2400 /\ r.count + 1 >= Sixteen ->
            SliceSixteen(Goto(Counted(r), "wait"))
       [] OTHER -> Counted(r)

(* Mutant: the answerer does not hear of it.                               *)
SustainingParks(r) == IF r.count + 1 > Sustain THEN r ELSE Counted(r)

Sustaining(r) ==
  IF r.count + 1 > Sustain THEN Goto(Counted(r), "normal") ELSE Counted(r)

WaitFor2400(r, ones) == IF ones THEN Goto(r, "normal") ELSE r

(* The caller asks for a retrain.                                          *)
Normal(r, sawS1) ==
  IF sawS1 THEN Recount(Goto(r, "scrambled")) ELSE r

(* process(): without a carrier the receiver starts over.  S1 is known by  *)
(* its end, if it was heard after the acquisition; ones by a run of them.  *)
Demodulate(r, line, pick) ==
  LET sawS1 == pick /\ last = "s1" /\ line # "s1" /\ r.count # Acquire
      ones == pick /\ line = "carrier"
  IN CASE line = "none" -> Fresh
       [] line # "none" /\ r.stage = "acquisition" -> Acquisition(r)
       [] line # "none" /\ r.stage = "scrambled" -> ScrambledOnes(r, sawS1)
       [] line # "none" /\ r.stage = "sustaining" -> Sustaining(r)
       [] line # "none" /\ r.stage = "wait" -> WaitFor2400(r, ones)
       [] OTHER -> Normal(r, sawS1)

StartedOver(r, line) ==
  \/ line = "none"
  \/ r.stage = "normal" /\ Demodulate(r, line, TRUE).stage = "scrambled"

-----------------------------------------------------------------------------
(* The answerer.                                                           *)

(* Mutant: the receiver goes on as it was.                                 *)
PromotedOnly(r) == AtRate(r, 2400)

(* _onS1Detected(): the receiver is told, and put back if it had given up  *)
(* on 2400 bit/s.                                                          *)
Promoted(r) ==
  IF r.stage = "sustaining"
  THEN AtRate(Recount(Goto(r, "scrambled")), 2400) ELSE AtRate(r, 2400)

(* Mutant: the carrier alone has to show it.                               *)
OnS1Unproven(r, seen) ==
  /\ phase' = "u0011" /\ inPhase' = 0
  /\ bps' = 2400 /\ detected' = seen
  /\ rx' = Promoted(r) /\ restarted' = FALSE

OnS1(r, seen) ==
  /\ phase' = "u0011" /\ inPhase' = 0
  /\ bps' = 2400 /\ detected' = TRUE
  /\ rx' = Promoted(r) /\ restarted' = FALSE

(* _trackRxDetection(): a caller is there after Detect blocks of carrier.  *)
Run(line, coarse) ==
  IF ~coarse THEN 0 ELSE IF above < Detect THEN above + 1 ELSE above

(* What the coarse test says of a block: of S1 it may say either.          *)
Coarse(line) ==
  CASE line = "carrier" -> {TRUE} [] line = "s1" -> BOOLEAN [] OTHER -> {FALSE}

(* receiveAudio(): demodulator, coarse test, S1 detector, in this order.   *)
Receive(line, coarse, pick) ==
  LET r == Demodulate(rx, line, pick)
      seen == detected \/ Run(line, coarse) >= Detect
      waiting == phase = "u11"
      told == waiting /\ line # "none" /\ r.rate = 2400 /\ rx.rate = 1200
      done == waiting /\ r.stage = "normal" /\ rx.stage # "normal"
              /\ r.rate = 1200
      run == IF line = "s1" THEN s1Run + 1 ELSE 0
      spectral == waiting /\ ~told /\ ~done /\ run >= S1Run
  IN /\ turn = "rx" /\ turn' = "tx"
     /\ last' = line
     /\ above' = Run(line, coarse)
     /\ s1Run' = IF waiting /\ ~told /\ ~done /\ ~spectral THEN run ELSE s1Run
     /\ IF told \/ spectral THEN OnS1(r, seen)
        ELSE /\ rx' = r /\ detected' = seen
             /\ restarted' = (~done /\ (restarted \/ StartedOver(rx, line)))
             /\ IF done THEN phase' = "timed_s11" /\ inPhase' = 0 /\ bps' = 1200
                ELSE UNCHANGED <<phase, inPhase, bps>>
     /\ UNCHANGED <<kind, total, ready>>

(* No packet came: the receiver hears nothing, not even silence.           *)
Miss ==
  /\ turn = "rx" /\ turn' = "tx"
  /\ UNCHANGED <<kind, phase, inPhase, total, above, detected, s1Run, bps, ready,
                 rx, last, restarted>>

(* Mutant: every phase is announced.                                       *)
EnterTells(p) ==
  /\ phase' = p /\ inPhase' = 0
  /\ ready' = IF detected THEN "connected" ELSE "failed"

(* _enterPhase()                                                           *)
Enter(p) ==
  /\ phase' = p /\ inPhase' = 0
  /\ ready' = IF p # "data" THEN ready
              ELSE IF detected THEN "connected" ELSE "failed"

Duration ==
  CASE phase = "silence" -> Silence
    [] phase = "u0011" -> S1
    [] phase = "timed_s11" -> IF bps = 2400 THEN S11at2400 ELSE S11at1200
    [] phase = "s1111" -> S1111
    [] phase = "sb1" -> SB1
    [] OTHER -> 0

Following ==
  CASE phase = "silence" -> "u11"
    [] phase = "u0011" -> "timed_s11"
    [] phase = "timed_s11" /\ bps = 2400 -> "s1111"
    [] OTHER -> "data"

(* Mutant: nothing ends the wait.                                          *)
NeverGivesUp == FALSE

GivesUp == ~detected /\ total + 1 >= Timeout

(* generateAudio(): _advanceHandshake(), then a block is sent.             *)
Advance ==
  CASE phase = "init" -> Enter(IF kind = "V22" THEN "usb1" ELSE "silence")
    [] phase \notin {"init", "data"} /\ GivesUp -> Enter("data")
    [] phase = "usb1" /\ ~GivesUp /\ detected -> Enter("sb1")
    [] phase \in {"silence", "u0011", "timed_s11", "s1111", "sb1"} /\ ~GivesUp
         /\ inPhase + 1 >= Duration -> Enter(Following)
    [] phase \in {"silence", "u0011", "timed_s11", "s1111", "sb1"} /\ ~GivesUp
         /\ inPhase + 1 < Duration ->
         inPhase' = inPhase + 1 /\ UNCHANGED <<phase, ready>>
    [] OTHER -> UNCHANGED <<phase, inPhase, ready>>

Send ==
  /\ turn = "tx" /\ turn' = "rx"
  /\ Advance
  /\ total' = IF phase \notin {"init", "data"} /\ total < Timeout
              THEN total + 1 ELSE total
  /\ bps' = IF phase \notin {"init", "data"} /\ GivesUp THEN 1200 ELSE bps
  /\ UNCHANGED <<kind, above, detected, s1Run, rx, last, restarted>>

-----------------------------------------------------------------------------
Packet ==
  \E line \in Lines, pick \in BOOLEAN :
    \E coarse \in Coarse(line) : Receive(line, coarse, pick)

Next == Packet \/ Miss \/ Send

Spec == Init /\ [][Next]_vars

(* Audio is sent at the pace of the clock, and packets keep coming.        *)
FairSpec == Spec /\ WF_vars(Next) /\ SF_vars(Packet)

-----------------------------------------------------------------------------
(* Both directions run at the same rate when the modem reports that it is  *)
(* connected, if the receiver has not started over since: whether the S1   *)
(* detector finds it acquiring, training or already resigned to 1200.      *)
RatesMatch ==
  ready = "connected" /\ ~restarted =>
    /\ rx.rate = bps
    /\ rx.stage = "normal" => rx.sixteen = (bps = 2400)

(* A V.22bis handshake that reached 2400 bit/s is not taken for a line     *)
(* without a caller.                                                       *)
FastIsConnected == bps = 2400 => ready # "failed"

(* A line on which nobody is heard is given up in time.                    *)
SilenceIsGivenUp == ~detected /\ ready = "none" => total < Timeout

(* The event is emitted once.                                              *)
OneReady == [][ready = "none" \/ ready' = ready]_vars

(* A caller whose carrier stays gets an answer.                            *)
CarrierIsAnswered == <>[](last = "carrier") => <>(ready # "none")

(* V22Demodulator.js, of the rate: "leaving the demod back on the 1200     *)
(* path while V22bis TX is on 2400" is what its guard prevents.            *)
RatesAgree == ready = "connected" => rx.rate = bps

(* Handshake.js: "Windows: V.22bis 5s"; a probe ends.                      *)
ProbeEnds == <>(ready # "none")

(* Both directions agree on the rate, 2400 bit/s is never a failure, and a *)
(* silent line is given up in time.                                        *)
V22Safe == TypeOK /\ RatesMatch /\ FastIsConnected /\ SilenceIsGivenUp

=============================================================================
