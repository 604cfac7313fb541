------------------------- MODULE V8Sequencer_proofs -------------------------
(***************************************************************************)
(* What TLAPS proves of a V.8 negotiation, for all protocols, durations    *)
(* and timeouts, on a line that damages messages or does not, with either  *)
(* side replaced by a foreign modem or with none; and of the parser of its *)
(* messages, for streams of any length, cut anywhere.                      *)
(***************************************************************************)
EXTENDS MCV8, SequenceTheorems, WellFoundedInduction, TLAPS

(* A message that arrived undamaged.                                       *)
Whole(m) == m.type = "CM" /\ ~m.bad

Deal(s, offer) == LocalModes(s) \cap offer

(* The answering side, when the calling one offers this: a CM is that      *)
(* offer, a JM the modes they have in common, which it has settled on when *)
(* it has sent one.                                                        *)
AnswerOK(s, offer) ==
  /\ s \in Sequencer /\ Len(s.q) <= 1
  /\ s.state \in {"CM_WAIT", "JM_ON", "SIGA", "PARKED"}
  /\ Whole(s.pend) => s.pend.modes = offer
  /\ Whole(s.last) => s.last.modes = offer
  /\ s.q # <<>> => s.q[1] = Sound("CM", Deal(s, offer)) /\ s.far = Deal(s, offer)
  /\ s.state \in {"JM_ON", "SIGA"} \/ s.out = "result" => s.far = Deal(s, offer)
  /\ s.state = "SIGA" \/ s.out = "result" => s.proto = SelectProtocol(Deal(s, offer))

(* The calling side, when the deal is this: it hears of it from an answer  *)
(* that has settled on it.                                                 *)
CallerOK(s, deal, settled) ==
  /\ s \in Sequencer /\ Len(s.q) <= 1
  /\ s.state \notin {"CM_WAIT", "JM_ON", "SIGA"}
  /\ s.state # "PARKED" => s.ci < MaxCi
  /\ Whole(s.pend) => s.pend.modes = deal /\ settled
  /\ Whole(s.last) => s.last.modes = deal /\ settled
  /\ s.q # <<>> /\ s.q[1].type = "CM" => s.q[1] = Sound("CM", LocalModes(s))
  /\ s.state \in {"CJ_ON", "SIGC"} \/ s.out = "result" =>
       /\ settled
       /\ s.proto = SelectProtocol(deal) /\ s.proto # "null"

Offer == LocalModes(side["originate"])
TheDeal == Deal(side["answer"], Offer)
Settled == side["answer"].far = TheDeal

(* What is on the line is what its sender would send.                      *)
OnAir ==
  /\ air["originate"].type = "CM" => air["originate"] = Sound("CM", Offer)
  /\ air["answer"].type = "CM" => air["answer"] = Sound("CM", TheDeal) /\ Settled

IInv ==
  /\ TypeOK
  /\ AnswerOK(side["answer"], Offer)
  /\ CallerOK(side["originate"], TheDeal, Settled)
  /\ OnAir

-----------------------------------------------------------------------------
(* The protocol that is selected is one that the modes advertise.          *)
LEMMA Selected ==
  ASSUME NEW modes
  PROVE  /\ SelectProtocol(modes) \in Range(Preference) \cup {"null"}
         /\ SelectProtocol(modes) # "null" => Bit[SelectProtocol(modes)] \in modes
<1> DEFINE in == {n \in DOMAIN Preference : Bit[Preference[n]] \in modes}
<1>1. DOMAIN Preference = 1 .. 5
  BY DEF Preference
<1>2. CASE in = {}
  BY <1>2 DEF SelectProtocol
<1>3. CASE in # {}
  <2>1. \E n \in in : \A k \in in : n <= k
    BY <1>1, <1>3
  <2>2. PICK n \in in : SelectProtocol(modes) = Preference[n]
    BY <1>3, <2>1 DEF SelectProtocol
  <2>3. Preference[n] \in Range(Preference) /\ Bit[Preference[n]] \in modes
    BY <2>2 DEF Range
  <2> QED
    BY <2>2, <2>3
<1> QED
  BY <1>2, <1>3

LEMMA Numbers ==
  ASSUME ConstantsOK
  PROVE  /\ Ansam \in Nat /\ Ansam > 0 /\ Wait1s \in Nat /\ Wait1s > 0
         /\ Te \in Nat /\ Te > 0 /\ CiOff \in Nat /\ CiOff > 0
         /\ MaxCi \in Nat /\ MaxCi > 0 /\ PostSig \in Nat /\ PostSig > 0
         /\ CmWait \in Nat /\ CmWait > 0 /\ JmWait \in Nat /\ JmWait > 0
         /\ 0 .. Wait1s + Te + CiOff + PostSig \subseteq Nat
         /\ {0, Wait1s, Te, CiOff, PostSig} \subseteq 0 .. Wait1s + Te + CiOff + PostSig
         /\ CmWait \in 0 .. CmWait + JmWait /\ JmWait \in 0 .. CmWait + JmWait
         /\ 0 \in 0 .. Ansam /\ PostSig \in 0 .. PostSig
<1>1. /\ Ansam \in Nat /\ Ansam > 0 /\ Wait1s \in Nat /\ Wait1s > 0
      /\ Te \in Nat /\ Te > 0 /\ CiOff \in Nat /\ CiOff > 0
      /\ MaxCi \in Nat /\ MaxCi > 0 /\ PostSig \in Nat /\ PostSig > 0
      /\ CmWait \in Nat /\ CmWait > 0 /\ JmWait \in Nat /\ JmWait > 0
  BY DEF ConstantsOK
<1> QED
  BY <1>1

LEMMA Others == Peer("answer") = "originate" /\ Peer("originate") = "answer"
BY DEF Peer, Sides

(* The silences and the sounds a sequencer makes are sounds.               *)
LEMMA SoundsAreSounds ==
  /\ Silence \in Sounds /\ None \in Sounds /\ ~Whole(None) /\ ~Whole(Silence)
  /\ \A x \in SUBSET Modes : Sound("CM", x) \in Sounds /\ Sound("CI", x) \in Sounds
                              /\ Sound("CJ", x) \in Sounds /\ Sound("ansam", x) \in Sounds
                              /\ Sound("ans", x) \in Sounds
BY DEF Silence, None, Sounds, Sound, Whole

(* A queue of one.                                                         *)
LEMMA OneInQueue ==
  ASSUME NEW m \in Sounds
  PROVE  <<m>> \in Seq(Sounds) /\ Len(<<m>>) = 1 /\ <<m>>[1] = m /\ <<m>> # <<>>
OBVIOUS

LEMMA QueueOut ==
  ASSUME NEW q \in Seq(Sounds), Len(q) <= 1, q # <<>>
  PROVE  Head(q) = q[1] /\ q[1] \in Sounds /\ Tail(q) = <<>>
OBVIOUS

LEMMA NoQueue == <<>> \in Seq(Sounds) /\ Len(<<>>) = 0
OBVIOUS

-----------------------------------------------------------------------------
(* What a handler may do to what a sequencer reports: it does so once, when *)
(* it parks, and after CJ it has a result.                                 *)
Final == {"SIGA", "SIGC", "CJ_ON"}

Goes(s, t) ==
  /\ t.local = s.local
  /\ s.state = "PARKED" => t.state = "PARKED" /\ t.out = s.out
  /\ t.out # s.out => t.state = "PARKED"
  /\ s.state \in Final =>
       \/ t.state \in Final /\ t.out = s.out
       \/ t.state = "PARKED" /\ t.out = "result"

LEMMA GoesOn ==
  ASSUME NEW s, NEW t, NEW u, Goes(s, t), Goes(t, u)
  PROVE  Goes(s, u)
BY DEF Goes

LEMMA GoesNowhere == ASSUME NEW s PROVE Goes(s, s)
BY DEF Goes

-----------------------------------------------------------------------------
(* The answering side.                                                     *)

LEMMA AnswerTakes ==
  ASSUME ConstantsOK, NEW s, NEW offer \in SUBSET Modes, AnswerOK(s, offer),
         NEW m \in Sounds, Whole(m) => m.modes = offer
  PROVE  LET t == HandleParsedMsg(s, m)
         IN /\ AnswerOK(t, offer) /\ Goes(s, t)
            /\ s.far = Deal(s, offer) => t.far = Deal(t, offer)
<1> DEFINE D == Deal(s, offer)
<1>0. D \in SUBSET Modes /\ Sound("CM", D) \in Sounds
  BY SoundsAreSounds DEF Deal
<1>1. ASSUME m.type = "CM", s.state = "CM_WAIT"
      PROVE  LET t == OnCmReceived(s, m)
             IN /\ AnswerOK(t, offer) /\ Goes(s, t)
                /\ s.far = D => t.far = Deal(t, offer)
  <2>1. CASE Same(m, s.last)
    <3>1. m.modes = offer /\ m.modes \cap LocalModes(s) = D
      BY <1>1, <2>1 DEF Same, Whole, Deal
    <3>2. OnCmReceived(s, m) =
            [s EXCEPT !.far = D, !.q = <<Sound("CM", D)>>, !.neg = JmWait,
                      !.ansam = 0, !.post = PostSig, !.fsk = TRUE, !.state = "JM_ON"]
      BY <2>1, <3>1 DEF OnCmReceived, AnswerStartJm
    <3> DEFINE t == OnCmReceived(s, m)
    <3>3. t \in Sequencer
      <4>1. /\ 0 \in 0 .. Ansam /\ PostSig \in 0 .. PostSig
            /\ JmWait \in 0 .. CmWait + JmWait
        BY Numbers
      <4>2. <<Sound("CM", D)>> \in Seq(Sounds)
        BY <1>0
      <4> QED
        BY <1>0, <3>2, <4>1, <4>2 DEF AnswerOK, Sequencer, States
    <3>4. /\ t.far = D /\ t.q = <<Sound("CM", D)>> /\ t.state = "JM_ON"
          /\ t.pend = s.pend /\ t.last = s.last /\ t.local = s.local
          /\ t.out = s.out /\ t.proto = s.proto
      BY <3>2 DEF AnswerOK, Sequencer
    <3>5. Deal(t, offer) = D
      BY <3>4 DEF Deal, LocalModes
    <3> HIDE DEF D
    <3> QED
      BY <1>0, <1>1, <3>3, <3>4, <3>5, OneInQueue DEF AnswerOK, Goes, Final, D
  <2>2. CASE ~Same(m, s.last)
    <3>1. OnCmReceived(s, m) = [s EXCEPT !.last = m]
      BY <2>2 DEF OnCmReceived
    <3> QED
      BY <3>1 DEF AnswerOK, Sequencer, Goes, Final, Deal, LocalModes
  <2> QED
    BY <2>1, <2>2
<1>2. ASSUME s.state = "JM_ON"
      PROVE  LET t == OnCjReceived(s)
             IN /\ AnswerOK(t, offer) /\ Goes(s, t)
                /\ s.far = D => t.far = Deal(t, offer)
  <2> DEFINE t == OnCjReceived(s)
  <2>1. /\ t.q = <<>> /\ t.state = "SIGA" /\ t.proto = SelectProtocol(s.far)
        /\ t.far = s.far /\ t.pend = s.pend /\ t.last = s.last
        /\ t.local = s.local /\ t.out = s.out
    BY DEF OnCjReceived, AnswerOK, Sequencer
  <2>2. t \in Sequencer
    <3>1. SelectProtocol(s.far) \in Range(Preference) \cup {"null"}
      BY Selected
    <3>2. PostSig \in 0 .. Wait1s + Te + CiOff + PostSig
      BY Numbers
    <3> QED
      BY NoQueue, <3>1, <3>2 DEF OnCjReceived, AnswerOK, Sequencer, States
  <2>3. Deal(t, offer) = D
    BY <2>1 DEF Deal, LocalModes
  <2>4. s.far = D
    BY <1>2 DEF AnswerOK
  <2> HIDE DEF D
  <2> QED
    BY <1>2, <2>1, <2>2, <2>3, <2>4, NoQueue DEF AnswerOK, Goes, Final, D
<1>3. CASE m.type = "CM" /\ s.state = "CM_WAIT"
  BY <1>1, <1>3 DEF HandleParsedMsg
<1>4. CASE m.type = "CJ" /\ s.state = "JM_ON"
  BY <1>2, <1>4 DEF HandleParsedMsg
<1>5. CASE ~(m.type = "CM" /\ s.state = "CM_WAIT") /\ ~(m.type = "CJ" /\ s.state = "JM_ON")
  <2>1. HandleParsedMsg(s, m) = s
    BY <1>5 DEF HandleParsedMsg, AnswerOK
  <2> QED
    BY <2>1, GoesNowhere
<1> QED
  BY <1>3, <1>4, <1>5

(* A step of the answering side, from one sequencer to the next.           *)
AnswerStep(s, t, offer) ==
  /\ AnswerOK(t, offer) /\ Goes(s, t)
  /\ s.far = Deal(s, offer) => t.far = Deal(t, offer)

LEMMA AnswerStepsOn ==
  ASSUME NEW s, NEW t, NEW u, NEW offer, AnswerStep(s, t, offer), AnswerStep(t, u, offer)
  PROVE  AnswerStep(s, u, offer)
BY GoesOn DEF AnswerStep

LEMMA AnswerRests ==
  ASSUME NEW s, NEW offer, AnswerOK(s, offer)
  PROVE  AnswerStep(s, s, offer)
BY GoesNowhere DEF AnswerStep

(* Another message is waited for.                                          *)
LEMMA AnswerPends ==
  ASSUME NEW s, NEW offer, AnswerOK(s, offer), NEW m \in Sounds,
         Whole(m) => m.modes = offer
  PROVE  AnswerStep(s, [s EXCEPT !.pend = m], offer)
BY DEF AnswerStep, AnswerOK, Sequencer, Goes, Final, Deal, LocalModes

LEMMA AnswerParses ==
  ASSUME ConstantsOK, NEW s, NEW offer \in SUBSET Modes, AnswerOK(s, offer),
         NEW heard \in Sounds, Whole(heard) => heard.modes = offer
  PROVE  AnswerStep(s, Parse(s, heard), offer)
<1> DEFINE done == IF s.pend.type = "CM" THEN HandleParsedMsg(s, s.pend) ELSE s
<1>1. AnswerStep(s, done, offer)
  <2>1. s.pend \in Sounds /\ (Whole(s.pend) => s.pend.modes = offer)
    BY DEF AnswerOK, Sequencer
  <2>2. AnswerStep(s, HandleParsedMsg(s, s.pend), offer)
    BY <2>1, AnswerTakes DEF AnswerStep
  <2> QED
    BY <2>2, AnswerRests
<1>2. CASE heard.type = "CM"
  <2>1. Parse(s, heard) = [done EXCEPT !.pend = heard]
    BY <1>2 DEF Parse
  <2> HIDE DEF done
  <2>2. AnswerStep(done, [done EXCEPT !.pend = heard], offer)
    BY <1>1, AnswerPends DEF AnswerStep
  <2> QED
    BY <1>1, <2>1, <2>2, AnswerStepsOn
<1>3. CASE heard.type \in {"CI", "CJ"}
  <2>1. Parse(s, heard) = [HandleParsedMsg(done, heard) EXCEPT !.pend = None]
    BY <1>3 DEF Parse
  <2> HIDE DEF done
  <2>2. AnswerStep(done, HandleParsedMsg(done, heard), offer)
    BY <1>1, AnswerTakes DEF AnswerStep
  <2>3. None \in Sounds /\ ~Whole(None)
    BY SoundsAreSounds
  <2>4. AnswerStep(HandleParsedMsg(done, heard),
                   [HandleParsedMsg(done, heard) EXCEPT !.pend = None], offer)
    BY <2>2, <2>3, AnswerPends DEF AnswerStep
  <2> QED
    BY <1>1, <2>1, <2>2, <2>4, AnswerStepsOn
<1>4. CASE heard.type \notin {"CM", "CI", "CJ"}
  <2>1. Parse(s, heard) = s
    BY <1>4 DEF Parse
  <2> QED
    BY <2>1, AnswerRests
<1> QED
  BY <1>2, <1>3, <1>4

(* Only a sequencer that has nothing to report may give up.                *)
LEMMA AnswerParks ==
  ASSUME NEW s, NEW offer, AnswerOK(s, offer),
         s.state \in {"CM_WAIT", "JM_ON"}
  PROVE  AnswerStep(s, Park(s, "failed"), offer)
<1>1. /\ Park(s, "failed") = [s EXCEPT !.state = "PARKED", !.out = "failed"]
      /\ Park(s, "failed") \in Sequencer
  BY DEF Park, AnswerOK, Sequencer, States
<1> QED
  BY <1>1 DEF AnswerStep, AnswerOK, Sequencer, Goes, Final, Deal, LocalModes

LEMMA AnswerTimesOut ==
  ASSUME NEW s, NEW offer, AnswerOK(s, offer)
  PROVE  AnswerStep(s, HandleTimeout(s), offer)
BY AnswerParks, AnswerRests DEF HandleTimeout, AnswerOK

LEMMA AnswerDrives ==
  ASSUME ConstantsOK, NEW s, NEW offer \in SUBSET Modes, AnswerOK(s, offer), NEW heard
  PROVE  AnswerStep(s, Drive(s, heard), offer)
<1> DEFINE D == Deal(s, offer)
<1>1. CASE s.state = "JM_ON"
  <2>1. s.far = D /\ Sound("CM", s.far) \in Sounds
    BY <1>1, SoundsAreSounds DEF AnswerOK, Deal
  <2>2. CASE s.q = <<>>
    <3>1. Drive(s, heard) = [s EXCEPT !.q = <<Sound("CM", s.far)>>]
      BY <1>1, <2>2 DEF Drive, Refill, AnswerOK, Sequencer
    <3>2. /\ <<Sound("CM", s.far)>> \in Seq(Sounds) /\ Len(<<Sound("CM", s.far)>>) = 1
          /\ <<Sound("CM", s.far)>>[1] = Sound("CM", s.far)
      BY <2>1, OneInQueue
    <3> DEFINE t == [s EXCEPT !.q = <<Sound("CM", s.far)>>]
    <3>3. t \in Sequencer
      BY <3>2 DEF AnswerOK, Sequencer
    <3>4. /\ t.q = <<Sound("CM", s.far)>> /\ t.state = s.state /\ t.local = s.local
          /\ t.far = s.far /\ t.pend = s.pend /\ t.last = s.last /\ t.out = s.out
          /\ t.proto = s.proto
      BY DEF AnswerOK, Sequencer
    <3>5. Deal(t, offer) = D
      BY <3>4 DEF Deal, LocalModes
    <3> HIDE DEF t, D
    <3>6. AnswerOK(t, offer)
      BY <1>1, <2>1, <3>2, <3>3, <3>4, <3>5 DEF AnswerOK, D
    <3>7. AnswerStep(s, t, offer)
      BY <2>1, <3>4, <3>5, <3>6 DEF AnswerStep, Goes
    <3> QED
      BY <3>1, <3>7 DEF t
  <2>3. CASE s.q # <<>>
    <3>1. Drive(s, heard) = s
      BY <1>1, <2>3 DEF Drive, Refill, AnswerOK, Sequencer
    <3> QED
      BY <3>1, AnswerRests
  <2> QED
    BY <2>2, <2>3
<1>2. CASE s.state = "SIGA"
  <2> DEFINE n == IF s.timer = 0 THEN 0 ELSE s.timer - 1
             t == [s EXCEPT !.timer = n]
  <2>1. n \in 0 .. Wait1s + Te + CiOff + PostSig
    BY Numbers DEF AnswerOK, Sequencer
  <2>2. t \in Sequencer /\ t.timer = n
    BY <2>1 DEF AnswerOK, Sequencer
  <2> HIDE DEF n
  <2>3. AnswerStep(s, t, offer)
    BY <2>2 DEF AnswerStep, AnswerOK, Sequencer, Goes, Final, Deal, LocalModes
  <2>4. Drive(s, heard) = IF n = 0 THEN Park([t EXCEPT !.fsk = FALSE], "result") ELSE t
    BY <1>2, <2>2 DEF Drive, n, t
  <2>5. AnswerStep(s, Park([t EXCEPT !.fsk = FALSE], "result"), offer)
    <3>1. Park([t EXCEPT !.fsk = FALSE], "result") =
            [s EXCEPT !.timer = n, !.fsk = FALSE, !.state = "PARKED", !.out = "result"]
      BY DEF Park
    <3>2. Park([t EXCEPT !.fsk = FALSE], "result") \in Sequencer
      BY <2>2, <3>1 DEF AnswerOK, Sequencer, States
    <3> QED
      BY <1>2, <3>1, <3>2
      DEF AnswerStep, AnswerOK, Sequencer, Goes, Final, Deal, LocalModes
  <2> QED
    BY <2>3, <2>4, <2>5
<1>3. CASE s.state \in {"CM_WAIT", "PARKED"}
  <2>1. Drive(s, heard) = s
    BY <1>3 DEF Drive
  <2> QED
    BY <2>1, AnswerRests
<1> QED
  BY <1>1, <1>2, <1>3 DEF AnswerOK

LEMMA AnswerReceives ==
  ASSUME ConstantsOK, NEW s, NEW offer \in SUBSET Modes, AnswerOK(s, offer),
         NEW heard \in Sounds, Whole(heard) => heard.modes = offer
  PROVE  AnswerStep(s, ReceiveAudio(s, heard), offer)
<1> DEFINE p == IF RxActive(s) THEN Parse(s, heard) ELSE s
           k == IF p.neg = 0 THEN 0 ELSE p.neg - 1
           n == [p EXCEPT !.neg = k]
<1>1. AnswerStep(s, p, offer)
  BY AnswerParses, AnswerRests
<1>2. AnswerStep(p, n, offer)
  <2> HIDE DEF p
  <2>1. p.neg \in 0 .. CmWait + JmWait
    BY <1>1 DEF AnswerStep, AnswerOK, Sequencer
  <2>2. k \in 0 .. CmWait + JmWait
    BY <2>1, Numbers
  <2> HIDE DEF k
  <2>3. AnswerOK(p, offer)
    BY <1>1 DEF AnswerStep
  <2>4. n \in Sequencer
    BY <2>2, <2>3 DEF AnswerOK, Sequencer
  <2> QED
    BY <2>3, <2>4 DEF AnswerStep, AnswerOK, Sequencer, Goes, Final, Deal, LocalModes
<1>3. ReceiveAudio(s, heard) = IF p.neg = 1 THEN HandleTimeout(n) ELSE Drive(n, heard)
  BY DEF ReceiveAudio
<1> HIDE DEF p, n
<1>4. AnswerStep(n, HandleTimeout(n), offer) /\ AnswerStep(n, Drive(n, heard), offer)
  BY <1>2, AnswerTimesOut, AnswerDrives DEF AnswerStep
<1> QED
  BY <1>1, <1>2, <1>3, <1>4, AnswerStepsOn

-----------------------------------------------------------------------------
(* The calling side.                                                       *)

CallerStep(s, t, deal, settled) == CallerOK(t, deal, settled) /\ Goes(s, t)

LEMMA CallerStepsOn ==
  ASSUME NEW s, NEW t, NEW u, NEW deal, NEW settled,
         CallerStep(s, t, deal, settled), CallerStep(t, u, deal, settled)
  PROVE  CallerStep(s, u, deal, settled)
BY GoesOn DEF CallerStep

LEMMA CallerRests ==
  ASSUME NEW s, NEW deal, NEW settled, CallerOK(s, deal, settled)
  PROVE  CallerStep(s, s, deal, settled)
BY GoesNowhere DEF CallerStep

(* What it waits for, counts and says may change; where it is does not.    *)
LEMMA CallerStays ==
  ASSUME NEW s, NEW deal, NEW settled, CallerOK(s, deal, settled),
         NEW t \in Sequencer, t.state = s.state, t.local = s.local, t.out = s.out,
         t.proto = s.proto, t.last = s.last, t.ci = s.ci, Len(t.q) <= 1,
         Whole(t.pend) => t.pend.modes = deal /\ settled,
         t.q # <<>> /\ t.q[1].type = "CM" => t.q[1] = Sound("CM", LocalModes(s))
  PROVE  CallerStep(s, t, deal, settled)
<1>1. LocalModes(t) = LocalModes(s)
  BY DEF LocalModes
<1> QED
  BY <1>1 DEF CallerStep, CallerOK, Goes, Final

(* It goes on to a state before CJ.                                        *)
LEMMA CallerMoves ==
  ASSUME NEW s, NEW deal, NEW settled, CallerOK(s, deal, settled),
         s.state \notin Final \cup {"PARKED"}, NEW t \in Sequencer,
         t.state \in {"CI_ON", "CI_OFF", "HEARD_ANSAM", "CM_ON"}, t.local = s.local,
         t.out = s.out, t.proto = s.proto, t.pend = s.pend, t.last = s.last,
         t.ci < MaxCi, Len(t.q) <= 1,
         t.q # <<>> /\ t.q[1].type = "CM" => t.q[1] = Sound("CM", LocalModes(s))
  PROVE  CallerStep(s, t, deal, settled)
<1>1. LocalModes(t) = LocalModes(s)
  BY DEF LocalModes
<1> QED
  BY <1>1 DEF CallerStep, CallerOK, Goes, Final

(* It gives up, or has its result.                                         *)
LEMMA CallerParks ==
  ASSUME NEW s, NEW deal, NEW settled, CallerOK(s, deal, settled),
         NEW t \in Sequencer, t.state = "PARKED", t.local = s.local,
         t.pend = s.pend, t.last = s.last, t.q = s.q, t.proto = s.proto,
         \/ t.out = "failed" /\ s.state \notin Final \cup {"PARKED"}
         \/ t.out = "result" /\ s.state = "SIGC"
  PROVE  CallerStep(s, t, deal, settled)
<1>1. LocalModes(t) = LocalModes(s)
  BY DEF LocalModes
<1> QED
  BY <1>1 DEF CallerStep, CallerOK, Goes, Final

LEMMA CallerTakes ==
  ASSUME ConstantsOK, NEW s, NEW deal \in SUBSET Modes, NEW settled,
         CallerOK(s, deal, settled),
         NEW m \in Sounds, Whole(m) => m.modes = deal /\ settled
  PROVE  CallerStep(s, HandleParsedMsg(s, m), deal, settled)
<1>1. CASE m.type = "CM" /\ s.state = "CM_ON" /\ Same(m, s.last)
  <2>1. m.modes = deal /\ settled
    BY <1>1 DEF Same, Whole
  <2>2. HandleParsedMsg(s, m) = OriginateStartCj(s, deal)
    BY <1>1, <2>1 DEF HandleParsedMsg, OnJmReceived
  <2>3. CASE SelectProtocol(deal) = "null"
    <3> DEFINE t == [s EXCEPT !.far = deal, !.state = "PARKED", !.out = "failed"]
    <3>1. OriginateStartCj(s, deal) = t
      BY <2>3 DEF OriginateStartCj, Park
    <3>2. t \in Sequencer
      BY DEF CallerOK, Sequencer, States
    <3>3. /\ t.state = "PARKED" /\ t.local = s.local /\ t.pend = s.pend
          /\ t.last = s.last /\ t.q = s.q /\ t.proto = s.proto /\ t.out = "failed"
      BY DEF CallerOK, Sequencer
    <3> HIDE DEF t
    <3> QED
      BY <1>1, <2>2, <3>1, <3>2, <3>3, CallerParks DEF Final
  <2>4. CASE SelectProtocol(deal) # "null"
    <3> DEFINE t == OriginateStartCj(s, deal)
    <3>1. /\ t = [s EXCEPT !.far = deal, !.q = <<Sound("CJ", {})>>, !.fsk = TRUE,
                           !.proto = SelectProtocol(deal), !.state = "CJ_ON", !.timer = 0]
      BY <2>4 DEF OriginateStartCj
    <3>2. /\ t.state = "CJ_ON" /\ t.local = s.local /\ t.pend = s.pend /\ t.ci = s.ci
          /\ t.last = s.last /\ t.q = <<Sound("CJ", {})>> /\ t.out = s.out
          /\ t.proto = SelectProtocol(deal)
      BY <3>1 DEF CallerOK, Sequencer
    <3>3. Sound("CJ", {}) \in Sounds
      BY SoundsAreSounds
    <3>4. /\ <<Sound("CJ", {})>> \in Seq(Sounds) /\ Len(<<Sound("CJ", {})>>) = 1
          /\ <<Sound("CJ", {})>>[1] = Sound("CJ", {})
      BY <3>3, OneInQueue
    <3>5. t \in Sequencer
      <4>1. SelectProtocol(deal) \in Range(Preference) \cup {"null"}
        BY Selected
      <4>2. 0 \in 0 .. Wait1s + Te + CiOff + PostSig
        BY Numbers
      <4> QED
        BY <3>1, <3>4, <4>1, <4>2 DEF CallerOK, Sequencer, States
    <3>6. Sound("CJ", {}).type # "CM"
      BY DEF Sound
    <3>7. CallerOK(t, deal, settled)
      BY <1>1, <2>1, <2>4, <3>2, <3>4, <3>5, <3>6 DEF CallerOK
    <3>8. Goes(s, t)
      BY <1>1, <3>2 DEF Goes, Final
    <3> QED
      BY <2>2, <3>7, <3>8 DEF CallerStep
  <2> QED
    BY <2>3, <2>4
<1>2. CASE m.type = "CM" /\ s.state = "CM_ON" /\ ~Same(m, s.last)
  <2> DEFINE t == [s EXCEPT !.last = m]
  <2>1. HandleParsedMsg(s, m) = t
    BY <1>2 DEF HandleParsedMsg, OnJmReceived
  <2>2. t \in Sequencer
    BY DEF CallerOK, Sequencer
  <2>3. LocalModes(t) = LocalModes(s)
    BY DEF LocalModes, CallerOK, Sequencer
  <2>4. CallerOK(t, deal, settled)
    BY <2>2, <2>3 DEF CallerOK, Sequencer
  <2>5. Goes(s, t)
    BY DEF Goes, CallerOK, Sequencer, Final
  <2> QED
    BY <2>1, <2>4, <2>5 DEF CallerStep
<1>3. CASE ~(m.type = "CM" /\ s.state = "CM_ON")
  <2>1. HandleParsedMsg(s, m) = s
    BY <1>3 DEF HandleParsedMsg, CallerOK
  <2> QED
    BY <2>1, CallerRests
<1> QED
  BY <1>1, <1>2, <1>3

LEMMA CallerPends ==
  ASSUME NEW s, NEW deal, NEW settled, CallerOK(s, deal, settled), NEW m \in Sounds,
         Whole(m) => m.modes = deal /\ settled
  PROVE  CallerStep(s, [s EXCEPT !.pend = m], deal, settled)
<1> DEFINE t == [s EXCEPT !.pend = m]
<1>1. t \in Sequencer /\ t.pend = m
  BY DEF CallerOK, Sequencer
<1>2. /\ t.state = s.state /\ t.local = s.local /\ t.out = s.out /\ t.proto = s.proto
      /\ t.last = s.last /\ t.ci = s.ci /\ t.q = s.q
  BY DEF CallerOK, Sequencer
<1>3. Len(t.q) <= 1 /\ (t.q # <<>> /\ t.q[1].type = "CM" => t.q[1] = Sound("CM", LocalModes(s)))
  BY <1>2 DEF CallerOK
<1> HIDE DEF t
<1>4. CallerStep(s, t, deal, settled)
  BY <1>1, <1>2, <1>3, CallerStays
<1> QED
  BY <1>4 DEF t

LEMMA CallerParses ==
  ASSUME ConstantsOK, NEW s, NEW deal \in SUBSET Modes, NEW settled,
         CallerOK(s, deal, settled),
         NEW heard \in Sounds, Whole(heard) => heard.modes = deal /\ settled
  PROVE  CallerStep(s, Parse(s, heard), deal, settled)
<1> DEFINE done == IF s.pend.type = "CM" THEN HandleParsedMsg(s, s.pend) ELSE s
<1>1. CallerStep(s, done, deal, settled)
  <2>1. s.pend \in Sounds /\ (Whole(s.pend) => s.pend.modes = deal /\ settled)
    BY DEF CallerOK, Sequencer
  <2>2. CallerStep(s, HandleParsedMsg(s, s.pend), deal, settled)
    BY <2>1, CallerTakes
  <2> QED
    BY <2>2, CallerRests
<1>2. CASE heard.type = "CM"
  <2>1. Parse(s, heard) = [done EXCEPT !.pend = heard]
    BY <1>2 DEF Parse
  <2> HIDE DEF done
  <2>2. CallerStep(done, [done EXCEPT !.pend = heard], deal, settled)
    BY <1>1, CallerPends DEF CallerStep
  <2> QED
    BY <1>1, <2>1, <2>2, CallerStepsOn
<1>3. CASE heard.type \in {"CI", "CJ"}
  <2>1. Parse(s, heard) = [HandleParsedMsg(done, heard) EXCEPT !.pend = None]
    BY <1>3 DEF Parse
  <2> HIDE DEF done
  <2>2. CallerStep(done, HandleParsedMsg(done, heard), deal, settled)
    BY <1>1, CallerTakes DEF CallerStep
  <2>3. None \in Sounds /\ ~Whole(None)
    BY SoundsAreSounds
  <2>4. CallerStep(HandleParsedMsg(done, heard),
                   [HandleParsedMsg(done, heard) EXCEPT !.pend = None], deal, settled)
    BY <2>2, <2>3, CallerPends DEF CallerStep
  <2> QED
    BY <1>1, <2>1, <2>2, <2>4, CallerStepsOn
<1>4. CASE heard.type \notin {"CM", "CI", "CJ"}
  <2>1. Parse(s, heard) = s
    BY <1>4 DEF Parse
  <2> QED
    BY <2>1, CallerRests
<1> QED
  BY <1>2, <1>3, <1>4

LEMMA CallerTimesOut ==
  ASSUME NEW s, NEW deal, NEW settled, CallerOK(s, deal, settled)
  PROVE  CallerStep(s, HandleTimeout(s), deal, settled)
<1>1. CASE s.state = "CM_ON"
  <2> DEFINE t == [s EXCEPT !.state = "PARKED", !.out = "failed"]
  <2>1. HandleTimeout(s) = t
    BY <1>1 DEF HandleTimeout, Park
  <2>2. t \in Sequencer
    BY DEF CallerOK, Sequencer, States
  <2>3. /\ t.state = "PARKED" /\ t.local = s.local /\ t.pend = s.pend
        /\ t.last = s.last /\ t.q = s.q /\ t.proto = s.proto /\ t.out = "failed"
    BY DEF CallerOK, Sequencer
  <2> HIDE DEF t
  <2> QED
    BY <1>1, <2>1, <2>2, <2>3, CallerParks DEF Final
<1>2. CASE s.state # "CM_ON"
  <2>1. HandleTimeout(s) = s
    BY <1>2 DEF HandleTimeout, CallerOK
  <2> QED
    BY <2>1, CallerRests
<1> QED
  BY <1>1, <1>2

(* The timer of a state runs.                                              *)
Later(s) == [s EXCEPT !.timer = IF @ = 0 THEN 0 ELSE @ - 1]

LEMMA CallerLater ==
  ASSUME ConstantsOK, NEW s, NEW deal, NEW settled, CallerOK(s, deal, settled)
  PROVE  /\ CallerStep(s, Later(s), deal, settled)
         /\ Later(s).state = s.state /\ Later(s).q = s.q /\ Later(s).ci = s.ci
<1> DEFINE n == IF s.timer = 0 THEN 0 ELSE s.timer - 1
           t == [s EXCEPT !.timer = n]
<1>1. t = Later(s)
  BY DEF Later
<1>2. n \in 0 .. Wait1s + Te + CiOff + PostSig
  <2>1. s.timer \in 0 .. Wait1s + Te + CiOff + PostSig
    BY DEF CallerOK, Sequencer
  <2> QED
    BY <2>1, Numbers
<1> HIDE DEF n
<1>3. t \in Sequencer
  BY <1>2 DEF CallerOK, Sequencer
<1>4. /\ t.state = s.state /\ t.local = s.local /\ t.out = s.out /\ t.proto = s.proto
      /\ t.last = s.last /\ t.ci = s.ci /\ t.q = s.q /\ t.pend = s.pend
  BY DEF CallerOK, Sequencer
<1> HIDE DEF t
<1>5. /\ Len(t.q) <= 1
      /\ Whole(t.pend) => t.pend.modes = deal /\ settled
      /\ t.q # <<>> /\ t.q[1].type = "CM" => t.q[1] = Sound("CM", LocalModes(s))
  BY <1>4 DEF CallerOK
<1>6. CallerStep(s, t, deal, settled)
  BY <1>3, <1>4, <1>5, CallerStays
<1> QED
  BY <1>1, <1>4, <1>6

(* A burst of CI, the first or another.                                    *)
LEMMA CallerBursts ==
  ASSUME ConstantsOK, NEW s, NEW deal, NEW settled, CallerOK(s, deal, settled),
         s.state \notin Final \cup {"PARKED"}, NEW c \in 0 .. MaxCi, c < MaxCi
  PROVE  CallerStep(s, CiBurst([s EXCEPT !.ci = c]), deal, settled)
<1> DEFINE t == [s EXCEPT !.ci = c, !.q = <<Sound("CI", {})>>, !.fsk = TRUE,
                         !.timer = 0, !.state = "CI_ON"]
<1>1. CiBurst([s EXCEPT !.ci = c]) = t
  BY DEF CiBurst
<1>2. Sound("CI", {}) \in Sounds /\ Sound("CI", {}).type # "CM"
  BY SoundsAreSounds DEF Sound
<1>3. /\ <<Sound("CI", {})>> \in Seq(Sounds) /\ Len(<<Sound("CI", {})>>) = 1
      /\ <<Sound("CI", {})>>[1] = Sound("CI", {})
  BY <1>2, OneInQueue
<1>4. 0 \in 0 .. Wait1s + Te + CiOff + PostSig
  BY Numbers
<1>5. t \in Sequencer
  BY <1>3, <1>4 DEF CallerOK, Sequencer, States
<1>6. /\ t.state = "CI_ON" /\ t.local = s.local /\ t.out = s.out /\ t.proto = s.proto
      /\ t.last = s.last /\ t.ci = c /\ t.q = <<Sound("CI", {})>> /\ t.pend = s.pend
  BY DEF CallerOK, Sequencer
<1> HIDE DEF t
<1>7. /\ t.state \in {"CI_ON", "CI_OFF", "HEARD_ANSAM", "CM_ON"}
      /\ t.ci < MaxCi /\ Len(t.q) <= 1
      /\ t.q # <<>> /\ t.q[1].type = "CM" => t.q[1] = Sound("CM", LocalModes(s))
  BY <1>2, <1>3, <1>6
<1>8. CallerStep(s, t, deal, settled)
  BY <1>5, <1>6, <1>7, CallerMoves
<1> QED
  BY <1>1, <1>8

(* ANSam is heard, and CM goes out.                                        *)
LEMMA CallerHears ==
  ASSUME ConstantsOK, NEW s, NEW deal, NEW settled, CallerOK(s, deal, settled),
         s.state \notin Final \cup {"PARKED"}
  PROVE  /\ CallerStep(s, [s EXCEPT !.fsk = FALSE, !.q = <<>>, !.timer = Te,
                                    !.state = "HEARD_ANSAM"], deal, settled)
         /\ CallerStep(s, [s EXCEPT !.fsk = FALSE, !.timer = CiOff,
                                    !.state = "CI_OFF"], deal, settled)
         /\ CallerStep(s, OriginateStartCm(s), deal, settled)
<1>0. /\ Te \in 0 .. Wait1s + Te + CiOff + PostSig
      /\ CiOff \in 0 .. Wait1s + Te + CiOff + PostSig
      /\ CmWait \in 0 .. CmWait + JmWait
  BY Numbers
<1>1. CallerStep(s, [s EXCEPT !.fsk = FALSE, !.q = <<>>, !.timer = Te,
                             !.state = "HEARD_ANSAM"], deal, settled)
  <2> DEFINE t == [s EXCEPT !.fsk = FALSE, !.q = <<>>, !.timer = Te,
                           !.state = "HEARD_ANSAM"]
  <2>1. t \in Sequencer
    BY <1>0, NoQueue DEF CallerOK, Sequencer, States
  <2>2. /\ t.state = "HEARD_ANSAM" /\ t.local = s.local /\ t.out = s.out
        /\ t.proto = s.proto /\ t.last = s.last /\ t.ci = s.ci /\ t.q = <<>>
        /\ t.pend = s.pend
    BY DEF CallerOK, Sequencer
  <2>3. t.ci < MaxCi
    BY <2>2 DEF CallerOK
  <2> HIDE DEF t
  <2>4. CallerStep(s, t, deal, settled)
    BY <2>1, <2>2, <2>3, NoQueue, CallerMoves
  <2> QED
    BY <2>4 DEF t
<1>2. CallerStep(s, [s EXCEPT !.fsk = FALSE, !.timer = CiOff,
                             !.state = "CI_OFF"], deal, settled)
  <2> DEFINE t == [s EXCEPT !.fsk = FALSE, !.timer = CiOff, !.state = "CI_OFF"]
  <2>1. t \in Sequencer
    BY <1>0 DEF CallerOK, Sequencer, States
  <2>2. /\ t.state = "CI_OFF" /\ t.local = s.local /\ t.out = s.out
        /\ t.proto = s.proto /\ t.last = s.last /\ t.ci = s.ci /\ t.q = s.q
        /\ t.pend = s.pend
    BY DEF CallerOK, Sequencer
  <2>3. /\ t.ci < MaxCi /\ Len(t.q) <= 1
        /\ t.q # <<>> /\ t.q[1].type = "CM" => t.q[1] = Sound("CM", LocalModes(s))
    BY <2>2 DEF CallerOK
  <2> HIDE DEF t
  <2>4. CallerStep(s, t, deal, settled)
    BY <2>1, <2>2, <2>3, CallerMoves
  <2> QED
    BY <2>4 DEF t
<1>3. CallerStep(s, OriginateStartCm(s), deal, settled)
  <2> DEFINE m == Sound("CM", LocalModes(s))
             t == [s EXCEPT !.q = <<m>>, !.fsk = TRUE, !.neg = CmWait, !.state = "CM_ON"]
  <2>1. t = OriginateStartCm(s)
    BY DEF OriginateStartCm
  <2>2. m \in Sounds
    BY SoundsAreSounds DEF LocalModes
  <2> HIDE DEF m
  <2>3. <<m>> \in Seq(Sounds) /\ Len(<<m>>) = 1 /\ <<m>>[1] = m
    BY <2>2, OneInQueue
  <2>4. t \in Sequencer
    BY <1>0, <2>3 DEF CallerOK, Sequencer, States
  <2>5. /\ t.state = "CM_ON" /\ t.local = s.local /\ t.out = s.out
        /\ t.proto = s.proto /\ t.last = s.last /\ t.ci = s.ci /\ t.q = <<m>>
        /\ t.pend = s.pend
    BY DEF CallerOK, Sequencer
  <2>6. /\ t.ci < MaxCi /\ Len(t.q) <= 1
        /\ t.q # <<>> /\ t.q[1].type = "CM" => t.q[1] = Sound("CM", LocalModes(s))
    BY <2>3, <2>5 DEF CallerOK, m
  <2> HIDE DEF t
  <2>7. CallerStep(s, t, deal, settled)
    BY <2>4, <2>5, <2>6, CallerMoves
  <2> QED
    BY <2>1, <2>7
<1> QED
  BY <1>1, <1>2, <1>3

LEMMA CallerSeeks ==
  ASSUME ConstantsOK, NEW s, NEW deal, NEW settled, CallerOK(s, deal, settled),
         s.state \in {"WAIT_1S", "CI_ON", "CI_OFF"}, NEW heard
  PROVE  CallerStep(s, DriveOriginateCi(s, heard), deal, settled)
<1> DEFINE tone == heard.type \in {"ansam", "ans"}
           t == Later(s)
<1>0. /\ CallerStep(s, t, deal, settled)
      /\ t.state = s.state /\ t.q = s.q /\ t.ci = s.ci
  BY CallerLater
<1>1. s.state \notin Final \cup {"PARKED"} /\ t.state \notin Final \cup {"PARKED"}
  BY <1>0 DEF Final
<1>2. CallerOK(t, deal, settled) /\ t.ci \in 0 .. MaxCi /\ t.ci < MaxCi
  BY <1>0, <1>1 DEF CallerStep, CallerOK, Sequencer
<1>3. t.timer \in Nat /\ MaxCi \in Nat /\ MaxCi > 0
  <2>1. t.timer \in 0 .. Wait1s + Te + CiOff + PostSig
    BY <1>2 DEF CallerOK, Sequencer
  <2> QED
    BY <2>1, Numbers
<1>4. DriveOriginateCi(s, heard) =
        CASE tone ->
               [s EXCEPT !.fsk = FALSE, !.q = <<>>, !.timer = Te, !.state = "HEARD_ANSAM"]
          [] ~tone /\ t.timer > 0 -> t
          [] ~tone /\ t.timer = 0 /\ s.state = "WAIT_1S" -> CiBurst(t)
          [] ~tone /\ t.timer = 0 /\ s.state = "CI_ON" ->
               IF s.q # <<>> THEN t
               ELSE [t EXCEPT !.fsk = FALSE, !.timer = CiOff, !.state = "CI_OFF"]
          [] OTHER ->
               IF s.ci + 1 >= MaxCi THEN Park([t EXCEPT !.ci = @ + 1], "failed")
               ELSE CiBurst([t EXCEPT !.ci = @ + 1])
  BY DEF DriveOriginateCi, Later
<1> HIDE DEF t
<1>5. CASE tone
  <2>1. DriveOriginateCi(s, heard) = [s EXCEPT !.fsk = FALSE, !.q = <<>>, !.timer = Te,
                                              !.state = "HEARD_ANSAM"]
    BY <1>5, <1>4
  <2>2. CallerStep(s, [s EXCEPT !.fsk = FALSE, !.q = <<>>, !.timer = Te,
                               !.state = "HEARD_ANSAM"], deal, settled)
    BY <1>1, CallerHears
  <2> QED
    BY <2>1, <2>2
<1>6. CASE ~tone /\ t.timer > 0
  <2>1. DriveOriginateCi(s, heard) = t
    BY <1>3, <1>6, <1>4
  <2> QED
    BY <1>0, <2>1
<1>7. CASE ~tone /\ ~(t.timer > 0) /\ s.state = "WAIT_1S"
  <2>1. DriveOriginateCi(s, heard) = CiBurst(t)
    BY <1>3, <1>7, <1>4
  <2>2. [t EXCEPT !.ci = t.ci] = t
    BY <1>2 DEF CallerOK, Sequencer
  <2>3. CallerStep(t, CiBurst([t EXCEPT !.ci = t.ci]), deal, settled)
    BY <1>1, <1>2, CallerBursts
  <2>4. CallerStep(t, CiBurst(t), deal, settled)
    BY <2>2, <2>3
  <2> QED
    BY <1>0, <2>1, <2>4, CallerStepsOn
<1>8. CASE ~tone /\ ~(t.timer > 0) /\ s.state = "CI_ON"
  <2>1. DriveOriginateCi(s, heard) =
          IF s.q # <<>> THEN t
          ELSE [t EXCEPT !.fsk = FALSE, !.timer = CiOff, !.state = "CI_OFF"]
    BY <1>3, <1>8, <1>4
  <2>2. CallerStep(t, [t EXCEPT !.fsk = FALSE, !.timer = CiOff, !.state = "CI_OFF"],
                   deal, settled)
    BY <1>1, <1>2, CallerHears
  <2> QED
    BY <1>0, <2>1, <2>2, CallerStepsOn
<1>9. CASE ~tone /\ ~(t.timer > 0) /\ s.state = "CI_OFF"
  <2> DEFINE u == [t EXCEPT !.ci = t.ci + 1]
  <2>1. DriveOriginateCi(s, heard) =
          IF s.ci + 1 >= MaxCi THEN Park(u, "failed") ELSE CiBurst(u)
    BY <1>0, <1>3, <1>9, <1>4
  <2>2. t.ci + 1 \in 0 .. MaxCi
    BY <1>2, <1>3
  <2>3. CASE s.ci + 1 >= MaxCi
    <3> DEFINE v == [t EXCEPT !.ci = t.ci + 1, !.state = "PARKED", !.out = "failed"]
    <3>1. Park(u, "failed") = v
      BY DEF Park
    <3>2. v \in Sequencer
      BY <1>2, <2>2 DEF CallerOK, Sequencer, States
    <3>3. /\ v.state = "PARKED" /\ v.local = t.local /\ v.pend = t.pend
          /\ v.last = t.last /\ v.q = t.q /\ v.proto = t.proto /\ v.out = "failed"
      BY <1>2 DEF CallerOK, Sequencer
    <3> HIDE DEF v, u
    <3>4. CallerStep(t, v, deal, settled)
      BY <1>1, <1>2, <3>2, <3>3, CallerParks
    <3> QED
      BY <1>0, <2>1, <2>3, <3>1, <3>4, CallerStepsOn
  <2>4. CASE ~(s.ci + 1 >= MaxCi)
    <3>1. t.ci + 1 < MaxCi
      BY <1>0, <1>2, <1>3, <2>4
    <3>2. CallerStep(t, CiBurst(u), deal, settled)
      BY <1>1, <1>2, <2>2, <3>1, CallerBursts
    <3> QED
      BY <1>0, <2>1, <2>4, <3>2, CallerStepsOn
  <2> QED
    BY <2>3, <2>4
<1> QED
  BY <1>5, <1>6, <1>7, <1>8, <1>9

LEMMA CallerDrives ==
  ASSUME ConstantsOK, NEW s, NEW deal, NEW settled, CallerOK(s, deal, settled), NEW heard
  PROVE  CallerStep(s, Drive(s, heard), deal, settled)
<1> DEFINE t == Later(s)
<1>0. /\ CallerStep(s, t, deal, settled)
      /\ t.state = s.state /\ t.q = s.q /\ t.ci = s.ci
  BY CallerLater
<1>1. CASE s.state \in {"WAIT_1S", "CI_ON", "CI_OFF"}
  <2>1. Drive(s, heard) = DriveOriginateCi(s, heard)
    BY <1>1 DEF Drive
  <2> QED
    BY <1>1, <2>1, CallerSeeks
<1>2. CASE s.state = "HEARD_ANSAM"
  <2>1. Drive(s, heard) = IF t.timer = 0 THEN OriginateStartCm(t) ELSE t
    BY <1>2 DEF Drive, Later
  <2>2. t.state \notin Final \cup {"PARKED"}
    BY <1>0, <1>2 DEF Final
  <2>3. CallerStep(t, OriginateStartCm(t), deal, settled)
    BY <1>0, <2>2, CallerHears DEF CallerStep
  <2> QED
    BY <1>0, <2>1, <2>3, CallerStepsOn
<1>3. CASE s.state = "CM_ON"
  <2> DEFINE m == Sound("CM", LocalModes(s))
             u == [s EXCEPT !.q = IF @ = <<>> THEN <<m>> ELSE @]
  <2>1. Drive(s, heard) = u
    BY <1>3 DEF Drive, Refill
  <2>2. m \in Sounds
    BY SoundsAreSounds DEF LocalModes
  <2> HIDE DEF m
  <2>3. <<m>> \in Seq(Sounds) /\ Len(<<m>>) = 1 /\ <<m>>[1] = m
    BY <2>2, OneInQueue
  <2>4. u \in Sequencer
    BY <2>3 DEF CallerOK, Sequencer
  <2>5. /\ u.state = s.state /\ u.local = s.local /\ u.out = s.out
        /\ u.proto = s.proto /\ u.last = s.last /\ u.ci = s.ci /\ u.pend = s.pend
        /\ u.q = IF s.q = <<>> THEN <<m>> ELSE s.q
    BY DEF CallerOK, Sequencer
  <2>6. /\ Len(u.q) <= 1
        /\ Whole(u.pend) => u.pend.modes = deal /\ settled
        /\ u.q # <<>> /\ u.q[1].type = "CM" => u.q[1] = Sound("CM", LocalModes(s))
    BY <2>3, <2>5 DEF CallerOK, m
  <2> HIDE DEF u
  <2>7. CallerStep(s, u, deal, settled)
    BY <2>4, <2>5, <2>6, CallerStays
  <2> QED
    BY <2>1, <2>7
<1>4. CASE s.state = "CJ_ON"
  <2> DEFINE u == [s EXCEPT !.fsk = FALSE, !.timer = PostSig, !.state = "SIGC"]
  <2>1. Drive(s, heard) = IF s.q # <<>> THEN s ELSE u
    BY <1>4 DEF Drive
  <2>2. PostSig \in 0 .. Wait1s + Te + CiOff + PostSig
    BY Numbers
  <2>3. u \in Sequencer
    BY <2>2 DEF CallerOK, Sequencer, States
  <2>4. /\ u.state = "SIGC" /\ u.local = s.local /\ u.out = s.out
        /\ u.proto = s.proto /\ u.last = s.last /\ u.ci = s.ci /\ u.pend = s.pend
        /\ u.q = s.q
    BY DEF CallerOK, Sequencer
  <2>5. LocalModes(u) = LocalModes(s)
    BY <2>4 DEF LocalModes
  <2> HIDE DEF u
  <2>6. CallerOK(u, deal, settled)
    BY <1>4, <2>3, <2>4, <2>5 DEF CallerOK
  <2>7. Goes(s, u)
    BY <1>4, <2>4 DEF Goes, Final
  <2> QED
    BY <2>1, <2>6, <2>7, CallerRests DEF CallerStep
<1>5. CASE s.state = "SIGC"
  <2> DEFINE u == [t EXCEPT !.fsk = FALSE, !.state = "PARKED", !.out = "result"]
  <2>1. Drive(s, heard) = IF t.timer = 0 THEN u ELSE t
    BY <1>5 DEF Drive, Later, Park
  <2> HIDE DEF t
  <2>2. CallerOK(t, deal, settled) /\ t.state = "SIGC"
    BY <1>0, <1>5 DEF CallerStep
  <2>3. u \in Sequencer
    BY <2>2 DEF CallerOK, Sequencer, States
  <2>4. /\ u.state = "PARKED" /\ u.local = t.local /\ u.pend = t.pend
        /\ u.last = t.last /\ u.q = t.q /\ u.proto = t.proto /\ u.out = "result"
    BY <2>2 DEF CallerOK, Sequencer
  <2> HIDE DEF u
  <2>5. CallerStep(t, u, deal, settled)
    BY <2>2, <2>3, <2>4, CallerParks
  <2> QED
    BY <1>0, <2>1, <2>5, CallerStepsOn
<1>6. CASE s.state = "PARKED"
  <2>1. Drive(s, heard) = s
    BY <1>6 DEF Drive
  <2> QED
    BY <2>1, CallerRests
<1> QED
  BY <1>1, <1>2, <1>3, <1>4, <1>5, <1>6 DEF CallerOK, Sequencer, States

LEMMA CallerReceives ==
  ASSUME ConstantsOK, NEW s, NEW deal \in SUBSET Modes, NEW settled,
         CallerOK(s, deal, settled),
         NEW heard \in Sounds, Whole(heard) => heard.modes = deal /\ settled
  PROVE  CallerStep(s, ReceiveAudio(s, heard), deal, settled)
<1> DEFINE p == IF RxActive(s) THEN Parse(s, heard) ELSE s
           k == IF p.neg = 0 THEN 0 ELSE p.neg - 1
           n == [p EXCEPT !.neg = k]
<1>1. CallerStep(s, p, deal, settled)
  BY CallerParses, CallerRests
<1>2. CallerStep(p, n, deal, settled)
  <2> HIDE DEF p
  <2>1. CallerOK(p, deal, settled)
    BY <1>1 DEF CallerStep
  <2>2. p.neg \in 0 .. CmWait + JmWait
    BY <2>1 DEF CallerOK, Sequencer
  <2>3. k \in 0 .. CmWait + JmWait
    BY <2>2, Numbers
  <2> HIDE DEF k
  <2>4. n \in Sequencer
    BY <2>1, <2>3 DEF CallerOK, Sequencer
  <2>5. /\ n.state = p.state /\ n.local = p.local /\ n.out = p.out /\ n.proto = p.proto
        /\ n.last = p.last /\ n.ci = p.ci /\ n.q = p.q /\ n.pend = p.pend
    BY <2>1 DEF CallerOK, Sequencer
  <2>6. /\ Len(n.q) <= 1
        /\ Whole(n.pend) => n.pend.modes = deal /\ settled
        /\ n.q # <<>> /\ n.q[1].type = "CM" => n.q[1] = Sound("CM", LocalModes(p))
    BY <2>1, <2>5 DEF CallerOK
  <2> HIDE DEF n
  <2> QED
    BY <2>1, <2>4, <2>5, <2>6, CallerStays
<1>3. ReceiveAudio(s, heard) = IF p.neg = 1 THEN HandleTimeout(n) ELSE Drive(n, heard)
  BY DEF ReceiveAudio
<1> HIDE DEF p, n
<1>4. /\ CallerStep(n, HandleTimeout(n), deal, settled)
      /\ CallerStep(n, Drive(n, heard), deal, settled)
  BY <1>2, CallerTimesOut, CallerDrives DEF CallerStep
<1> QED
  BY <1>1, <1>2, <1>3, <1>4, CallerStepsOn

-----------------------------------------------------------------------------
(* Sending takes nothing but the timers and the queue forward.             *)
LEMMA Generated ==
  ASSUME ConstantsOK, NEW s \in Sequencer, Len(s.q) <= 1
  PROVE  LET g == GenerateAudio(s)
         IN /\ g[1] \in Sounds
            /\ g[1].type = "CM" => s.q # <<>> /\ g[1] = s.q[1]
            /\ g[2] \in Sequencer
            /\ g[2].state = s.state /\ g[2].local = s.local /\ g[2].far = s.far
            /\ g[2].pend = s.pend /\ g[2].last = s.last /\ g[2].ci = s.ci
            /\ g[2].out = s.out /\ g[2].proto = s.proto
            /\ g[2].q = s.q \/ g[2].q = <<>>
<1> DEFINE g == GenerateAudio(s)
           Same2(t) == /\ t \in Sequencer
                       /\ t.state = s.state /\ t.local = s.local /\ t.far = s.far
                       /\ t.pend = s.pend /\ t.last = s.last /\ t.ci = s.ci
                       /\ t.out = s.out /\ t.proto = s.proto
                       /\ t.q = s.q \/ t.q = <<>>
<1>0. /\ Silence \in Sounds /\ Sound("ansam", {}) \in Sounds
      /\ Silence.type # "CM" /\ Sound("ansam", {}).type # "CM"
  BY SoundsAreSounds DEF Silence, Sound
<1>1. s.ansam \in 0 .. Ansam /\ s.post \in 0 .. PostSig /\ Ansam \in Nat /\ PostSig \in Nat
  BY Numbers DEF Sequencer
<1>2. CASE s.state = "PARKED"
  <2>1. g = <<Silence, s>>
    BY <1>2 DEF GenerateAudio
  <2> QED
    BY <1>0, <2>1
<1>3. CASE s.state # "PARKED" /\ s.ansam > 0
  <2> DEFINE t == [s EXCEPT !.ansam = s.ansam - 1]
  <2>1. g = <<Sound("ansam", {}), t>>
    BY <1>3 DEF GenerateAudio
  <2>2. s.ansam - 1 \in 0 .. Ansam
    BY <1>1, <1>3
  <2>3. Same2(t)
    BY <2>2 DEF Sequencer
  <2> HIDE DEF t
  <2> QED
    BY <1>0, <2>1, <2>3
<1>4. CASE s.state # "PARKED" /\ s.ansam = 0 /\ s.post > 0
  <2> DEFINE t == [s EXCEPT !.post = s.post - 1]
  <2>1. g = <<Silence, t>>
    BY <1>4 DEF GenerateAudio
  <2>2. s.post - 1 \in 0 .. PostSig
    BY <1>1, <1>4
  <2>3. Same2(t)
    BY <2>2 DEF Sequencer
  <2> HIDE DEF t
  <2> QED
    BY <1>0, <2>1, <2>3
<1>5. CASE s.state # "PARKED" /\ s.ansam = 0 /\ s.post = 0
  <2>1. CASE s.fsk /\ s.q # <<>>
    <3> DEFINE t == [s EXCEPT !.q = Tail(s.q)]
    <3>1. g = <<Head(s.q), t>>
      BY <1>5, <2>1 DEF GenerateAudio
    <3>2. Head(s.q) = s.q[1] /\ s.q[1] \in Sounds /\ Tail(s.q) = <<>>
      BY <2>1, QueueOut DEF Sequencer
    <3>3. Same2(t)
      BY <3>2, NoQueue DEF Sequencer
    <3> HIDE DEF t
    <3> QED
      BY <2>1, <3>1, <3>2, <3>3
  <2>2. CASE ~(s.fsk /\ s.q # <<>>)
    <3>1. g = <<Silence, s>>
      BY <1>5, <2>2 DEF GenerateAudio
    <3> QED
      BY <1>0, <3>1
  <2> QED
    BY <2>1, <2>2
<1> QED
  BY <1>1, <1>2, <1>3, <1>4, <1>5

LEMMA AnswerSends ==
  ASSUME ConstantsOK, NEW s, NEW offer \in SUBSET Modes, AnswerOK(s, offer)
  PROVE  LET g == GenerateAudio(s)
         IN /\ AnswerStep(s, g[2], offer) /\ g[1] \in Sounds
            /\ g[1].type = "CM" =>
                 g[1] = Sound("CM", Deal(s, offer)) /\ s.far = Deal(s, offer)
<1> DEFINE g == GenerateAudio(s)
<1>1. /\ g[1] \in Sounds
      /\ g[1].type = "CM" => s.q # <<>> /\ g[1] = s.q[1]
      /\ g[2] \in Sequencer
      /\ g[2].state = s.state /\ g[2].local = s.local /\ g[2].far = s.far
      /\ g[2].pend = s.pend /\ g[2].last = s.last /\ g[2].ci = s.ci
      /\ g[2].out = s.out /\ g[2].proto = s.proto
      /\ g[2].q = s.q \/ g[2].q = <<>>
  BY Generated DEF AnswerOK
<1>2. Deal(g[2], offer) = Deal(s, offer)
  BY <1>1 DEF Deal, LocalModes
<1>3. AnswerOK(g[2], offer)
  BY <1>1, <1>2, NoQueue DEF AnswerOK
<1>4. AnswerStep(s, g[2], offer)
  BY <1>1, <1>2, <1>3 DEF AnswerStep, Goes
<1> QED
  BY <1>1, <1>4 DEF AnswerOK

LEMMA CallerSends ==
  ASSUME ConstantsOK, NEW s, NEW deal, NEW settled, CallerOK(s, deal, settled)
  PROVE  LET g == GenerateAudio(s)
         IN /\ CallerStep(s, g[2], deal, settled) /\ g[1] \in Sounds
            /\ g[1].type = "CM" => g[1] = Sound("CM", LocalModes(s))
<1> DEFINE g == GenerateAudio(s)
<1>1. /\ g[1] \in Sounds
      /\ g[1].type = "CM" => s.q # <<>> /\ g[1] = s.q[1]
      /\ g[2] \in Sequencer
      /\ g[2].state = s.state /\ g[2].local = s.local /\ g[2].far = s.far
      /\ g[2].pend = s.pend /\ g[2].last = s.last /\ g[2].ci = s.ci
      /\ g[2].out = s.out /\ g[2].proto = s.proto
      /\ g[2].q = s.q \/ g[2].q = <<>>
  BY Generated DEF CallerOK
<1>2. LocalModes(g[2]) = LocalModes(s)
  BY <1>1 DEF LocalModes
<1>3. CallerOK(g[2], deal, settled)
  BY <1>1, <1>2, NoQueue DEF CallerOK
<1>4. CallerStep(s, g[2], deal, settled)
  BY <1>1, <1>3 DEF CallerStep, Goes
<1> QED
  BY <1>1, <1>4 DEF CallerOK

(* What is settled stays so.                                               *)
LEMMA CallerLearns ==
  ASSUME NEW s, NEW deal, NEW settled, NEW now, settled => now, CallerOK(s, deal, settled)
  PROVE  CallerOK(s, deal, now)
BY DEF CallerOK

(* A damaged message is known to be damaged.                               *)
LEMMA Arrived ==
  ASSUME NEW m \in Sounds, NEW heard \in Arrives(m)
  PROVE  heard \in Sounds /\ (Whole(heard) => heard = m)
<1>1. CASE heard = m
  BY <1>1
<1>2. CASE heard = Silence
  BY <1>2, SoundsAreSounds
<1>3. CASE \E x \in {{}, Modes} : heard = [m EXCEPT !.modes = x, !.bad = TRUE]
  BY <1>3 DEF Sounds, Whole
<1> QED
  BY <1>1, <1>2, <1>3 DEF Arrives

-----------------------------------------------------------------------------
LEMMA InitInv == ConstantsOK /\ Init => IInv
<1> SUFFICES ASSUME ConstantsOK, Init PROVE IInv
  OBVIOUS
<1>1. PICK a \in SUBSET Protocols, o \in SUBSET Protocols :
        side = [i \in Sides |->
                 IF i = "answer"
                 THEN [Blank EXCEPT !.state = "CM_WAIT", !.ansam = Ansam, !.local = a]
                 ELSE [Blank EXCEPT !.state = "WAIT_1S", !.timer = Wait1s, !.local = o]]
  BY DEF Init
<1> DEFINE A == [Blank EXCEPT !.state = "CM_WAIT", !.ansam = Ansam, !.local = a]
           O == [Blank EXCEPT !.state = "WAIT_1S", !.timer = Wait1s, !.local = o]
<1>2. side["answer"] = A /\ side["originate"] = O /\ side = [i \in Sides |-> side[i]]
  BY <1>1 DEF Sides
<1>3. /\ Ansam \in 0 .. Ansam /\ Wait1s \in 0 .. Wait1s + Te + CiOff + PostSig
      /\ 0 \in 0 .. Wait1s + Te + CiOff + PostSig /\ 0 \in 0 .. Ansam
      /\ CmWait \in 0 .. CmWait + JmWait /\ 0 \in 0 .. PostSig
      /\ 0 \in 0 .. MaxCi /\ 0 < MaxCi
  BY Numbers
<1>4. None \in Sounds /\ Silence \in Sounds /\ ~Whole(None)
  BY SoundsAreSounds
<1>5. A \in Sequencer /\ O \in Sequencer
  BY <1>3, <1>4, NoQueue DEF Sequencer, States, Blank
<1>6. /\ A.q = <<>> /\ A.state = "CM_WAIT" /\ A.pend = None /\ A.last = None
      /\ A.out = "none"
  BY DEF Blank
<1>7. /\ O.q = <<>> /\ O.state = "WAIT_1S" /\ O.pend = None /\ O.last = None
      /\ O.out = "none" /\ O.ci = 0
  BY DEF Blank
<1>8. air = [i \in Sides |-> Silence] /\ todo = {} /\ Silence.type # "CM"
  BY DEF Init, Silence, Sound
<1> HIDE DEF A, O
<1>9. AnswerOK(A, Offer) /\ CallerOK(O, TheDeal, Settled)
  BY <1>3, <1>4, <1>5, <1>6, <1>7, NoQueue DEF AnswerOK, CallerOK
<1>10. side \in [Sides -> Sequencer]
  BY <1>2, <1>5 DEF Sides
<1>11. TypeOK
  BY <1>2, <1>4, <1>6, <1>7, <1>8, <1>10, NoQueue DEF TypeOK, Sides
<1>12. OnAir
  BY <1>8 DEF OnAir, Sides
<1> QED
  BY <1>2, <1>9, <1>11, <1>12 DEF IInv

(* What a step of either side leaves of the invariant.                     *)
LEMMA StepKeeps ==
  ASSUME IInv,
         AnswerStep(side["answer"], side'["answer"], Offer),
         CallerStep(side["originate"], side'["originate"], TheDeal, Settled),
         side' \in [Sides -> Sequencer], air' \in [Sides -> Sounds],
         todo' \subseteq Sides,
         air'["originate"].type = "CM" => air'["originate"] = Sound("CM", Offer),
         air'["answer"].type = "CM" => air'["answer"] = Sound("CM", TheDeal) /\ Settled
  PROVE  IInv'
<1>1. Offer' = Offer
  BY DEF Offer, LocalModes, CallerStep, Goes
<1>2. TheDeal' = TheDeal
  BY <1>1 DEF TheDeal, Deal, LocalModes, AnswerStep, Goes
<1>3. Settled => Settled'
  BY <1>1, <1>2 DEF Settled, TheDeal, AnswerStep
<1>4. AnswerOK(side["answer"], Offer)'
  BY <1>1 DEF AnswerStep, AnswerOK
<1>5. CallerOK(side'["originate"], TheDeal, Settled')
  BY <1>3, CallerLearns DEF CallerStep
<1>6. CallerOK(side["originate"], TheDeal, Settled)'
  BY <1>2, <1>5
<1>7. OnAir'
  BY <1>1, <1>2, <1>3 DEF OnAir
<1>8. TypeOK'
  BY <1>4, <1>6 DEF TypeOK, AnswerOK, CallerOK, Sides
<1> QED
  BY <1>4, <1>6, <1>7, <1>8 DEF IInv

(* Every step keeps the invariant; none but stop() ends a sequencer that   *)
(* has nothing to report.                                                  *)
LEMMA TickKeeps ==
  ASSUME ConstantsOK, IInv, Tick
  PROVE  IInv' /\ \A i \in Sides : Goes(side[i], side'[i])
<1> DEFINE A == side["answer"]
           O == side["originate"]
<1>0. Offer \in SUBSET Modes
  BY DEF Offer, LocalModes
<1>1. /\ AnswerStep(A, GenerateAudio(A)[2], Offer) /\ GenerateAudio(A)[1] \in Sounds
      /\ GenerateAudio(A)[1].type = "CM" =>
           GenerateAudio(A)[1] = Sound("CM", TheDeal) /\ Settled
  BY <1>0, AnswerSends DEF IInv, TheDeal, Settled
<1>2. /\ CallerStep(O, GenerateAudio(O)[2], TheDeal, Settled)
      /\ GenerateAudio(O)[1] \in Sounds
      /\ GenerateAudio(O)[1].type = "CM" => GenerateAudio(O)[1] = Sound("CM", Offer)
  BY CallerSends DEF IInv, Offer
<1>3. PICK a \in Sends("answer"), o \in Sends("originate") :
        air' = [i \in Sides |-> IF i = "answer" THEN a ELSE o]
  BY DEF Tick
<1>4. a \in Sounds /\ (a.type = "CM" => a = Sound("CM", TheDeal) /\ Settled)
  <2>1. CASE Foreign # "answer"
    <3>1. a = GenerateAudio(A)[1]
      BY <1>3, <2>1 DEF Sends
    <3> QED
      BY <1>1, <3>1
  <2>2. CASE Foreign = "answer"
    <3>1. a \in {Silence, Sound("ansam", {}), Sound("ans", {})}
      BY <1>3, <2>2 DEF Sends
    <3>2. \A m \in {Silence, Sound("ansam", {}), Sound("ans", {})} : m \in Sounds
      BY SoundsAreSounds
    <3>3. \A m \in {Silence, Sound("ansam", {}), Sound("ans", {})} : m.type # "CM"
      BY DEF Silence, Sound
    <3> QED
      BY <3>1, <3>2, <3>3
  <2> QED
    BY <2>1, <2>2
<1>5. o \in Sounds /\ (o.type = "CM" => o = Sound("CM", Offer))
  <2>1. CASE Foreign # "originate"
    <3>1. o = GenerateAudio(O)[1]
      BY <1>3, <2>1 DEF Sends
    <3> QED
      BY <1>2, <3>1
  <2>2. CASE Foreign = "originate"
    <3>1. o \in {Silence, Sound("CI", {}), Sound("CJ", {}), Sound("CM", Offer)}
      BY <1>3, <2>2 DEF Sends, Offer
    <3>2. \A m \in {Silence, Sound("CI", {}), Sound("CJ", {}), Sound("CM", Offer)} :
            m \in Sounds
      BY <1>0, SoundsAreSounds
    <3>3. \A m \in {Silence, Sound("CI", {}), Sound("CJ", {})} : m.type # "CM"
      BY DEF Silence, Sound
    <3> QED
      BY <3>1, <3>2, <3>3
  <2> QED
    BY <2>1, <2>2
<1>6. side' = [i \in Sides |-> GenerateAudio(side[i])[2]] /\ todo' \subseteq Sides
  BY DEF Tick
<1>7. side'["answer"] = GenerateAudio(A)[2] /\ side'["originate"] = GenerateAudio(O)[2]
  BY <1>6 DEF Sides
<1>8. side' \in [Sides -> Sequencer]
  BY <1>1, <1>2, <1>6, <1>7 DEF AnswerStep, AnswerOK, CallerStep, CallerOK, Sides
<1>9. air' \in [Sides -> Sounds] /\ air'["answer"] = a /\ air'["originate"] = o
  BY <1>3, <1>4, <1>5 DEF Sides
<1>10. IInv'
  BY <1>1, <1>2, <1>4, <1>5, <1>6, <1>7, <1>8, <1>9, StepKeeps
<1>11. \A i \in Sides : Goes(side[i], side'[i])
  BY <1>1, <1>2, <1>7 DEF AnswerStep, CallerStep, Sides
<1> QED
  BY <1>10, <1>11

LEMMA RxKeeps ==
  ASSUME ConstantsOK, IInv, NEW i \in Sides, Rx(i)
  PROVE  IInv' /\ \A j \in Sides : Goes(side[j], side'[j])
<1> DEFINE A == side["answer"]
           O == side["originate"]
<1>0. Offer \in SUBSET Modes /\ TheDeal \in SUBSET Modes
  BY DEF Offer, TheDeal, Deal, LocalModes
<1>1. PICK heard \in Arrives(air[Peer(i)]) :
        side' = [side EXCEPT ![i] = ReceiveAudio(@, heard)]
  BY DEF Rx
<1>2. air' = air /\ todo' \subseteq Sides /\ side \in [Sides -> Sequencer]
      /\ air \in [Sides -> Sounds]
  BY DEF Rx, IInv, TypeOK
<1>3. /\ air["originate"].type = "CM" => air["originate"] = Sound("CM", Offer)
      /\ air["answer"].type = "CM" => air["answer"] = Sound("CM", TheDeal) /\ Settled
  BY DEF IInv, OnAir
<1>4. AnswerStep(A, A, Offer) /\ CallerStep(O, O, TheDeal, Settled)
  BY AnswerRests, CallerRests DEF IInv
<1>5. CASE i = "answer"
  <2>1. heard \in Sounds /\ (Whole(heard) => heard = air["originate"])
    BY <1>1, <1>2, <1>5, Arrived, Others DEF Sides
  <2>2. Whole(heard) => heard.modes = Offer
    BY <1>3, <2>1 DEF Whole, Sound
  <2>3. AnswerStep(A, ReceiveAudio(A, heard), Offer)
    BY <1>0, <2>1, <2>2, AnswerReceives DEF IInv
  <2>4. side'["answer"] = ReceiveAudio(A, heard) /\ side'["originate"] = O
    BY <1>1, <1>2, <1>5 DEF Sides
  <2>5. side' \in [Sides -> Sequencer]
    BY <1>1, <1>2, <1>5, <2>3 DEF AnswerStep, AnswerOK
  <2>6. IInv'
    BY <1>2, <1>3, <1>4, <2>3, <2>4, <2>5, StepKeeps
  <2> QED
    BY <1>4, <2>3, <2>4, <2>6 DEF AnswerStep, CallerStep, Sides
<1>6. CASE i = "originate"
  <2>1. heard \in Sounds /\ (Whole(heard) => heard = air["answer"])
    BY <1>1, <1>2, <1>6, Arrived, Others DEF Sides
  <2>2. Whole(heard) => heard.modes = TheDeal /\ Settled
    BY <1>3, <2>1 DEF Whole, Sound
  <2>3. CallerStep(O, ReceiveAudio(O, heard), TheDeal, Settled)
    BY <1>0, <2>1, <2>2, CallerReceives DEF IInv
  <2>4. side'["originate"] = ReceiveAudio(O, heard) /\ side'["answer"] = A
    BY <1>1, <1>2, <1>6 DEF Sides
  <2>5. side' \in [Sides -> Sequencer]
    BY <1>1, <1>2, <1>6, <2>3 DEF CallerStep, CallerOK
  <2>6. IInv'
    BY <1>2, <1>3, <1>4, <2>3, <2>4, <2>5, StepKeeps
  <2> QED
    BY <1>4, <2>3, <2>4, <2>6 DEF AnswerStep, CallerStep, Sides
<1> QED
  BY <1>5, <1>6 DEF Sides

LEMMA StopKeeps ==
  ASSUME ConstantsOK, IInv, NEW i \in Sides, Stop(i)
  PROVE  IInv' /\ \A j \in Sides : side'[j].out = side[j].out
<1> DEFINE t == [side[i] EXCEPT !.state = "PARKED", !.ansam = 0]
<1>1. /\ side \in [Sides -> Sequencer] /\ side' = [side EXCEPT ![i] = t]
      /\ air' = air /\ todo' = todo
  BY DEF Stop, IInv, TypeOK
<1>2. side[i] \in Sequencer
  BY <1>1
<1>3. 0 \in 0 .. Ansam
  BY Numbers
<1>4. t \in Sequencer
  BY <1>2, <1>3 DEF Sequencer, States
<1>5. /\ t.state = "PARKED" /\ t.local = side[i].local /\ t.far = side[i].far
      /\ t.pend = side[i].pend /\ t.last = side[i].last /\ t.q = side[i].q
      /\ t.out = side[i].out /\ t.proto = side[i].proto
  BY <1>2 DEF Sequencer
<1> HIDE DEF t
<1>6. side' \in [Sides -> Sequencer]
  BY <1>1, <1>4
<1>7. \A j \in Sides : /\ side'[j].local = side[j].local /\ side'[j].far = side[j].far
                       /\ side'[j].out = side[j].out /\ side'[j].q = side[j].q
  BY <1>1, <1>5
<1>8. \A j \in Sides : LocalModes(side'[j]) = LocalModes(side[j])
  BY <1>7 DEF LocalModes
<1>9. Offer' = Offer /\ TheDeal' = TheDeal /\ Settled' = Settled
  BY <1>7, <1>8 DEF Offer, TheDeal, Deal, Settled, Sides
<1>10. AnswerOK(side'["answer"], Offer)
  <2>1. AnswerOK(side["answer"], Offer)
    BY DEF IInv
  <2>2. CASE i = "answer"
    <3>1. side'["answer"] = t /\ Deal(t, Offer) = Deal(side["answer"], Offer)
      BY <1>1, <1>5, <2>2 DEF Sides, Deal, LocalModes
    <3> QED
      BY <1>4, <1>5, <2>1, <2>2, <3>1 DEF AnswerOK
  <2>3. CASE i # "answer"
    BY <1>1, <2>1, <2>3 DEF Sides
  <2> QED
    BY <2>2, <2>3
<1>11. CallerOK(side'["originate"], TheDeal, Settled)
  <2>1. CallerOK(side["originate"], TheDeal, Settled)
    BY DEF IInv
  <2>2. CASE i = "originate"
    <3>1. side'["originate"] = t /\ LocalModes(t) = LocalModes(side["originate"])
      BY <1>1, <1>5, <2>2 DEF Sides, LocalModes
    <3> QED
      BY <1>4, <1>5, <2>1, <2>2, <3>1 DEF CallerOK
  <2>3. CASE i # "originate"
    BY <1>1, <2>1, <2>3 DEF Sides
  <2> QED
    BY <2>2, <2>3
<1>12. OnAir'
  BY <1>1, <1>9 DEF OnAir, IInv
<1>13. TypeOK'
  BY <1>1, <1>6, <1>10, <1>11 DEF TypeOK, AnswerOK, CallerOK, IInv, Sides
<1> QED
  BY <1>7, <1>9, <1>10, <1>11, <1>12, <1>13 DEF IInv

-----------------------------------------------------------------------------
(* The invariant gives the properties.                                     *)
LEMMA Agreed ==
  ASSUME IInv
  PROVE  TypeOK /\ ProtocolsAgree /\ CallerFollows
<1>1. AnswerOK(side["answer"], Offer) /\ CallerOK(side["originate"], TheDeal, Settled)
  BY DEF IInv
<1>2. SelectProtocol(TheDeal) # "null" => Bit[SelectProtocol(TheDeal)] \in TheDeal
  BY Selected
<1>3. ProtocolsAgree
  <2>1. ASSUME Dealt("answer"), Dealt("originate")
        PROVE  /\ side["answer"].proto = SelectProtocol(TheDeal)
               /\ side["originate"].proto = SelectProtocol(TheDeal)
               /\ SelectProtocol(TheDeal) # "null"
    BY <1>1, <2>1 DEF AnswerOK, CallerOK, Dealt, TheDeal
  <2> QED
    BY <1>2, <2>1 DEF ProtocolsAgree, TheDeal, Deal, Offer
<1>4. CallerFollows
  BY <1>1, <1>2 DEF CallerFollows, CallerOK, Settled
<1> QED
  BY <1>3, <1>4 DEF IInv

LEMMA NextKeeps ==
  ASSUME ConstantsOK, IInv, [Next]_vars
  PROVE  /\ IInv'
         /\ \A i \in Sides : Goes(side[i], side'[i]) \/ side'[i].out = side[i].out
<1>1. CASE Tick
  BY <1>1, TickKeeps
<1>2. ASSUME NEW i \in Sides, Rx(i)
      PROVE  /\ IInv'
             /\ \A j \in Sides : Goes(side[j], side'[j]) \/ side'[j].out = side[j].out
  BY <1>2, RxKeeps
<1>3. ASSUME NEW i \in Sides, Stop(i)
      PROVE  /\ IInv'
             /\ \A j \in Sides : Goes(side[j], side'[j]) \/ side'[j].out = side[j].out
  BY <1>3, StopKeeps
<1>4. CASE UNCHANGED vars
  BY <1>4 DEF vars, IInv, TypeOK, OnAir, TheDeal, Settled, Offer
<1> QED
  BY <1>1, <1>2, <1>3, <1>4 DEF Next, Go

LEMMA Always ==
  ASSUME ConstantsOK
  PROVE  Spec => [](IInv /\ TypeOK /\ ProtocolsAgree /\ CallerFollows)
<1>1. Init => IInv
  BY InitInv
<1>2. IInv /\ [Next]_vars => IInv'
  BY NextKeeps
<1>3. IInv => TypeOK /\ ProtocolsAgree /\ CallerFollows
  BY Agreed
<1> QED
  BY <1>1, <1>2, <1>3, PTL DEF Spec

(* Each role keeps to its states, and no timer, count or queue outgrows    *)
(* what starts it.                                                         *)
THEOREM TypeCorrect == ConstantsOK => (Spec => []TypeOK)
<1>1. CASE ConstantsOK
  BY <1>1, Always, PTL
<1> QED
  BY <1>1

(* Two results are the same protocol, one that both have advertised; no    *)
(* side goes on alone; each tells what became of it once, when it parks,   *)
(* and after CJ it is a result.  For all protocols, durations and          *)
(* timeouts, whatever the line does to the messages, with a foreign modem  *)
(* on either side or none.                                                 *)
THEOREM NegotiationAlways == ConstantsOK => (Spec => NegotiationHolds)
<1> SUFFICES ASSUME ConstantsOK
             PROVE  Spec => NegotiationHolds
  OBVIOUS
<1> DEFINE P == \A i \in Sides : side[i].state = "PARKED" => side'[i].out = side[i].out
           E == \A i \in Sides : side'[i].out # side[i].out =>
                  /\ side'[i].state = "PARKED"
                  /\ side[i].state \in {"SIGA", "SIGC", "CJ_ON"} => side'[i].out = "result"
<1>1. IInv /\ [Next]_vars => P /\ E
  <2> SUFFICES ASSUME IInv, [Next]_vars
               PROVE  P /\ E
    OBVIOUS
  <2>1. \A i \in Sides : Goes(side[i], side'[i]) \/ side'[i].out = side[i].out
    BY NextKeeps
  <2> QED
    BY <2>1 DEF Goes, Final
<1>2. Spec => [](IInv /\ ProtocolsAgree /\ CallerFollows)
  BY Always, PTL
<1>3. (P <=> \A i \in Sides : side[i].state = "PARKED" => side'[i].out = side[i].out) /\
      (E <=> \A i \in Sides : side'[i].out # side[i].out =>
                /\ side'[i].state = "PARKED"
                /\ (side[i].state \in {"SIGA", "SIGC", "CJ_ON"}) => side'[i].out = "result")
  OBVIOUS
<1> QED
  BY <1>1, <1>2, PTL DEF Spec, NegotiationHolds, ParkedIsFinal, EventsPark

-----------------------------------------------------------------------------
(* The parser.  What parseV8Bytes() does with the front of a buffer.       *)

Octets == Seq(Bytes)

(* What the parser makes of a whole CM or JM with so many modes.           *)
Taken(b, k) ==
  Parser!Take(2 + k, "CM", SubSeq(b, 1, 2 + k), Parser!DecodeModes(SubSeq(b, 3, 2 + k)))

Ends(x) == x \in {"sync", "zero"}

(* It begins like one, has so many modes, and is known to end there.       *)
BeginsCM(b) ==
  Len(b) >= 4 /\ b[1] = "sync" /\ b[2] = "callfn" /\ b[3] = "modn0"

Measured(b, k) ==
  /\ k \in 1 .. 3 /\ 2 + k < Len(b)
  /\ \A n \in 3 .. 2 + k : ~Ends(b[n])
  /\ k = 3 \/ Ends(b[3 + k])

(* It may go on.                                                           *)
Unmeasured(b) == Len(b) <= 5 /\ \A n \in 3 .. Len(b) : ~Ends(b[n])

(* A set of naturals that is not empty has a least element.                *)
LEMMA Least ==
  ASSUME NEW S, S \subseteq Nat, S # {}
  PROVE  \E x \in S : \A y \in S : x <= y
<1> DEFINE R == {ss \in Nat \X Nat : ss[1] < ss[2]}
<1>1. IsWellFoundedOn(R, Nat)
  BY NatLessThanWellFounded DEF OpToRel
<1> HIDE DEF R
<1>2. PICK x \in S : \A y \in S : <<y, x>> \notin R
  BY <1>1, WFMin
<1>3. ASSUME NEW y \in S PROVE x <= y
  <2>1. x \in Nat /\ y \in Nat /\ <<y, x>> \notin R
    BY <1>2
  <2> QED
    BY <2>1 DEF R
<1> QED
  BY <1>3

LEMMA SubSeqOf ==
  ASSUME NEW S, NEW s \in Seq(S), NEW m \in 1 .. Len(s) + 1, NEW n \in m - 1 .. Len(s)
  PROVE  /\ SubSeq(s, m, n) \in Seq(S) /\ Len(SubSeq(s, m, n)) = n - m + 1
         /\ \A i \in 1 .. n - m + 1 : SubSeq(s, m, n)[i] = s[m + i - 1]
BY SubSeqProperties, LenProperties

LEMMA SyncForm ==
  ASSUME NEW b \in Octets, BeginsCM(b)
  PROVE  \E e \in 4 .. Len(b) + 1 :
           /\ \A n \in 3 .. e - 1 : ~Ends(b[n])
           /\ e <= Len(b) => Ends(b[e])
           /\ Parser!Sync(b) =
                IF e - 1 < Len(b) \/ e - 3 >= 4
                THEN Taken(b, IF e - 3 <= 3 THEN e - 3 ELSE 3)
                ELSE Parser!Wait
<1> DEFINE ends == {n \in 3 .. Len(b) : b[n] \in Parser!Terminators} \cup {Len(b) + 1}
           e == CHOOSE n \in ends : \A k \in ends : n <= k
           octets == SubSeq(b, 3, e - 1)
           kept == IF Len(octets) <= 3 THEN octets ELSE SubSeq(octets, 1, 3)
           short == IF e - 3 <= 3 THEN e - 3 ELSE 3
<1>1. Len(b) \in Nat /\ Len(b) >= 4 /\ b[1] = "sync" /\ b[2] = "callfn" /\ b[3] = "modn0"
  BY LenProperties DEF BeginsCM, Octets
<1>2. ends \subseteq Nat /\ ends # {}
  BY <1>1
<1>3. e \in ends /\ \A k \in ends : e <= k
  <2> HIDE DEF ends
  <2>1. \E n \in ends : \A k \in ends : n <= k
    BY <1>2, Least
  <2> QED
    BY <2>1
<1> HIDE DEF e
<1>4. e \in 4 .. Len(b) + 1
  <2>1. e \in 3 .. Len(b) + 1
    BY <1>1, <1>3
  <2>2. 3 \notin ends
    BY <1>1 DEF Parser!Terminators
  <2> QED
    BY <1>1, <1>3, <2>1, <2>2
<1>5. \A n \in 3 .. e - 1 : ~Ends(b[n])
  <2> SUFFICES ASSUME NEW n \in 3 .. e - 1, Ends(b[n]) PROVE FALSE
    OBVIOUS
  <2>1. n \in ends
    BY <1>1, <1>4 DEF Ends, Parser!Terminators
  <2> QED
    BY <1>1, <1>3, <1>4, <2>1
<1>6. e <= Len(b) => Ends(b[e])
  BY <1>1, <1>3 DEF Ends, Parser!Terminators
<1>7. Len(octets) = e - 3 /\ octets \in Octets
  BY <1>1, <1>4, SubSeqOf DEF Octets
<1>8. kept = SubSeq(b, 3, 2 + short) /\ Len(kept) = short
  <2>1. CASE e - 3 <= 3
    BY <1>4, <1>7, <2>1
  <2>2. CASE ~(e - 3 <= 3)
    <3>1. 3 \in 3 .. Len(b) + 1 /\ 5 \in 2 .. Len(b) /\ 1 \in 1 .. Len(octets) + 1
          /\ 3 \in 0 .. Len(octets)
      BY <1>1, <1>4, <1>7, <2>2
    <3>2. Len(SubSeq(b, 3, 5)) = 3 /\ SubSeq(b, 3, 5) \in Octets
          /\ \A i \in 1 .. 3 : SubSeq(b, 3, 5)[i] = b[2 + i]
      BY <1>1, <3>1, SubSeqOf DEF Octets
    <3>3. Len(SubSeq(octets, 1, 3)) = 3 /\ SubSeq(octets, 1, 3) \in Octets
          /\ \A i \in 1 .. 3 : SubSeq(octets, 1, 3)[i] = octets[i]
      <4> HIDE DEF octets
      <4> QED
        BY <1>7, <3>1, SubSeqOf DEF Octets
    <3>4. \A i \in 1 .. 3 : octets[i] = b[2 + i]
      <4>1. \A i \in 1 .. e - 3 : octets[i] = b[2 + i]
        BY <1>1, <1>4, SubSeqOf DEF Octets
      <4> QED
        BY <1>4, <2>2, <4>1
    <3>5. SubSeq(octets, 1, 3) = SubSeq(b, 3, 5)
      <4> HIDE DEF octets
      <4> QED
        BY <3>2, <3>3, <3>4, SeqEqual DEF Octets
    <3> QED
      BY <1>4, <1>7, <2>2, <3>3, <3>5
  <2> QED
    BY <2>1, <2>2
<1>9. Parser!Complete(b, octets) <=> e - 1 < Len(b) \/ e - 3 >= 4
  <2> HIDE DEF octets
  <2> QED
    BY <1>1, <1>4, <1>7 DEF Parser!Complete, Parser!Enough
<1>10. Parser!Sync(b) =
         IF ~Parser!Complete(b, octets) THEN Parser!Wait
         ELSE Parser!Take(2 + Len(kept), "CM", SubSeq(b, 1, 2 + Len(kept)),
                          Parser!DecodeModes(kept))
  <2>1. ~(Len(b) < Parser!Lookahead) /\ ~(b[2] # "callfn" \/ b[3] # "modn0")
    BY <1>1 DEF Parser!Lookahead
  <2> QED
    BY <2>1 DEF e, Parser!Sync
<1>11. Parser!Sync(b) =
         IF e - 1 < Len(b) \/ e - 3 >= 4 THEN Taken(b, short) ELSE Parser!Wait
  <2> HIDE DEF kept, octets, short
  <2> QED
    BY <1>8, <1>9, <1>10 DEF Taken
<1> QED
  BY <1>4, <1>5, <1>6, <1>11

(* What is known to end is taken, what may go on is waited for, and it is  *)
(* always one of the two.                                                  *)
LEMMA SyncTakes ==
  ASSUME NEW b \in Octets, BeginsCM(b), NEW k, Measured(b, k)
  PROVE  Parser!Sync(b) = Taken(b, k)
<1>1. PICK e \in 4 .. Len(b) + 1 :
        /\ \A n \in 3 .. e - 1 : ~Ends(b[n])
        /\ e <= Len(b) => Ends(b[e])
        /\ Parser!Sync(b) =
             IF e - 1 < Len(b) \/ e - 3 >= 4
             THEN Taken(b, IF e - 3 <= 3 THEN e - 3 ELSE 3)
             ELSE Parser!Wait
  BY SyncForm
<1>2. Len(b) \in Nat /\ k \in 1 .. 3 /\ 2 + k < Len(b)
  BY LenProperties DEF Measured, Octets
<1>3. e >= 3 + k
  BY <1>1, <1>2 DEF Measured
<1>4. k = 3 \/ e = 3 + k
  BY <1>1, <1>2, <1>3 DEF Measured
<1>5. k = (IF e - 3 <= 3 THEN e - 3 ELSE 3) /\ (e - 1 < Len(b) \/ e - 3 >= 4)
  BY <1>1, <1>2, <1>3, <1>4
<1> QED
  BY <1>1, <1>5

LEMMA SyncDecides ==
  ASSUME NEW b \in Octets, BeginsCM(b)
  PROVE  \/ Unmeasured(b) /\ Parser!Sync(b) = Parser!Wait
         \/ \E k : Measured(b, k) /\ Parser!Sync(b) = Taken(b, k)
<1>1. PICK e \in 4 .. Len(b) + 1 :
        /\ \A n \in 3 .. e - 1 : ~Ends(b[n])
        /\ e <= Len(b) => Ends(b[e])
        /\ Parser!Sync(b) =
             IF e - 1 < Len(b) \/ e - 3 >= 4
             THEN Taken(b, IF e - 3 <= 3 THEN e - 3 ELSE 3)
             ELSE Parser!Wait
  BY SyncForm
<1>2. Len(b) \in Nat
  BY LenProperties DEF Octets
<1>3. CASE e - 1 < Len(b) \/ e - 3 >= 4
  <2> DEFINE k == IF e - 3 <= 3 THEN e - 3 ELSE 3
  <2>1. Measured(b, k)
    BY <1>1, <1>2, <1>3 DEF Measured
  <2>2. Parser!Sync(b) = Taken(b, k)
    BY <1>1, <1>3
  <2> HIDE DEF k
  <2> QED
    BY <2>1, <2>2
<1>4. CASE ~(e - 1 < Len(b) \/ e - 3 >= 4)
  BY <1>1, <1>2, <1>4 DEF Unmeasured
<1> QED
  BY <1>3, <1>4

(* The front of a buffer, by its first byte.                               *)
LEMMA FrontIs ==
  ASSUME NEW b \in Octets
  PROVE  /\ b = <<>> => Parser!FrontOf(b) = Parser!Wait
         /\ b # <<>> /\ b[1] = "zero" => Parser!FrontOf(b) = Parser!Zero(b)
         /\ b # <<>> /\ b[1] = "sync" => Parser!FrontOf(b) = Parser!Sync(b)
         /\ b # <<>> /\ ~Ends(b[1]) => Parser!FrontOf(b) = Parser!Skip
<1>1. b # <<>> => Head(b) = b[1]
  BY DEF Octets
<1> QED
  BY <1>1 DEF Parser!FrontOf, Ends

LEMMA SyncIs ==
  ASSUME NEW b \in Octets, b # <<>>, b[1] = "sync"
  PROVE  \/ /\ Parser!FrontOf(b) = Parser!Wait
            /\ Len(b) < 4 \/ (BeginsCM(b) /\ Unmeasured(b))
         \/ /\ Parser!FrontOf(b) = Parser!Skip
            /\ Len(b) >= 4 /\ ~BeginsCM(b)
         \/ /\ BeginsCM(b)
            /\ \E k : Measured(b, k) /\ Parser!FrontOf(b) = Taken(b, k)
<1>1. Parser!FrontOf(b) = Parser!Sync(b) /\ Len(b) \in Nat
  BY FrontIs, LenProperties DEF Octets
<1>2. CASE Len(b) < 4
  BY <1>1, <1>2 DEF Parser!Sync, Parser!Lookahead
<1>3. CASE Len(b) >= 4 /\ ~BeginsCM(b)
  <2>1. ~(Len(b) < Parser!Lookahead) /\ (b[2] # "callfn" \/ b[3] # "modn0")
    BY <1>1, <1>3 DEF Parser!Lookahead, BeginsCM
  <2>2. Parser!Sync(b) = Parser!NotCM(b)
    BY <2>1 DEF Parser!Sync
  <2> QED
    BY <1>1, <1>3, <2>2 DEF Parser!NotCM
<1>4. CASE BeginsCM(b)
  BY <1>1, <1>4, SyncDecides
<1> QED
  BY <1>1, <1>2, <1>3, <1>4

LEMMA ZeroIs ==
  ASSUME NEW b \in Octets, b # <<>>, b[1] = "zero"
  PROVE  \/ Len(b) = 1 /\ Parser!FrontOf(b) = Parser!Wait
         \/ /\ Len(b) >= 2 /\ b[2] = "zero"
            /\ \/ Parser!FrontOf(b) = Parser!Take(2, "CJ", <<>>, {})
               \/ /\ Len(b) >= 3 /\ b[3] = "zero"
                  /\ Parser!FrontOf(b) = Parser!Take(3, "CJ", <<>>, {})
         \/ /\ Len(b) >= 2 /\ b[2] = "callfn"
            /\ Parser!FrontOf(b) = Parser!Take(2, "CI", <<>>, {})
         \/ /\ Len(b) >= 2 /\ b[2] \notin {"zero", "callfn"}
            /\ Parser!FrontOf(b) = Parser!Skip
<1>0. Len(b) \in Nat /\ Len(b) # 0
  BY LenProperties, EmptySeq DEF Octets
<1>1. Parser!FrontOf(b) = Parser!Zero(b) /\ Len(b) \in Nat
  BY <1>0, FrontIs
<1>2. CASE Len(b) < 2
  <2>1. Len(b) = 1
    BY <1>0, <1>2
  <2>2. Parser!Zero(b) = Parser!Wait
    BY <2>1 DEF Parser!Zero
  <2> QED
    BY <1>1, <2>1, <2>2
<1>3. CASE Len(b) >= 2 /\ b[2] = "zero"
  <2>1. Parser!Zero(b) =
          Parser!Take(IF Len(b) >= 3 /\ b[3] = "zero" THEN 3 ELSE 2, "CJ", <<>>, {})
    BY <1>1, <1>3 DEF Parser!Zero
  <2> QED
    BY <1>1, <1>3, <2>1
<1>4. CASE Len(b) >= 2 /\ b[2] = "callfn"
  BY <1>1, <1>4 DEF Parser!Zero
<1>5. CASE Len(b) >= 2 /\ b[2] \notin {"zero", "callfn"}
  BY <1>1, <1>5 DEF Parser!Zero
<1> QED
  BY <1>1, <1>2, <1>3, <1>4, <1>5

(* A step of the loop: how many bytes it uses, what it says.               *)
Used(b) == Parser!FrontOf(b).used
Said(b) == Parser!FrontOf(b).msg

Says(b, type) == Said(b) # <<>> /\ Said(b)[1].type = type

LEMMA Records ==
  /\ Parser!Wait.used = 0 /\ Parser!Wait.msg = <<>>
  /\ Parser!Skip.used = 1 /\ Parser!Skip.msg = <<>>
  /\ \A n, type, bytes, modes :
       /\ Parser!Take(n, type, bytes, modes).used = n
       /\ Parser!Take(n, type, bytes, modes).msg
            = <<[type |-> type, bytes |-> bytes, modes |-> modes]>>
       /\ Parser!Take(n, type, bytes, modes).msg # <<>>
       /\ Parser!Take(n, type, bytes, modes).msg[1].type = type
BY DEF Parser!Wait, Parser!Skip, Parser!Take

LEMMA Modes3 ==
  ASSUME NEW b \in Octets, NEW k \in 1 .. 3, 2 + k <= Len(b)
  PROVE  Parser!DecodeModes(SubSeq(b, 3, 2 + k)) \subseteq 1 .. 3
<1>1. Len(b) \in Nat
  BY LenProperties DEF Octets
<1>2. Len(SubSeq(b, 3, 2 + k)) = k
  <2>1. 3 \in 1 .. Len(b) + 1 /\ 2 + k \in 2 .. Len(b)
    BY <1>1
  <2> QED
    BY <2>1, SubSeqOf DEF Octets
<1> QED
  BY <1>2 DEF Parser!DecodeModes

(* A message is one of three kinds.                                        *)
LEMMA SaidIsMessage ==
  ASSUME NEW b \in Octets
  PROVE  Said(b) = <<>> \/ \E x \in Parser!Message : Said(b) = <<x>>
<1>1. CASE b = <<>> \/ (b # <<>> /\ ~Ends(b[1]))
  BY <1>1, FrontIs, Records DEF Said
<1>2. CASE b # <<>> /\ b[1] = "zero"
  <2>1. /\ [type |-> "CJ", bytes |-> <<>>, modes |-> {}] \in Parser!Message
        /\ [type |-> "CI", bytes |-> <<>>, modes |-> {}] \in Parser!Message
    BY DEF Parser!Message
  <2>2. ASSUME NEW n, NEW type, Parser!FrontOf(b) = Parser!Take(n, type, <<>>, {}),
               [type |-> type, bytes |-> <<>>, modes |-> {}] \in Parser!Message
        PROVE  \E x \in Parser!Message : Said(b) = <<x>>
    <3> DEFINE y == [type |-> type, bytes |-> <<>>, modes |-> {}]
    <3>1. Parser!Take(n, type, <<>>, {}).msg = <<y>>
      BY DEF Parser!Take
    <3>2. Said(b) = <<y>> /\ y \in Parser!Message
      BY <2>2, <3>1 DEF Said
    <3> HIDE DEF y
    <3> QED
      BY <3>2
  <2>3. Parser!FrontOf(b) \in {Parser!Wait, Parser!Skip} => Said(b) = <<>>
    BY Records DEF Said
  <2> QED
    BY <1>2, <2>1, <2>2, <2>3, ZeroIs
<1>3. CASE b # <<>> /\ b[1] = "sync"
  <2>1. ASSUME NEW k, Measured(b, k), Parser!FrontOf(b) = Taken(b, k)
        PROVE  \E x \in Parser!Message : Said(b) = <<x>>
    <3>1. Len(b) \in Nat /\ k \in 1 .. 3 /\ 2 + k <= Len(b)
      BY <2>1, LenProperties DEF Measured, Octets
    <3>2. SubSeq(b, 1, 2 + k) \in Octets
      <4>1. 1 \in 1 .. Len(b) + 1 /\ 2 + k \in 0 .. Len(b)
        BY <3>1
      <4> QED
        BY <4>1, SubSeqOf DEF Octets
    <3>3. Parser!DecodeModes(SubSeq(b, 3, 2 + k)) \in SUBSET (1 .. 3)
      BY <3>1, Modes3
    <3> DEFINE x == [type |-> "CM", bytes |-> SubSeq(b, 1, 2 + k),
                     modes |-> Parser!DecodeModes(SubSeq(b, 3, 2 + k))]
    <3>4. x \in Parser!Message
      BY <3>2, <3>3 DEF Parser!Message, Octets
    <3>5. Said(b) = <<x>>
      <4>1. Taken(b, k).msg = <<x>>
        BY DEF Taken, Parser!Take
      <4> QED
        BY <2>1, <4>1 DEF Said
    <3> HIDE DEF x
    <3> QED
      BY <3>4, <3>5
  <2> QED
    BY <1>3, <2>1, SyncIs, Records DEF Said
<1> QED
  BY <1>1, <1>2, <1>3 DEF Ends

(* What a step uses: of sync bytes the first at most, of zeros none that   *)
(* another one follows or may follow, unless it says CJ.                   *)
LEMMA StepUses ==
  ASSUME NEW b \in Octets
  PROVE  /\ Used(b) \in 0 .. Len(b)
         /\ Used(b) = 0 => Said(b) = <<>>
         /\ \A n \in 2 .. Used(b) : b[n] # "sync"
         /\ Says(b, "CM") => b[1] = "sync"
         /\ Says(b, "CJ") => Used(b) >= 2 /\ b[1] = "zero" /\ b[2] = "zero"
         /\ \A n \in 1 .. Used(b) :
              b[n] = "zero" /\ (n = Len(b) \/ b[n + 1] = "zero") => Says(b, "CJ")
<1>0. Len(b) \in Nat /\ (b # <<>> => Len(b) >= 1)
  BY LenProperties, EmptySeq DEF Octets
<1>1. CASE b = <<>>
  BY <1>0, <1>1, FrontIs, Records DEF Used, Said, Says
<1>2. CASE b # <<>> /\ ~Ends(b[1])
  <2>1. Used(b) = 1 /\ Said(b) = <<>>
    BY <1>2, FrontIs, Records DEF Used, Said
  <2> QED
    BY <1>0, <1>2, <2>1 DEF Ends, Says
<1>3. CASE b # <<>> /\ b[1] = "zero"
  <2>1. CASE Len(b) = 1 /\ Parser!FrontOf(b) = Parser!Wait
    BY <2>1, Records DEF Used, Said, Says
  <2>2. CASE /\ Len(b) >= 2 /\ b[2] = "zero"
             /\ Parser!FrontOf(b) = Parser!Take(2, "CJ", <<>>, {})
    <3>1. Used(b) = 2 /\ Says(b, "CJ") /\ ~Says(b, "CM")
      BY <2>2, Records DEF Used, Said, Says
    <3> QED
      BY <1>0, <1>3, <2>2, <3>1
  <2>3. CASE /\ Len(b) >= 3 /\ b[2] = "zero" /\ b[3] = "zero"
             /\ Parser!FrontOf(b) = Parser!Take(3, "CJ", <<>>, {})
    <3>1. Used(b) = 3 /\ Says(b, "CJ") /\ ~Says(b, "CM")
      BY <2>3, Records DEF Used, Said, Says
    <3> QED
      BY <1>0, <1>3, <2>3, <3>1
  <2>4. CASE /\ Len(b) >= 2 /\ b[2] = "callfn"
             /\ Parser!FrontOf(b) = Parser!Take(2, "CI", <<>>, {})
    <3>1. Used(b) = 2 /\ ~Says(b, "CJ") /\ ~Says(b, "CM")
      BY <2>4, Records DEF Used, Said, Says
    <3> QED
      BY <1>0, <1>3, <2>4, <3>1
  <2>5. CASE /\ Len(b) >= 2 /\ b[2] \notin {"zero", "callfn"}
             /\ Parser!FrontOf(b) = Parser!Skip
    <3>1. Used(b) = 1 /\ ~Says(b, "CJ") /\ ~Says(b, "CM")
      BY <2>5, Records DEF Used, Said, Says
    <3> QED
      BY <1>0, <1>3, <2>5, <3>1
  <2> QED
    BY <1>3, <2>1, <2>2, <2>3, <2>4, <2>5, ZeroIs
<1>4. CASE b # <<>> /\ b[1] = "sync"
  <2>1. CASE Parser!FrontOf(b) = Parser!Wait
    BY <1>0, <2>1, Records DEF Used, Said, Says
  <2>2. CASE Parser!FrontOf(b) = Parser!Skip
    <3>1. Used(b) = 1 /\ Said(b) = <<>>
      BY <2>2, Records DEF Used, Said
    <3> QED
      BY <1>0, <1>4, <3>1 DEF Says
  <2>3. ASSUME NEW k, BeginsCM(b), Measured(b, k), Parser!FrontOf(b) = Taken(b, k)
        PROVE  /\ Used(b) \in 1 .. Len(b)
               /\ \A n \in 2 .. Used(b) : ~Ends(b[n])
               /\ ~Says(b, "CJ")
    <3>1. k \in 1 .. 3 /\ 2 + k < Len(b) /\ \A n \in 3 .. 2 + k : ~Ends(b[n])
      BY <2>3 DEF Measured
    <3>2. Used(b) = 2 + k /\ ~Says(b, "CJ")
      BY <2>3, Records DEF Used, Said, Says, Taken
    <3>3. ~Ends(b[2])
      BY <2>3 DEF BeginsCM, Ends
    <3> QED
      BY <1>0, <3>1, <3>2, <3>3
  <2>4. ASSUME NEW k, BeginsCM(b), Measured(b, k), Parser!FrontOf(b) = Taken(b, k)
        PROVE  /\ \A n \in 2 .. Used(b) : b[n] # "sync"
               /\ \A n \in 1 .. Used(b) : b[n] # "zero"
               /\ Used(b) # 0
    BY <1>4, <2>3, <2>4 DEF Ends
  <2> QED
    BY <1>4, <2>1, <2>2, <2>3, <2>4, SyncIs
<1> QED
  BY <1>1, <1>2, <1>3, <1>4 DEF Ends

(* What the loop waits for.                                                *)
LEMMA WaitsFor ==
  ASSUME NEW b \in Octets, Used(b) = 0
  PROVE  \/ b = <<>>
         \/ Len(b) = 1 /\ b[1] = "zero"
         \/ b[1] = "sync" /\ Len(b) <= 3
         \/ BeginsCM(b) /\ Unmeasured(b)
<1>1. Len(b) \in Nat
  BY LenProperties DEF Octets
<1>2. CASE b # <<>> /\ b[1] = "sync"
  <2>1. ASSUME NEW k, Measured(b, k), Parser!FrontOf(b) = Taken(b, k) PROVE FALSE
    BY <2>1, Records DEF Measured, Taken, Used
  <2> QED
    BY <1>1, <1>2, <2>1, SyncIs, Records DEF Used
<1>3. CASE b # <<>> /\ b[1] = "zero"
  BY <1>3, ZeroIs, Records DEF Used
<1>4. CASE b # <<>> /\ ~Ends(b[1])
  BY <1>4, FrontIs, Records DEF Used
<1> QED
  BY <1>2, <1>3, <1>4 DEF Ends

(* What was decided of a sync byte stays, whatever follows.                *)
LEMMA SyncStays ==
  ASSUME NEW b \in Octets, NEW c \in Octets, b # <<>>, b[1] = "sync", Used(b) # 0,
         Len(b) <= Len(c), \A n \in 1 .. Len(b) : c[n] = b[n]
  PROVE  Used(c) = Used(b) /\ Said(c) = Said(b)
<1>1. /\ Len(b) \in Nat /\ Len(c) \in Nat /\ Len(b) >= 1 /\ c # <<>> /\ c[1] = "sync"
  BY LenProperties, EmptySeq DEF Octets
<1>2. CASE Parser!FrontOf(b) = Parser!Skip /\ Len(b) >= 4 /\ ~BeginsCM(b)
  <2>1. Len(c) >= 4 /\ ~BeginsCM(c)
    BY <1>1, <1>2 DEF BeginsCM
  <2>2. Parser!FrontOf(c) = Parser!Skip
    BY <1>1, <2>1, SyncIs
  <2> QED
    BY <1>2, <2>2 DEF Used, Said
<1>3. ASSUME NEW k, BeginsCM(b), Measured(b, k), Parser!FrontOf(b) = Taken(b, k)
      PROVE  Parser!FrontOf(c) = Parser!FrontOf(b)
  <2>1. k \in 1 .. 3 /\ 2 + k < Len(b)
    BY <1>3 DEF Measured
  <2>2. BeginsCM(c) /\ Measured(c, k)
    BY <1>1, <1>3, <2>1 DEF BeginsCM, Measured
  <2>3. Parser!FrontOf(c) = Taken(c, k)
    BY <1>1, <2>2, FrontIs, SyncTakes
  <2>4. SubSeq(c, 1, 2 + k) = SubSeq(b, 1, 2 + k)
    BY <1>1, <2>1
  <2>5. SubSeq(c, 3, 2 + k) = SubSeq(b, 3, 2 + k)
    BY <1>1, <2>1
  <2> QED
    BY <1>3, <2>3, <2>4, <2>5 DEF Taken
<1>4. Parser!FrontOf(b) # Parser!Wait
  BY Records DEF Used
<1> QED
  BY <1>2, <1>3, <1>4, SyncIs DEF Used, Said

-----------------------------------------------------------------------------
(* What a recursive function is, when its arguments come down to ones it   *)
(* is defined at: the loop of parseV8Bytes() by its first turn.            *)

(* Induction over the naturals, in a form that mentions a set instead of a *)
(* predicate.                                                              *)
LEMMA SetInduction ==
  ASSUME NEW S, 0 \in S, \A n \in Nat : n \in S => n + 1 \in S
  PROVE  \A n \in Nat : n \in S
<1> SUFFICES ASSUME NEW n \in Nat, n \notin S PROVE FALSE
  OBVIOUS
<1> DEFINE T == {k \in Nat : k \notin S}
           R == {ss \in Nat \X Nat : ss[1] < ss[2]}
<1>1. IsWellFoundedOn(R, Nat)
  BY NatLessThanWellFounded DEF OpToRel
<1>2. T \subseteq Nat /\ T # {}
  OBVIOUS
<1> HIDE DEF R
<1>3. PICK x \in T : \A y \in T : <<y, x>> \notin R
  BY <1>1, <1>2, WFMin
<1>4. x \in Nat /\ x - 1 \in Nat /\ x - 1 < x
  OBVIOUS
<1>5. <<x - 1, x>> \in R
  BY <1>4 DEF R
<1>6. x - 1 \in S
  BY <1>3, <1>4, <1>5
<1> QED
  BY <1>3, <1>4, <1>6

(* A function may be defined by recursion where every step goes to an      *)
(* argument of lower rank.                                                 *)
Recursive(D, T, rank, Rec, on, stop, step) ==
  /\ rank \in [D -> Nat] /\ Rec \subseteq D /\ on \in [Rec -> D]
  /\ \A d \in Rec : rank[on[d]] < rank[d]
  /\ stop \in [D -> T] /\ step \in [D -> [T -> T]]

Solves(f, D, T, Rec, on, stop, step) ==
  /\ f \in [D -> T]
  /\ \A d \in D : f[d] = IF d \in Rec THEN step[d][f[on[d]]] ELSE stop[d]

LEMMA Recursion ==
  ASSUME NEW D, NEW T, NEW rank, NEW Rec, NEW on, NEW stop, NEW step,
         Recursive(D, T, rank, Rec, on, stop, step)
  PROVE  \E f : Solves(f, D, T, Rec, on, stop, step)
<1> USE DEF Recursive
<1> DEFINE Low(n) == {d \in D : rank[d] <= n}
           At(g, d) == IF d \in Rec THEN step[d][g[on[d]]] ELSE stop[d]
           Good(g, n) == g \in [Low(n) -> T] /\ \A d \in Low(n) : g[d] = At(g, d)
           Agree(d) == \A k, m \in Nat : \A g, h :
                         (/\ Good(g, k) /\ rank[d] <= k
                          /\ Good(h, m) /\ rank[d] <= m) => g[d] = h[d]
           Unique == {n \in Nat : \A d \in D : rank[d] <= n => Agree(d)}
           Exist == {n \in Nat : \E g : Good(g, n)}
<1>1. ASSUME NEW d \in D, \A e \in D : rank[e] < rank[d] => Agree(e)
      PROVE  Agree(d)
  <2> HIDE DEF Good
  <2> SUFFICES ASSUME NEW k \in Nat, NEW m \in Nat, NEW g, NEW h,
                      Good(g, k), rank[d] <= k, Good(h, m), rank[d] <= m
               PROVE  g[d] = h[d]
    OBVIOUS
  <2> USE DEF Good
  <2>1. g[d] = At(g, d) /\ h[d] = At(h, d)
    OBVIOUS
  <2>2. CASE d \in Rec
    <3>1. /\ on[d] \in D /\ rank[on[d]] < rank[d]
          /\ rank[on[d]] <= k /\ rank[on[d]] <= m
      BY <2>2
    <3> HIDE DEF Good
    <3>2. g[on[d]] = h[on[d]]
      BY <1>1, <3>1
    <3> QED
      BY <2>1, <3>2
  <2> QED
    BY <2>1, <2>2
<1>2. \A d \in D : Agree(d)
  <2> HIDE DEF Agree
  <2>1. 0 \in Unique
    BY <1>1
  <2>2. ASSUME NEW n \in Nat, n \in Unique PROVE n + 1 \in Unique
    <3>1. ASSUME NEW d \in D, rank[d] <= n + 1 PROVE Agree(d)
      <4>1. \A e \in D : rank[e] < rank[d] => rank[e] <= n
        BY <3>1
      <4> QED
        BY <1>1, <2>2, <4>1
    <3> QED
      BY <3>1
  <2> HIDE DEF Unique
  <2>3. \A n \in Nat : n \in Unique
    BY <2>1, <2>2, SetInduction
  <2> QED
    BY <2>3 DEF Unique
<1>3. \A n \in Nat : n \in Exist
  <2>1. 0 \in Exist
    <3> DEFINE g == [d \in Low(0) |-> stop[d]]
    <3>1. \A d \in Low(0) : d \notin Rec
      OBVIOUS
    <3>2. Good(g, 0)
      BY <3>1
    <3> HIDE DEF g, Good
    <3> QED
      BY <3>2
  <2>2. ASSUME NEW n \in Nat, n \in Exist PROVE n + 1 \in Exist
    <3>1. PICK g : Good(g, n)
      BY <2>2
    <3> DEFINE h == [d \in Low(n + 1) |-> At(g, d)]
    <3>2. \A d \in Low(n + 1) : d \in Rec => on[d] \in Low(n)
      OBVIOUS
    <3>3. \A d \in Low(n + 1) : At(g, d) \in T
      BY <3>1, <3>2
    <3>4. \A d \in Low(n) : d \in Low(n + 1) /\ h[d] = g[d]
      BY <3>1
    <3>5. \A d \in Low(n + 1) : At(h, d) = At(g, d)
      BY <3>2, <3>4
    <3>6. Good(h, n + 1)
      BY <3>3, <3>5
    <3> HIDE DEF h, Good
    <3> QED
      BY <3>6
  <2> HIDE DEF Exist
  <2> QED
    BY <2>1, <2>2, SetInduction
<1>4. PICK p : \A n \in Nat : Good(p[n], n)
  <2> DEFINE p == [n \in Nat |-> CHOOSE g : Good(g, n)]
  <2> HIDE DEF Good
  <2>1. \A n \in Nat : Good(CHOOSE g : Good(g, n), n)
    BY <1>3
  <2>2. \A n \in Nat : Good(p[n], n)
    BY <2>1
  <2> HIDE DEF p
  <2> QED
    BY <2>2
<1> DEFINE f == [d \in D |-> p[rank[d]][d]]
<1>5. \A d \in D : d \in Low(rank[d])
  OBVIOUS
<1>6. f \in [D -> T]
  <2>1. \A d \in D : p[rank[d]] \in [Low(rank[d]) -> T]
    BY <1>4
  <2>2. \A d \in D : p[rank[d]][d] \in T
    BY <1>5, <2>1
  <2> QED
    BY <2>2
<1>7. ASSUME NEW d \in D PROVE f[d] = At(f, d)
  <2>1. f[d] = At(p[rank[d]], d)
    BY <1>4, <1>5
  <2>2. CASE d \in Rec
    <3>1. /\ on[d] \in D /\ rank[on[d]] \in Nat /\ rank[d] \in Nat
          /\ rank[on[d]] <= rank[d] /\ rank[on[d]] <= rank[on[d]]
      BY <2>2
    <3>2. f[on[d]] = p[rank[on[d]]][on[d]]
      BY <3>1
    <3> HIDE DEF Good
    <3>3. p[rank[d]][on[d]] = p[rank[on[d]]][on[d]]
      BY <1>2, <1>4, <3>1
    <3> HIDE DEF f
    <3> QED
      BY <2>1, <2>2, <3>2, <3>3
  <2> HIDE DEF f
  <2> QED
    BY <2>1, <2>2
<1> HIDE DEF f
<1> QED
  BY <1>6, <1>7 DEF Solves

(* What a loop computes that is written as a recursive function over all   *)
(* sequences, if each step from a result of the right kind is known.       *)
LEMMA Loop ==
  ASSUME NEW D, NEW T, NEW rank, NEW Rec, NEW on, NEW stop, NEW step,
         Recursive(D, T, rank, Rec, on, stop, step),
         NEW g, DOMAIN g = D, g = [d \in DOMAIN g |-> g[d]],
         \A d \in D : d \notin Rec => g[d] = stop[d],
         \A d \in Rec : g[on[d]] \in T => g[d] = step[d][g[on[d]]]
  PROVE  Solves(g, D, T, Rec, on, stop, step)
<1>1. /\ rank \in [D -> Nat] /\ Rec \subseteq D /\ on \in [Rec -> D]
      /\ \A d \in Rec : rank[on[d]] < rank[d]
      /\ stop \in [D -> T] /\ step \in [D -> [T -> T]]
  BY DEF Recursive
<1> DEFINE N == {n \in Nat : \A d \in D : rank[d] <= n => g[d] \in T}
<1>2. ASSUME NEW d \in Rec, g[on[d]] \in T PROVE g[d] \in T
  BY <1>1, <1>2
<1>3. 0 \in N
  <2> SUFFICES ASSUME NEW d \in D, rank[d] <= 0 PROVE g[d] \in T
    OBVIOUS
  <2>1. d \notin Rec
    BY <1>1
  <2> QED
    BY <1>1, <2>1
<1>4. ASSUME NEW n \in Nat, n \in N PROVE n + 1 \in N
  <2> SUFFICES ASSUME NEW d \in D, rank[d] <= n + 1 PROVE g[d] \in T
    OBVIOUS
  <2>1. CASE d \in Rec
    <3>1. on[d] \in D /\ rank[on[d]] <= n
      <4>1. on[d] \in D /\ rank[on[d]] \in Nat /\ rank[d] \in Nat /\ rank[on[d]] < rank[d]
        BY <1>1, <2>1
      <4> QED
        BY <4>1
    <3>2. g[on[d]] \in T
      BY <1>4, <3>1
    <3> QED
      BY <1>2, <2>1, <3>2
  <2> QED
    BY <1>1, <2>1
<1> HIDE DEF N
<1>5. \A n \in Nat : n \in N
  BY <1>3, <1>4, SetInduction
<1>6. \A d \in D : g[d] \in T
  <2> TAKE d \in D
  <2>1. rank[d] \in Nat /\ rank[d] \in N
    BY <1>1, <1>5
  <2> QED
    BY <2>1 DEF N
<1>7. g \in [D -> T]
  BY <1>6
<1>8. \A d \in D : g[d] = IF d \in Rec THEN step[d][g[on[d]]] ELSE stop[d]
  BY <1>1, <1>6
<1> QED
  BY <1>7, <1>8 DEF Solves

-----------------------------------------------------------------------------
(* What is left of a sequence after its first n.                           *)
After(s, n) == SubSeq(s, n + 1, Len(s))

LEMMA AfterIs ==
  ASSUME NEW S, NEW s \in Seq(S), NEW n \in 0 .. Len(s)
  PROVE  /\ After(s, n) \in Seq(S) /\ Len(After(s, n)) = Len(s) - n
         /\ Len(After(s, n)) \in Nat /\ Len(s) \in Nat
         /\ \A i \in 1 .. Len(s) - n : After(s, n)[i] = s[n + i]
<1>1. Len(s) \in Nat
  BY LenProperties
<1>2. n + 1 \in 1 .. Len(s) + 1 /\ Len(s) \in (n + 1) - 1 .. Len(s)
  BY <1>1
<1>3. /\ SubSeq(s, n + 1, Len(s)) \in Seq(S)
      /\ Len(SubSeq(s, n + 1, Len(s))) = Len(s) - (n + 1) + 1
      /\ \A i \in 1 .. Len(s) - (n + 1) + 1 : SubSeq(s, n + 1, Len(s))[i] = s[n + 1 + i - 1]
  BY <1>2, SubSeqOf
<1> QED
  BY <1>1, <1>3 DEF After

LEMMA AfterOctets ==
  ASSUME NEW s \in Octets, NEW n \in 0 .. Len(s)
  PROVE  /\ After(s, n) \in Octets /\ Len(After(s, n)) = Len(s) - n
         /\ Len(After(s, n)) \in Nat /\ Len(s) \in Nat
         /\ \A i \in 1 .. Len(s) - n : After(s, n)[i] = s[n + i]
<1>1. s \in Seq(Bytes)
  BY DEF Octets
<1> QED
  BY <1>1, AfterIs DEF Octets

LEMMA AfterAfter ==
  ASSUME NEW S, NEW s \in Seq(S), NEW n \in 0 .. Len(s), NEW k \in 0 .. Len(s) - n
  PROVE  After(After(s, n), k) = After(s, n + k)
<1>1. n + k \in 0 .. Len(s) /\ Len(s) \in Nat
  BY LenProperties
<1>2. /\ After(s, n) \in Seq(S) /\ Len(After(s, n)) = Len(s) - n
      /\ \A i \in 1 .. Len(s) - n : After(s, n)[i] = s[n + i]
  BY AfterIs
<1>3. /\ After(After(s, n), k) \in Seq(S) /\ Len(After(After(s, n), k)) = Len(s) - n - k
      /\ \A i \in 1 .. Len(s) - n - k : After(After(s, n), k)[i] = After(s, n)[k + i]
  BY <1>1, <1>2, AfterIs
<1>4. /\ After(s, n + k) \in Seq(S) /\ Len(After(s, n + k)) = Len(s) - (n + k)
      /\ \A i \in 1 .. Len(s) - (n + k) : After(s, n + k)[i] = s[n + k + i]
  BY <1>1, AfterIs
<1> QED
  <2> HIDE DEF After
  <2>1. Len(After(After(s, n), k)) = Len(After(s, n + k))
    <3>1. Len(s) - n - k = Len(s) - (n + k)
      BY <1>1
    <3> QED
      BY <1>3, <1>4, <3>1
  <2>2. ASSUME NEW i \in 1 .. Len(After(s, n + k))
        PROVE  After(After(s, n), k)[i] = After(s, n + k)[i]
    <3>1. i \in 1 .. Len(s) - n - k /\ k + i \in 1 .. Len(s) - n /\ n + (k + i) = n + k + i
      BY <1>1, <1>4, <2>2
    <3> QED
      BY <1>1, <1>2, <1>3, <1>4, <3>1
  <2> QED
    BY <1>3, <1>4, <2>1, <2>2, SeqEqual

Outcome == [buf : Octets, msgs : Seq(Parser!Message)]
Stopped(b) == [buf |-> b, msgs |-> <<>>]
ParsedOn(b, o) == [buf |-> o.buf, msgs |-> Said(b) \o o.msgs]

LEMMA ExceptMsgs ==
  ASSUME NEW B, NEW M, NEW more \in [buf : B, msgs : M], NEW x
  PROVE  [more EXCEPT !.msgs = x] = [buf |-> more.buf, msgs |-> x]
OBVIOUS

LEMMA StepShortens ==
  ASSUME NEW b \in Octets, Used(b) # 0
  PROVE  /\ After(b, Used(b)) \in Octets /\ Len(After(b, Used(b))) = Len(b) - Used(b)
         /\ Len(After(b, Used(b))) < Len(b) /\ Used(b) \in 1 .. Len(b)
<1>1. Used(b) \in 1 .. Len(b) /\ Len(b) \in Nat
  BY StepUses, LenProperties DEF Octets
<1> QED
  BY <1>1, AfterIs DEF Octets

LEMMA SaidTyped ==
  ASSUME NEW b \in Octets
  PROVE  Said(b) \in Seq(Parser!Message)
<1>1. CASE Said(b) = <<>>
  BY <1>1, EmptySeq
<1>2. ASSUME NEW x \in Parser!Message, Said(b) = <<x>> PROVE Said(b) \in Seq(Parser!Message)
  BY <1>2
<1> QED
  BY <1>1, <1>2, SaidIsMessage

(* The loop of the parser.                                                 *)
LEMMA ParseEquation ==
  /\ Parser!Parse \in [Octets -> Outcome]
  /\ \A b \in Octets :
       Parser!Parse[b] =
         IF Used(b) # 0 THEN ParsedOn(b, Parser!Parse[After(b, Used(b))]) ELSE Stopped(b)
<1> DEFINE D == Octets
           T == Outcome
           rank == [d \in D |-> Len(d)]
           Rec == {d \in D : Used(d) # 0}
           on == [d \in Rec |-> After(d, Used(d))]
           stop == [d \in D |-> Stopped(d)]
           step == [d \in D |-> [t \in T |-> IF d \in Rec THEN ParsedOn(d, t) ELSE t]]
           Value(g, b) ==
             LET f == Parser!FrontOf(b)
                 more == g[SubSeq(b, f.used + 1, Len(b))]
             IN IF f.used = 0 THEN [buf |-> b, msgs |-> <<>>]
                ELSE [more EXCEPT !.msgs = f.msg \o @]
           Is(g) == g = [b \in Octets |-> Value(g, b)]
<1>1. /\ rank \in [D -> Nat] /\ Rec \subseteq D /\ on \in [Rec -> D]
      /\ \A d \in Rec : rank[on[d]] < rank[d]
  BY StepShortens, LenProperties DEF Octets
<1>2. stop \in [D -> T]
  <2>1. \A b \in D : Stopped(b) \in T
    BY EmptySeq DEF Stopped, Outcome
  <2> HIDE DEF D, T
  <2> QED
    BY <2>1
<1>3. \A d \in Rec, t \in T : ParsedOn(d, t) \in T
  <2> TAKE d \in Rec, t \in T
  <2>1. t.buf \in Octets /\ t.msgs \in Seq(Parser!Message)
    BY DEF Outcome
  <2>2. Said(d) \o t.msgs \in Seq(Parser!Message)
    BY <2>1, SaidTyped, ConcatProperties
  <2> QED
    BY <2>1, <2>2 DEF ParsedOn, Outcome
<1>4. step \in [D -> [T -> T]]
  <2> HIDE DEF D, T, Rec
  <2> QED
    BY <1>3
<1>5. Recursive(D, T, rank, Rec, on, stop, step)
  <2> HIDE DEF D, T, rank, Rec, on, stop, step
  <2> QED
    BY <1>1, <1>2, <1>4 DEF Recursive
<1>6. ASSUME NEW g, NEW b \in D, b \notin Rec
      PROVE  Value(g, b) = stop[b]
  <2>1. Parser!FrontOf(b).used = 0
    BY <1>6 DEF Used
  <2>2. Value(g, b) = [buf |-> b, msgs |-> <<>>]
    BY <2>1
  <2> HIDE DEF Value
  <2> QED
    BY <2>2 DEF Stopped
<1>7. ASSUME NEW g, NEW b \in Rec, g[on[b]] \in T
      PROVE  Value(g, b) = step[b][g[on[b]]]
  <2> DEFINE m == g[SubSeq(b, Parser!FrontOf(b).used + 1, Len(b))]
             x == Parser!FrontOf(b).msg \o m.msgs
  <2>1. Parser!FrontOf(b).used # 0 /\ m = g[on[b]] /\ m \in Outcome
    BY <1>7 DEF Used, After
  <2>2. Value(g, b) = [m EXCEPT !.msgs = x]
    BY <2>1
  <2>3. x = Said(b) \o m.msgs
    BY DEF Said
  <2> HIDE DEF x, Value
  <2>4. [m EXCEPT !.msgs = x] = [buf |-> m.buf, msgs |-> x]
    <3> HIDE DEF m
    <3> QED
      BY <2>1, ExceptMsgs DEF Outcome
  <2>5. Value(g, b) = ParsedOn(b, m)
    BY <2>2, <2>3, <2>4 DEF ParsedOn
  <2>6. step[b][m] = ParsedOn(b, m)
    <3> HIDE DEF m
    <3> QED
      BY <1>7, <2>1
  <2> QED
    BY <2>1, <2>5, <2>6
<1>8. PICK f : Solves(f, D, T, Rec, on, stop, step)
  <2> HIDE DEF D, T, rank, Rec, on, stop, step
  <2> QED
    BY <1>5, Recursion
<1>9. Is(f)
  <2>1. /\ f \in [D -> T]
        /\ \A d \in D : f[d] = IF d \in Rec THEN step[d][f[on[d]]] ELSE stop[d]
    <3> HIDE DEF D, T, Rec, on, stop, step
    <3> QED
      BY <1>8 DEF Solves
  <2>2. \A d \in D : f[d] = Value(f, d)
    <3> TAKE d \in D
    <3>1. CASE d \in Rec
      <4>1. on[d] \in D /\ f[on[d]] \in T
        <5> HIDE DEF D, T, Rec, on
        <5> QED
          BY <1>1, <2>1, <3>1
      <4> HIDE DEF D, T, Rec, on, step, stop, Value
      <4>2. Value(f, d) = step[d][f[on[d]]]
        BY <1>7, <3>1, <4>1
      <4> QED
        BY <2>1, <3>1, <4>2
    <3>2. CASE d \notin Rec
      <4> HIDE DEF D, T, Rec, on, step, stop, Value
      <4> QED
        BY <1>6, <2>1, <3>2
    <3> QED
      BY <3>1, <3>2
  <2>3. f = [d \in D |-> f[d]]
    BY <2>1
  <2>4. f = [d \in D |-> Value(f, d)]
    <3> HIDE DEF Value, D
    <3> QED
      BY <2>2, <2>3
  <2> HIDE DEF Value
  <2> QED
    BY <2>4 DEF Octets
<1> DEFINE h == Parser!Parse
<1>10. Is(h)
  <2>1. Parser!Parse = CHOOSE g : Is(g)
    BY SMTT(30) DEF Parser!Parse, Octets
  <2> HIDE DEF Is
  <2> QED
    BY <1>9, <2>1
<1> HIDE DEF h
<1>11. h = [d \in D |-> Value(h, d)]
  <2> HIDE DEF Value
  <2> QED
    BY <1>10 DEF Octets
<1>12. DOMAIN h = D /\ h = [d \in DOMAIN h |-> h[d]] /\ \A d \in D : h[d] = Value(h, d)
  <2> HIDE DEF Value, D
  <2> QED
    BY <1>11
<1>13. Solves(h, D, T, Rec, on, stop, step)
  <2>1. \A d \in D : d \notin Rec => h[d] = stop[d]
    <3> HIDE DEF D, T, Rec, on, step, stop, Value
    <3> QED
      BY <1>6, <1>12
  <2>2. \A d \in Rec : h[on[d]] \in T => h[d] = step[d][h[on[d]]]
    <3> HIDE DEF D, T, Rec, on, step, stop, Value
    <3> QED
      BY <1>1, <1>7, <1>12
  <2> HIDE DEF D, T, rank, Rec, on, step, stop, Value
  <2> QED
    BY <1>5, <1>12, <2>1, <2>2, Loop
<1>14. /\ h \in [D -> T]
       /\ \A d \in D : h[d] = IF d \in Rec THEN step[d][h[on[d]]] ELSE stop[d]
  <2> HIDE DEF D, T, Rec, on, step, stop
  <2> QED
    BY <1>13 DEF Solves
<1>15. ASSUME NEW b \in D PROVE h[b] =
    IF Used(b) # 0 THEN ParsedOn(b, h[After(b, Used(b))]) ELSE Stopped(b)
  <2>1. CASE b \in Rec
    <3>1. on[b] = After(b, Used(b))
      BY <2>1
    <3>2. h[on[b]] \in T
      <4> HIDE DEF D, T, Rec, on
      <4> QED
        BY <1>1, <1>14, <2>1
    <3>3. step[b][h[on[b]]] = ParsedOn(b, h[on[b]])
      <4> HIDE DEF D, T, Rec, on
      <4> QED
        BY <1>15, <2>1, <3>2
    <3>4. h[b] = ParsedOn(b, h[After(b, Used(b))])
      <4> HIDE DEF D, T, Rec, on, step, stop
      <4> QED
        BY <1>14, <2>1, <3>1, <3>3
    <3>5. Used(b) # 0
      BY <2>1
    <3> QED
      BY <3>4, <3>5
  <2>2. CASE b \notin Rec
    <3>1. h[b] = stop[b] /\ ~(Used(b) # 0)
      BY <1>14, <2>2
    <3> QED
      BY <3>1
  <2> QED
    BY <2>1, <2>2
<1> QED
  BY <1>14, <1>15 DEF h

-----------------------------------------------------------------------------
(* The CMs of a list by those of the rest of it.                           *)

LastCM(m) == IF Parser!Last(m).type = "CM" THEN <<Parser!Last(m)>> ELSE <<>>

LEMMA FrontIsShorter ==
  ASSUME NEW S, NEW s \in Seq(S), s # <<>>
  PROVE  /\ Parser!Front(s) \in Seq(S)
         /\ Len(Parser!Front(s)) = Len(s) - 1 /\ Len(Parser!Front(s)) < Len(s)
<1>1. Len(s) \in Nat /\ Len(s) >= 1
  BY LenProperties, EmptySeq
<1>2. 1 \in 1 .. Len(s) + 1 /\ Len(s) - 1 \in 1 - 1 .. Len(s)
  BY <1>1
<1>3. /\ SubSeq(s, 1, Len(s) - 1) \in Seq(S)
      /\ Len(SubSeq(s, 1, Len(s) - 1)) = Len(s) - 1 - 1 + 1
  BY <1>2, SubSeqOf
<1> QED
  BY <1>1, <1>3 DEF Parser!Front

LEMMA LastIsMessage ==
  ASSUME NEW m \in Seq(Parser!Message), m # <<>>
  PROVE  LastCM(m) \in Seq(Parser!Message)
<1>1. Len(m) \in Nat /\ Len(m) >= 1
  BY LenProperties, EmptySeq
<1>2. Parser!Last(m) \in Parser!Message
  BY <1>1, ElementOfSeq DEF Parser!Last
<1> QED
  BY <1>2, EmptySeq DEF LastCM

(* The CMs among messages.                                                 *)
LEMMA CMsEquation ==
  /\ Parser!CMs \in [Seq(Parser!Message) -> Seq(Parser!Message)]
  /\ \A m \in Seq(Parser!Message) :
       Parser!CMs[m] =
         IF m # <<>> THEN Parser!CMs[Parser!Front(m)] \o LastCM(m) ELSE <<>>
<1> DEFINE D == Seq(Parser!Message)
           T == Seq(Parser!Message)
           rank == [d \in D |-> Len(d)]
           Rec == {d \in D : d # <<>>}
           on == [d \in Rec |-> Parser!Front(d)]
           stop == [d \in D |-> <<>>]
           step == [d \in D |-> [t \in T |-> IF d \in Rec THEN t \o LastCM(d) ELSE t]]
           Value(g, m) ==
             IF m = <<>> THEN <<>>
             ELSE g[Parser!Front(m)]
                    \o (IF Parser!Last(m).type = "CM" THEN <<Parser!Last(m)>> ELSE <<>>)
           Is(g) == g = [m \in Seq(Parser!Message) |-> Value(g, m)]
<1>1. /\ rank \in [D -> Nat] /\ Rec \subseteq D /\ on \in [Rec -> D]
      /\ \A d \in Rec : rank[on[d]] < rank[d]
  BY FrontIsShorter, LenProperties
<1>2. stop \in [D -> T]
  BY EmptySeq
<1>3. \A d \in Rec, t \in T : t \o LastCM(d) \in T
  BY LastIsMessage, ConcatProperties
<1>4. step \in [D -> [T -> T]]
  <2> HIDE DEF D, T, Rec
  <2> QED
    BY <1>3
<1>5. Recursive(D, T, rank, Rec, on, stop, step)
  <2> HIDE DEF D, T, rank, Rec, on, stop, step
  <2> QED
    BY <1>1, <1>2, <1>4 DEF Recursive
<1>6. ASSUME NEW g, NEW m \in D, m \notin Rec
      PROVE  Value(g, m) = stop[m]
  BY <1>6
<1>7. ASSUME NEW g, NEW m \in Rec, g[on[m]] \in T
      PROVE  Value(g, m) = step[m][g[on[m]]]
  <2>1. Value(g, m) = g[on[m]] \o LastCM(m)
    BY <1>7 DEF LastCM
  <2> HIDE DEF Value, on
  <2> QED
    BY <1>7, <2>1
<1>8. PICK f : Solves(f, D, T, Rec, on, stop, step)
  <2> HIDE DEF D, T, rank, Rec, on, stop, step
  <2> QED
    BY <1>5, Recursion
<1>9. Is(f)
  <2>1. /\ f \in [D -> T]
        /\ \A d \in D : f[d] = IF d \in Rec THEN step[d][f[on[d]]] ELSE stop[d]
    <3> HIDE DEF D, T, Rec, on, stop, step
    <3> QED
      BY <1>8 DEF Solves
  <2>2. \A d \in D : f[d] = Value(f, d)
    <3> TAKE d \in D
    <3>1. CASE d \in Rec
      <4>1. on[d] \in D /\ f[on[d]] \in T
        <5> HIDE DEF D, T, Rec, on
        <5> QED
          BY <1>1, <2>1, <3>1
      <4> HIDE DEF D, T, Rec, on, step, stop, Value
      <4>2. Value(f, d) = step[d][f[on[d]]]
        BY <1>7, <3>1, <4>1
      <4> QED
        BY <2>1, <3>1, <4>2
    <3>2. CASE d \notin Rec
      <4> HIDE DEF D, T, Rec, on, step, stop, Value
      <4> QED
        BY <1>6, <2>1, <3>2
    <3> QED
      BY <3>1, <3>2
  <2>3. f = [d \in D |-> f[d]]
    BY <2>1
  <2>4. f = [d \in D |-> Value(f, d)]
    <3> HIDE DEF Value, D
    <3> QED
      BY <2>2, <2>3
  <2> HIDE DEF Value
  <2> QED
    BY <2>4
<1> DEFINE h == Parser!CMs
<1>10. Is(h)
  <2>1. Parser!CMs = CHOOSE g : Is(g)
    BY SMTT(30) DEF Parser!CMs
  <2> HIDE DEF Is
  <2> QED
    BY <1>9, <2>1
<1> HIDE DEF h
<1>11. h = [d \in D |-> Value(h, d)]
  <2> HIDE DEF Value
  <2> QED
    BY <1>10
<1>12. DOMAIN h = D /\ h = [d \in DOMAIN h |-> h[d]] /\ \A d \in D : h[d] = Value(h, d)
  <2> HIDE DEF Value, D
  <2> QED
    BY <1>11
<1>13. Solves(h, D, T, Rec, on, stop, step)
  <2>1. \A d \in D : d \notin Rec => h[d] = stop[d]
    <3> HIDE DEF D, T, Rec, on, step, stop, Value
    <3> QED
      BY <1>6, <1>12
  <2>2. \A d \in Rec : h[on[d]] \in T => h[d] = step[d][h[on[d]]]
    <3> HIDE DEF D, T, Rec, on, step, stop, Value
    <3> QED
      BY <1>1, <1>7, <1>12
  <2> HIDE DEF D, T, rank, Rec, on, step, stop, Value
  <2> QED
    BY <1>5, <1>12, <2>1, <2>2, Loop
<1>14. /\ h \in [D -> T]
       /\ \A d \in D : h[d] = IF d \in Rec THEN step[d][h[on[d]]] ELSE stop[d]
  <2> HIDE DEF D, T, Rec, on, step, stop
  <2> QED
    BY <1>13 DEF Solves
<1>15. ASSUME NEW m \in D PROVE h[m] =
    IF m # <<>> THEN h[Parser!Front(m)] \o LastCM(m) ELSE <<>>
  <2>1. CASE m \in Rec
    <3>1. on[m] = Parser!Front(m)
      BY <2>1
    <3>2. h[on[m]] \in T
      <4> HIDE DEF D, T, Rec, on
      <4> QED
        BY <1>1, <1>14, <2>1
    <3>3. step[m][h[on[m]]] = h[on[m]] \o LastCM(m)
      <4> HIDE DEF D, T, Rec, on
      <4> QED
        BY <1>15, <2>1, <3>2
    <3>4. h[m] = h[Parser!Front(m)] \o LastCM(m)
      <4> HIDE DEF D, T, Rec, on, step, stop
      <4> QED
        BY <1>14, <2>1, <3>1, <3>3
    <3>5. m # <<>>
      BY <2>1
    <3> QED
      BY <3>4, <3>5
  <2>2. CASE m \notin Rec
    <3>1. h[m] = stop[m] /\ ~(m # <<>>)
      BY <1>14, <2>2
    <3> QED
      BY <3>1
  <2> QED
    BY <2>1, <2>2
<1> QED
  BY <1>14, <1>15 DEF h

-----------------------------------------------------------------------------
(* Every sync byte comes to the front of the buffer once, and what it is   *)
(* the beginning of depends on the bytes from there on and on nothing      *)
(* before.                                                                 *)

Message == Parser!Message

LEMMA OneMore ==
  ASSUME NEW S, NEW m \in Seq(S), NEW x \in S
  PROVE  /\ m \o <<x>> \in Seq(S) /\ Len(m \o <<x>>) = Len(m) + 1 /\ Len(m) \in Nat
         /\ (m \o <<x>>)[Len(m) + 1] = x
         /\ \A n \in 1 .. Len(m) : (m \o <<x>>)[n] = m[n]
<1>1. <<x>> \in Seq(S) /\ Len(<<x>>) = 1
  OBVIOUS
<1> QED
  BY <1>1, LenProperties, ConcatProperties

LEMMA CMsOfMore ==
  ASSUME NEW m \in Seq(Message), NEW x \in Message
  PROVE  /\ Parser!CMs[<<>>] = <<>>
         /\ Parser!CMs[m \o <<x>>]
              = Parser!CMs[m] \o (IF x.type = "CM" THEN <<x>> ELSE <<>>)
<1> DEFINE y == m \o <<x>>
<1>1. /\ y \in Seq(Message) /\ Len(y) = Len(m) + 1 /\ Len(m) \in Nat
      /\ y[Len(m) + 1] = x /\ \A n \in 1 .. Len(m) : y[n] = m[n]
  BY OneMore
<1> HIDE DEF y
<1>2. y # <<>>
  BY <1>1, EmptySeq
<1>3. Parser!Last(y) = x
  BY <1>1 DEF Parser!Last
<1>4. Parser!Front(y) = m
  <2>1. 1 \in 1 .. Len(y) + 1 /\ Len(y) - 1 \in 1 - 1 .. Len(y)
    BY <1>1
  <2>2. /\ SubSeq(y, 1, Len(y) - 1) \in Seq(Message)
        /\ Len(SubSeq(y, 1, Len(y) - 1)) = Len(y) - 1 - 1 + 1
        /\ \A i \in 1 .. Len(y) - 1 - 1 + 1 : SubSeq(y, 1, Len(y) - 1)[i] = y[1 + i - 1]
    BY <1>1, <2>1, SubSeqOf
  <2> DEFINE f == SubSeq(y, 1, Len(y) - 1)
  <2>3. /\ f \in Seq(Message) /\ Len(f) = Len(m) /\ \A i \in 1 .. Len(m) : f[i] = y[i]
    BY <1>1, <2>2
  <2> HIDE DEF f
  <2>4. f = m
    BY <1>1, <2>3, SeqEqual
  <2> QED
    BY <2>4 DEF Parser!Front, f
<1>5. Parser!CMs[y] = Parser!CMs[m] \o LastCM(y)
  BY <1>1, <1>2, <1>4, CMsEquation DEF Message
<1>6. LastCM(y) = IF x.type = "CM" THEN <<x>> ELSE <<>>
  BY <1>3 DEF LastCM
<1>7. Parser!CMs[<<>>] = <<>>
  BY CMsEquation, EmptySeq
<1> QED
  BY <1>5, <1>6, <1>7 DEF y

LEMMA CMsTyped ==
  ASSUME NEW m \in Seq(Message)
  PROVE  Parser!CMs[m] \in Seq(Message)
BY CMsEquation DEF Message

-----------------------------------------------------------------------------
(* What a byte of a stream is the beginning of: a sync byte, of the CM or  *)
(* JM that the parser makes of the bytes from there on.                    *)
Own(s, n) == IF s[n] = "sync" THEN Said(After(s, n - 1)) ELSE <<>>

(* All that begin in the first bytes.                                      *)
Lists(c, s) ==
  /\ c \in [0 .. Len(s) -> Seq(Message)]
  /\ c[0] = <<>>
  /\ \A n \in 1 .. Len(s) : c[n] = c[n - 1] \o Own(s, n)

LEMMA OwnTyped ==
  ASSUME NEW s \in Octets, NEW n \in 1 .. Len(s)
  PROVE  /\ After(s, n - 1) \in Octets /\ After(s, n - 1) # <<>>
         /\ After(s, n - 1)[1] = s[n]
         /\ Own(s, n) \in Seq(Message)
<1>1. n - 1 \in 0 .. Len(s) /\ Len(s) \in Nat
  BY LenProperties DEF Octets
<1>2. /\ After(s, n - 1) \in Octets /\ Len(After(s, n - 1)) = Len(s) - (n - 1)
      /\ \A i \in 1 .. Len(s) - (n - 1) : After(s, n - 1)[i] = s[n - 1 + i]
  BY <1>1, AfterOctets
<1>3. After(s, n - 1) # <<>> /\ After(s, n - 1)[1] = s[n]
  BY <1>1, <1>2, EmptySeq
<1> QED
  BY <1>2, <1>3, SaidTyped, EmptySeq DEF Own, Message

LEMMA ListExists ==
  ASSUME NEW s \in Octets
  PROVE  \E c : Lists(c, s)
<1> DEFINE Upto(c, k) == /\ c \in [0 .. k -> Seq(Message)]
                         /\ c[0] = <<>>
                         /\ \A n \in 1 .. k : c[n] = c[n - 1] \o Own(s, n)
           S == {k \in Nat : k <= Len(s) => \E c : Upto(c, k)}
<1>1. Len(s) \in Nat
  BY LenProperties DEF Octets
<1>2. 0 \in S
  <2> DEFINE c == [n \in 0 .. 0 |-> <<>>]
  <2>1. Upto(c, 0)
    BY EmptySeq
  <2> HIDE DEF c, Upto
  <2> QED
    BY <2>1
<1>3. ASSUME NEW k \in Nat, k \in S PROVE k + 1 \in S
  <2> HIDE DEF Upto
  <2> SUFFICES ASSUME k + 1 <= Len(s) PROVE \E c : Upto(c, k + 1)
    BY <1>3
  <2> USE DEF Upto
  <2>1. k <= Len(s) /\ k + 1 \in 1 .. Len(s)
    BY <1>1
  <2>2. PICK c : Upto(c, k)
    BY <1>3, <2>1
  <2> DEFINE d == [n \in 0 .. k + 1 |-> IF n = k + 1 THEN c[k] \o Own(s, k + 1) ELSE c[n]]
  <2>3. c[k] \o Own(s, k + 1) \in Seq(Message)
    BY <2>1, <2>2, OwnTyped, ConcatProperties
  <2>4. d \in [0 .. k + 1 -> Seq(Message)]
    BY <2>2, <2>3
  <2>5. ASSUME NEW n \in 1 .. k + 1 PROVE d[n] = d[n - 1] \o Own(s, n)
    <3>1. CASE n = k + 1
      <4>1. k + 1 \in 0 .. k + 1 /\ k \in 0 .. k + 1 /\ k # k + 1 /\ n - 1 = k
        BY <3>1
      <4> HIDE DEF Upto
      <4>2. d[k + 1] = c[k] \o Own(s, k + 1) /\ d[k] = c[k]
        BY <4>1
      <4> HIDE DEF d
      <4> QED
        BY <3>1, <4>1, <4>2
    <3>2. CASE n # k + 1
      <4>1. n \in 1 .. k /\ d[n] = c[n] /\ d[n - 1] = c[n - 1]
        BY <3>2
      <4> HIDE DEF d
      <4> QED
        BY <2>2, <4>1
    <3> QED
      BY <3>1, <3>2
  <2>6. d[0] = <<>>
    BY <2>2
  <2>7. Upto(d, k + 1)
    <3> HIDE DEF d
    <3> QED
      BY <2>4, <2>5, <2>6
  <2> HIDE DEF Upto, d
  <2> QED
    BY <2>7
<1> HIDE DEF S, Upto
<1>4. \A n \in Nat : n \in S
  BY <1>2, <1>3, SetInduction
<1>5. \E c : Upto(c, Len(s))
  BY <1>1, <1>4 DEF S
<1> USE DEF Upto
<1> QED
  BY <1>5 DEF Lists

LEMMA ListsAgree ==
  ASSUME NEW s, NEW c, Lists(c, s), NEW t, NEW d, Lists(d, t),
         NEW p \in Nat, p <= Len(s), p <= Len(t), Len(s) \in Nat, Len(t) \in Nat,
         \A n \in 1 .. p : Own(s, n) = Own(t, n)
  PROVE  c[p] = d[p]
<1> DEFINE S == {k \in Nat : k <= p => c[k] = d[k]}
<1>1. 0 \in S
  BY DEF Lists
<1>2. ASSUME NEW k \in Nat, k \in S PROVE k + 1 \in S
  <2> SUFFICES ASSUME k + 1 <= p PROVE c[k + 1] = d[k + 1]
    OBVIOUS
  <2>1. c[k] = d[k] /\ k + 1 \in 1 .. p /\ k + 1 \in 1 .. Len(s) /\ k + 1 \in 1 .. Len(t)
        /\ (k + 1) - 1 = k
    BY <1>2
  <2>2. c[k + 1] = c[k] \o Own(s, k + 1) /\ d[k + 1] = d[k] \o Own(t, k + 1)
    BY <2>1 DEF Lists
  <2> QED
    BY <2>1, <2>2
<1> HIDE DEF S
<1>3. \A n \in Nat : n \in S
  BY <1>1, <1>2, SetInduction
<1> QED
  BY <1>3 DEF S

-----------------------------------------------------------------------------
(* What has been found at a place of the stream.                           *)

Seen(m) == \E n \in 1 .. Len(m) : m[n].type = "CJ"

(* The loop has used the first p bytes of the stream and has said this of  *)
(* them: of each sync byte what it is the beginning of, and CJ when and    *)
(* only when there were two zeros.                                         *)
Decided(s, p) == \A i \in 1 .. p : s[i] = "sync" => Used(After(s, i - 1)) # 0

AllCMs(s, p, m) == \E c : Lists(c, s) /\ Parser!CMs[m] = c[p]

EachSaid(s, p, m) ==
  \A i \in 1 .. p : \A x : Own(s, i) = <<x>> => \E n \in 1 .. Len(m) : m[n] = x

ZerosFor(s, p, m) ==
  Seen(m) => \E i \in 1 .. p - 1 : s[i] = "zero" /\ s[i + 1] = "zero"

ZerosSeen(s, p, m) ==
  \A i \in 1 .. p : s[i] = "zero" /\ (i = Len(s) \/ s[i + 1] = "zero") => Seen(m)

Found(s, p, m) ==
  /\ p \in 0 .. Len(s) /\ m \in Seq(Message)
  /\ Decided(s, p) /\ AllCMs(s, p, m) /\ EachSaid(s, p, m)
  /\ ZerosFor(s, p, m) /\ ZerosSeen(s, p, m)

LEMMA NothingFound ==
  ASSUME NEW s \in Octets
  PROVE  Found(s, 0, <<>>)
<1>1. Len(s) \in Nat /\ <<>> \in Seq(Message) /\ Len(<<>>) = 0
  BY LenProperties, EmptySeq DEF Octets
<1>2. AllCMs(s, 0, <<>>)
  <2>1. PICK c : Lists(c, s)
    BY ListExists
  <2>2. \E x : x \in Message
    <3>1. [type |-> "CJ", bytes |-> <<>>, modes |-> {}] \in Message
      BY DEF Message, Parser!Message
    <3> QED
      BY <3>1
  <2>3. Parser!CMs[<<>>] = <<>>
    BY <2>2, <1>1, CMsOfMore
  <2> QED
    BY <2>1, <2>3 DEF AllCMs, Lists
<1> QED
  BY <1>1, <1>2 DEF Found, Decided, EachSaid, ZerosFor, ZerosSeen, Seen

(* What is said is nothing or one message.                                 *)
LEMMA SaidMore ==
  ASSUME NEW b \in Octets, NEW m \in Seq(Message)
  PROVE  \/ Said(b) = <<>> /\ m \o Said(b) = m
         \/ \E x \in Message :
              /\ Said(b) = <<x>> /\ Said(b) # <<>> /\ Said(b)[1] = x
              /\ m \o Said(b) = m \o <<x>>
<1>1. m \o <<>> = m
  BY ConcatEmptySeq
<1>2. ASSUME NEW x \in Message PROVE <<x>> # <<>> /\ <<x>>[1] = x
  OBVIOUS
<1> QED
  BY <1>1, <1>2, SaidIsMessage DEF Message

LEMMA SeenMore ==
  ASSUME NEW b \in Octets, NEW m \in Seq(Message)
  PROVE  /\ m \o Said(b) \in Seq(Message)
         /\ Seen(m \o Said(b)) <=> Seen(m) \/ Says(b, "CJ")
         /\ \A n \in 1 .. Len(m) : (m \o Said(b))[n] = m[n] /\ n \in 1 .. Len(m \o Said(b))
         /\ \A x : Said(b) = <<x>> => \E n \in 1 .. Len(m \o Said(b)) : (m \o Said(b))[n] = x
<1>1. CASE Said(b) = <<>> /\ m \o Said(b) = m
  <2>1. ~Says(b, "CJ")
    BY <1>1 DEF Says
  <2>2. \A x : <<>> # <<x>>
    OBVIOUS
  <2> QED
    BY <1>1, <2>1, <2>2
<1>2. ASSUME NEW x \in Message, Said(b) = <<x>>, Said(b) # <<>>, Said(b)[1] = x,
             m \o Said(b) = m \o <<x>>
      PROVE  /\ m \o Said(b) \in Seq(Message)
             /\ Seen(m \o Said(b)) <=> Seen(m) \/ Says(b, "CJ")
             /\ \A n \in 1 .. Len(m) :
                  (m \o Said(b))[n] = m[n] /\ n \in 1 .. Len(m \o Said(b))
             /\ \E n \in 1 .. Len(m \o Said(b)) : (m \o Said(b))[n] = x
  <2> DEFINE y == m \o Said(b)
  <2>1. /\ y \in Seq(Message) /\ Len(y) = Len(m) + 1 /\ Len(m) \in Nat
        /\ y[Len(m) + 1] = x /\ \A n \in 1 .. Len(m) : y[n] = m[n]
    BY <1>2, OneMore
  <2> HIDE DEF y
  <2>2. Says(b, "CJ") <=> x.type = "CJ"
    BY <1>2 DEF Says
  <2>3. Seen(y) <=> Seen(m) \/ x.type = "CJ"
    <3>1. ASSUME Seen(y) PROVE Seen(m) \/ x.type = "CJ"
      <4>1. PICK n \in 1 .. Len(y) : y[n].type = "CJ"
        BY <3>1 DEF Seen
      <4>2. n = Len(m) + 1 \/ n \in 1 .. Len(m)
        BY <2>1
      <4> QED
        BY <2>1, <4>1, <4>2 DEF Seen
    <3>2. ASSUME Seen(m) PROVE Seen(y)
      <4>1. PICK n \in 1 .. Len(m) : m[n].type = "CJ"
        BY <3>2 DEF Seen
      <4>2. n \in 1 .. Len(y) /\ y[n].type = "CJ"
        BY <2>1, <4>1
      <4> QED
        BY <4>2 DEF Seen
    <3>3. ASSUME x.type = "CJ" PROVE Seen(y)
      <4>1. Len(m) + 1 \in 1 .. Len(y) /\ y[Len(m) + 1].type = "CJ"
        BY <2>1, <3>3
      <4> QED
        BY <4>1 DEF Seen
    <3> QED
      BY <3>1, <3>2, <3>3
  <2>4. \A n \in 1 .. Len(m) : n \in 1 .. Len(y)
    BY <2>1
  <2>5. Len(m) + 1 \in 1 .. Len(y)
    BY <2>1
  <2> QED
    BY <2>1, <2>2, <2>3, <2>4, <2>5 DEF y
<1>3. \A x, z : <<x>> = <<z>> => x = z
  OBVIOUS
<1> QED
  BY <1>1, <1>2, <1>3, SaidMore

LEMMA CMsOfSaid ==
  ASSUME NEW b \in Octets, NEW m \in Seq(Message)
  PROVE  Parser!CMs[m \o Said(b)]
           = Parser!CMs[m] \o (IF Says(b, "CM") THEN Said(b) ELSE <<>>)
<1>0. Parser!CMs[m] \o <<>> = Parser!CMs[m]
  BY CMsTyped, ConcatEmptySeq
<1>1. CASE Said(b) = <<>> /\ m \o Said(b) = m
  BY <1>0, <1>1 DEF Says
<1>2. ASSUME NEW x \in Message, Said(b) = <<x>>, Said(b) # <<>>, Said(b)[1] = x,
             m \o Said(b) = m \o <<x>>
      PROVE  Parser!CMs[m \o Said(b)]
               = Parser!CMs[m] \o (IF Says(b, "CM") THEN Said(b) ELSE <<>>)
  <2>1. Says(b, "CM") <=> x.type = "CM"
    BY <1>2 DEF Says
  <2>2. Parser!CMs[m \o <<x>>] = Parser!CMs[m] \o (IF x.type = "CM" THEN <<x>> ELSE <<>>)
    BY CMsOfMore
  <2> QED
    BY <1>2, <2>1, <2>2
<1> QED
  BY <1>1, <1>2, SaidMore

(* Bytes that begin nothing add nothing to the list.                       *)
LEMMA ListStands ==
  ASSUME NEW s, NEW c, Lists(c, s), Len(s) \in Nat, NEW p \in Nat, NEW q \in Nat,
         p <= q, q <= Len(s), \A n \in p + 1 .. q : s[n] # "sync"
  PROVE  c[q] = c[p]
<1> DEFINE S == {k \in Nat : p + k <= q => c[p + k] = c[p]}
<1>1. 0 \in S
  OBVIOUS
<1>2. ASSUME NEW k \in Nat, k \in S PROVE k + 1 \in S
  <2> SUFFICES ASSUME p + (k + 1) <= q PROVE c[p + (k + 1)] = c[p]
    OBVIOUS
  <2>1. /\ c[p + k] = c[p] /\ p + (k + 1) \in p + 1 .. q /\ p + (k + 1) \in 1 .. Len(s)
        /\ (p + (k + 1)) - 1 = p + k /\ p + k \in 0 .. Len(s)
    BY <1>2
  <2>2. c[p + (k + 1)] = c[p + k] \o Own(s, p + (k + 1)) /\ Own(s, p + (k + 1)) = <<>>
    BY <2>1 DEF Lists, Own
  <2>3. c[p + k] \in Seq(Message)
    BY <2>1 DEF Lists
  <2> QED
    BY <2>1, <2>2, <2>3, ConcatEmptySeq
<1> HIDE DEF S
<1>3. \A n \in Nat : n \in S
  BY <1>1, <1>2, SetInduction
<1>4. q - p \in Nat /\ q - p \in S /\ p + (q - p) = q
  BY <1>3
<1> QED
  BY <1>4 DEF S

(* One step of the loop.                                                   *)
LEMMA StepFinds ==
  ASSUME NEW s \in Octets, NEW p, NEW m, Found(s, p, m), Used(After(s, p)) # 0
  PROVE  /\ Found(s, p + Used(After(s, p)), m \o Said(After(s, p)))
         /\ After(After(s, p), Used(After(s, p))) = After(s, p + Used(After(s, p)))
         /\ p + Used(After(s, p)) \in p + 1 .. Len(s)
<1> DEFINE b == After(s, p)
           u == Used(b)
           q == p + u
           n == m \o Said(b)
<1>1. p \in 0 .. Len(s) /\ m \in Seq(Message) /\ Len(s) \in Nat
  BY LenProperties DEF Found, Octets
<1>2. /\ b \in Octets /\ Len(b) = Len(s) - p /\ \A i \in 1 .. Len(s) - p : b[i] = s[p + i]
  BY <1>1, AfterOctets
<1> HIDE DEF b
<1>3. u \in 1 .. Len(s) - p
  BY <1>1, <1>2, StepUses DEF b
<1>4. q \in p + 1 .. Len(s) /\ q \in 0 .. Len(s)
  BY <1>1, <1>3
<1>5. After(b, u) = After(s, q)
  <2>1. u \in 0 .. Len(s) - p
    BY <1>1, <1>3
  <2> QED
    BY <1>1, <2>1, AfterAfter DEF b, Octets
<1> HIDE DEF u
<1>6. n \in Seq(Message)
  BY <1>1, <1>2, SeenMore
<1>7. \A i \in p + 2 .. q : s[i] # "sync"
  <2> TAKE i \in p + 2 .. q
  <2>1. i - p \in 2 .. u /\ i - p \in 1 .. Len(s) - p /\ p + (i - p) = i
    BY <1>1, <1>3
  <2>2. b[i - p] # "sync"
    BY <1>2, <2>1, StepUses DEF u
  <2> QED
    BY <1>2, <2>1, <2>2
<1>8. s[p + 1] = b[1] /\ p + 1 \in 1 .. q /\ p + 1 \in 1 .. Len(s) /\ (p + 1) - 1 = p
  BY <1>1, <1>2, <1>3
<1>9. \A i \in 1 .. q : i \in 1 .. p \/ i = p + 1 \/ i \in p + 2 .. q
  BY <1>1, <1>4
<1>10. Decided(s, q)
  <2> SUFFICES ASSUME NEW i \in 1 .. q, s[i] = "sync" PROVE Used(After(s, i - 1)) # 0
    BY DEF Decided
  <2>1. CASE i \in 1 .. p
    BY <2>1 DEF Found, Decided
  <2>2. CASE i = p + 1
    BY <1>8, <2>2
  <2> QED
    BY <1>7, <1>9, <2>1, <2>2
<1>11. Own(s, p + 1) = IF Says(b, "CM") THEN Said(b) ELSE <<>>
  <2>1. Own(s, p + 1) = IF b[1] = "sync" THEN Said(b) ELSE <<>>
    BY <1>8 DEF Own, b
  <2>2. Says(b, "CM") => b[1] = "sync"
    BY <1>2, StepUses
  <2>3. b[1] = "sync" => Says(b, "CM") \/ Said(b) = <<>>
    <3> SUFFICES ASSUME b[1] = "sync", Said(b) # <<>> PROVE Said(b)[1].type = "CM"
      BY DEF Says
    <3>1. b # <<>>
      BY <1>1, <1>2, <1>3, EmptySeq
    <3>2. PICK k : Parser!FrontOf(b) = Taken(b, k)
      BY <1>2, <3>1, SyncIs, Records DEF Said
    <3> QED
      BY <3>2, Records DEF Said, Taken
  <2> QED
    BY <2>1, <2>2, <2>3
<1>12. AllCMs(s, q, n)
  <2>1. PICK c : Lists(c, s) /\ Parser!CMs[m] = c[p]
    BY DEF Found, AllCMs
  <2>2. c[p + 1] = c[p] \o Own(s, p + 1)
    BY <1>8, <2>1 DEF Lists
  <2>3. c[q] = c[p + 1]
    <3>1. p + 1 \in Nat /\ q \in Nat /\ p + 1 <= q /\ q <= Len(s)
          /\ \A i \in (p + 1) + 1 .. q : s[i] # "sync"
      BY <1>1, <1>4, <1>7
    <3> HIDE DEF q
    <3> QED
      BY <1>1, <2>1, <3>1, ListStands
  <2>4. Parser!CMs[n] = c[p] \o Own(s, p + 1)
    BY <1>1, <1>2, <1>11, <2>1, CMsOfSaid
  <2> QED
    BY <2>1, <2>2, <2>3, <2>4 DEF AllCMs
<1>13. EachSaid(s, q, n)
  <2> SUFFICES ASSUME NEW i \in 1 .. q, NEW x, Own(s, i) = <<x>>
               PROVE  \E k \in 1 .. Len(n) : n[k] = x
    BY DEF EachSaid
  <2>1. CASE i \in 1 .. p
    <3>1. PICK k \in 1 .. Len(m) : m[k] = x
      BY <2>1 DEF Found, EachSaid
    <3>2. n[k] = m[k] /\ k \in 1 .. Len(n)
      BY <1>1, <1>2, SeenMore
    <3> HIDE DEF n
    <3> QED
      BY <3>1, <3>2
  <2>2. <<x>> # <<>>
    OBVIOUS
  <2>3. CASE i = p + 1
    <3>1. Said(b) = <<x>>
      BY <1>11, <2>2, <2>3
    <3>2. \A z : Said(b) = <<z>> =>
            \E k \in 1 .. Len(m \o Said(b)) : (m \o Said(b))[k] = z
      BY <1>1, <1>2, SeenMore
    <3> QED
      BY <3>1, <3>2, Zenon
  <2>4. CASE i \in p + 2 .. q
    BY <1>7, <2>2, <2>4 DEF Own
  <2> QED
    BY <1>9, <2>1, <2>3, <2>4
<1>14. ZerosFor(s, q, n)
  <2> SUFFICES ASSUME Seen(n)
               PROVE  \E i \in 1 .. q - 1 : s[i] = "zero" /\ s[i + 1] = "zero"
    BY DEF ZerosFor
  <2>1. Seen(m) \/ Says(b, "CJ")
    BY <1>1, <1>2, SeenMore
  <2>2. CASE Seen(m)
    <3>1. PICK i \in 1 .. p - 1 : s[i] = "zero" /\ s[i + 1] = "zero"
      BY <2>2 DEF Found, ZerosFor
    <3>2. i \in 1 .. q - 1
      BY <1>1, <1>4
    <3> QED
      BY <3>1, <3>2
  <2>3. CASE Says(b, "CJ")
    <3>1. u >= 2 /\ b[1] = "zero" /\ b[2] = "zero"
      BY <1>2, <2>3, StepUses DEF u
    <3>2. 1 \in 1 .. Len(s) - p /\ 2 \in 1 .. Len(s) - p /\ p + 1 \in 1 .. q - 1
          /\ (p + 1) + 1 = p + 2
      BY <1>1, <1>3, <3>1
    <3>3. s[p + 1] = "zero" /\ s[p + 2] = "zero"
      BY <1>2, <3>1, <3>2
    <3> QED
      BY <3>2, <3>3
  <2> QED
    BY <2>1, <2>2, <2>3
<1>15. ZerosSeen(s, q, n)
  <2> SUFFICES ASSUME NEW i \in 1 .. q, s[i] = "zero", i = Len(s) \/ s[i + 1] = "zero"
               PROVE  Seen(n)
    BY DEF ZerosSeen
  <2>1. CASE i \in 1 .. p
    <3>1. Seen(m)
      BY <2>1 DEF Found, ZerosSeen
    <3> QED
      BY <1>1, <1>2, <3>1, SeenMore
  <2>2. CASE i \in p + 1 .. q
    <3>1. i - p \in 1 .. u /\ i - p \in 1 .. Len(s) - p /\ p + (i - p) = i
          /\ (i # Len(s) => (i - p) + 1 \in 1 .. Len(s) - p /\ p + ((i - p) + 1) = i + 1)
      BY <1>1, <1>3, <1>4, <2>2
    <3>2. b[i - p] = "zero" /\ (i - p = Len(b) \/ b[(i - p) + 1] = "zero")
      BY <1>2, <3>1
    <3>3. Says(b, "CJ")
      BY <1>2, <3>1, <3>2, StepUses DEF u
    <3> QED
      BY <1>1, <1>2, <3>3, SeenMore
  <2> QED
    BY <1>1, <1>4, <2>1, <2>2
<1> QED
  BY <1>4, <1>5, <1>6, <1>10, <1>12, <1>13, <1>14, <1>15 DEF Found, b, u

-----------------------------------------------------------------------------
(* It is so at every turn of the loop, and remains so when more arrives.   *)

(* The loop goes on until it waits.                                        *)
LoopEnds(s, p, m) ==
  \E q \in p .. Len(s) :
    /\ Parser!Parse[After(s, p)].buf = After(s, q)
    /\ Parser!Parse[After(s, p)].msgs \in Seq(Message)
    /\ Used(After(s, q)) = 0
    /\ Found(s, q, m \o Parser!Parse[After(s, p)].msgs)

LEMMA LoopTurns ==
  ASSUME NEW s \in Octets, NEW p, NEW m, Found(s, p, m),
         Used(After(s, p)) # 0 =>
           LoopEnds(s, p + Used(After(s, p)), m \o Said(After(s, p)))
  PROVE  LoopEnds(s, p, m)
<1> DEFINE b == After(s, p)
<1>1. p \in 0 .. Len(s) /\ m \in Seq(Message) /\ Len(s) \in Nat
  BY LenProperties DEF Found, Octets
<1>2. b \in Octets
  BY <1>1, AfterOctets
<1>3. CASE Used(b) = 0
  <2>1. Parser!Parse[b] = Stopped(b)
    BY <1>2, <1>3, ParseEquation
  <2>2. Parser!Parse[b].buf = b /\ Parser!Parse[b].msgs = <<>>
    BY <2>1 DEF Stopped
  <2>3. m \o <<>> = m /\ <<>> \in Seq(Message)
    BY <1>1, ConcatEmptySeq, EmptySeq
  <2>4. p \in p .. Len(s)
    BY <1>1
  <2> QED
    BY <1>3, <2>2, <2>3, <2>4 DEF LoopEnds
<1>4. CASE Used(b) # 0
  <2> DEFINE p1 == p + Used(b)
             m1 == m \o Said(b)
             o == Parser!Parse[After(s, p1)]
  <2>1. /\ After(b, Used(b)) = After(s, p1) /\ p1 \in p + 1 .. Len(s)
    BY <1>4, StepFinds
  <2>2. PICK q \in p1 .. Len(s) :
          /\ o.buf = After(s, q) /\ o.msgs \in Seq(Message) /\ Used(After(s, q)) = 0
          /\ Found(s, q, m1 \o o.msgs)
    BY <1>4 DEF LoopEnds
  <2>3. Parser!Parse[b] = ParsedOn(b, o)
    BY <1>2, <1>4, <2>1, ParseEquation
  <2> HIDE DEF o, p1, b
  <2>4. Parser!Parse[b].buf = o.buf /\ Parser!Parse[b].msgs = Said(b) \o o.msgs
    BY <2>3 DEF ParsedOn
  <2>5. Said(b) \in Seq(Message)
    BY <1>2, SaidTyped DEF Message
  <2>6. m1 \o o.msgs = m \o (Said(b) \o o.msgs)
    <3>1. \A x, y, z \in Seq(Message) : (x \o y) \o z = x \o (y \o z)
      BY ConcatAssociative
    <3> QED
      BY <1>1, <2>2, <2>5, <3>1
  <2>8. Said(b) \o o.msgs \in Seq(Message)
    BY <2>2, <2>5, ConcatProperties
  <2>7. q \in p .. Len(s)
    BY <1>1, <2>1, <2>2
  <2> QED
    BY <2>2, <2>4, <2>6, <2>7, <2>8 DEF LoopEnds, b
<1> QED
  BY <1>3, <1>4

LEMMA LoopFinds ==
  ASSUME NEW s \in Octets, NEW p, NEW m, Found(s, p, m)
  PROVE  LoopEnds(s, p, m)
<1> DEFINE N == {k \in Nat : \A q, w : Found(s, q, w) /\ Len(s) - q <= k => LoopEnds(s, q, w)}
<1>1. Len(s) \in Nat /\ \A q, w : Found(s, q, w) => q \in 0 .. Len(s)
  BY LenProperties DEF Found, Octets
<1>2. 0 \in N
  <2> SUFFICES ASSUME NEW q, NEW w, Found(s, q, w), Len(s) - q <= 0 PROVE LoopEnds(s, q, w)
    OBVIOUS
  <2>1. q = Len(s) /\ q \in 0 .. Len(s)
    BY <1>1
  <2>2. After(s, q) \in Octets /\ Len(After(s, q)) = 0
    BY <2>1, AfterOctets
  <2>3. Used(After(s, q)) = 0
    BY <2>2, StepUses
  <2> QED
    BY <2>3, LoopTurns
<1>3. ASSUME NEW k \in Nat, k \in N PROVE k + 1 \in N
  <2> SUFFICES ASSUME NEW q, NEW w, Found(s, q, w), Len(s) - q <= k + 1
               PROVE  LoopEnds(s, q, w)
    BY <1>3
  <2>1. ASSUME Used(After(s, q)) # 0
        PROVE  LoopEnds(s, q + Used(After(s, q)), w \o Said(After(s, q)))
    <3> DEFINE r == q + Used(After(s, q))
    <3>1. Found(s, r, w \o Said(After(s, q))) /\ r \in q + 1 .. Len(s)
      BY <2>1, StepFinds
    <3>2. q \in 0 .. Len(s)
      BY <1>1
    <3> HIDE DEF r
    <3>3. Len(s) - r <= k
      BY <1>1, <3>1, <3>2
    <3> QED
      BY <1>3, <3>1, <3>3 DEF r
  <2> QED
    BY <2>1, LoopTurns
<1> HIDE DEF N
<1>4. \A n \in Nat : n \in N
  BY <1>2, <1>3, SetInduction
<1>5. Len(s) - p \in Nat /\ Len(s) - p \in N /\ Len(s) - p <= Len(s) - p
  BY <1>1, <1>4
<1> QED
  BY <1>5 DEF N

(* What was found stays, whatever follows.                                 *)
LEMMA FoundStays ==
  ASSUME NEW s \in Octets, NEW d \in Octets, NEW p, NEW m, Found(s, p, m)
  PROVE  Found(s \o d, p, m) /\ After(s \o d, p) = After(s, p) \o d
<1> DEFINE t == s \o d
<1>1. /\ p \in 0 .. Len(s) /\ m \in Seq(Message) /\ Len(s) \in Nat /\ Len(d) \in Nat
  BY LenProperties DEF Found, Octets
<1>2. /\ t \in Octets /\ Len(t) = Len(s) + Len(d)
      /\ \A i \in 1 .. Len(s) : t[i] = s[i]
      /\ \A i \in Len(s) + 1 .. Len(s) + Len(d) : t[i] = d[i - Len(s)]
  <2>1. /\ t \in Octets /\ Len(t) = Len(s) + Len(d)
        /\ \A i \in 1 .. Len(s) + Len(d) : t[i] = IF i <= Len(s) THEN s[i] ELSE d[i - Len(s)]
    BY ConcatProperties DEF Octets
  <2> HIDE DEF t
  <2> QED
    BY <1>1, <2>1
<1> HIDE DEF t
<1>3. ASSUME NEW i \in 1 .. p, s[i] = "sync"
      PROVE  /\ Used(After(t, i - 1)) # 0
             /\ Said(After(t, i - 1)) = Said(After(s, i - 1))
  <2> DEFINE b == After(s, i - 1)
             c == After(t, i - 1)
  <2>1. i \in 1 .. Len(s) /\ i \in 1 .. Len(t) /\ i - 1 \in 0 .. Len(s) /\ i - 1 \in 0 .. Len(t)
    BY <1>1, <1>2
  <2>2. b \in Octets /\ b # <<>> /\ b[1] = "sync" /\ c \in Octets
    BY <1>2, <1>3, <2>1, OwnTyped
  <2>3. /\ Len(b) = Len(s) - (i - 1) /\ \A j \in 1 .. Len(s) - (i - 1) : b[j] = s[i - 1 + j]
        /\ Len(c) = Len(t) - (i - 1) /\ \A j \in 1 .. Len(t) - (i - 1) : c[j] = t[i - 1 + j]
    <3>1. s \in Octets /\ t \in Octets
      BY <1>2
    <3> HIDE DEF b, c
    <3>2. Len(b) = Len(s) - (i - 1) /\ \A j \in 1 .. Len(s) - (i - 1) : b[j] = s[i - 1 + j]
      BY <2>1, <3>1, AfterOctets DEF b
    <3>3. Len(c) = Len(t) - (i - 1) /\ \A j \in 1 .. Len(t) - (i - 1) : c[j] = t[i - 1 + j]
      BY <2>1, <3>1, AfterOctets DEF c
    <3> QED
      BY <3>2, <3>3
  <2>4. Used(b) # 0
    BY <1>3 DEF Found, Decided
  <2> HIDE DEF b, c
  <2>5. Len(b) <= Len(c)
    BY <1>1, <1>2, <2>1, <2>3
  <2>6. \A j \in 1 .. Len(b) : c[j] = b[j]
    <3> TAKE j \in 1 .. Len(b)
    <3>1. /\ j \in 1 .. Len(s) - (i - 1) /\ j \in 1 .. Len(t) - (i - 1)
          /\ i - 1 + j \in 1 .. Len(s)
      BY <1>1, <1>2, <2>1, <2>3
    <3> QED
      BY <1>2, <2>3, <3>1
  <2> QED
    BY <2>2, <2>4, <2>5, <2>6, SyncStays DEF b, c
<1>4. \A i \in 1 .. p : i \in 1 .. Len(s) /\ t[i] = s[i]
  BY <1>1, <1>2
<1>5. Decided(t, p)
  BY <1>3, <1>4 DEF Decided
<1>6. \A i \in 1 .. p : Own(t, i) = Own(s, i)
  BY <1>3, <1>4 DEF Own
<1>7. AllCMs(t, p, m)
  <2>1. PICK c : Lists(c, s) /\ Parser!CMs[m] = c[p]
    BY DEF Found, AllCMs
  <2>2. PICK e : Lists(e, t)
    BY <1>2, ListExists
  <2>3. p \in Nat /\ p <= Len(s) /\ p <= Len(t) /\ Len(t) \in Nat
    BY <1>1, <1>2
  <2>4. c[p] = e[p]
    BY <1>1, <1>6, <2>1, <2>2, <2>3, ListsAgree
  <2> QED
    BY <2>1, <2>2, <2>4 DEF AllCMs
<1>8. EachSaid(t, p, m)
  BY <1>6 DEF Found, EachSaid
<1>9. ZerosFor(t, p, m)
  <2> SUFFICES ASSUME Seen(m)
               PROVE  \E i \in 1 .. p - 1 : t[i] = "zero" /\ t[i + 1] = "zero"
    BY DEF ZerosFor
  <2>1. PICK i \in 1 .. p - 1 : s[i] = "zero" /\ s[i + 1] = "zero"
    BY DEF Found, ZerosFor
  <2>2. i \in 1 .. Len(s) /\ i + 1 \in 1 .. Len(s)
    BY <1>1
  <2> QED
    BY <1>2, <2>1, <2>2
<1>10. ZerosSeen(t, p, m)
  <2> SUFFICES ASSUME NEW i \in 1 .. p, t[i] = "zero", i = Len(t) \/ t[i + 1] = "zero"
               PROVE  Seen(m)
    BY DEF ZerosSeen
  <2>1. s[i] = "zero"
    BY <1>4
  <2>2. i = Len(s) \/ s[i + 1] = "zero"
    <3> SUFFICES ASSUME i # Len(s) PROVE s[i + 1] = "zero"
      OBVIOUS
    <3>1. i # Len(t) /\ i + 1 \in 1 .. Len(s)
      BY <1>1, <1>2
    <3> QED
      BY <1>2, <3>1
  <2> QED
    BY <2>1, <2>2 DEF Found, ZerosSeen
<1>11. After(t, p) = After(s, p) \o d
  <2> DEFINE b == After(s, p)
             c == After(t, p)
             e == b \o d
  <2>1. p \in 0 .. Len(t)
    BY <1>1, <1>2
  <2>2. /\ b \in Octets /\ Len(b) = Len(s) - p /\ \A j \in 1 .. Len(s) - p : b[j] = s[p + j]
        /\ c \in Octets /\ Len(c) = Len(t) - p /\ \A j \in 1 .. Len(t) - p : c[j] = t[p + j]
    <3>1. t \in Octets
      BY <1>2
    <3>2. b \in Octets /\ Len(b) = Len(s) - p /\ \A j \in 1 .. Len(s) - p : b[j] = s[p + j]
      BY <1>1, AfterOctets
    <3>3. c \in Octets /\ Len(c) = Len(t) - p /\ \A j \in 1 .. Len(t) - p : c[j] = t[p + j]
      BY <2>1, <3>1, AfterOctets
    <3> HIDE DEF b, c
    <3> QED
      BY <3>2, <3>3
  <2> HIDE DEF b, c
  <2>3. /\ e \in Octets /\ Len(e) = Len(b) + Len(d)
        /\ \A j \in 1 .. Len(b) + Len(d) : e[j] = IF j <= Len(b) THEN b[j] ELSE d[j - Len(b)]
    BY <2>2, ConcatProperties DEF Octets
  <2> HIDE DEF e
  <2>4. Len(e) = Len(c)
    BY <1>1, <1>2, <2>2, <2>3
  <2>5. ASSUME NEW j \in 1 .. Len(c) PROVE c[j] = e[j]
    <3>1. j \in 1 .. Len(t) - p /\ j \in 1 .. Len(b) + Len(d)
      BY <1>1, <1>2, <2>2
    <3>2. c[j] = t[p + j]
      BY <2>2, <3>1
    <3>3. CASE j <= Len(b)
      <4>1. j \in 1 .. Len(s) - p /\ p + j \in 1 .. Len(s)
        BY <1>1, <2>2, <3>1, <3>3
      <4> QED
        BY <1>2, <2>2, <2>3, <3>1, <3>2, <3>3, <4>1
    <3>4. CASE ~(j <= Len(b))
      <4>1. p + j \in Len(s) + 1 .. Len(s) + Len(d) /\ (p + j) - Len(s) = j - Len(b)
        BY <1>1, <2>2, <3>1, <3>4
      <4> QED
        BY <1>2, <2>3, <3>1, <3>2, <3>4, <4>1
    <3> QED
      BY <3>3, <3>4
  <2>6. c = e
    BY <2>2, <2>3, <2>4, <2>5, SeqEqual DEF Octets
  <2> QED
    BY <2>6 DEF b, c, e
<1>12. p \in 0 .. Len(t)
  BY <1>1, <1>2
<1> QED
  BY <1>1, <1>5, <1>7, <1>8, <1>9, <1>10, <1>11, <1>12 DEF Found, t

-----------------------------------------------------------------------------
(* What waits has used all but what may go on.                             *)

(* Two parsers that wait have used the same of the stream, or one waits at *)
(* a zero at its end.                                                      *)
LEMMA SamePlace ==
  ASSUME NEW s \in Octets, NEW p, NEW m, Found(s, p, m), NEW q, NEW w, Found(s, q, w),
         Used(After(s, p)) = 0, p <= q
  PROVE  p = q \/ (q = p + 1 /\ q = Len(s) /\ s[q] = "zero")
<1>1. p \in 0 .. Len(s) /\ q \in 0 .. Len(s) /\ Len(s) \in Nat
  BY LenProperties DEF Found, Octets
<1>2. CASE p # q
  <2>1. p + 1 \in 1 .. q /\ p + 1 \in 1 .. Len(s) /\ (p + 1) - 1 = p /\ 1 \in 1 .. Len(s) - p
    BY <1>1, <1>2
  <2>2. /\ After(s, p) \in Octets /\ Len(After(s, p)) = Len(s) - p
        /\ After(s, p)[1] = s[p + 1]
    <3>1. /\ After(s, p) \in Octets /\ Len(After(s, p)) = Len(s) - p
          /\ \A i \in 1 .. Len(s) - p : After(s, p)[i] = s[p + i]
      BY <1>1, AfterOctets
    <3> QED
      BY <2>1, <3>1
  <2>3. After(s, p) # <<>>
    BY <1>1, <2>1, <2>2, EmptySeq
  <2>4. s[p + 1] # "sync"
    BY <2>1 DEF Found, Decided
  <2>5. Len(After(s, p)) = 1 /\ s[p + 1] = "zero"
    BY <2>2, <2>3, <2>4, WaitsFor DEF BeginsCM
  <2>6. Len(s) - p = 1
    BY <2>2, <2>5
  <2>7. q = p + 1 /\ q = Len(s)
    BY <1>1, <2>1, <2>6
  <2> QED
    BY <2>5, <2>7
<1> QED
  BY <1>2

(* Their messages are the same.                                            *)
LEMMA SameMessages ==
  ASSUME NEW s \in Octets, NEW p, NEW m, Found(s, p, m), NEW q, NEW w, Found(s, q, w),
         Used(After(s, p)) = 0, p <= q
  PROVE  Parser!CMs[m] = Parser!CMs[w] /\ (Seen(m) <=> Seen(w))
<1>1. p \in 0 .. Len(s) /\ q \in 0 .. Len(s) /\ Len(s) \in Nat
  BY LenProperties DEF Found, Octets
<1>2. p = q \/ (q = p + 1 /\ q = Len(s) /\ s[q] = "zero")
  BY SamePlace
<1>3. Parser!CMs[m] = Parser!CMs[w]
  <2>1. PICK c : Lists(c, s) /\ Parser!CMs[m] = c[p]
    BY DEF Found, AllCMs
  <2>2. PICK d : Lists(d, s) /\ Parser!CMs[w] = d[q]
    BY DEF Found, AllCMs
  <2>3. c[q] = d[q]
    BY <1>1, <2>1, <2>2, ListsAgree
  <2>4. c[q] = c[p]
    <3>1. /\ p \in Nat /\ q \in Nat /\ q <= Len(s)
          /\ \A n \in p + 1 .. q : s[n] # "sync"
      BY <1>1, <1>2
    <3> QED
      BY <1>1, <2>1, <3>1, ListStands
  <2> QED
    BY <2>1, <2>2, <2>3, <2>4
<1>4. ASSUME Seen(m) PROVE Seen(w)
  <2>1. PICK i \in 1 .. p - 1 : s[i] = "zero" /\ s[i + 1] = "zero"
    BY <1>4 DEF Found, ZerosFor
  <2>2. i \in 1 .. q
    BY <1>1
  <2> QED
    BY <2>1, <2>2 DEF Found, ZerosSeen
<1>5. ASSUME Seen(w) PROVE Seen(m)
  <2>1. PICK i \in 1 .. q - 1 : s[i] = "zero" /\ s[i + 1] = "zero"
    BY <1>5 DEF Found, ZerosFor
  <2>2. i \in 1 .. p
    BY <1>1, <1>2
  <2> QED
    BY <2>1, <2>2 DEF Found, ZerosSeen
<1> QED
  BY <1>3, <1>4, <1>5

LEMMA PiecesAreOne ==
  ASSUME NEW s \in Octets, NEW p, NEW m, Found(s, p, m), Used(After(s, p)) = 0
  PROVE  /\ Parser!CMs[m] = Parser!CMs[Parser!Parse[s].msgs]
         /\ Seen(m) <=> Seen(Parser!Parse[s].msgs)
<1>1. Found(s, 0, <<>>)
  BY NothingFound
<1>2. After(s, 0) = s
  <2>1. Len(s) \in Nat /\ 0 \in 0 .. Len(s)
    BY LenProperties DEF Octets
  <2>2. /\ After(s, 0) \in Octets /\ Len(After(s, 0)) = Len(s)
        /\ \A i \in 1 .. Len(s) : After(s, 0)[i] = s[i]
    BY <2>1, AfterOctets
  <2> QED
    BY <2>2, SeqEqual DEF Octets
<1>3. PICK q \in 0 .. Len(s) :
        /\ Parser!Parse[s].msgs \in Seq(Message) /\ Used(After(s, q)) = 0
        /\ Found(s, q, <<>> \o Parser!Parse[s].msgs)
  BY <1>1, <1>2, LoopFinds DEF LoopEnds
<1>4. Found(s, q, Parser!Parse[s].msgs)
  <2>1. <<>> \o Parser!Parse[s].msgs = Parser!Parse[s].msgs
    BY <1>3, ConcatEmptySeq
  <2> QED
    BY <1>3, <2>1
<1>5. p <= q \/ q <= p
  <2>1. p \in 0 .. Len(s) /\ Len(s) \in Nat
    BY LenProperties DEF Found, Octets
  <2> QED
    BY <1>3, <2>1
<1> QED
  BY <1>3, <1>4, <1>5, SameMessages

-----------------------------------------------------------------------------
(* An undamaged message has been found.                                    *)
LEMMA CleanFound ==
  ASSUME NEW p, NEW m, stream \in Octets, Found(stream, p, m), Used(After(stream, p)) = 0,
         NEW i \in 1 .. Len(stream), NEW j \in 1 .. Len(stream), Parser!CleanCM(i, j)
  PROVE  \E n \in 1 .. Len(m) :
           /\ m[n].type = "CM" /\ m[n].bytes = SubSeq(stream, i, j)
           /\ m[n].modes = 1 .. j - i - 1
<1> DEFINE s == stream
           k == j - i - 1
           b == After(s, i - 1)
<1>1. /\ p \in 0 .. Len(s) /\ Len(s) \in Nat /\ i \in 1 .. Len(s) /\ j \in 1 .. Len(s)
      /\ s \in Seq(Bytes) /\ s \in Octets
  BY LenProperties DEF Found, Octets
<1>2. /\ j - i \in 2 .. 4 /\ j < Len(s)
      /\ SubSeq(s, i, i + 2) = <<"sync", "callfn", "modn0">>
      /\ \A n \in i + 3 .. j : s[n] = "ext"
      /\ Ends(s[j + 1])
  BY DEF Parser!CleanCM, Parser!Terminators, Ends
<1>3. s[i] = "sync" /\ s[i + 1] = "callfn" /\ s[i + 2] = "modn0"
  <2>1. i \in 1 .. Len(s) + 1 /\ i + 2 \in i - 1 .. Len(s) /\ (i + 2) - i + 1 = 3
    BY <1>1, <1>2
  <2>2. \A n \in 1 .. 3 : SubSeq(s, i, i + 2)[n] = s[i + n - 1]
    BY <1>1, <2>1, SubSeqOf
  <2>3. /\ SubSeq(s, i, i + 2)[1] = s[i] /\ SubSeq(s, i, i + 2)[2] = s[i + 1]
        /\ SubSeq(s, i, i + 2)[3] = s[i + 2]
    <3>1. 1 \in 1 .. 3 /\ 2 \in 1 .. 3 /\ 3 \in 1 .. 3
          /\ i + 1 - 1 = i /\ i + 2 - 1 = i + 1 /\ i + 3 - 1 = i + 2
      BY <1>1
    <3> QED
      BY <2>2, <3>1
  <2>4. /\ <<"sync", "callfn", "modn0">>[1] = "sync"
        /\ <<"sync", "callfn", "modn0">>[2] = "callfn"
        /\ <<"sync", "callfn", "modn0">>[3] = "modn0"
    OBVIOUS
  <2> HIDE DEF s
  <2> QED
    BY <1>2, <2>3, <2>4
<1> HIDE DEF s
<1>4. i <= p
  <2> SUFFICES ASSUME p < i PROVE FALSE
    BY <1>1
  <2> DEFINE a == After(s, p)
  <2>1. /\ a \in Octets /\ Len(a) = Len(s) - p
        /\ \A n \in 1 .. Len(s) - p : a[n] = s[p + n]
    BY <1>1, AfterOctets
  <2> HIDE DEF a
  <2> DEFINE n == i - p
             e == j + 1 - p
  <2>2. n \in 1 .. Len(a) /\ e \in 4 .. Len(a) /\ e >= n + 3 /\ a[n] = "sync" /\ Ends(a[e])
    <3>1. n \in 1 .. Len(s) - p /\ e \in 1 .. Len(s) - p /\ p + n = i /\ p + e = j + 1
          /\ e >= n + 3 /\ e >= 4
      BY <1>1, <1>2
    <3> HIDE DEF n, e
    <3>2. a[n] = s[i] /\ a[e] = s[j + 1]
      BY <2>1, <3>1
    <3>3. n \in 1 .. Len(a) /\ e \in 4 .. Len(a)
      BY <1>1, <2>1, <3>1
    <3> QED
      BY <1>2, <1>3, <3>1, <3>2, <3>3
  <2> HIDE DEF n, e
  <2>3. a # <<>> /\ Len(a) >= 4
    BY <1>1, <2>1, <2>2, EmptySeq
  <2>4. BeginsCM(a) /\ Unmeasured(a)
    BY <1>1, <2>1, <2>3, WaitsFor DEF a, s
  <2> QED
    BY <2>1, <2>2, <2>4 DEF Unmeasured
<1>5. /\ b \in Octets /\ Len(b) = Len(s) - (i - 1)
      /\ \A n \in 1 .. Len(s) - (i - 1) : b[n] = s[i - 1 + n]
  <2>1. i - 1 \in 0 .. Len(s) /\ s \in Octets
    BY <1>1
  <2> QED
    BY <2>1, AfterOctets
<1> HIDE DEF b
<1>6. k \in 1 .. 3 /\ 2 + k < Len(b) /\ i - 1 + (3 + k) = j + 1
      /\ i - 1 + 1 = i /\ i - 1 + 2 = i + 1 /\ i - 1 + 3 = i + 2
      /\ \A n \in 1 .. 3 + k : n \in 1 .. Len(s) - (i - 1)
  BY <1>1, <1>2, <1>5
<1>7. /\ b[1] = "sync" /\ b[2] = "callfn" /\ b[3] = "modn0" /\ Ends(b[3 + k])
      /\ \A n \in 4 .. 2 + k : b[n] = "ext"
  <2>1. 1 \in 1 .. 3 + k /\ 2 \in 1 .. 3 + k /\ 3 \in 1 .. 3 + k /\ 3 + k \in 1 .. 3 + k
    BY <1>6
  <2>2. ASSUME NEW n \in 4 .. 2 + k PROVE b[n] = "ext"
    <3>1. n \in 1 .. 3 + k /\ i - 1 + n \in i + 3 .. j
      BY <1>1, <1>6
    <3> QED
      BY <1>2, <1>5, <1>6, <3>1
  <2> HIDE DEF k
  <2>3. \A n \in 1 .. 3 + k : b[n] = s[i - 1 + n]
    BY <1>5, <1>6
  <2>4. b[1] = s[i] /\ b[2] = s[i + 1] /\ b[3] = s[i + 2] /\ b[3 + k] = s[j + 1]
    BY <1>6, <2>1, <2>3
  <2> QED
    BY <1>2, <1>3, <2>2, <2>4
<1>8. BeginsCM(b) /\ Measured(b, k)
  <2>1. \A n \in 3 .. 2 + k : n = 3 \/ n \in 4 .. 2 + k
    BY <1>6
  <2> HIDE DEF k
  <2>2. Len(b) >= 4
    BY <1>1, <1>5, <1>6
  <2> QED
    BY <1>6, <1>7, <2>1, <2>2 DEF BeginsCM, Measured, Ends
<1> HIDE DEF k
<1>9. Parser!FrontOf(b) = Taken(b, k)
  <2>1. b # <<>>
    BY <1>5, <1>8, EmptySeq DEF BeginsCM
  <2> QED
    BY <1>5, <1>7, <1>8, <2>1, FrontIs, SyncTakes
<1> DEFINE x == [type |-> "CM", bytes |-> SubSeq(b, 1, 2 + k),
                 modes |-> Parser!DecodeModes(SubSeq(b, 3, 2 + k))]
<1>10. Own(s, i) = <<x>>
  <2>1. Taken(b, k).msg = <<x>>
    BY DEF Taken, Parser!Take
  <2> QED
    BY <1>3, <1>9, <2>1 DEF Own, Said, b
<1>11. \E n \in 1 .. Len(m) : m[n] = x
  <2>1. i \in 1 .. p
    BY <1>1, <1>4
  <2> HIDE DEF x
  <2> QED
    BY <1>10, <2>1 DEF Found, EachSaid, s
<1>12. SubSeq(b, 1, 2 + k) = SubSeq(s, i, j)
  <2>1. /\ 1 \in 1 .. Len(b) + 1 /\ 2 + k \in 1 - 1 .. Len(b) /\ (2 + k) - 1 + 1 = 2 + k
        /\ i \in 1 .. Len(s) + 1 /\ j \in i - 1 .. Len(s) /\ j - i + 1 = 2 + k
    BY <1>1, <1>2, <1>6 DEF k
  <2>2. /\ SubSeq(b, 1, 2 + k) \in Octets /\ Len(SubSeq(b, 1, 2 + k)) = 2 + k
        /\ \A n \in 1 .. 2 + k : SubSeq(b, 1, 2 + k)[n] = b[1 + n - 1]
    BY <1>5, <2>1, SubSeqOf DEF Octets
  <2>3. /\ SubSeq(s, i, j) \in Octets /\ Len(SubSeq(s, i, j)) = 2 + k
        /\ \A n \in 1 .. 2 + k : SubSeq(s, i, j)[n] = s[i + n - 1]
    <3>1. s \in Seq(Bytes)
      BY <1>1 DEF s
    <3> QED
      BY <2>1, <3>1, SubSeqOf DEF Octets
  <2>4. ASSUME NEW n \in 1 .. 2 + k PROVE SubSeq(b, 1, 2 + k)[n] = SubSeq(s, i, j)[n]
    <3>1. n \in 1 .. 3 + k /\ 1 + n - 1 = n /\ i + n - 1 = i - 1 + n
      BY <1>1, <1>6
    <3> QED
      BY <1>5, <1>6, <2>2, <2>3, <3>1
  <2> QED
    BY <2>2, <2>3, <2>4, SeqEqual DEF Octets
<1>13. Parser!DecodeModes(SubSeq(b, 3, 2 + k)) = 1 .. k
  <2> DEFINE o == SubSeq(b, 3, 2 + k)
  <2>1. 3 \in 1 .. Len(b) + 1 /\ 2 + k \in 3 - 1 .. Len(b) /\ (2 + k) - 3 + 1 = k
    BY <1>1, <1>5, <1>6
  <2>2. Len(o) = k /\ \A n \in 1 .. k : o[n] = b[3 + n - 1]
    BY <1>5, <2>1, SubSeqOf DEF Octets
  <2> HIDE DEF o
  <2>3. \A n \in 1 .. k : o[n] = (IF n = 1 THEN "modn0" ELSE "ext")
    <3> TAKE n \in 1 .. k
    <3>1. n = 1 => 3 + n - 1 = 3
      OBVIOUS
    <3>2. n # 1 => 3 + n - 1 \in 4 .. 2 + k
      BY <1>6
    <3> QED
      BY <1>7, <2>2, <3>1, <3>2
  <2> QED
    BY <2>2, <2>3 DEF Parser!DecodeModes, o
<1>14. /\ x.type = "CM" /\ x.bytes = SubSeq(stream, i, j) /\ x.modes = 1 .. j - i - 1
  BY <1>12, <1>13 DEF s, k
<1> HIDE DEF x
<1> QED
  BY <1>11, <1>14

-----------------------------------------------------------------------------
(* Of the zeros that is so as well.                                        *)

(* Three zeros have been found: a parser that waits has at most one ahead  *)
(* of it.                                                                  *)
LEMMA CJFound ==
  ASSUME NEW s \in Octets, NEW p, NEW m, Found(s, p, m), Used(After(s, p)) = 0,
         NEW i \in 1 .. Len(s) - 2,
         s[i] = "zero", s[i + 1] = "zero", s[i + 2] = "zero"
  PROVE  Seen(m)
<1>1. p \in 0 .. Len(s) /\ Len(s) \in Nat /\ i \in Nat /\ i >= 1 /\ i + 2 <= Len(s)
  BY LenProperties DEF Found, Octets
<1>2. CASE i <= p
  BY <1>1, <1>2 DEF Found, ZerosSeen
<1>3. CASE p < i
  <2> DEFINE a == After(s, p)
             n == i - p
  <2>1. /\ a \in Octets /\ Len(a) = Len(s) - p
        /\ \A k \in 1 .. Len(s) - p : a[k] = s[p + k]
    BY <1>1, AfterOctets
  <2>2. /\ n \in 1 .. Len(s) - p /\ n + 2 \in 3 .. Len(s) - p /\ p + n = i
        /\ p + (n + 2) = i + 2
    BY <1>1, <1>3
  <2> HIDE DEF a, n
  <2>3. a[n] = "zero" /\ a[n + 2] = "zero"
    BY <2>1, <2>2
  <2>4. a # <<>> /\ Len(a) >= 3 /\ (Len(a) <= 3 => n = 1)
    BY <1>1, <2>1, <2>2, EmptySeq
  <2>5. \/ Len(a) = 1
        \/ a[1] = "sync" /\ Len(a) <= 3
        \/ Unmeasured(a)
    BY <2>1, <2>4, WaitsFor DEF a
  <2> QED
    BY <1>1, <2>1, <2>2, <2>3, <2>4, <2>5 DEF Unmeasured, Ends
<1> QED
  BY <1>1, <1>2, <1>3

(* What waits is short.                                                    *)
LEMMA WaitsShort ==
  ASSUME NEW b \in Octets, Used(b) = 0
  PROVE  Len(b) <= 5
<1>1. Len(b) \in Nat
  BY LenProperties DEF Octets
<1>2. b = <<>> => Len(b) = 0
  OBVIOUS
<1> QED
  BY <1>1, <1>2, WaitsFor DEF Unmeasured

LEMMA AfterIsSuffix ==
  ASSUME NEW s \in Octets, NEW p \in 0 .. Len(s)
  PROVE  Parser!IsSuffix(After(s, p), s)
<1> DEFINE a == After(s, p)
           ra == Parser!Reverse(a)
           rs == Parser!Reverse(s)
<1>1. /\ a \in Octets /\ Len(a) = Len(s) - p /\ Len(s) \in Nat /\ p \in Nat /\ p <= Len(s)
      /\ \A i \in 1 .. Len(s) - p : a[i] = s[p + i]
  <2>1. /\ a \in Octets /\ Len(a) = Len(s) - p /\ Len(s) \in Nat
        /\ \A i \in 1 .. Len(s) - p : a[i] = s[p + i]
    BY AfterOctets
  <2>2. p \in Nat /\ p <= Len(s)
    BY <2>1
  <2> QED
    BY <2>1, <2>2
<1> HIDE DEF a
<1>2. ra \in Octets /\ Len(ra) = Len(a) /\ \A i \in 1 .. Len(a) : ra[i] = a[(Len(a) - i) + 1]
  <2>1. ra = [i \in 1 .. Len(a) |-> a[(Len(a) - i) + 1]]
    BY DEF Parser!Reverse
  <2>2. \A i \in 1 .. Len(a) : a[(Len(a) - i) + 1] \in Bytes
    BY <1>1 DEF Octets
  <2> QED
    BY <1>1, <2>1, <2>2 DEF Octets
<1>3. rs \in Octets /\ Len(rs) = Len(s) /\ \A i \in 1 .. Len(s) : rs[i] = s[(Len(s) - i) + 1]
  <2>1. rs = [i \in 1 .. Len(s) |-> s[(Len(s) - i) + 1]]
    BY DEF Parser!Reverse
  <2>2. \A i \in 1 .. Len(s) : s[(Len(s) - i) + 1] \in Bytes
    BY <1>1 DEF Octets
  <2> QED
    BY <1>1, <2>1, <2>2 DEF Octets
<1> HIDE DEF ra, rs
<1>4. /\ SubSeq(ra, 1, Len(a)) \in Octets /\ Len(SubSeq(ra, 1, Len(a))) = Len(a)
      /\ \A i \in 1 .. Len(a) : SubSeq(ra, 1, Len(a))[i] = ra[i]
  <2>1. 1 \in 1 .. Len(ra) + 1 /\ Len(a) \in 1 - 1 .. Len(ra) /\ Len(a) - 1 + 1 = Len(a)
        /\ \A i \in 1 .. Len(a) : 1 + i - 1 = i
    BY <1>1, <1>2
  <2> QED
    BY <1>2, <2>1, SubSeqOf DEF Octets
<1>5. /\ SubSeq(rs, 1, Len(a)) \in Octets /\ Len(SubSeq(rs, 1, Len(a))) = Len(a)
      /\ \A i \in 1 .. Len(a) : SubSeq(rs, 1, Len(a))[i] = rs[i]
  <2>1. 1 \in 1 .. Len(rs) + 1 /\ Len(a) \in 1 - 1 .. Len(rs) /\ Len(a) - 1 + 1 = Len(a)
        /\ \A i \in 1 .. Len(a) : 1 + i - 1 = i
    BY <1>1, <1>3
  <2> QED
    BY <1>3, <2>1, SubSeqOf DEF Octets
<1>6. ASSUME NEW i \in 1 .. Len(a)
      PROVE  SubSeq(ra, 1, Len(a))[i] = SubSeq(rs, 1, Len(a))[i]
  <2>1. /\ (Len(a) - i) + 1 \in 1 .. Len(s) - p
        /\ p + ((Len(a) - i) + 1) = (Len(s) - i) + 1 /\ i \in 1 .. Len(s)
    BY <1>1
  <2>2. ra[i] = a[(Len(a) - i) + 1] /\ rs[i] = s[(Len(s) - i) + 1]
    BY <1>2, <1>3, <2>1
  <2>3. a[(Len(a) - i) + 1] = s[p + ((Len(a) - i) + 1)]
    BY <1>1, <2>1
  <2> QED
    BY <1>4, <1>5, <2>1, <2>2, <2>3
<1>7. SubSeq(ra, 1, Len(a)) = SubSeq(rs, 1, Len(a))
  BY <1>4, <1>5, <1>6, SeqEqual DEF Octets
<1>8. Len(ra) <= Len(rs) /\ Len(ra) = Len(a)
  BY <1>1, <1>2, <1>3
<1>9. Parser!IsPrefix(ra, rs)
  BY <1>7, <1>8 DEF Parser!IsPrefix
<1> QED
  BY <1>9 DEF Parser!IsSuffix, a, ra, rs

-----------------------------------------------------------------------------
(* The parser waits at some place of the stream, with what there is to     *)
(* find before it found and nothing else.                                  *)
ParserInv ==
  /\ stream \in Octets
  /\ \E p : buf = After(stream, p) /\ Used(buf) = 0 /\ Found(stream, p, msgs)

LEMMA ParserStarts == Parser!Init => ParserInv
<1> SUFFICES ASSUME Parser!Init PROVE ParserInv
  OBVIOUS
<1>1. stream = <<>> /\ buf = <<>> /\ msgs = <<>> /\ <<>> \in Octets
  BY DEF Parser!Init, Octets
<1>2. Found(stream, 0, msgs)
  BY <1>1, NothingFound
<1>3. After(stream, 0) = buf
  <2>1. stream \in Octets /\ Len(stream) = 0 /\ 0 \in 0 .. Len(stream)
    BY <1>1
  <2>2. After(stream, 0) \in Octets /\ Len(After(stream, 0)) = Len(stream) - 0
    BY <2>1, AfterOctets
  <2>3. Len(stream) - 0 = 0
    BY <2>1
  <2> QED
    BY <1>1, <2>2, <2>3, EmptySeq DEF Octets
<1>4. Used(buf) = 0
  BY <1>1, FrontIs, Records DEF Used
<1> QED
  BY <1>1, <1>2, <1>3, <1>4 DEF ParserInv

LEMMA ParserKeeps == ParserInv /\ [Parser!Next]_parserVars => ParserInv'
<1> SUFFICES ASSUME ParserInv, [Parser!Next]_parserVars PROVE ParserInv'
  OBVIOUS
<1>1. CASE UNCHANGED parserVars
  BY <1>1 DEF parserVars, ParserInv
<1>2. ASSUME NEW n \in 1 .. MaxPiece, NEW piece \in [1 .. n -> Bytes], Parser!Data(piece)
      PROVE  ParserInv'
  <2>1. piece \in Octets
    BY DEF Octets
  <2>2. PICK p : buf = After(stream, p) /\ Used(buf) = 0 /\ Found(stream, p, msgs)
    BY DEF ParserInv
  <2>3. stream \in Octets /\ stream \o piece \in Octets
    BY <2>1, ConcatProperties DEF ParserInv, Octets
  <2>4. Found(stream \o piece, p, msgs) /\ After(stream \o piece, p) = buf \o piece
    BY <2>1, <2>2, <2>3, FoundStays
  <2>5. PICK q \in p .. Len(stream \o piece) :
          /\ Parser!Parse[buf \o piece].buf = After(stream \o piece, q)
          /\ Used(After(stream \o piece, q)) = 0
          /\ Found(stream \o piece, q, msgs \o Parser!Parse[buf \o piece].msgs)
    BY <2>3, <2>4, LoopFinds DEF LoopEnds
  <2>6. /\ stream' = stream \o piece /\ buf' = Parser!Parse[buf \o piece].buf
        /\ msgs' = msgs \o Parser!Parse[buf \o piece].msgs
    BY <1>2 DEF Parser!Data
  <2>7. buf' = After(stream', q) /\ Used(buf') = 0 /\ Found(stream', q, msgs')
    BY <2>5, <2>6
  <2> QED
    BY <2>3, <2>6, <2>7 DEF ParserInv
<1> QED
  BY <1>1, <1>2 DEF Parser!Next

LEMMA ParserHolds == ParserInv => Parser!ParserSafe
<1> SUFFICES ASSUME ParserInv PROVE Parser!ParserSafe
  OBVIOUS
<1>1. PICK p : buf = After(stream, p) /\ Used(buf) = 0 /\ Found(stream, p, msgs)
  BY DEF ParserInv
<1>2. /\ stream \in Octets /\ p \in 0 .. Len(stream) /\ Len(stream) \in Nat
      /\ msgs \in Seq(Message)
  BY <1>1, LenProperties DEF ParserInv, Found, Octets
<1>3. Parser!TypeOK
  <2>1. buf \in Octets
    BY <1>1, <1>2, AfterOctets
  <2>2. Parser!IsSuffix(buf, stream)
    BY <1>1, <1>2, AfterIsSuffix
  <2>3. Len(buf) <= 5
    BY <1>1, <2>1, WaitsShort
  <2> QED
    BY <1>2, <2>2, <2>3 DEF Parser!TypeOK, Octets, Message
<1>4. Parser!PiecesDoNotMatter
  <2>1. /\ Parser!CMs[msgs] = Parser!CMs[Parser!Parse[stream].msgs]
        /\ Seen(msgs) <=> Seen(Parser!Parse[stream].msgs)
    BY <1>1, <1>2, PiecesAreOne
  <2> QED
    BY <2>1 DEF Parser!PiecesDoNotMatter, Parser!SeenCJ, Seen
<1>5. Parser!CleanIsFound
  <2> SUFFICES ASSUME NEW i \in 1 .. Len(stream), NEW j \in 1 .. Len(stream),
                      Parser!CleanCM(i, j)
               PROVE  \E n \in 1 .. Len(msgs) :
                        /\ msgs[n].type = "CM" /\ msgs[n].bytes = SubSeq(stream, i, j)
                        /\ msgs[n].modes = 1 .. j - i - 1
    BY DEF Parser!CleanIsFound
  <2> QED
    BY <1>1, <1>2, CleanFound
<1>6. Parser!CJIsFound
  <2> SUFFICES ASSUME NEW i \in 1 .. Len(stream) - 2,
                      \A n \in i .. i + 2 : stream[n] = "zero"
               PROVE  Parser!SeenCJ(msgs)
    BY DEF Parser!CJIsFound
  <2>1. i \in i .. i + 2 /\ i + 1 \in i .. i + 2 /\ i + 2 \in i .. i + 2
    OBVIOUS
  <2>2. Seen(msgs)
    BY <1>1, <1>2, <2>1, CJFound
  <2> QED
    BY <2>2 DEF Seen, Parser!SeenCJ
<1> QED
  BY <1>3, <1>4, <1>5, <1>6 DEF Parser!ParserSafe

-----------------------------------------------------------------------------
(* Both of them.                                                           *)
MCInv == (part # "clean" => IInv) /\ ParserInv

LEMMA MCStarts ==
  ASSUME ConstantsOK
  PROVE  MCInit => MCInv
BY InitInv, ParserStarts DEF MCInit, MCInv

LEMMA MCKeeps ==
  ASSUME ConstantsOK
  PROVE  MCInv /\ [MCNext]_all => MCInv'
<1> SUFFICES ASSUME MCInv, [MCNext]_all PROVE MCInv'
  OBVIOUS
<1>1. [Parser!Next]_parserVars
  BY DEF MCNext, NoisyRuns, CleanRuns, ParserRuns, all
<1>2. part' = part /\ (part # "clean" => [Next]_vars)
  BY DEF MCNext, NoisyRuns, CleanRuns, ParserRuns, Runs, all
<1>3. ParserInv'
  BY <1>1, ParserKeeps DEF MCInv
<1>4. part' # "clean" => IInv'
  BY <1>2, NextKeeps DEF MCInv
<1> QED
  BY <1>3, <1>4 DEF MCInv

(* Whatever the line delivers and however the receiver cuts it, and for a  *)
(* stream of any length: the parser keeps no more than the five bytes that *)
(* may still become a message, the CMs and JMs it finds and whether it     *)
(* finds a CJ depend on the stream alone, every undamaged message is       *)
(* found with its bytes and its modes, and three zeros are a CJ.  And each *)
(* sequencer of a noisy line keeps to its role.                            *)
THEOREM V8SafeAlways == ConstantsOK => (MCSpec => []V8Safe)
<1> SUFFICES ASSUME ConstantsOK PROVE MCSpec => []V8Safe
  OBVIOUS
<1>1. MCInit => MCInv
  BY MCStarts
<1>2. MCInv /\ [MCNext]_all => MCInv'
  BY MCKeeps
<1>3. MCInv => V8Safe
  BY Agreed, ParserHolds DEF MCInv, V8Safe
<1> QED
  BY <1>1, <1>2, <1>3, PTL DEF MCSpec

=============================================================================
