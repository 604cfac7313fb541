------------------------------ MODULE MCStartup ------------------------------
(***************************************************************************)
(* Small instances of how a native call gets its modulation: the handshake *)
(* engine with its chain of probes, and the start-up of one V.22 or        *)
(* V.22bis instance, which the engine sees from outside.  They share no    *)
(* state, so TLC takes one at a time: part says which, and the other rests *)
(* in an initial state.                                                    *)
(***************************************************************************)
EXTENDS HandshakeEngine

(* V22Startup's, in units of a packet.                                     *)
CONSTANTS
  Kinds, Silence, S1, S11at2400, S11at1200, S1111, SB1,
  Acquire, Scrambled, Sustain, Sixteen, Detect, S1Run, Timeout

VARIABLES
  part,
  kind, phase, inPhase, total, above, detected, s1Run, bps, ready, rx, last,
  restarted, turn

V22 == INSTANCE V22Startup

ASSUME BoundsAssumption == V22!ConstantsOK

v22Vars == <<kind, phase, inPhase, total, above, detected, s1Run, bps, ready, rx,
             last, restarted, turn>>
all == <<part, vars, v22Vars>>

(* The first of all calls stands for those of an engine at rest.           *)
AtRest ==
  line = [role |-> "answer", forced |-> Null, skip |-> FALSE, caller |-> "V21",
          v8 |-> FALSE, willing |-> FALSE, cut |-> FALSE]

MCInit ==
  /\ part \in {"handshake", "v22"}
  /\ Init /\ V22!Init
  /\ part = "v22" => AtRest
  /\ part = "handshake" => kind = "V22"

Runs(p) == part = p /\ UNCHANGED part
HandshakeRuns == Runs("handshake") /\ Next /\ UNCHANGED v22Vars
V22Runs       == Runs("v22") /\ V22!Next /\ UNCHANGED vars

MCNext == HandshakeRuns \/ V22Runs

(* The fairness of the parts.                                              *)
MCSpec ==
  /\ MCInit /\ [][MCNext]_all
  /\ WF_vars(part = "handshake" /\ Step) /\ SF_vars(part = "handshake" /\ Trains)
  /\ WF_v22Vars(part = "v22" /\ V22!Next) /\ SF_v22Vars(part = "v22" /\ V22!Packet)

-----------------------------------------------------------------------------
(* The start-up's promise, as the engine runs too.                         *)
V22Safe == V22!V22Safe

(* Whoever answers the probes is connected; an instance reports once, and  *)
(* a caller whose carrier stays gets an answer.                            *)
StartupEnds == CallerIsReached /\ V22!OneReady /\ V22!CarrierIsAnswered

=============================================================================
