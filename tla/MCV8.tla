-------------------------------- MODULE MCV8 --------------------------------
(***************************************************************************)
(* Small instances of V.8: two sequencers on a line that damages messages, *)
(* two on a clean line with more protocols and longer waits, and the       *)
(* parser that finds the messages in a stream of bytes.  TLC takes one at  *)
(* a time: part says which, and the others rest in an initial state.       *)
(***************************************************************************)
EXTENDS V8Sequencer

(* V8Parser's.                                                             *)
CONSTANTS Bytes, MaxLen, MaxPiece

VARIABLES part, stream, buf, msgs

Clean == INSTANCE V8Sequencer
  WITH Protocols <- {"V22bis", "V21", "Bell103"},
       Ansam <- 4, Wait1s <- 2, Te <- 2, CiOff <- 1, MaxCi <- 2, PostSig <- 2,
       CmWait <- 9, JmWait <- 8, Foreign <- "none", Noise <- FALSE

Parser == INSTANCE V8Parser

ASSUME BoundsAssumption ==
  ConstantsOK /\ Clean!ConstantsOK /\ Parser!ConstantsOK

parserVars == <<stream, buf, msgs>>
all == <<part, vars, parserVars>>

MCInit ==
  /\ part \in {"noisy", "clean", "parser"}
  /\ IF part = "clean" THEN Clean!Init ELSE Init
  /\ part = "parser" => \A i \in Sides : side[i].local = Protocols
  /\ Parser!Init

Runs(p) == part = p /\ UNCHANGED part
NoisyRuns  == Runs("noisy") /\ Next /\ UNCHANGED parserVars
CleanRuns  == Runs("clean") /\ Clean!Next /\ UNCHANGED parserVars
ParserRuns == Runs("parser") /\ Parser!Next /\ UNCHANGED vars

MCNext == NoisyRuns \/ CleanRuns \/ ParserRuns

(* The fairness of the sequencers.                                         *)
MCSpec ==
  /\ MCInit /\ [][MCNext]_all
  /\ WF_vars(part = "noisy" /\ Go) /\ WF_vars(part = "clean" /\ Clean!Go)

-----------------------------------------------------------------------------
(* Each sequencer keeps to the states of its role and the bounds of the    *)
(* line it is on, and the parser finds what is there.                      *)
V8Safe == (part # "clean" => TypeOK) /\ Parser!ParserSafe

(* Both lines come to an end, the clean one within its own bounds and with *)
(* a deal if there is one to be made.  NegotiationHolds is checked of both *)
(* as it stands.                                                           *)
NegotiationEnds ==
  /\ [](part = "clean" => Clean!TypeOK)
  /\ part # "parser" => Settles
  /\ part = "clean" => Clean!CleanLineDeals

=============================================================================
