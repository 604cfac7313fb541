------------------------------- MODULE V8Parser -------------------------------
(***************************************************************************)
(* The parser of V.8 messages, parseV8Bytes() of src/dsp/V8.js, which is   *)
(* fed by the V.21 receiver with pieces of a stream of bytes.              *)
(*                                                                         *)
(* Of a byte matters whether it is zero, the sync byte of CM and JM, a     *)
(* call function, the first octet of the modes, an extension of them, or   *)
(* none of these.                                                          *)
(***************************************************************************)
EXTENDS Naturals, Sequences, SequencesExt

CONSTANTS
  Bytes,      \* those the line may deliver
  MaxLen,     \* bound: length of the stream
  MaxPiece    \* bytes of one 'data' event

ConstantsOK ==
  /\ Bytes \subseteq {"zero", "sync", "callfn", "modn0", "ext", "other"}
  /\ MaxLen \in Nat /\ MaxPiece \in Nat \ {0}

VARIABLES
  stream,     \* all that has arrived
  buf,        \* state.buf
  msgs        \* all that has been returned

vars == <<stream, buf, msgs>>

Init == stream = <<>> /\ buf = <<>> /\ msgs = <<>>

(* decodeModesFromBytes(): which of the octets are of the kind that is     *)
(* expected at their place.                                                *)
DecodeModes(octets) ==
  {n \in 1 .. Len(octets) : octets[n] = (IF n = 1 THEN "modn0" ELSE "ext")}

(* What is done with the front of the buffer.                              *)
Wait == [used |-> 0, msg |-> <<>>]
Skip == [used |-> 1, msg |-> <<>>]
Take(n, type, bytes, modes) ==
  [used |-> n, msg |-> <<[type |-> type, bytes |-> bytes, modes |-> modes]>>]

(* 0x00: two or three of them are CJ, and with a call function it is CI.   *)
Zero(b) ==
  CASE Len(b) < 2 -> Wait
    [] Len(b) >= 2 /\ b[2] = "zero" ->
         Take(IF Len(b) >= 3 /\ b[3] = "zero" THEN 3 ELSE 2, "CJ", <<>>, {})
    [] Len(b) >= 2 /\ b[2] = "callfn" -> Take(2, "CI", <<>>, {})
    [] OTHER -> Skip

Terminators == {"sync", "zero"}

(* Mutant: only the next message ends one.                                 *)
EnoughNever(octets) == FALSE

Enough(octets) == Len(octets) >= 4

(* Mutant: six bytes are needed of whatever begins like a message.         *)
LookaheadSix == 6

Lookahead == 4

(* Mutant: what is there is taken for all of it.                           *)
CompleteEager(b, octets) == TRUE

(* A terminator is in sight, or more octets than there can be.             *)
Complete(b, octets) == Len(octets) + 2 < Len(b) \/ Enough(octets)

(* Mutant: what does not parse is thrown away.                             *)
NotCMClears(b) == [used |-> Len(b), msg |-> <<>>]

NotCM(b) == Skip

(* 0xE0: CM or JM.                                                         *)
Sync(b) ==
  IF Len(b) < Lookahead THEN Wait
  ELSE IF b[2] # "callfn" \/ b[3] # "modn0" THEN NotCM(b)
  ELSE LET ends == {n \in 3 .. Len(b) : b[n] \in Terminators} \cup {Len(b) + 1}
           octets == SubSeq(b, 3, (CHOOSE n \in ends : \A k \in ends : n <= k) - 1)
           kept == IF Len(octets) <= 3 THEN octets ELSE SubSeq(octets, 1, 3)
       IN IF ~Complete(b, octets) THEN Wait
          ELSE Take(2 + Len(kept), "CM", SubSeq(b, 1, 2 + Len(kept)), DecodeModes(kept))

FrontOf(b) ==
  CASE b = <<>> -> Wait
    [] b # <<>> /\ Head(b) = "zero" -> Zero(b)
    [] b # <<>> /\ Head(b) = "sync" -> Sync(b)
    [] OTHER -> Skip

Message == [type : {"CI", "CJ", "CM"}, bytes : Seq(Bytes), modes : SUBSET (1 .. 3)]

(* The loop of parseV8Bytes(): what is left of a buffer, and the messages. *)
Parse[b \in Seq(Bytes)] ==
  LET f == FrontOf(b)
      more == Parse[SubSeq(b, f.used + 1, Len(b))]
  IN IF f.used = 0 THEN [buf |-> b, msgs |-> <<>>]
     ELSE [more EXCEPT !.msgs = f.msg \o @]

(* A 'data' event of the receiver.                                         *)
Data(piece) ==
  LET p == Parse[buf \o piece]
  IN /\ stream' = stream \o piece
     /\ buf' = p.buf /\ msgs' = msgs \o p.msgs

Next ==
  \E n \in 1 .. MaxPiece :
    /\ Len(stream) + n <= MaxLen
    /\ \E piece \in [1 .. n -> Bytes] : Data(piece)

Spec == Init /\ [][Next]_vars

-----------------------------------------------------------------------------
(* The buffer is the end of the stream, and never longer than the longest  *)
(* message that may still go on.                                           *)
TypeOK ==
  /\ stream \in Seq(Bytes) /\ IsSuffix(buf, stream) /\ Len(buf) <= 5
  /\ msgs \in Seq(Message)

(* The CMs and JMs among messages.                                         *)
CMs[m \in Seq(Message)] ==
  IF m = <<>> THEN <<>>
  ELSE CMs[Front(m)] \o (IF Last(m).type = "CM" THEN <<Last(m)>> ELSE <<>>)

SeenCJ(m) == \E n \in 1 .. Len(m) : m[n].type = "CJ"

(* The CMs and JMs that are found, and whether a CJ is, do not depend on   *)
(* where the receiver cuts the stream.                                     *)
PiecesDoNotMatter ==
  LET whole == Parse[stream]
  IN CMs[msgs] = CMs[whole.msgs] /\ (SeenCJ(msgs) <=> SeenCJ(whole.msgs))

(* Bytes i .. j are a message of at most three octets of modes, and the    *)
(* next byte ends it.                                                      *)
CleanCM(i, j) ==
  /\ j - i \in 2 .. 4 /\ j < Len(stream)
  /\ SubSeq(stream, i, i + 2) = <<"sync", "callfn", "modn0">>
  /\ \A n \in i + 3 .. j : stream[n] = "ext"
  /\ stream[j + 1] \in Terminators

(* After any garbage, a message that arrives undamaged is found as soon as *)
(* the next one begins, with exactly its bytes and modes.                  *)
CleanIsFound ==
  \A i, j \in 1 .. Len(stream) : CleanCM(i, j) =>
    \E n \in 1 .. Len(msgs) :
      /\ msgs[n].type = "CM" /\ msgs[n].bytes = SubSeq(stream, i, j)
      /\ msgs[n].modes = 1 .. j - i - 1

(* Three zeros are a CJ, whatever they follow.                             *)
CJIsFound ==
  (\E i \in 1 .. Len(stream) - 2 : \A n \in i .. i + 2 : stream[n] = "zero")
    => SeenCJ(msgs)

(* V8.js: "We accept 2 zero octets as CJ".                                 *)
TwoZerosAreCJ ==
  (\E i \in 1 .. Len(stream) - 1 : stream[i] = "zero" /\ stream[i + 1] = "zero")
    => SeenCJ(msgs)

(* Every undamaged message is found, and nothing depends on how the stream *)
(* was cut.                                                                *)
ParserSafe == TypeOK /\ PiecesDoNotMatter /\ CleanIsFound /\ CJIsFound

=============================================================================
