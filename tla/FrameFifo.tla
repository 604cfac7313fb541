----------------------------- MODULE FrameFifo -----------------------------
(***************************************************************************)
(* What one direction of the tunnel promises: frames come out whole, in    *)
(* the order they went in, none twice, none left out before another; and   *)
(* while the connection is up every frame comes out.                       *)
(***************************************************************************)
EXTENDS Naturals, Sequences

CONSTANT Frame
VARIABLES sent, received, up

vars == <<sent, received, up>>

Init == sent = <<>> /\ received = <<>> /\ up \in BOOLEAN

(* One arrival may make the other end send several.                        *)
Send ==
  /\ sent' \in Seq(Frame) /\ Len(sent') > Len(sent)
  /\ SubSeq(sent', 1, Len(sent)) = sent
  /\ UNCHANGED <<received, up>>

(* One arrival may complete several frames, and end the connection.        *)
Receive ==
  /\ up /\ up' \in BOOLEAN
  /\ \E n \in Len(received) + 1 .. Len(sent) : received' = SubSeq(sent, 1, n)
  /\ UNCHANGED sent

Toggle == up' # up /\ up' \in BOOLEAN /\ UNCHANGED <<sent, received>>

Next == Send \/ Receive \/ Toggle

(* The order that is kept, and that nothing stays on the way.              *)
Order == Init /\ [][Next]_vars
Arrival == WF_vars(Receive)
Spec == Order /\ Arrival

=============================================================================
