------------------------------- MODULE VmLife -------------------------------
(***************************************************************************)
(* What the pool takes for granted of a backend object: the life of the    *)
(* one VM behind it.  ModemBackendPool works with these lives (its         *)
(* variable life); PjsipBackend is shown to lead them.                     *)
(***************************************************************************)
VARIABLE life

(* "lost": start-up has failed or the VM has died; it waits for stop().    *)
Init == life = "dead"

Start   == life = "dead" /\ life' = "booting"
Ready   == life = "booting" /\ life' = "live"
Lose    == life \in {"booting", "live"} /\ life' = "lost"
Stop    == life \in {"booting", "live", "lost"} /\ life' = "stopping"
Stopped == life = "stopping" /\ life' = "gone"

Next == Start \/ Ready \/ Lose \/ Stop \/ Stopped

(* The order of its stages, and that a stop comes to its end.              *)
Order == Init /\ [][Next]_life
Ending == WF_life(Stopped)
Spec == Order /\ Ending
=============================================================================
