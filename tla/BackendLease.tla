---------------------------- MODULE BackendLease ----------------------------
(***************************************************************************)
(* What the modem backend pool promises, without its promises, timers and  *)
(* fields: there is one VM at a time, a VM is booted only when no other    *)
(* runs (they share TCP ports), a VM serves at most one call, and a VM     *)
(* that served a call is never handed out again -- it ends and a fresh one *)
(* is booted.                                                              *)
(***************************************************************************)
CONSTANT Backend      \* the backend objects; each drives one VM

VARIABLE slot         \* [Backend -> Phase]

Phase == {"off", "booting", "idle", "leased", "ending"}

Init == slot = [b \in Backend |-> "off"]

Move(b, from, to) ==
  /\ slot[b] = from
  /\ slot' = [slot EXCEPT ![b] = to]

Boot(b) ==
  /\ \A a \in Backend : slot[a] = "off"
  /\ Move(b, "off", "booting")

(* The VM of the call that just ended is gone and its replacement boots.   *)
Replace(a, b) ==
  /\ a # b
  /\ slot[a] = "ending"
  /\ \A x \in Backend \ {a} : slot[x] = "off"
  /\ slot' = [slot EXCEPT ![a] = "off", ![b] = "booting"]

Ready(b)  == Move(b, "booting", "idle")
Fail(b)   == Move(b, "booting", "ending")
Lease(b)  == Move(b, "idle", "leased")
Return(b) == Move(b, "leased", "ending")
Retire(b) == Move(b, "idle", "ending")
Gone(b)   == Move(b, "ending", "off")

Next ==
  \E b \in Backend :
    \/ Boot(b)
    \/ \E a \in Backend : Replace(a, b)
    \/ Ready(b)
    \/ Fail(b)
    \/ Lease(b)
    \/ Return(b)
    \/ Retire(b)
    \/ Gone(b)

Spec == Init /\ [][Next]_slot
=============================================================================
