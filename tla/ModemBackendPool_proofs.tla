----------------------- MODULE ModemBackendPool_proofs -----------------------
(***************************************************************************)
(* What TLAPS proves of the pool for every number of backends and callers, *)
(* when start() is called at most once, as index.js does.                  *)
(***************************************************************************)
EXTENDS ModemBackendPool, TLAPS

(* Each reference to a backend fixes what its VM is doing.  Together with  *)
(* OneVm and ExclusiveLease these facts are inductive; OneVm alone is not, *)
(* because a replacement is booted on the strength of what the finished    *)
(* coroutine knew about the old VM.                                        *)
WarmingVm ==
  \A b \in Backend : /\ warming[b] = "boot"  => life[b] = "booting"
                     /\ warming[b] = "abort" => life[b] = "stopping"

PromiseVm == warmupPromise # NoBackend => warming[warmupPromise] # "no"

RecyclingVm ==
  \A b \in Backend :
    recycling[b] = b => life[b] = "stopping" /\ warming[b] = "no"

StoppingVm ==
  /\ stopPc # "no" => stopped
  /\ stopPc = "backend" => /\ stopOn \in Backend
                           /\ life[stopOn] = "stopping"
                           /\ warming[stopOn] = "no"
                           /\ recycling[stopOn] # stopOn

WarmVm ==
  backend # NoBackend => life[backend] \in {"live", "crashed"} /\ state = "ready"

LeasedVm ==
  \A c \in Caller : holds[c] # NoBackend => life[holds[c]] \in {"live", "crashed"}

NotStarted == starts = 0 => \A b \in Backend : life[b] = "dead"

IInv ==
  /\ TypeOK
  /\ OneVm
  /\ NoOrphan
  /\ ExclusiveLease
  /\ WarmingVm
  /\ PromiseVm
  /\ RecyclingVm
  /\ StoppingVm
  /\ WarmVm
  /\ LeasedVm
  /\ NotStarted
-----------------------------------------------------------------------------
(* Type correctness needs no strengthening.                                *)

LEMMA InitTypeOK == Init => TypeOK
<1> SUFFICES ASSUME Init PROVE TypeOK
  OBVIOUS
<1>1. /\ stopped \in BOOLEAN
      /\ backend \in Maybe
      /\ warmupPromise \in Maybe
      /\ recyclePromise \in Maybe
      /\ stopOn \in Maybe
  BY Zenon DEF Init, Maybe
<1>2. /\ warming \in [Backend -> Warming]
      /\ recycling \in [Backend -> Maybe]
      /\ waitsFor \in [Caller -> Maybe]
      /\ life \in [Backend -> Life]
      /\ holds \in [Caller -> Maybe]
  BY DEF Init, Warming, Life, Maybe
<1>3. state \in State /\ stopPc \in StopPc /\ starts \in Nat
  BY DEF Init, State, StopPc
<1> QED
  BY <1>1, <1>2, <1>3, Zenon DEF TypeOK

LEMMA StepTypeOK == TypeOK /\ [Next]_vars => TypeOK'
<1> SUFFICES ASSUME TypeOK, [Next]_vars PROVE TypeOK'
  OBVIOUS
<1> USE DEF TypeOK, State, Warming, Life, StopPc, Maybe
<1>1. CASE Start
  BY <1>1 DEF Start, Boot
<1>2. ASSUME NEW b \in Backend, WarmupReady(b) PROVE TypeOK'
  BY <1>2 DEF WarmupReady
<1>3. ASSUME NEW b \in Backend, WarmupFails(b) PROVE TypeOK'
  BY <1>3 DEF WarmupFails, fields
<1>4. ASSUME NEW b \in Backend, WarmupAborted(b) PROVE TypeOK'
  BY <1>4 DEF WarmupAborted
<1>5. ASSUME NEW c \in Caller, Checkout(c) PROVE TypeOK'
  BY <1>5 DEF Checkout, CanTake, Take
<1>6. ASSUME NEW c \in Caller, CheckoutResumes(c) PROVE TypeOK'
  BY <1>6 DEF CheckoutResumes, CanTake, Take
<1>7. ASSUME NEW c \in Caller, Recycle(c) PROVE TypeOK'
  BY <1>7 DEF Recycle
<1>8. ASSUME NEW o \in Backend, RecycleStopped(o) PROVE TypeOK'
  BY <1>8 DEF RecycleStopped, Boot
<1>9. ASSUME NEW o \in Backend, RecycleSettled(o) PROVE TypeOK'
  BY <1>9 DEF RecycleSettled
<1>10. CASE Stop
  BY <1>10 DEF Stop, StopRunsFrom, StopAwaits
<1>11. CASE StopResumes
  BY <1>11 DEF StopResumes, StopRunsFrom, StopAwaits
<1>12. CASE StopReturns
  BY <1>12 DEF StopReturns
<1>13. ASSUME NEW b \in Backend, Crash(b) PROVE TypeOK'
  BY <1>13 DEF Crash, fields
<1>14. CASE UNCHANGED vars
  BY <1>14 DEF vars, fields
<1> QED
  BY <1>1, <1>2, <1>3, <1>4, <1>5, <1>6, <1>7, <1>8, <1>9, <1>10, <1>11,
     <1>12, <1>13, <1>14
  DEF Next, Microtask, Macrotask, Completion, Call

(* Every field of the pool, and every coroutine, keeps its type.           *)
THEOREM TypeCorrect == Spec => []TypeOK
  BY InitTypeOK, StepTypeOK, PTL DEF Spec

-----------------------------------------------------------------------------
(* One lemma per action: every part the action can disturb is a step.      *)

(* start() boots the first VM.                                             *)
LEMMA StartKeeps ==
  ASSUME MaxStarts = 1, IInv, TypeOK', Start
  PROVE  IInv'
<1> USE DEF TypeOK, State, Warming, Life, StopPc, Maybe
<1>1. NoOrphan' /\ ExclusiveLease' /\ WarmingVm' /\ PromiseVm' /\ RecyclingVm' /\
      StoppingVm' /\ WarmVm' /\ LeasedVm' /\ NotStarted'
  BY DEF IInv, NoOrphan, ExclusiveLease, WarmingVm, PromiseVm, RecyclingVm,
      StoppingVm, WarmVm, LeasedVm, NotStarted, Running, Start, Boot, Fresh
<1>2. OneVm'
  BY DEF IInv, OneVm, NotStarted, Running, Start, Boot, Fresh
<1> QED
  BY <1>1, <1>2 DEF IInv

(* The booting VM becomes the pool's warm one.                             *)
LEMMA WarmupReadyKeeps ==
  ASSUME MaxStarts = 1, IInv, TypeOK', NEW b \in Backend, WarmupReady(b)
  PROVE  IInv'
<1> USE DEF TypeOK, State, Warming, Life, StopPc, Maybe
<1>1. WarmingVm' /\ PromiseVm' /\ RecyclingVm' /\ StoppingVm' /\ WarmVm' /\ LeasedVm'
  BY DEF IInv, WarmingVm, PromiseVm, RecyclingVm, StoppingVm, WarmVm,
      LeasedVm, WarmupReady
<1>2. OneVm'
  BY DEF IInv, OneVm, WarmingVm, Running, WarmupReady
<1>3. NoOrphan'
  BY DEF IInv, OneVm, NoOrphan, WarmingVm, Running, WarmupReady
<1>4. ExclusiveLease'
  BY DEF IInv, ExclusiveLease, WarmingVm, LeasedVm, WarmupReady
<1>5. NotStarted'
  BY DEF IInv, WarmingVm, NotStarted, WarmupReady
<1> QED
  BY <1>1, <1>2, <1>3, <1>4, <1>5 DEF IInv

(* The booting VM starts to stop.                                          *)
LEMMA WarmupFailsKeeps ==
  ASSUME MaxStarts = 1, IInv, TypeOK', NEW b \in Backend, WarmupFails(b)
  PROVE  IInv'
<1> USE DEF TypeOK, State, Warming, Life, StopPc, Maybe
<1>1. NoOrphan' /\ ExclusiveLease' /\ WarmingVm' /\ PromiseVm' /\ RecyclingVm' /\
      StoppingVm'
  BY DEF IInv, NoOrphan, ExclusiveLease, WarmingVm, PromiseVm, RecyclingVm,
      StoppingVm, Running, WarmupFails, fields
<1>2. OneVm'
  BY DEF IInv, OneVm, WarmingVm, Running, WarmupFails, fields
<1>3. WarmVm'
  BY DEF IInv, WarmingVm, WarmVm, WarmupFails, fields
<1>4. LeasedVm'
  BY DEF IInv, WarmingVm, LeasedVm, WarmupFails, fields
<1>5. NotStarted'
  BY DEF IInv, WarmingVm, NotStarted, WarmupFails, fields
<1> QED
  BY <1>1, <1>2, <1>3, <1>4, <1>5 DEF IInv

(* The half-booted VM is gone.                                             *)
LEMMA WarmupAbortedKeeps ==
  ASSUME MaxStarts = 1, IInv, TypeOK', NEW b \in Backend, WarmupAborted(b)
  PROVE  IInv'
<1> USE DEF TypeOK, State, Warming, Life, StopPc, Maybe
<1>1. OneVm' /\ ExclusiveLease' /\ WarmingVm' /\ PromiseVm' /\ RecyclingVm' /\
      StoppingVm' /\ WarmVm' /\ NotStarted'
  BY DEF IInv, OneVm, ExclusiveLease, WarmingVm, PromiseVm, RecyclingVm,
      StoppingVm, WarmVm, NotStarted, Running, WarmupAborted
<1>2. NoOrphan'
  BY DEF IInv, OneVm, NoOrphan, WarmingVm, Running, WarmupAborted
<1>3. LeasedVm'
  BY DEF IInv, WarmingVm, LeasedVm, WarmupAborted
<1> QED
  BY <1>1, <1>2, <1>3 DEF IInv

(* The warm VM becomes the caller's.                                       *)
LEMMA CheckoutKeeps ==
  ASSUME MaxStarts = 1, IInv, TypeOK', NEW c \in Caller, Checkout(c)
  PROVE  IInv'
<1> USE DEF TypeOK, State, Warming, Life, StopPc, Maybe
<1>1. OneVm' /\ ExclusiveLease' /\ WarmingVm' /\ PromiseVm' /\ RecyclingVm' /\
      StoppingVm' /\ WarmVm' /\ NotStarted'
  BY DEF IInv, OneVm, ExclusiveLease, WarmingVm, PromiseVm, RecyclingVm,
      StoppingVm, WarmVm, NotStarted, Running, Checkout, CanTake, Take
<1>2. NoOrphan'
  BY DEF IInv, OneVm, NoOrphan, WarmVm, Running, Checkout, CanTake, Take
<1>3. LeasedVm'
  BY DEF IInv, WarmVm, LeasedVm, Checkout, CanTake, Take
<1> QED
  BY <1>1, <1>2, <1>3 DEF IInv

(* The same, after waiting for the warm-up.                                *)
LEMMA CheckoutResumesKeeps ==
  ASSUME MaxStarts = 1, IInv, TypeOK', NEW c \in Caller, CheckoutResumes(c)
  PROVE  IInv'
<1> USE DEF TypeOK, State, Warming, Life, StopPc, Maybe
<1>1. OneVm' /\ ExclusiveLease' /\ WarmingVm' /\ PromiseVm' /\ RecyclingVm' /\
      StoppingVm' /\ WarmVm' /\ NotStarted'
  BY DEF IInv, OneVm, ExclusiveLease, WarmingVm, PromiseVm, RecyclingVm,
      StoppingVm, WarmVm, NotStarted, Running, CheckoutResumes, CanTake, Take
<1>2. NoOrphan'
  BY DEF IInv, OneVm, NoOrphan, WarmVm, Running, CheckoutResumes, CanTake,
      Take
<1>3. LeasedVm'
  BY DEF IInv, WarmVm, LeasedVm, CheckoutResumes, CanTake, Take
<1> QED
  BY <1>1, <1>2, <1>3 DEF IInv

(* The caller's VM becomes the recycle's, or is dropped.                   *)
LEMMA RecycleKeeps ==
  ASSUME MaxStarts = 1, IInv, TypeOK', NEW c \in Caller, Recycle(c)
  PROVE  IInv'
<1> USE DEF TypeOK, State, Warming, Life, StopPc, Maybe
<1>1. ExclusiveLease' /\ PromiseVm' /\ StoppingVm'
  BY DEF IInv, ExclusiveLease, PromiseVm, StoppingVm, Recycle
<1>2. OneVm'
  BY DEF IInv, OneVm, LeasedVm, Running, Recycle
<1>3. NoOrphan'
  BY DEF IInv, OneVm, NoOrphan, LeasedVm, Running, Recycle
<1>4. WarmingVm'
  BY DEF IInv, WarmingVm, LeasedVm, Recycle
<1>5. RecyclingVm'
  BY DEF IInv, WarmingVm, RecyclingVm, LeasedVm, Recycle
<1>6. WarmVm'
  BY DEF IInv, OneVm, ExclusiveLease, WarmVm, LeasedVm, Running, Recycle
<1>7. LeasedVm'
  BY DEF IInv, ExclusiveLease, LeasedVm, Recycle
<1>8. NotStarted'
  BY DEF IInv, LeasedVm, NotStarted, Recycle
<1> QED
  BY <1>1, <1>2, <1>3, <1>4, <1>5, <1>6, <1>7, <1>8 DEF IInv

(* The old VM is gone, and the only VM is its replacement.                 *)
LEMMA RecycleStoppedKeeps ==
  ASSUME MaxStarts = 1, IInv, TypeOK', NEW o \in Backend, RecycleStopped(o)
  PROVE  IInv'
<1> USE DEF TypeOK, State, Warming, Life, StopPc, Maybe
<1>1. ExclusiveLease' /\ PromiseVm' /\ StoppingVm'
  BY DEF IInv, ExclusiveLease, PromiseVm, StoppingVm, RecycleStopped, Boot,
      Fresh
<1>2. OneVm'
  BY DEF IInv, OneVm, RecyclingVm, Running, RecycleStopped, Boot, Fresh
<1>3. NoOrphan'
  BY DEF IInv, OneVm, NoOrphan, RecyclingVm, Running, RecycleStopped, Boot,
      Fresh
<1>4. WarmingVm'
  BY DEF IInv, WarmingVm, RecyclingVm, RecycleStopped, Boot, Fresh
<1>5. RecyclingVm'
  BY BackendAssumption DEF IInv, WarmingVm, PromiseVm, RecyclingVm,
      RecycleStopped, Boot, Fresh
<1>6. WarmVm'
  BY DEF IInv, OneVm, RecyclingVm, WarmVm, Running, RecycleStopped, Boot,
      Fresh
<1>7. LeasedVm'
  BY DEF IInv, RecyclingVm, LeasedVm, RecycleStopped, Boot, Fresh
<1>8. NotStarted'
  BY DEF IInv, RecyclingVm, NotStarted, RecycleStopped, Boot, Fresh
<1> QED
  BY <1>1, <1>2, <1>3, <1>4, <1>5, <1>6, <1>7, <1>8 DEF IInv

(* The recycle is over.                                                    *)
LEMMA RecycleSettledKeeps ==
  ASSUME MaxStarts = 1, IInv, TypeOK', NEW o \in Backend, RecycleSettled(o)
  PROVE  IInv'
<1> USE DEF TypeOK, State, Warming, Life, StopPc, Maybe
<1>1. OneVm' /\ NoOrphan' /\ ExclusiveLease' /\ WarmingVm' /\ PromiseVm' /\ WarmVm' /\
      LeasedVm' /\ NotStarted'
  BY DEF IInv, OneVm, NoOrphan, ExclusiveLease, WarmingVm, PromiseVm, WarmVm,
      LeasedVm, NotStarted, Running, RecycleSettled, RecycleDue
<1>2. RecyclingVm'
  BY BackendAssumption DEF IInv, RecyclingVm, RecycleSettled, RecycleDue
<1>3. StoppingVm'
  BY BackendAssumption DEF IInv, StoppingVm, RecycleSettled, RecycleDue
<1> QED
  BY <1>1, <1>2, <1>3 DEF IInv

(* stop() takes the warm VM, or finds something to wait for.               *)
LEMMA StopKeeps ==
  ASSUME MaxStarts = 1, IInv, TypeOK', Stop
  PROVE  IInv'
<1> USE DEF TypeOK, State, Warming, Life, StopPc, Maybe
<1>1. NoOrphan' /\ ExclusiveLease' /\ PromiseVm' /\ RecyclingVm' /\ WarmVm'
  BY DEF IInv, NoOrphan, ExclusiveLease, PromiseVm, RecyclingVm, WarmVm,
      Running, Stop, StopRunsFrom, StopAwaits
<1>2. OneVm'
  BY DEF IInv, OneVm, WarmVm, Running, Stop, StopRunsFrom, StopAwaits
<1>3. WarmingVm'
  BY DEF IInv, WarmingVm, WarmVm, Stop, StopRunsFrom, StopAwaits
<1>4. StoppingVm'
  BY DEF IInv, WarmingVm, RecyclingVm, StoppingVm, WarmVm, Stop,
      StopRunsFrom, StopAwaits
<1>5. LeasedVm'
  BY DEF IInv, ExclusiveLease, LeasedVm, Stop, StopRunsFrom, StopAwaits
<1>6. NotStarted'
  BY DEF IInv, WarmVm, NotStarted, Stop, StopRunsFrom, StopAwaits
<1> QED
  BY <1>1, <1>2, <1>3, <1>4, <1>5, <1>6 DEF IInv

(* The same, after waiting.                                                *)
LEMMA StopResumesKeeps ==
  ASSUME MaxStarts = 1, IInv, TypeOK', StopResumes
  PROVE  IInv'
<1> USE DEF TypeOK, State, Warming, Life, StopPc, Maybe
<1>1. ExclusiveLease' /\ PromiseVm' /\ RecyclingVm' /\ WarmVm'
  BY DEF IInv, ExclusiveLease, PromiseVm, RecyclingVm, WarmVm, StopResumes,
      StopRunsFrom, StopAwaits, StopDue
<1>2. OneVm'
  BY DEF IInv, OneVm, WarmVm, Running, StopResumes, StopRunsFrom, StopAwaits,
      StopDue
<1>3. NoOrphan'
  BY DEF IInv, NoOrphan, StoppingVm, Running, StopResumes, StopRunsFrom,
      StopAwaits, StopDue
<1>4. WarmingVm'
  BY DEF IInv, WarmingVm, WarmVm, StopResumes, StopRunsFrom, StopAwaits,
      StopDue
<1>5. StoppingVm'
  BY DEF IInv, WarmingVm, RecyclingVm, StoppingVm, WarmVm, StopResumes,
      StopRunsFrom, StopAwaits, StopDue
<1>6. LeasedVm'
  BY DEF IInv, ExclusiveLease, LeasedVm, StopResumes, StopRunsFrom,
      StopAwaits, StopDue
<1>7. NotStarted'
  BY DEF IInv, WarmVm, NotStarted, StopResumes, StopRunsFrom, StopAwaits,
      StopDue
<1> QED
  BY <1>1, <1>2, <1>3, <1>4, <1>5, <1>6, <1>7 DEF IInv

(* The VM stop() took down is gone.                                        *)
LEMMA StopReturnsKeeps ==
  ASSUME MaxStarts = 1, IInv, TypeOK', StopReturns
  PROVE  IInv'
<1> USE DEF TypeOK, State, Warming, Life, StopPc, Maybe
<1>1. OneVm' /\ ExclusiveLease' /\ PromiseVm' /\ StoppingVm' /\ NotStarted'
  BY DEF IInv, OneVm, ExclusiveLease, PromiseVm, StoppingVm, NotStarted,
      Running, StopReturns
<1>2. NoOrphan'
  BY DEF IInv, NoOrphan, StoppingVm, Running, StopReturns
<1>3. WarmingVm'
  BY DEF IInv, WarmingVm, StoppingVm, StopReturns
<1>4. RecyclingVm'
  BY DEF IInv, RecyclingVm, StoppingVm, StopReturns
<1>5. WarmVm'
  BY DEF IInv, OneVm, StoppingVm, WarmVm, Running, StopReturns
<1>6. LeasedVm'
  BY DEF IInv, StoppingVm, LeasedVm, StopReturns
<1> QED
  BY <1>1, <1>2, <1>3, <1>4, <1>5, <1>6 DEF IInv

(* A VM that died is still somebody's.                                     *)
LEMMA CrashKeeps ==
  ASSUME MaxStarts = 1, IInv, TypeOK', NEW b \in Backend, Crash(b)
  PROVE  IInv'
<1> USE DEF TypeOK, State, Warming, Life, StopPc, Maybe
<1>1. OneVm' /\ NoOrphan' /\ ExclusiveLease' /\ WarmingVm' /\ PromiseVm' /\
      RecyclingVm' /\ StoppingVm' /\ WarmVm' /\ LeasedVm' /\ NotStarted'
  BY DEF IInv, OneVm, NoOrphan, ExclusiveLease, WarmingVm, PromiseVm,
      RecyclingVm, StoppingVm, WarmVm, LeasedVm, NotStarted, Running, Crash,
      fields
<1> QED
  BY <1>1 DEF IInv
-----------------------------------------------------------------------------
(* The invariant and what follows from it.                                 *)

LEMMA InitIInv == Init => IInv
<1> SUFFICES ASSUME Init PROVE IInv
  OBVIOUS
<1>1. TypeOK
  BY InitTypeOK
<1>2. OneVm /\ NoOrphan /\ ExclusiveLease
  BY DEF Init, OneVm, NoOrphan, ExclusiveLease, Running
<1>3. WarmingVm /\ PromiseVm /\ RecyclingVm /\ StoppingVm
  BY BackendAssumption
  DEF Init, WarmingVm, PromiseVm, RecyclingVm, StoppingVm
<1>4. WarmVm /\ LeasedVm /\ NotStarted
  BY DEF Init, WarmVm, LeasedVm, NotStarted
<1> QED
  BY <1>1, <1>2, <1>3, <1>4 DEF IInv

LEMMA StutterKeeps == IInv /\ UNCHANGED vars => IInv'
  BY DEF IInv, TypeOK, OneVm, NoOrphan, ExclusiveLease, WarmingVm, PromiseVm,
     RecyclingVm, StoppingVm, WarmVm, LeasedVm, NotStarted, Running, vars,
     fields

LEMMA StepIInv ==
  ASSUME MaxStarts = 1, IInv, [Next]_vars
  PROVE  IInv'
<1>1. TypeOK'
  BY StepTypeOK DEF IInv
<1>2. CASE UNCHANGED vars
  BY <1>2, StutterKeeps
<1>3. CASE Microtask
  BY <1>1, <1>3, CheckoutResumesKeeps, RecycleSettledKeeps, StopResumesKeeps
  DEF Microtask
<1>4. CASE Completion
  BY <1>1, <1>4, WarmupReadyKeeps, WarmupFailsKeeps, WarmupAbortedKeeps,
     RecycleStoppedKeeps, StopReturnsKeeps
  DEF Completion
<1>5. CASE Call
  BY <1>1, <1>5, StartKeeps, CheckoutKeeps, RecycleKeeps, StopKeeps DEF Call
<1>6. ASSUME NEW b \in Backend, Crash(b) PROVE IInv'
  BY <1>1, <1>6, CrashKeeps
<1> QED
  BY <1>2, <1>3, <1>4, <1>5, <1>6 DEF Next, Macrotask

LEMMA IInvAlways ==
  ASSUME MaxStarts = 1
  PROVE  Spec => []IInv
<1>1. IInv /\ [Next]_vars => IInv'
  BY StepIInv
<1> QED
  BY <1>1, InitIInv, PTL DEF Spec

(* The VM of one call is gone before the next one is booted: whatever the  *)
(* order of hang-ups, warm-up failures, crashes and shutdown, two VMs      *)
(* never contend for the TCP ports.                                        *)
THEOREM OneVmAlways ==
  ASSUME MaxStarts = 1
  PROVE  Spec => []OneVm
<1>1. IInv => OneVm
  BY DEF IInv
<1> QED
  BY <1>1, IInvAlways, PTL

(* No VM is ever lost track of while the pool is in service.               *)
THEOREM NoOrphanAlways ==
  ASSUME MaxStarts = 1
  PROVE  Spec => []NoOrphan
<1>1. IInv => NoOrphan
  BY DEF IInv
<1> QED
  BY <1>1, IInvAlways, PTL

(* checkout() never hands one VM to two calls.                             *)
THEOREM ExclusiveLeaseAlways ==
  ASSUME MaxStarts = 1
  PROVE  Spec => []ExclusiveLease
<1>1. IInv => ExclusiveLease
  BY DEF IInv
<1> QED
  BY <1>1, IInvAlways, PTL

-----------------------------------------------------------------------------
(* The pool implements BackendLease: step simulation, action by action.    *)

LEMMA SlotMoves ==
  ASSUME NEW b \in Backend, slot'[b] # slot[b],
         \A x \in Backend \ {b} : slot'[x] = slot[x]
  PROVE  Lease!Move(b, slot[b], slot'[b])
<1>1. slot = [x \in Backend |-> slot[x]]
  BY DEF slot
<1>2. slot' = [x \in Backend |-> slot'[x]]
  BY DEF slot
<1> HIDE DEF slot
<1>3. slot' = [slot EXCEPT ![b] = slot'[b]]
  BY <1>1, <1>2
<1> QED
  BY <1>3 DEF Lease!Move

LEMMA BootLeases ==
  ASSUME IInv, NEW b \in Backend, \A a \in Backend : life[a] = "dead",
         life' = [life EXCEPT ![b] = "booting"], UNCHANGED backend
  PROVE  Lease!Boot(b)
  BY DEF IInv, TypeOK, slot, Lease!Boot, Lease!Move

LEMMA StartLeases ==
  ASSUME MaxStarts = 1, IInv, Start
  PROVE  [Lease!Next]_slot
<1>1. CASE state # "empty"
  BY <1>1 DEF Start, Boot, slot
<1>2. ASSUME state = "empty", NEW b \in Backend, Boot(b, life)
      PROVE  Lease!Next
  <2>1. \A a \in Backend : life[a] = "dead"
    BY DEF Start, IInv, TypeOK, NotStarted
  <2>2. Lease!Boot(b)
    BY <1>2, <2>1, BootLeases DEF Start, Boot
  <2> QED
    BY <2>2 DEF Lease!Next
<1> QED
  BY <1>1, <1>2 DEF Start

LEMMA WarmupReadyLeases ==
  ASSUME IInv, NEW b \in Backend, WarmupReady(b)
  PROVE  Lease!Next
<1>1. slot[b] = "booting" /\ slot'[b] = "idle"
  BY DEF IInv, TypeOK, WarmingVm, WarmupReady, slot
<1>2. \A x \in Backend \ {b} : life[x] = "dead" /\ life'[x] = "dead"
  BY DEF IInv, TypeOK, OneVm, Running, WarmingVm, WarmupReady
<1>3. \A x \in Backend \ {b} : slot'[x] = slot[x]
  BY <1>2 DEF slot
<1>4. Lease!Ready(b)
  BY <1>1, <1>3, SlotMoves DEF Lease!Ready
<1> QED
  BY <1>4 DEF Lease!Next

LEMMA WarmupFailsLeases ==
  ASSUME IInv, NEW b \in Backend, WarmupFails(b)
  PROVE  Lease!Next
<1>1. Lease!Fail(b)
  BY DEF IInv, TypeOK, WarmingVm, WarmupFails, fields, slot, Lease!Fail,
     Lease!Move
<1> QED
  BY <1>1 DEF Lease!Next

LEMMA WarmupAbortedLeases ==
  ASSUME IInv, NEW b \in Backend, WarmupAborted(b)
  PROVE  Lease!Next
<1>1. slot[b] = "ending" /\ slot'[b] = "off"
  BY DEF IInv, TypeOK, WarmingVm, WarmupAborted, slot
<1>2. \A x \in Backend \ {b} : life[x] = "dead" /\ life'[x] = "dead"
  BY DEF IInv, TypeOK, OneVm, Running, WarmingVm, WarmupAborted
<1>3. \A x \in Backend \ {b} : slot'[x] = slot[x]
  BY <1>2 DEF slot
<1>4. Lease!Gone(b)
  BY <1>1, <1>3, SlotMoves DEF Lease!Gone
<1> QED
  BY <1>4 DEF Lease!Next

LEMMA TakeLeases ==
  ASSUME IInv, NEW c \in Caller, CanTake, Take(c), UNCHANGED life
  PROVE  Lease!Next
<1>1. backend \in Backend
  BY DEF IInv, TypeOK, Maybe, CanTake
<1>2. Lease!Lease(backend)
  BY <1>1, BackendAssumption
  DEF IInv, TypeOK, OneVm, Running, WarmVm, Take, slot, Lease!Lease,
      Lease!Move
<1> QED
  BY <1>1, <1>2 DEF Lease!Next

LEMMA CheckoutLeases ==
  ASSUME IInv, NEW c \in Caller, Checkout(c) \/ CheckoutResumes(c)
  PROVE  [Lease!Next]_slot
<1>1. UNCHANGED life
  BY DEF Checkout, CheckoutResumes
<1>2. CASE UNCHANGED backend
  BY <1>1, <1>2 DEF slot
<1>3. CASE CanTake /\ Take(c)
  BY <1>1, <1>3, TakeLeases
<1> QED
  BY <1>2, <1>3 DEF Checkout, CheckoutResumes

LEMMA RecycleLeases ==
  ASSUME IInv, NEW c \in Caller, Recycle(c)
  PROVE  [Lease!Next]_slot
<1>1. CASE stopped
  BY <1>1 DEF Recycle, slot
<1>2. CASE ~stopped
  <2>1. holds[c] \in Backend
    BY DEF IInv, TypeOK, Maybe, Recycle
  <2>2. Lease!Return(holds[c])
    BY <1>2, <2>1
    DEF IInv, TypeOK, ExclusiveLease, LeasedVm, Recycle, slot, Lease!Return,
        Lease!Move
  <2> QED
    BY <2>1, <2>2 DEF Lease!Next
<1> QED
  BY <1>1, <1>2

LEMMA RecycleStoppedLeases ==
  ASSUME IInv, NEW o \in Backend, RecycleStopped(o)
  PROVE  Lease!Next
<1>1. /\ life[o] = "stopping"
      /\ \A x \in Backend \ {o} : life[x] = "dead"
  BY DEF IInv, OneVm, Running, RecyclingVm, RecycleStopped
<1>2. ASSUME life' = [life EXCEPT ![o] = "dead"], UNCHANGED backend
      PROVE  Lease!Gone(o)
  BY <1>1, <1>2 DEF IInv, TypeOK, slot, Lease!Gone, Lease!Move
<1>3. ASSUME NEW b \in Backend, Boot(b, [life EXCEPT ![o] = "dead"]),
             UNCHANGED backend
      PROVE  Lease!Replace(o, b)
  <2>1. o # b
    BY <1>1, <1>3 DEF Boot, Fresh
  <2> QED
    BY <1>1, <1>3, <2>1 DEF IInv, TypeOK, Boot, slot, Lease!Replace
<1> QED
  BY <1>2, <1>3 DEF RecycleStopped, Lease!Next

LEMMA StopLeases ==
  ASSUME IInv, NEW stage, StopRunsFrom(stage)
  PROVE  [Lease!Next]_slot
<1>1. CASE StopAwaits(stage) = "backend"
  <2>1. backend \in Backend
    BY <1>1 DEF IInv, TypeOK, Maybe, StopAwaits
  <2>2. life' = [life EXCEPT ![backend] = "stopping"] /\ backend' = NoBackend
    BY <1>1, Zenon DEF StopRunsFrom
  <2>3. slot[backend] = "idle" /\ slot'[backend] = "ending"
    BY <2>1, <2>2, BackendAssumption DEF IInv, TypeOK, WarmVm, slot
  <2>4. \A x \in Backend \ {backend} : life[x] = "dead" /\ life'[x] = "dead"
    BY <2>1, <2>2, BackendAssumption
    DEF IInv, TypeOK, OneVm, Running, WarmVm
  <2>5. \A x \in Backend \ {backend} : slot'[x] = slot[x]
    BY <2>4 DEF slot
  <2>6. Lease!Retire(backend)
    BY <2>1, <2>3, <2>5, SlotMoves DEF Lease!Retire
  <2> QED
    BY <2>1, <2>6 DEF Lease!Next
<1>2. CASE StopAwaits(stage) # "backend"
  <2>1. UNCHANGED life /\ UNCHANGED backend
    BY <1>2 DEF StopRunsFrom, StopAwaits
  <2> QED
    BY <2>1 DEF slot
<1> QED
  BY <1>1, <1>2

LEMMA StopReturnsLeases ==
  ASSUME IInv, StopReturns
  PROVE  Lease!Next
<1>1. stopOn \in Backend /\ Lease!Gone(stopOn)
  BY DEF IInv, TypeOK, StoppingVm, StopReturns, slot, Lease!Gone, Lease!Move
<1> QED
  BY <1>1 DEF Lease!Next

LEMMA CrashLeases ==
  ASSUME IInv, NEW b \in Backend, Crash(b)
  PROVE  UNCHANGED slot
  BY DEF IInv, TypeOK, Crash, fields, slot

LEMMA StepLeases ==
  ASSUME MaxStarts = 1, IInv, [Next]_vars
  PROVE  [Lease!Next]_slot
<1>1. CASE UNCHANGED vars
  BY <1>1 DEF vars, fields, slot
<1>2. CASE Microtask
  <2>1. ASSUME NEW o \in Backend, RecycleSettled(o)
        PROVE  UNCHANGED slot
    BY <2>1 DEF RecycleSettled, slot
  <2>2. CASE StopResumes
    BY <2>2, StopLeases DEF StopResumes
  <2> QED
    BY <1>2, <2>1, <2>2, CheckoutLeases DEF Microtask
<1>3. CASE Completion
  BY <1>3, WarmupReadyLeases, WarmupFailsLeases, WarmupAbortedLeases,
     RecycleStoppedLeases, StopReturnsLeases
  DEF Completion
<1>4. CASE Call
  <2>1. CASE Stop
    BY <2>1, StopLeases DEF Stop
  <2> QED
    BY <1>4, <2>1, StartLeases, CheckoutLeases, RecycleLeases DEF Call
<1>5. ASSUME NEW b \in Backend, Crash(b) PROVE UNCHANGED slot
  BY <1>5, CrashLeases
<1> QED
  BY <1>1, <1>2, <1>3, <1>4, <1>5 DEF Next, Macrotask

(* The promise machinery of the pool does what BackendLease says: one VM,  *)
(* leased once, ended after its call, replaced only when it is gone.       *)
THEOREM PoolImplementsLease ==
  ASSUME MaxStarts = 1
  PROVE  Spec => LeaseSpec
<1>1. Init => Lease!Init
  BY DEF Init, slot, Lease!Init
<1>2. IInv /\ [Next]_vars => [Lease!Next]_slot
  BY StepLeases
<1> QED
  BY <1>1, <1>2, IInvAlways, PTL DEF Spec, LeaseSpec, Lease!Spec

-----------------------------------------------------------------------------
(* What stop() waits for is all there is: each promise field stands for    *)
(* the one coroutine of its kind, so that when stop() has awaited them in  *)
(* turn nothing but a caller's VM can still run.                           *)

(* The warm-up in flight, and the recycle in flight, are the promised ones.*)
OneWarmup ==
  \A b \in Backend : warming[b] # "no" => warmupPromise = b /\ state = "warming"

OneRecycle ==
  /\ \A o \in Backend : recycling[o] # NoBackend => recyclePromise = o
  /\ recyclePromise # NoBackend => recycling[recyclePromise] # NoBackend

(* How far stop() has got.                                                 *)
StopStage ==
  /\ stopped => stopPc # "no"
  /\ stopPc = "recycle" => /\ stopOn \in Backend
                           /\ recyclePromise \in {NoBackend, stopOn}
  /\ stopPc = "warmup" => /\ stopOn \in Backend
                          /\ recyclePromise = NoBackend
                          /\ warmupPromise \in {NoBackend, stopOn}
  /\ stopPc \in {"backend", "done"} => /\ recyclePromise = NoBackend
                                       /\ warmupPromise = NoBackend
                                       /\ backend = NoBackend
  /\ stopPc = "backend" => state = "ready"

(* NoOrphan, while stop() is under way.                                    *)
NoOrphanStopping ==
  stopped /\ stopPc # "done" => \A b \in Running :
    \/ backend = b
    \/ \E c \in Caller : holds[c] = b
    \/ warming[b] # "no"
    \/ recycling[b] = b
    \/ stopPc = "backend" /\ stopOn = b

StopInv == OneWarmup /\ OneRecycle /\ StopStage /\ NoOrphanStopping

(* The VM a caller holds is the only one: no coroutine has another, and    *)
(* once what is due has run, none awaits anything.                         *)
LEMMA HeldAlone ==
  ASSUME IInv, StopInv, NEW c \in Caller, holds[c] # NoBackend
  PROVE  /\ backend = NoBackend /\ warmupPromise = NoBackend
         /\ \A b \in Backend : warming[b] = "no" /\ recycling[b] # b
         /\ \A b \in Running : b = holds[c]
         /\ stopPc # "backend"
         /\ Drained => /\ recyclePromise = NoBackend
                       /\ stopPc \in {"no", "done"}
<1> USE DEF IInv, TypeOK, Maybe, Warming, Life, StopPc
<1>1. holds[c] \in Backend /\ life[holds[c]] \in {"live", "crashed"}
  BY BackendAssumption DEF LeasedVm
<1>2. \A b \in Running : b = holds[c]
  BY <1>1 DEF OneVm, Running
<1>3. \A b \in Backend : life[b] \in {"dead", "live", "crashed"}
  BY <1>1, <1>2 DEF Running
<1>4. \A b \in Backend : warming[b] = "no" /\ recycling[b] # b
  BY <1>3 DEF WarmingVm, RecyclingVm
<1>5. backend = NoBackend /\ warmupPromise = NoBackend /\ stopPc # "backend"
  BY <1>2, <1>3, <1>4
  DEF WarmVm, ExclusiveLease, PromiseVm, StoppingVm, Running
<1>6. ASSUME Drained
      PROVE  recyclePromise = NoBackend /\ stopPc \in {"no", "done"}
  <2>1. \A o \in Backend : recycling[o] = NoBackend
    BY <1>4, <1>6 DEF Drained, RecycleDue
  <2>2. recyclePromise = NoBackend
    BY <2>1 DEF StopInv, OneRecycle
  <2>3. stopPc \notin {"recycle", "warmup"}
    BY <1>4, <1>6, <2>1 DEF Drained, StopDue, StopInv, StopStage
  <2> QED
    BY <1>5, <2>2, <2>3
<1> QED
  BY <1>2, <1>4, <1>5, <1>6

LEMMA StartStops ==
  ASSUME MaxStarts = 1, IInv, StopInv, Start
  PROVE  StopInv'
<1> USE DEF IInv, TypeOK, StopInv
<1>1. /\ ~stopped /\ ~stopped' /\ stopPc' = stopPc /\ stopPc = "no"
      /\ UNCHANGED <<recyclePromise, recycling>>
  BY DEF Start, StoppingVm, StopPc
<1>2. \A b \in Backend : warming[b] = "no"
  BY DEF Start, NotStarted, WarmingVm, Warming
<1>3. OneWarmup'
  BY <1>2 DEF OneWarmup, Start, Boot
<1>4. OneRecycle' /\ StopStage' /\ NoOrphanStopping'
  BY <1>1 DEF OneRecycle, StopStage, NoOrphanStopping
<1> QED
  BY <1>3, <1>4

LEMMA WarmupReadyStops ==
  ASSUME IInv, StopInv, NEW b \in Backend, WarmupReady(b)
  PROVE  StopInv'
<1> USE DEF IInv, TypeOK, StopInv, WarmupReady
<1>1. warmupPromise = b /\ \A x \in Backend \ {b} : warming[x] = "no"
  BY DEF OneWarmup
<1>2. stopPc \notin {"backend", "done"}
  BY <1>1, BackendAssumption DEF StopStage
<1>3. OneWarmup' /\ OneRecycle' /\ StopStage'
  BY <1>1, <1>2 DEF OneWarmup, OneRecycle, StopStage, Maybe
<1>4. \A x \in Backend \ {b} : life[x] = "dead"
  BY DEF OneVm, Running, WarmingVm
<1>5. NoOrphanStopping'
  BY <1>4 DEF NoOrphanStopping, Running
<1> QED
  BY <1>3, <1>5

LEMMA WarmupFailsStops ==
  ASSUME IInv, StopInv, NEW b \in Backend, WarmupFails(b)
  PROVE  StopInv'
<1> USE DEF IInv, TypeOK, StopInv, WarmupFails, fields
<1>1. OneWarmup' /\ OneRecycle' /\ StopStage'
  BY DEF OneWarmup, OneRecycle, StopStage
<1>2. NoOrphanStopping'
  BY DEF NoOrphanStopping, Running, WarmingVm
<1> QED
  BY <1>1, <1>2

LEMMA WarmupAbortedStops ==
  ASSUME IInv, StopInv, NEW b \in Backend, WarmupAborted(b)
  PROVE  StopInv'
<1> USE DEF IInv, TypeOK, StopInv, WarmupAborted
<1>1. warmupPromise = b /\ \A x \in Backend \ {b} : warming[x] = "no"
  BY DEF OneWarmup
<1>2. stopPc \notin {"backend", "done"}
  BY <1>1, BackendAssumption DEF StopStage
<1>3. OneWarmup' /\ OneRecycle' /\ StopStage'
  BY <1>1, <1>2 DEF OneWarmup, OneRecycle, StopStage, Maybe
<1>4. \A x \in Backend : life'[x] = "dead"
  BY DEF OneVm, Running, WarmingVm
<1>5. NoOrphanStopping'
  BY <1>4 DEF NoOrphanStopping, Running
<1> QED
  BY <1>3, <1>5

(* checkout(), at once or after its wait: the warm VM is the caller's.     *)
LEMMA CheckoutStops ==
  ASSUME IInv, StopInv, NEW c \in Caller, Checkout(c) \/ CheckoutResumes(c)
  PROVE  StopInv'
<1> USE DEF IInv, TypeOK, StopInv
<1>1. /\ UNCHANGED <<stopped, warmupPromise, recyclePromise, warming,
                     recycling, stopPc, stopOn, life>>
      /\ \/ UNCHANGED <<holds, backend, state>>
         \/ CanTake /\ Take(c)
  BY DEF Checkout, CheckoutResumes
<1>2. CASE UNCHANGED <<holds, backend, state>>
  BY <1>1, <1>2
  DEF OneWarmup, OneRecycle, StopStage, NoOrphanStopping, Running
<1>3. CASE CanTake /\ Take(c)
  <2>1. backend \in Backend /\ life[backend] \in {"live", "crashed"}
    BY <1>3 DEF CanTake, WarmVm, Maybe
  <2>2. \A x \in Backend : warming[x] = "no"
    BY <2>1 DEF OneVm, Running, WarmingVm, Warming
  <2>3. stopPc \notin {"backend", "done"}
    BY <2>1, BackendAssumption DEF StopStage
  <2>4. OneWarmup' /\ OneRecycle' /\ StopStage'
    BY <1>1, <2>2, <2>3 DEF OneWarmup, OneRecycle, StopStage
  <2>5. holds'[c] = backend /\ \A x \in Backend \ {backend} : life[x] = "dead"
    BY <1>3, <2>1 DEF Take, OneVm, Running
  <2>6. NoOrphanStopping'
    BY <1>1, <2>1, <2>5 DEF NoOrphanStopping, Running
  <2> QED
    BY <2>4, <2>6
<1> QED
  BY <1>1, <1>2, <1>3

(* recycle(): when stop() is not through, there is none on a stopped pool. *)
LEMMA RecycleStops ==
  ASSUME IInv, StopInv, Drained, NEW c \in Caller, Recycle(c)
  PROVE  StopInv'
<1>1. holds[c] \in Backend
  BY DEF IInv, TypeOK, Maybe, Recycle
<1>2. /\ backend = NoBackend /\ warmupPromise = NoBackend
      /\ \A b \in Backend : warming[b] = "no"
      /\ recyclePromise = NoBackend /\ stopPc \in {"no", "done"}
  BY HeldAlone DEF Recycle
<1> USE DEF IInv, TypeOK, Maybe
<1>3. \A o \in Backend : recycling[o] = NoBackend
  BY <1>2, BackendAssumption DEF StopInv, OneRecycle
<1>4. OneWarmup'
  BY <1>2 DEF OneWarmup, Recycle
<1>5. OneRecycle'
  BY <1>1, <1>2, <1>3 DEF OneRecycle, Recycle
<1>6. StopStage' /\ NoOrphanStopping'
  BY <1>2 DEF StopInv, StopStage, NoOrphanStopping, StoppingVm, Recycle
<1> QED
  BY <1>4, <1>5, <1>6 DEF StopInv

LEMMA RecycleStoppedStops ==
  ASSUME IInv, StopInv, NEW o \in Backend, RecycleStopped(o)
  PROVE  StopInv'
<1> USE DEF IInv, TypeOK, StopInv, Maybe
<1>1. /\ recycling[o] = o /\ recyclePromise = o
      /\ \A x \in Backend \ {o} : recycling[x] = NoBackend /\ life[x] = "dead"
      /\ \A x \in Backend : warming[x] = "no"
      /\ stopPc \notin {"warmup", "backend", "done"}
  <2>1. recycling[o] = o /\ life[o] = "stopping" /\ warming[o] = "no"
    BY DEF RecycleStopped, RecyclingVm
  <2>2. recyclePromise = o
    BY <2>1, BackendAssumption DEF OneRecycle
  <2>3. \A x \in Backend \ {o} : recycling[x] = NoBackend /\ life[x] = "dead"
    BY <2>1, <2>2 DEF OneRecycle, OneVm, Running
  <2>4. \A x \in Backend : warming[x] = "no"
    BY <2>1, <2>3 DEF WarmingVm, Warming
  <2>5. stopPc \notin {"warmup", "backend", "done"}
    BY <2>2, BackendAssumption DEF StopStage
  <2> QED
    BY <2>1, <2>2, <2>3, <2>4, <2>5
<1>2. CASE stopped
  <2>1. /\ recycling' = [recycling EXCEPT ![o] = NoBackend]
        /\ recyclePromise' = NoBackend
        /\ life' = [life EXCEPT ![o] = "dead"]
        /\ UNCHANGED <<state, warmupPromise, warming, backend, stopped, stopPc,
                       stopOn, holds>>
    BY <1>2 DEF RecycleStopped
  <2>2. OneWarmup' /\ OneRecycle' /\ StopStage'
    BY <1>1, <2>1 DEF OneWarmup, OneRecycle, StopStage
  <2>3. NoOrphanStopping'
    BY <1>1, <2>1 DEF NoOrphanStopping, Running
  <2> QED
    BY <2>2, <2>3
<1>3. CASE ~stopped
  <2>1. /\ UNCHANGED <<recyclePromise, backend, stopped, stopPc, stopOn>>
        /\ stopPc = "no"
    BY <1>3 DEF RecycleStopped, StoppingVm, StopPc
  <2>2. ~WarmupInFlight
    BY <1>1, BackendAssumption DEF WarmupInFlight, PromiseVm
  <2>3. PICK b \in Backend :
          /\ Boot(b, [life EXCEPT ![o] = "dead"])
          /\ recycling' = [recycling EXCEPT ![o] = b]
    BY <1>3, <2>2 DEF RecycleStopped
  <2>4. OneWarmup'
    BY <1>1, <2>3 DEF OneWarmup, Boot
  <2>5. OneRecycle'
    BY <1>1, <2>1, <2>3, BackendAssumption DEF OneRecycle
  <2>6. StopStage' /\ NoOrphanStopping'
    BY <1>3, <2>1 DEF StopStage, NoOrphanStopping
  <2> QED
    BY <2>4, <2>5, <2>6
<1> QED
  BY <1>2, <1>3

LEMMA RecycleSettledStops ==
  ASSUME IInv, StopInv, NEW o \in Backend, RecycleSettled(o)
  PROVE  StopInv'
<1> USE DEF IInv, TypeOK, StopInv, Maybe
<1>1. /\ recycling[o] \notin {NoBackend, o} /\ recyclePromise = o
      /\ recycling' = [recycling EXCEPT ![o] = NoBackend]
      /\ recyclePromise' = NoBackend
      /\ UNCHANGED <<state, backend, stopped, warmupPromise, warming, stopPc,
                     stopOn, life, holds>>
  BY DEF RecycleSettled, RecycleDue, OneRecycle
<1>2. OneWarmup' /\ OneRecycle' /\ StopStage'
  BY <1>1, BackendAssumption DEF OneWarmup, OneRecycle, StopStage
<1>3. NoOrphanStopping'
  BY <1>1 DEF NoOrphanStopping, Running
<1> QED
  BY <1>2, <1>3

LEMMA StopReturnsStops ==
  ASSUME IInv, StopInv, StopReturns
  PROVE  StopInv'
<1> USE DEF IInv, TypeOK, StopInv
<1>1. stopOn \in Backend /\ life[stopOn] = "stopping"
  BY DEF StopReturns, StoppingVm
<1>2. \A b \in Backend : warming[b] = "no"
  BY BackendAssumption DEF StopReturns, StopStage, OneWarmup, Warming
<1>3. OneWarmup' /\ OneRecycle' /\ StopStage' /\ NoOrphanStopping'
  BY <1>2
  DEF StopReturns, OneWarmup, OneRecycle, StopStage, NoOrphanStopping
<1> QED
  BY <1>3

LEMMA CrashStops ==
  ASSUME IInv, StopInv, NEW b \in Backend, Crash(b)
  PROVE  StopInv'
<1> USE DEF IInv, TypeOK, StopInv
<1>1. OneWarmup' /\ OneRecycle' /\ StopStage'
  BY DEF Crash, fields, OneWarmup, OneRecycle, StopStage
<1>2. NoOrphanStopping'
  BY DEF Crash, fields, NoOrphanStopping, Running
<1> QED
  BY <1>1, <1>2

(* stop() as far as its next await, or to its end.                         *)
StopGoesOn(stage) ==
  /\ stopped'
  /\ StopRunsFrom(stage)
  /\ \A b \in Running : \/ backend = b
                        \/ \E c \in Caller : holds[c] = b
                        \/ warming[b] # "no"
                        \/ recycling[b] = b
  /\ stage \in {"warmup", "backend"} => recyclePromise = NoBackend
  /\ stage = "backend" => warmupPromise = NoBackend

LEMMA StopBegins ==
  ASSUME IInv, StopInv, Stop
  PROVE  StopGoesOn("recycle")
  BY DEF Stop, StopGoesOn, IInv, NoOrphan

LEMMA StopGoesFurther ==
  ASSUME IInv, StopInv, StopResumes
  PROVE  StopGoesOn(IF stopPc = "recycle" THEN "warmup" ELSE "backend")
<1> USE DEF IInv, StopInv, StopResumes, StopDue
<1>1. stopped /\ stopped' /\ stopPc \in {"recycle", "warmup"}
  BY DEF StoppingVm
<1>2. recyclePromise = NoBackend
  BY BackendAssumption DEF StopStage, OneRecycle
<1>3. stopPc = "warmup" => warmupPromise = NoBackend
  BY BackendAssumption DEF StopStage, PromiseVm
<1>4. NoOrphanStopping
  OBVIOUS
<1> QED
  BY <1>1, <1>2, <1>3, <1>4 DEF NoOrphanStopping, StopGoesOn

LEMMA StopStops ==
  ASSUME IInv, StopInv, NEW stage \in {"recycle", "warmup", "backend"},
         StopGoesOn(stage)
  PROVE  /\ StopInv'
         /\ stopPc' = "done" => \A b \in Backend : life'[b] # "dead" =>
                                   \E c \in Caller : holds'[c] = b
<1> USE DEF IInv, TypeOK, Maybe
<1> DEFINE pc == StopAwaits(stage)
<1>1. /\ stopped' /\ stopPc' = pc
      /\ stopOn' = CASE pc = "recycle" -> recyclePromise
                     [] pc = "warmup"  -> warmupPromise
                     [] OTHER          -> backend
      /\ backend' = IF pc \in {"recycle", "warmup"} THEN backend ELSE NoBackend
      /\ life' = IF pc = "backend" THEN [life EXCEPT ![backend] = "stopping"]
                                   ELSE life
      /\ state' = IF pc = "done" THEN "stopped" ELSE state
      /\ UNCHANGED <<warmupPromise, recyclePromise, warming, recycling, holds>>
  BY DEF StopGoesOn, StopRunsFrom
<1>2. /\ pc \in {"recycle", "warmup", "backend", "done"}
      /\ pc = "recycle" => recyclePromise # NoBackend
      /\ pc = "warmup" => recyclePromise = NoBackend /\ warmupPromise # NoBackend
      /\ pc \in {"backend", "done"} =>
           recyclePromise = NoBackend /\ warmupPromise = NoBackend
      /\ pc = "backend" => backend # NoBackend
      /\ pc = "done" => backend = NoBackend
  BY DEF StopAwaits, StopGoesOn
<1> HIDE DEF pc
<1>3. pc \in {"backend", "done"} =>
        \A b \in Backend : warming[b] = "no" /\ recycling[b] = NoBackend
  BY <1>2, BackendAssumption DEF StopInv, OneWarmup, OneRecycle, Warming
<1>4. \A b \in Backend : life'[b] # "dead" => life[b] # "dead"
  BY <1>1, <1>2 DEF WarmVm
<1>5. StopInv'
  <2>1. OneWarmup' /\ OneRecycle'
    BY <1>1, <1>2, <1>3 DEF StopInv, OneWarmup, OneRecycle
  <2>2. StopStage'
    BY <1>1, <1>2, BackendAssumption DEF StopStage, WarmVm
  <2>3. NoOrphanStopping'
    BY <1>1, <1>2, <1>4 DEF StopGoesOn, NoOrphanStopping, Running
  <2> QED
    BY <2>1, <2>2, <2>3 DEF StopInv
<1>6. ASSUME stopPc' = "done", NEW b \in Backend, life'[b] # "dead"
      PROVE  \E c \in Caller : holds'[c] = b
  BY <1>1, <1>2, <1>3, <1>4, <1>6, BackendAssumption DEF StopGoesOn, Running
<1> QED
  BY <1>5, <1>6

LEMMA StepStops ==
  ASSUME MaxStarts = 1, IInv, StopInv, [Next]_vars
  PROVE  /\ StopInv'
         /\ stopPc # "done" /\ stopPc' = "done" =>
              \A b \in Backend : life'[b] # "dead" =>
                                   \E c \in Caller : holds'[c] = b
<1> DEFINE Goal == /\ StopInv'
                   /\ stopPc # "done" /\ stopPc' = "done" =>
                        \A b \in Backend : life'[b] # "dead" =>
                                             \E c \in Caller : holds'[c] = b
<1>1. CASE UNCHANGED vars
  BY <1>1
  DEF vars, fields, StopInv, OneWarmup, OneRecycle, StopStage,
      NoOrphanStopping, Running
<1>2. CASE Microtask
  <2>1. CASE StopResumes
    BY <2>1, StopGoesFurther, StopStops
  <2>2. ASSUME NEW c \in Caller, CheckoutResumes(c) PROVE Goal
    BY <2>2, CheckoutStops DEF CheckoutResumes
  <2>3. ASSUME NEW o \in Backend, RecycleSettled(o) PROVE Goal
    BY <2>3, RecycleSettledStops DEF RecycleSettled
  <2> QED
    BY <1>2, <2>1, <2>2, <2>3 DEF Microtask
<1>3. CASE Completion
  <2>1. ASSUME NEW b \in Backend,
               WarmupReady(b) \/ WarmupFails(b) \/ WarmupAborted(b)
        PROVE  Goal
    BY <2>1, WarmupReadyStops, WarmupFailsStops, WarmupAbortedStops
    DEF WarmupReady, WarmupFails, WarmupAborted
  <2>2. ASSUME NEW o \in Backend, RecycleStopped(o) PROVE Goal
    BY <2>2, RecycleStoppedStops DEF RecycleStopped
  <2>3. CASE StopReturns
    <3>1. \A b \in Backend : life'[b] = "dead"
      BY <2>3 DEF StopReturns, IInv, TypeOK, StoppingVm, OneVm, Running
    <3> QED
      BY <2>3, <3>1, StopReturnsStops
  <2> QED
    BY <1>3, <2>1, <2>2, <2>3 DEF Completion
<1>4. CASE Drained /\ Call
  <2>1. CASE Start
    BY <2>1, StartStops DEF Start
  <2>2. ASSUME NEW c \in Caller, Checkout(c) \/ Recycle(c) PROVE Goal
    BY <1>4, <2>2, CheckoutStops, RecycleStops DEF Checkout, Recycle
  <2>3. CASE Stop
    BY <2>3, StopBegins, StopStops
  <2> QED
    BY <1>4, <2>1, <2>2, <2>3 DEF Call
<1>5. ASSUME NEW b \in Backend, Crash(b) PROVE Goal
  BY <1>5, CrashStops DEF Crash
<1> QED
  BY <1>1, <1>2, <1>3, <1>4, <1>5 DEF Next, Macrotask

LEMMA InitStops == Init => StopInv
  BY BackendAssumption
  DEF Init, StopInv, OneWarmup, OneRecycle, StopStage, NoOrphanStopping

(* Nothing warm and nothing half-booted outlives stop(), whatever recycle, *)
(* warm-up and checkout() it met on its way.                               *)
THEOREM StopLeavesOnlyLeasedAlways ==
  ASSUME MaxStarts = 1
  PROVE  Spec => StopLeavesOnlyLeased
<1>1. IInv /\ StopInv /\ [Next]_vars => StopInv'
  BY StepStops
<1>2. IInv /\ StopInv /\ [Next]_vars =>
        [stopPc # "done" /\ stopPc' = "done" =>
           \A b \in Backend : life'[b] # "dead" =>
                                \E c \in Caller : holds'[c] = b]_vars
  BY StepStops
<1> QED
  BY <1>1, <1>2, InitStops, IInvAlways, PTL DEF Spec, StopLeavesOnlyLeased

(* Once stop() is through, nothing but a recycle() frees or starts a VM.   *)
LEMMA StoppedStays ==
  ASSUME IInv, StopInv, stopPc = "done", [Next]_vars,
         \A c \in Caller : holds[c] # NoBackend => holds'[c] = holds[c]
  PROVE  /\ stopPc' = "done"
         /\ \A b \in Backend : life'[b] # "dead" => life[b] # "dead"
<1>1. /\ stopped /\ backend = NoBackend
      /\ \A b \in Backend : warming[b] = "no" /\ recycling[b] = NoBackend
  BY BackendAssumption
  DEF IInv, TypeOK, Warming, StoppingVm, StopInv, StopStage, OneWarmup,
      OneRecycle
<1>2. \A c \in Caller : ~Recycle(c)
  BY BackendAssumption DEF Recycle, IInv, TypeOK
<1>3. \A b \in Backend : ~RecycleDue(b) /\ ~RecycleStopped(b)
                         /\ ~WarmupReady(b) /\ ~WarmupFails(b)
                         /\ ~WarmupAborted(b)
  BY <1>1, BackendAssumption
  DEF RecycleDue, RecycleStopped, WarmupReady, WarmupFails, WarmupAborted
<1>4. ~StopDue /\ ~StopReturns /\ ~Start /\ ~Stop
  BY <1>1 DEF StopDue, StopReturns, Start, Stop
<1>5. ASSUME NEW c \in Caller, Checkout(c) \/ CheckoutResumes(c)
      PROVE  UNCHANGED <<stopPc, life>>
  BY <1>5 DEF Checkout, CheckoutResumes
<1>6. ASSUME NEW b \in Backend, Crash(b)
      PROVE  /\ UNCHANGED stopPc
             /\ \A x \in Backend : life'[x] # "dead" => life[x] # "dead"
  BY <1>6 DEF IInv, TypeOK, Crash
<1>7. UNCHANGED vars => UNCHANGED <<stopPc, life>>
  BY DEF vars
<1> QED
  BY <1>2, <1>3, <1>4, <1>5, <1>6, <1>7
  DEF Next, Microtask, Macrotask, Completion, Call, RecycleSettled, StopResumes
=============================================================================
