-------------------------- MODULE ModemBackendPool --------------------------
(***************************************************************************)
(* src/backends/ModemBackendPool.js: the pool that keeps one warm modem VM *)
(* for the next call.                                                      *)
(*                                                                         *)
(* The pool runs on one event loop.  An async method runs up to its next   *)
(* await as one step; what remains of it is a coroutine, kept here as the  *)
(* thing it awaits.  When an awaited promise settles, its continuations    *)
(* are microtasks: they run, in an order this model leaves open, before    *)
(* any further call into the pool and before any VM event (Drained).       *)
(***************************************************************************)
EXTENDS Naturals

CONSTANTS
  Backend,     \* backend objects the factory can return
  NoBackend,   \* null
  Caller,      \* clients of checkout(): the call sessions
  MaxStarts    \* how often the program calls start(); index.js calls it once

ASSUME BackendAssumption == NoBackend \notin Backend
ASSUME StartsAssumption  == MaxStarts \in Nat

VARIABLES
  (* The fields of the pool object. *)
  state, backend, stopped, warmupPromise, recyclePromise,
  (* The coroutines in flight. *)
  warming,     \* [Backend -> Warming] : _warmupOne() for this object
  recycling,   \* what the _recycleAsync() of this object awaits: the object
               \* itself (its stop()), or another object's warm-up
  waitsFor,    \* the warm-up a caller's checkout() awaits
  stopPc,      \* where stop() is suspended ...
  stopOn,      \* ... and the object it awaits
  (* The world around the pool. *)
  life,        \* [Backend -> Life] : the VM behind the object
  holds,       \* the backend a caller has checked out
  starts       \* start() calls made

fields == <<state, backend, stopped, warmupPromise, recyclePromise>>
vars == <<fields, warming, recycling, waitsFor, stopPc, stopOn, life, holds,
          starts>>

State   == {"empty", "warming", "ready", "checked_out", "stopped"}
Warming == {"no", "boot", "abort"}
Life    == {"dead", "booting", "live", "crashed", "stopping"}
StopPc  == {"no", "recycle", "warmup", "backend", "done"}
Maybe   == Backend \cup {NoBackend}

TypeOK ==
  /\ state \in State
  /\ backend \in Maybe
  /\ stopped \in BOOLEAN
  /\ warmupPromise \in Maybe
  /\ recyclePromise \in Maybe
  /\ warming \in [Backend -> Warming]
  /\ recycling \in [Backend -> Maybe]
  /\ waitsFor \in [Caller -> Maybe]
  /\ stopPc \in StopPc
  /\ stopOn \in Maybe
  /\ life \in [Backend -> Life]
  /\ holds \in [Caller -> Maybe]
  /\ starts \in Nat

Init ==
  /\ state = "empty"
  /\ backend = NoBackend
  /\ stopped = FALSE
  /\ warmupPromise = NoBackend
  /\ recyclePromise = NoBackend
  /\ warming = [b \in Backend |-> "no"]
  /\ recycling = [b \in Backend |-> NoBackend]
  /\ waitsFor = [c \in Caller |-> NoBackend]
  /\ stopPc = "no"
  /\ stopOn = NoBackend
  /\ life = [b \in Backend |-> "dead"]
  /\ holds = [c \in Caller |-> NoBackend]
  /\ starts = 0

-----------------------------------------------------------------------------
(* Warm-up.                                                                *)

(* An object nothing refers to any more stands for a newly built one.      *)
Fresh(b) ==
  /\ life[b] = "dead"
  /\ warming[b] = "no"
  /\ backend # b
  /\ \A o \in Backend : recycling[o] # b
  /\ recycling[b] = NoBackend
  /\ \A c \in Caller : holds[c] # b /\ waitsFor[c] # b

(* _warmupOne() joins the warm-up in flight, if there is one.              *)
WarmupInFlight == state = "warming" /\ warmupPromise # NoBackend

(* _warmupOne() otherwise: build a backend and start it, lf being the      *)
(* lives the surrounding step has already settled.                         *)
Boot(b, lf) ==
  /\ Fresh(b)
  /\ state' = "warming"
  /\ warmupPromise' = b
  /\ warming' = [warming EXCEPT ![b] = "boot"]
  /\ life' = [lf EXCEPT ![b] = "booting"]

(* start(): a no-op unless the pool is empty; throws once stopped.         *)
Start ==
  /\ starts < MaxStarts
  /\ ~stopped
  /\ starts' = starts + 1
  /\ \/ /\ state # "empty"
        /\ UNCHANGED <<state, warmupPromise, warming, life>>
     \/ /\ state = "empty"
        /\ \E b \in Backend : Boot(b, life)
  /\ UNCHANGED <<backend, stopped, recyclePromise, recycling, waitsFor,
                 stopPc, stopOn, holds>>

(* startAsync() wins the race against the warm-up timeout.                 *)
WarmupReady(b) ==
  /\ warming[b] = "boot"
  /\ warming' = [warming EXCEPT ![b] = "no"]
  /\ life' = [life EXCEPT ![b] = "live"]
  /\ backend' = b
  /\ state' = "ready"
  /\ warmupPromise' = NoBackend
  /\ UNCHANGED <<stopped, recyclePromise, recycling, waitsFor, stopPc, stopOn,
                 holds, starts>>

(* Mutant: the half-booted VM is not stopped.                              *)
WarmupFailsUnstopped(b) ==
  /\ warming[b] = "boot"
  /\ warming' = [warming EXCEPT ![b] = "no"]
  /\ state' = "empty"
  /\ warmupPromise' = NoBackend
  /\ UNCHANGED <<backend, stopped, recyclePromise, recycling, waitsFor, stopPc,
                 stopOn, life, holds, starts>>

(* startAsync() rejects, or the timeout fires: stop the half-booted VM.    *)
WarmupFails(b) ==
  /\ warming[b] = "boot"
  /\ warming' = [warming EXCEPT ![b] = "abort"]
  /\ life' = [life EXCEPT ![b] = "stopping"]
  /\ UNCHANGED <<fields, recycling, waitsFor, stopPc, stopOn, holds, starts>>

(* Mutant: a state of its own for a failed warm-up.                        *)
WarmupAbortedFailed(b) ==
  /\ warming[b] = "abort"
  /\ warming' = [warming EXCEPT ![b] = "no"]
  /\ life' = [life EXCEPT ![b] = "dead"]
  /\ state' = "failed"
  /\ backend' = NoBackend
  /\ warmupPromise' = NoBackend
  /\ UNCHANGED <<stopped, recyclePromise, recycling, waitsFor, stopPc, stopOn,
                 holds, starts>>

(* The half-booted VM is gone; the warm-up's promise rejects, and with it  *)
(* every checkout() that awaited it.                                       *)
WarmupAborted(b) ==
  /\ warming[b] = "abort"
  /\ warming' = [warming EXCEPT ![b] = "no"]
  /\ life' = [life EXCEPT ![b] = "dead"]
  /\ state' = "empty"
  /\ backend' = NoBackend
  /\ warmupPromise' = NoBackend
  /\ waitsFor' = [c \in Caller |-> IF waitsFor[c] = b THEN NoBackend
                                                      ELSE waitsFor[c]]
  /\ UNCHANGED <<stopped, recyclePromise, recycling, stopPc, stopOn, holds,
                 starts>>

-----------------------------------------------------------------------------
(* checkout() and recycle().                                               *)

CanTake == state = "ready" /\ backend # NoBackend

(* Mutant: the pool keeps its reference.                                   *)
TakeKept(c) ==
  /\ holds' = [holds EXCEPT ![c] = backend]
  /\ state' = "checked_out"
  /\ UNCHANGED backend

Take(c) ==
  /\ holds' = [holds EXCEPT ![c] = backend]
  /\ backend' = NoBackend
  /\ state' = "checked_out"

(* checkout() up to its await, or to its end when the VM is warm.  It      *)
(* throws, changing nothing, in every other state.                         *)
Checkout(c) ==
  /\ holds[c] = NoBackend
  /\ waitsFor[c] = NoBackend
  /\ ~stopped
  /\ \/ /\ state = "warming"
        /\ waitsFor' = [waitsFor EXCEPT ![c] = warmupPromise]
        /\ UNCHANGED <<holds, backend, state>>
     \/ /\ CanTake
        /\ Take(c)
        /\ UNCHANGED waitsFor
  /\ UNCHANGED <<stopped, warmupPromise, recyclePromise, warming, recycling,
                 stopPc, stopOn, life, starts>>

CheckoutDue(c) == waitsFor[c] # NoBackend /\ warming[waitsFor[c]] = "no"

(* Mutant: checkout() waits until there is a VM.                           *)
CheckoutRetries(c) ==
  /\ CheckoutDue(c)
  /\ CanTake
  /\ Take(c)
  /\ waitsFor' = [waitsFor EXCEPT ![c] = NoBackend]
  /\ UNCHANGED <<stopped, warmupPromise, recyclePromise, warming, recycling,
                 stopPc, stopOn, life, starts>>

(* checkout() after its await: it does not look at _stopped again.         *)
CheckoutResumes(c) ==
  /\ CheckoutDue(c)
  /\ waitsFor' = [waitsFor EXCEPT ![c] = NoBackend]
  /\ \/ CanTake /\ Take(c)
     \/ ~CanTake /\ UNCHANGED <<holds, backend, state>>
  /\ UNCHANGED <<stopped, warmupPromise, recyclePromise, warming, recycling,
                 stopPc, stopOn, life, starts>>

(* Mutants: the replacement boots at once; the VM is kept for the next     *)
(* call.                                                                   *)
RecycleAtOnce(c) ==
  /\ holds[c] # NoBackend
  /\ ~stopped
  /\ holds' = [holds EXCEPT ![c] = NoBackend]
  /\ recyclePromise' = holds[c]
  /\ recycling' = [recycling EXCEPT ![holds[c]] = holds[c]]
  /\ \E b \in Backend : Boot(b, [life EXCEPT ![holds[c]] = "stopping"])
  /\ UNCHANGED <<backend, stopped, waitsFor, stopPc, stopOn, starts>>

RecycleReuses(c) ==
  /\ holds[c] # NoBackend
  /\ holds' = [holds EXCEPT ![c] = NoBackend]
  /\ backend' = holds[c]
  /\ state' = "ready"
  /\ UNCHANGED <<stopped, warmupPromise, recyclePromise, warming, recycling,
                 waitsFor, stopPc, stopOn, life, starts>>

(* recycle(): a stopped pool drops the backend without stopping it.        *)
Recycle(c) ==
  /\ holds[c] # NoBackend
  /\ holds' = [holds EXCEPT ![c] = NoBackend]
  /\ \/ /\ stopped
        /\ UNCHANGED <<state, recyclePromise, recycling, life>>
     \/ /\ ~stopped
        /\ state' = "empty"
        /\ recyclePromise' = holds[c]
        /\ recycling' = [recycling EXCEPT ![holds[c]] = holds[c]]
        /\ life' = [life EXCEPT ![holds[c]] = "stopping"]
  /\ UNCHANGED <<backend, stopped, warmupPromise, warming, waitsFor, stopPc,
                 stopOn, starts>>

(* _recycleAsync() after the old VM's stop(): boot the replacement, unless *)
(* the pool was stopped meanwhile.                                         *)
RecycleStopped(o) ==
  LET gone == [life EXCEPT ![o] = "dead"]
  IN /\ recycling[o] = o
     /\ \/ /\ stopped
           /\ recycling' = [recycling EXCEPT ![o] = NoBackend]
           /\ recyclePromise' = NoBackend
           /\ life' = gone
           /\ UNCHANGED <<state, warmupPromise, warming>>
        \/ /\ ~stopped
           /\ WarmupInFlight
           /\ recycling' = [recycling EXCEPT ![o] = warmupPromise]
           /\ life' = gone
           /\ UNCHANGED <<state, warmupPromise, warming, recyclePromise>>
        \/ /\ ~stopped
           /\ ~WarmupInFlight
           /\ \E b \in Backend :
                /\ Boot(b, gone)
                /\ recycling' = [recycling EXCEPT ![o] = b]
           /\ UNCHANGED recyclePromise
     /\ UNCHANGED <<backend, stopped, waitsFor, stopPc, stopOn, holds, starts>>

RecycleDue(o) ==
  /\ recycling[o] \notin {NoBackend, o}
  /\ warming[recycling[o]] = "no"

(* The warm-up settled, either way: the finally() clears _recyclePromise.  *)
RecycleSettled(o) ==
  /\ RecycleDue(o)
  /\ recycling' = [recycling EXCEPT ![o] = NoBackend]
  /\ recyclePromise' = NoBackend
  /\ UNCHANGED <<state, backend, stopped, warmupPromise, warming, waitsFor,
                 stopPc, stopOn, life, holds, starts>>

-----------------------------------------------------------------------------
(* stop().                                                                 *)

(* Mutant: only a recycle is waited for.                                   *)
StopIgnoresWarmup(stage) ==
  IF stage = "recycle" /\ recyclePromise # NoBackend THEN "recycle"
  ELSE IF backend # NoBackend THEN "backend" ELSE "done"

(* What stop() awaits next once it has got as far as stage.                *)
StopAwaits(stage) ==
  CASE stage = "recycle" /\ recyclePromise # NoBackend -> "recycle"
    [] (stage = "recycle" => recyclePromise = NoBackend)
         /\ stage # "backend" /\ warmupPromise # NoBackend -> "warmup"
    [] OTHER -> IF backend # NoBackend THEN "backend" ELSE "done"

StopRunsFrom(stage) ==
  LET pc == StopAwaits(stage)
  IN /\ stopPc' = pc
     /\ stopOn' = CASE pc = "recycle" -> recyclePromise
                    [] pc = "warmup"  -> warmupPromise
                    [] OTHER          -> backend
     /\ backend' = IF pc \in {"recycle", "warmup"} THEN backend ELSE NoBackend
     /\ life' = IF pc = "backend" THEN [life EXCEPT ![backend] = "stopping"]
                                  ELSE life
     /\ state' = IF pc = "done" THEN "stopped" ELSE state
     /\ UNCHANGED <<warmupPromise, recyclePromise, warming, recycling,
                    waitsFor, holds, starts>>

Stop ==
  /\ ~stopped
  /\ stopped' = TRUE
  /\ StopRunsFrom("recycle")

(* Mutant: stop() waits for the VM that is under way, not for the promise. *)
StopAwaitsVm ==
  \/ stopPc = "recycle" /\ recycling[stopOn] = NoBackend /\ CanTake
  \/ stopPc = "warmup"  /\ CanTake

StopDue ==
  \/ stopPc = "recycle" /\ recycling[stopOn] = NoBackend
  \/ stopPc = "warmup"  /\ warming[stopOn] = "no"

StopResumes ==
  /\ StopDue
  /\ StopRunsFrom(IF stopPc = "recycle" THEN "warmup" ELSE "backend")
  /\ UNCHANGED stopped

(* The warm VM that stop() took down is gone.                              *)
StopReturns ==
  /\ stopPc = "backend"
  /\ stopPc' = "done"
  /\ stopOn' = NoBackend
  /\ life' = [life EXCEPT ![stopOn] = "dead"]
  /\ state' = "stopped"
  /\ UNCHANGED <<backend, stopped, warmupPromise, recyclePromise, warming,
                 recycling, waitsFor, holds, starts>>

-----------------------------------------------------------------------------
(* A warm or leased VM dies by itself.  The pool's error listener absorbs  *)
(* the 'error' event and changes nothing.                                  *)
Crash(b) ==
  /\ life[b] = "live"
  /\ life' = [life EXCEPT ![b] = "crashed"]
  /\ UNCHANGED <<fields, warming, recycling, waitsFor, stopPc, stopOn, holds,
                 starts>>

Drained ==
  /\ \A c \in Caller : ~CheckoutDue(c)
  /\ \A o \in Backend : ~RecycleDue(o)
  /\ ~StopDue

Microtask ==
  \/ \E c \in Caller : CheckoutResumes(c)
  \/ \E o \in Backend : RecycleSettled(o)
  \/ StopResumes

(* The completions of VM start and stop: the world owes them to the pool,  *)
(* the first because of the warm-up timeout.                               *)
Completion ==
  \/ \E b \in Backend : WarmupReady(b) \/ WarmupFails(b)
  \/ \E b \in Backend : WarmupAborted(b)
  \/ \E o \in Backend : RecycleStopped(o)
  \/ StopReturns

Call ==
  \/ Start
  \/ \E c \in Caller : Checkout(c) \/ Recycle(c)
  \/ Stop

Macrotask ==
  /\ Drained
  /\ Completion \/ Call \/ \E b \in Backend : Crash(b)

Next == Microtask \/ Macrotask

Spec == Init /\ [][Next]_vars

(* The event loop runs what is due, VM starts end (or time out) and VM     *)
(* stops end.  Nobody is obliged to call the pool.                         *)
Fairness ==
  /\ WF_vars(Microtask)
  /\ \A b \in Backend :
       /\ WF_vars(Drained /\ (WarmupReady(b) \/ WarmupFails(b)))
       /\ WF_vars(Drained /\ WarmupAborted(b))
       /\ WF_vars(Drained /\ RecycleStopped(b))
  /\ WF_vars(Drained /\ StopReturns)

FairSpec == Spec /\ Fairness

-----------------------------------------------------------------------------
(* Properties.                                                             *)

Running == {b \in Backend : life[b] # "dead"}

(* Two VMs never run at once: the replacement is booted only when the old  *)
(* VM is gone, because both use the same TCP ports (recycle()'s comment).  *)
OneVm == \A a, b \in Running : a = b

(* While the pool is in service every running VM is somebody's -- the      *)
(* pool's warm one, a caller's, or the object of a coroutine that will     *)
(* settle or stop it.  A VM nobody refers to would run for ever.           *)
NoOrphan ==
  ~stopped => \A b \in Running :
                \/ backend = b /\ state = "ready"
                \/ \E c \in Caller : holds[c] = b
                \/ warming[b] # "no"
                \/ recycling[b] = b

(* A VM serves one call: two callers never hold the same backend, and one  *)
(* that is held is not also the warm one checkout() would hand out next.   *)
ExclusiveLease ==
  \A c \in Caller : holds[c] # NoBackend =>
    /\ backend # holds[c]
    /\ \A d \in Caller : holds[d] = holds[c] => c = d

(* When stop() returns, the only VM that can still run is one a caller has *)
(* checked out: nothing warm and nothing half-booted outlives the pool.    *)
StopLeavesOnlyLeased ==
  [][stopPc # "done" /\ stopPc' = "done" =>
       \A b \in Backend : life'[b] # "dead" =>
                            \E c \in Caller : holds'[c] = b]_vars

(* Every checkout() is answered, with a VM or with an error.               *)
CheckoutSettles == \A c \in Caller : waitsFor[c] # NoBackend
                                        ~> waitsFor[c] = NoBackend

(* stop() returns, whatever recycle or warm-up it found in flight.         *)
StopCompletes == stopped ~> stopPc = "done"

(* Nobody waits for ever: not a caller for a VM, not the one who stops the *)
(* pool for its end.                                                       *)
WaitsEnd == CheckoutSettles /\ StopCompletes

(* The pool is a lease of one VM at a time (BackendLease).                 *)
slot ==
  [b \in Backend |->
     CASE life[b] = "dead"     -> "off"
       [] life[b] = "booting"  -> "booting"
       [] life[b] = "stopping" -> "ending"
       [] OTHER -> IF backend = b THEN "idle" ELSE "leased"]

Lease == INSTANCE BackendLease WITH slot <- slot

LeaseSpec == Lease!Spec

(* recycle()'s comment lets a caller rely on the pool to stop the backend  *)
(* it hands back ("both are fine").  The code drops it on a stopped pool.  *)
ReturnStops ==
  [][\A c \in Caller : holds[c] # NoBackend /\ holds'[c] = NoBackend
        => life'[holds[c]] \in {"stopping", "dead"}]_vars
=============================================================================
