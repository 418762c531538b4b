------------------------------ MODULE FiberSync ------------------------------
(***************************************************************************)
(* What a fiber blocks on: Waitable, Mutex, ConditionVariable and Event of *)
(* src/flare/fiber/detail/waitable.{h,cc}, with the scheduler's Halt,      *)
(* ReadyFiber and AcquireFiber (scheduling_group.cc) that put a fiber to   *)
(* sleep and run it again.                                                 *)
(*                                                                         *)
(* A fiber inside these calls has a stack of frames, the innermost first:  *)
(* `at` is where it is, `on` the object, `woken` the fibers it has taken   *)
(* from a wait chain and not yet made ready.  A module that uses the calls *)
(* pushes a frame with Call and goes on when its stack is empty again.     *)
(* Waits with a timeout are not modelled, so only WakeOne satisfies a      *)
(* wait and the flag WaitBlock::satisfied is implied.                      *)
(***************************************************************************)
EXTENDS Integers, Sequences

CONSTANTS
  Fibers,
  Mutexes,
  Conditions,
  Events,
  Null

VARIABLES
  count,          \* Mutex::count_: the owner and the waiters
  slow_path_lock, \* the fiber that holds Mutex::slow_path_lock_, or Null
  waiters,        \* Waitable::waiters_ of each mutex, condition and event
  persistent_awakened, \* Waitable::persistent_awakened_, only set for events
  state,          \* FiberEntity::state
  scheduler_lock, \* the fiber's scheduler_lock is held by the fiber itself
  stack

Waitables == Mutexes \cup Conditions \cup Events

\* What belongs to the objects, and to the scheduler.
objectVars == <<count, slow_path_lock, waiters, persistent_awakened>>
schedulerVars == <<state, scheduler_lock>>
syncVars == <<objectVars, schedulerVars, stack>>

SyncInit ==
  /\ count = [m \in Mutexes |-> 0]
  /\ slow_path_lock = [m \in Mutexes |-> Null]
  /\ waiters = [w \in Waitables |-> <<>>]
  /\ persistent_awakened = [e \in Events |-> FALSE]
  /\ state = [f \in Fibers |-> "Running"]
  /\ scheduler_lock = [f \in Fibers |-> FALSE]
  /\ stack = [f \in Fibers |-> <<>>]

Frame(at, on) == [at |-> at, on |-> on, woken |-> <<>>]

Call(f, at, on) == stack' = [stack EXCEPT ![f] = <<Frame(at, on)>> \o @]

At(f, at) == stack[f] # <<>> /\ Head(stack[f]).at = at

On(f) == Head(stack[f]).on

Jump(f, at) == stack' = [stack EXCEPT ![f][1].at = at]

Return(f) == stack' = [stack EXCEPT ![f] = Tail(@)]

\* Waitable's wait chain, under its lock_: the first to wait is woken first.
AddWaiter(w, f) == waiters' = [waiters EXCEPT ![w] = Append(@, f)]

WakeOne(w) == waiters' = [waiters EXCEPT ![w] = Tail(@)]

-----------------------------------------------------------------------------
(* Mutex.                                                                   *)

\* try_lock, twice: in lock and at the start of LockSlow.
MutexLock(f) ==
  /\ At(f, "lock")
  /\ \/ /\ count[On(f)] = 0
        /\ count' = [count EXCEPT ![On(f)] = 1]
        /\ Return(f)
     \/ /\ count[On(f)] # 0
        /\ Jump(f, "lock_slow")
        /\ UNCHANGED count
  /\ UNCHANGED <<slow_path_lock, waiters, persistent_awakened, schedulerVars>>

\* count_.fetch_add(1) under slow_path_lock_: the fiber has the mutex if
\* nobody had it, and is announced as a waiter otherwise.
LockSlow(f) ==
  LET m == On(f)
  IN  /\ At(f, "lock_slow")
      /\ slow_path_lock[m] = Null
      /\ count' = [count EXCEPT ![m] = @ + 1]
      /\ \/ /\ count[m] = 0
            /\ Return(f)
            /\ UNCHANGED slow_path_lock
         \/ /\ count[m] # 0
            /\ slow_path_lock' = [slow_path_lock EXCEPT ![m] = f]
            /\ Jump(f, "enqueue")
      /\ UNCHANGED <<waiters, persistent_awakened, schedulerVars>>

\* AddWaiter, with the fiber's own scheduler_lock taken before slow_path_lock_
\* is given back.
LockEnqueue(f) ==
  LET m == On(f)
  IN  /\ At(f, "enqueue")
      /\ scheduler_lock' = [scheduler_lock EXCEPT ![f] = TRUE]
      /\ AddWaiter(m, f)
      /\ slow_path_lock' = [slow_path_lock EXCEPT ![m] = Null]
      /\ Jump(f, "halt")
      /\ UNCHANGED <<count, persistent_awakened, state>>

\* Mutant: count_ is set to 0 instead of decremented.
MutexUnlockStores(f) ==
  /\ At(f, "unlock")
  /\ count' = [count EXCEPT ![On(f)] = 0]
  /\ IF count[On(f)] = 1 THEN Return(f) ELSE Jump(f, "wake")
  /\ UNCHANGED <<slow_path_lock, waiters, persistent_awakened, schedulerVars>>

\* count_.fetch_sub(1): the waiters stay counted, so nobody else gets the mutex.
MutexUnlock(f) ==
  /\ At(f, "unlock")
  /\ count' = [count EXCEPT ![On(f)] = @ - 1]
  /\ IF count[On(f)] = 1 THEN Return(f) ELSE Jump(f, "wake")
  /\ UNCHANGED <<slow_path_lock, waiters, persistent_awakened, schedulerVars>>

\* Mutant: WakeOne without slow_path_lock_.
CanWakeAlways(m) == TRUE

CanWake(m) == slow_path_lock[m] = Null

\* WakeOne under slow_path_lock_.  The mutex now belongs to the woken fiber.
UnlockWake(f) ==
  LET m == On(f)
  IN  /\ At(f, "wake")
      /\ CanWake(m)
      /\ waiters[m] # <<>>
      /\ WakeOne(m)
      /\ stack' = [stack EXCEPT ![f][1].at = "ready",
                                ![f][1].woken = <<Head(waiters[m])>>]
      /\ UNCHANGED <<count, slow_path_lock, persistent_awakened, schedulerVars>>

-----------------------------------------------------------------------------
(* ConditionVariable.                                                       *)

\* wait: the fiber is in the wait chain before it lets the user's lock go, and
\* holds its scheduler_lock until it sleeps.
Wait(f, cv, m) ==
  /\ scheduler_lock' = [scheduler_lock EXCEPT ![f] = TRUE]
  /\ AddWaiter(cv, f)
  /\ stack' = [stack EXCEPT ![f] =
                 <<Frame("unlock", m), Frame("halt_wait", m)>> \o @]
  /\ UNCHANGED <<count, slow_path_lock, persistent_awakened, state>>

\* notify_all empties the wait chain, one WakeOne at a time, and only then
\* makes the fibers ready.
NotifyAll(f) ==
  LET cv == On(f)
  IN  /\ At(f, "notify_all")
      /\ \/ /\ waiters[cv] # <<>>
            /\ WakeOne(cv)
            /\ stack' = [stack EXCEPT
                           ![f][1].woken = Append(@, Head(waiters[cv]))]
         \/ /\ waiters[cv] = <<>>
            /\ IF Head(stack[f]).woken = <<>> THEN Return(f) ELSE Jump(f, "ready")
            /\ UNCHANGED waiters
      /\ UNCHANGED <<count, slow_path_lock, persistent_awakened, schedulerVars>>

-----------------------------------------------------------------------------
(* Event.                                                                   *)

\* Wait: AddWaiter fails when the event is set already.
EventWait(f) ==
  LET e == On(f)
  IN  /\ At(f, "event_wait")
      /\ \/ /\ persistent_awakened[e]
            /\ Return(f)
            /\ UNCHANGED <<waiters, scheduler_lock>>
         \/ /\ ~persistent_awakened[e]
            /\ AddWaiter(e, f)
            /\ scheduler_lock' = [scheduler_lock EXCEPT ![f] = TRUE]
            /\ Jump(f, "halt")
      /\ UNCHANGED <<count, slow_path_lock, persistent_awakened, state>>

\* Set: SetPersistentAwakened takes all the waiters at once.
EventSet(f) ==
  LET e == On(f)
  IN  /\ At(f, "event_set")
      /\ persistent_awakened' = [persistent_awakened EXCEPT ![e] = TRUE]
      /\ waiters' = [waiters EXCEPT ![e] = <<>>]
      /\ IF waiters[e] = <<>> THEN Return(f)
         ELSE stack' = [stack EXCEPT ![f][1].at = "ready",
                                     ![f][1].woken = waiters[e]]
      /\ UNCHANGED <<count, slow_path_lock, schedulerVars>>

-----------------------------------------------------------------------------
(* The scheduler.                                                           *)

\* SchedulingGroup::Halt: the scheduler_lock is released once the fiber does
\* not run any more.
Halt(f) ==
  /\ \/ At(f, "halt") /\ Jump(f, "asleep")
     \/ At(f, "halt_wait") /\ Jump(f, "asleep_wait")
  /\ state' = [state EXCEPT ![f] = "Waiting"]
  /\ scheduler_lock' = [scheduler_lock EXCEPT ![f] = FALSE]
  /\ UNCHANGED objectVars

\* The woken fiber's scheduler_lock can be taken.
CanReady(g) == ~scheduler_lock[g]

\* ReadyFiber for the next of the woken fibers.
ReadyFiber(f) ==
  LET woken == Head(stack[f]).woken
  IN  /\ At(f, "ready")
      /\ CanReady(Head(woken))
      /\ state' = [state EXCEPT ![Head(woken)] = "Ready"]
      /\ IF Len(woken) = 1 THEN Return(f)
         ELSE stack' = [stack EXCEPT ![f][1].woken = Tail(@)]
      /\ UNCHANGED <<objectVars, scheduler_lock>>

\* AcquireFiber: a worker runs the fiber again.  The mutex has been handed to
\* it, or it has been notified and takes the user's lock again.
Resume(f) ==
  /\ state[f] = "Ready"
  /\ ~scheduler_lock[f]
  /\ state' = [state EXCEPT ![f] = "Running"]
  /\ \/ At(f, "asleep") /\ Return(f)
     \/ At(f, "asleep_wait") /\ Jump(f, "lock")
  /\ UNCHANGED <<objectVars, scheduler_lock>>

MutexStep(f) ==
  \/ MutexLock(f) \/ LockSlow(f) \/ LockEnqueue(f)
  \/ MutexUnlock(f) \/ UnlockWake(f)

EventStep(f) == EventWait(f) \/ EventSet(f)

SchedulerStep(f) == Halt(f) \/ ReadyFiber(f) \/ Resume(f)

-----------------------------------------------------------------------------
SyncTypeOK ==
  /\ count \in [Mutexes -> Nat]
  /\ slow_path_lock \in [Mutexes -> Fibers \cup {Null}]
  /\ waiters \in [Waitables -> Seq(Fibers)]
  /\ persistent_awakened \in [Events -> BOOLEAN]
  /\ state \in [Fibers -> {"Running", "Waiting", "Ready"}]
  /\ scheduler_lock \in [Fibers -> BOOLEAN]

\* A fiber is made ready only while it sleeps: no wake-up comes twice, or before
\* the fiber that is to be woken has gone to sleep.
WakesSleepers ==
  \A f \in Fibers :
    At(f, "ready") =>
      LET g == Head(Head(stack[f]).woken)
      IN  CanReady(g) => state[g] = "Waiting"
=============================================================================
