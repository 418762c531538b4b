----------------------------- MODULE SharedMutex -----------------------------
(***************************************************************************)
(* flare::fiber::SharedMutex (src/flare/fiber/shared_mutex.{h,cc}), the    *)
(* lock of each partition of HashKv, built from two fiber Mutexes and a    *)
(* ConditionVariable.                                                      *)
(*                                                                         *)
(* reader_quota_ starts at kMaxReaders; every reader takes one from it and *)
(* a writer takes kMaxReaders, so that it is positive when there is no     *)
(* writer.  A writer waits until exited_readers_ has counted the readers   *)
(* it found; a reader that finds a writer waits until that writer, on      *)
(* leaving, raises newly_granted_readers_.  Any waiting reader may take    *)
(* the grant, also one that has come later than the one it was meant for.  *)
(***************************************************************************)
EXTENDS FiberSync, FiniteSets

CONSTANTS
  Readers,      \* the fibers that lock the mutex shared
  Writers,      \* the fibers that lock it exclusively
  kMaxReaders

ASSUME FiberAssumption ==
  Fibers = Readers \cup Writers /\ Null \notin Fibers

\* writer_lock_, wakeup_lock_ and wakeup_cv_.
ASSUME MemberAssumption ==
  /\ Mutexes = {"writer_lock", "wakeup_lock"}
  /\ Conditions = {"wakeup_cv"}
  /\ Events = {}

\* lock_shared checks that the quota is not used up.
ASSUME QuotaAssumption ==
  /\ IsFiniteSet(Fibers)
  /\ kMaxReaders \in Nat /\ Cardinality(Fibers) < kMaxReaders

VARIABLES
  reader_quota,           \* reader_quota_
  exited_readers,         \* exited_readers_
  newly_granted_readers,  \* newly_granted_readers_
  pending_readers,        \* the local of lock(), 0 outside it
  pc                      \* where each fiber is in its call

mutexVars == <<reader_quota, exited_readers, newly_granted_readers,
               pending_readers, pc>>
vars == <<mutexVars, syncVars>>

Init ==
  /\ SyncInit
  /\ reader_quota = kMaxReaders
  /\ exited_readers = 0
  /\ newly_granted_readers = 0
  /\ pending_readers = [f \in Fibers |-> 0]
  /\ pc = [f \in Fibers |-> "idle"]

\* The fiber is in SharedMutex's own code at label l.
Here(f, l) == pc[f] = l /\ stack[f] = <<>>

Goto(f, l) == pc' = [pc EXCEPT ![f] = l]

\* A call of FiberSync, after which the fiber goes on at l.
CallThen(f, at, on, l) ==
  /\ Call(f, at, on)
  /\ Goto(f, l)
  /\ UNCHANGED <<objectVars, schedulerVars>>

counters == <<reader_quota, exited_readers, newly_granted_readers,
              pending_readers>>

-----------------------------------------------------------------------------
(* The writer's side.                                                       *)

Lock(f) ==
  /\ f \in Writers
  /\ Here(f, "idle")
  /\ CallThen(f, "lock", "writer_lock", "announce")
  /\ UNCHANGED counters

\* reader_quota_.fetch_sub(kMaxReaders); the readers that are in are awaited.
Announce(f) ==
  /\ Here(f, "announce")
  /\ reader_quota' = reader_quota - kMaxReaders
  /\ \/ /\ reader_quota = kMaxReaders
        /\ Goto(f, "writing")
        /\ UNCHANGED <<pending_readers, syncVars>>
     \/ /\ reader_quota # kMaxReaders
        /\ pending_readers' =
             [pending_readers EXCEPT ![f] = kMaxReaders - reader_quota]
        /\ CallThen(f, "lock", "wakeup_lock", "await_readers")
  /\ UNCHANGED <<exited_readers, newly_granted_readers>>

\* Mutant: the writer is content with the first reader's exit.
ReadersGoneEarly(f) == exited_readers > 0

ReadersGone(f) == exited_readers = pending_readers[f]

AwaitReaders(f) ==
  /\ Here(f, "await_readers")
  /\ \/ /\ ReadersGone(f)
        /\ exited_readers' = 0
        /\ pending_readers' = [pending_readers EXCEPT ![f] = 0]
        /\ CallThen(f, "unlock", "wakeup_lock", "writing")
     \/ /\ ~ReadersGone(f)
        /\ Wait(f, "wakeup_cv", "wakeup_lock")
        /\ UNCHANGED <<exited_readers, pending_readers, pc>>
  /\ UNCHANGED <<reader_quota, newly_granted_readers>>

\* try_lock fails at once when another writer has writer_lock_.
TryLock(f) ==
  /\ f \in Writers
  /\ Here(f, "idle")
  /\ count["writer_lock"] = 0
  /\ count' = [count EXCEPT !["writer_lock"] = 1]
  /\ Goto(f, "try_quota")
  /\ UNCHANGED <<counters, slow_path_lock, waiters, persistent_awakened,
                 schedulerVars, stack>>

TryQuota(f) ==
  /\ Here(f, "try_quota")
  /\ \/ /\ reader_quota = kMaxReaders
        /\ reader_quota' = 0
        /\ Goto(f, "writing")
        /\ UNCHANGED syncVars
     \/ /\ reader_quota # kMaxReaders
        /\ CallThen(f, "unlock", "writer_lock", "idle")
        /\ UNCHANGED reader_quota
  /\ UNCHANGED <<exited_readers, newly_granted_readers, pending_readers>>

Unlock(f) ==
  /\ Here(f, "writing")
  /\ CallThen(f, "lock", "wakeup_lock", "release")
  /\ UNCHANGED counters

\* Mutant: the waiting readers are not told.
ReleaseSilent(f) ==
  /\ Here(f, "release")
  /\ reader_quota' = reader_quota + kMaxReaders
  /\ newly_granted_readers' = -reader_quota
  /\ Goto(f, "release_writer")
  /\ UNCHANGED <<exited_readers, pending_readers, syncVars>>

\* reader_quota_.fetch_add(kMaxReaders); every reader that waits is granted.
Release(f) ==
  /\ Here(f, "release")
  /\ reader_quota' = reader_quota + kMaxReaders
  /\ \/ /\ reader_quota = 0
        /\ Goto(f, "release_writer")
        /\ UNCHANGED <<newly_granted_readers, syncVars>>
     \/ /\ reader_quota # 0
        /\ newly_granted_readers' = -reader_quota
        /\ CallThen(f, "notify_all", "wakeup_cv", "release_writer")
  /\ UNCHANGED <<exited_readers, pending_readers>>

ReleaseWriter(f) ==
  /\ Here(f, "release_writer")
  /\ CallThen(f, "unlock", "writer_lock", "leave")
  /\ UNCHANGED counters

\* The destructor of the lock on wakeup_lock_.
Leave(f) ==
  /\ Here(f, "leave")
  /\ CallThen(f, "unlock", "wakeup_lock", "idle")
  /\ UNCHANGED counters

-----------------------------------------------------------------------------
(* The reader's side.                                                       *)

LockShared(f) ==
  /\ f \in Readers
  /\ Here(f, "idle")
  /\ reader_quota' = reader_quota - 1
  /\ \/ /\ reader_quota > 1
        /\ Goto(f, "reading")
        /\ UNCHANGED syncVars
     \/ /\ reader_quota <= 1
        /\ CallThen(f, "lock", "wakeup_lock", "await_grant")
  /\ UNCHANGED <<exited_readers, newly_granted_readers, pending_readers>>

\* Mutant: the grant is not looked at.
GrantedAlways == TRUE

Granted == newly_granted_readers # 0

\* WaitForRead.
AwaitGrant(f) ==
  /\ Here(f, "await_grant")
  /\ \/ /\ Granted
        /\ newly_granted_readers' = newly_granted_readers - 1
        /\ CallThen(f, "unlock", "wakeup_lock", "reading")
     \/ /\ ~Granted
        /\ Wait(f, "wakeup_cv", "wakeup_lock")
        /\ UNCHANGED <<newly_granted_readers, pc>>
  /\ UNCHANGED <<reader_quota, exited_readers, pending_readers>>

\* try_lock_shared fails at once when there is a writer.
TryLockShared(f) ==
  /\ f \in Readers
  /\ Here(f, "idle")
  /\ reader_quota > 0
  /\ reader_quota' = reader_quota - 1
  /\ Goto(f, "reading")
  /\ UNCHANGED <<exited_readers, newly_granted_readers, pending_readers, syncVars>>

\* Mutant: a reader that finds a writer waiting does not count its exit.
UnlockSharedSilent(f) ==
  /\ Here(f, "reading")
  /\ reader_quota' = reader_quota + 1
  /\ Goto(f, "idle")
  /\ UNCHANGED <<exited_readers, newly_granted_readers, pending_readers, syncVars>>

UnlockShared(f) ==
  /\ Here(f, "reading")
  /\ reader_quota' = reader_quota + 1
  /\ \/ /\ reader_quota > 0
        /\ Goto(f, "idle")
        /\ UNCHANGED syncVars
     \/ /\ reader_quota <= 0
        /\ CallThen(f, "lock", "wakeup_lock", "wakeup_writer")
  /\ UNCHANGED <<exited_readers, newly_granted_readers, pending_readers>>

\* Mutant: the writer is not told.
WakeupWriterSilent(f) ==
  /\ Here(f, "wakeup_writer")
  /\ exited_readers' = exited_readers + 1
  /\ Goto(f, "leave")
  /\ UNCHANGED <<reader_quota, newly_granted_readers, pending_readers, syncVars>>

WakeupWriter(f) ==
  /\ Here(f, "wakeup_writer")
  /\ exited_readers' = exited_readers + 1
  /\ CallThen(f, "notify_all", "wakeup_cv", "leave")
  /\ UNCHANGED <<reader_quota, newly_granted_readers, pending_readers>>

-----------------------------------------------------------------------------
\* What a fiber does once it has called: it works and unlocks.
Proceed(f) ==
  \/ Announce(f) \/ AwaitReaders(f) \/ TryQuota(f)
  \/ Unlock(f) \/ Release(f) \/ ReleaseWriter(f) \/ Leave(f)
  \/ AwaitGrant(f) \/ UnlockShared(f) \/ WakeupWriter(f)
  \/ /\ MutexStep(f) \/ NotifyAll(f) \/ SchedulerStep(f)
     /\ UNCHANGED mutexVars

Begin(f) == Lock(f) \/ TryLock(f) \/ LockShared(f) \/ TryLockShared(f)

Next == \E f \in Fibers : Begin(f) \/ Proceed(f)

Spec == Init /\ [][Next]_vars

FairSpec == Spec /\ \A f \in Fibers : WF_vars(Proceed(f))

-----------------------------------------------------------------------------
\* Every variable has its type: the counters never leave the range that as many
\* fibers can account for.
TypeOK ==
  /\ SyncTypeOK
  /\ reader_quota \in -kMaxReaders .. kMaxReaders
  /\ exited_readers \in 0 .. Cardinality(Fibers)
  /\ newly_granted_readers \in 0 .. Cardinality(Fibers)
  /\ pending_readers \in [Fibers -> 0 .. Cardinality(Fibers)]
  /\ pc \in [Fibers -> {"idle", "announce", "await_readers", "writing",
                        "try_quota", "release", "release_writer", "leave",
                        "reading", "await_grant", "wakeup_writer"}]

PcIn(labels) == {f \in Fibers : pc[f] \in labels}

\* The writer whose kMaxReaders is taken from the quota.
Announced == PcIn({"await_readers", "writing", "release"})

\* The counters account for every fiber.  Readers that are in or wait are what is
\* missing from the quota.  Without a writer every waiting reader has a grant;
\* a writer that waits still has to see the exit of exactly the readers that are
\* in, on their way out, or have a grant they have not taken, whichever reader
\* takes it; and a writer that is in has left no grant or exit uncounted.
ReadersAccounted ==
  LET in      == Cardinality(PcIn({"reading"}))
      waiting == Cardinality(PcIn({"await_grant"}))
      exiting == Cardinality(PcIn({"wakeup_writer"}))
  IN  /\ reader_quota =
           (IF Announced = {} THEN kMaxReaders ELSE 0) - in - waiting
      /\ Announced = {} => newly_granted_readers = waiting
      /\ PcIn({"await_readers"}) = {} => exited_readers + exiting = 0
      /\ \A f \in PcIn({"await_readers"}) :
           pending_readers[f] =
             exited_readers + exiting + in + newly_granted_readers
      /\ PcIn({"writing", "release"}) # {} => newly_granted_readers = 0

\* The checks that abort the process never fail: FLARE_CHECK on the quota in
\* lock_shared, try_lock_shared, lock, unlock and unlock_shared; in Mutex::unlock
\* that a counted waiter is in the wait chain; and that a fiber is made ready
\* only when it sleeps, so no wake-up comes twice or too early.
ChecksHold ==
  /\ WakesSleepers
  /\ \A f \in Fibers :
       /\ f \in Readers /\ Here(f, "idle") => reader_quota # 1
       /\ Here(f, "announce") => reader_quota \in 1 .. kMaxReaders
       /\ Here(f, "release") => reader_quota \in 1 - kMaxReaders .. 0
       /\ Here(f, "reading") => reader_quota < kMaxReaders
       /\ At(f, "unlock") => count[On(f)] > 0
       /\ At(f, "wake") /\ CanWake(On(f)) => waiters[On(f)] # <<>>

\* The code between lock and unlock of each of the two mutexes is run by one
\* fiber at a time, also when unlock hands the mutex to a waiter while others
\* try to take it.
MutexesExclude ==
  LET HereIn(labels) == {f \in PcIn(labels) : stack[f] = <<>>}
  IN  /\ Cardinality(HereIn({"announce", "await_readers", "try_quota", "writing",
                             "release", "release_writer"})) <= 1
      /\ Cardinality(HereIn({"await_readers", "await_grant", "wakeup_writer",
                             "release", "release_writer", "leave"})) <= 1

\* A fiber that wants to write gets in and out again, and one that is in gets
\* out, although readers keep coming: lock() waits for the readers it has found
\* and not for the new-comers, and no wake-up is lost.
WritersServed ==
  \A f \in Fibers : pc[f] \notin {"idle", "await_grant"} ~> Here(f, "idle")

\* A reader that waits gets in, unless writers keep coming: a new-comer may take
\* its grant, but the last writer leaves as many grants as there are readers.
ReadersServed ==
  \/ []<>(PcIn({"announce"}) # {})
  \/ \A f \in Fibers : pc[f] = "await_grant" ~> pc[f] = "reading"

-----------------------------------------------------------------------------
(* The refinement mapping to RwLock.                                        *)

Mode ==
  [f \in Fibers |->
     CASE pc[f] \in {"announce", "await_readers"} -> "want_unique"
       [] pc[f] \in {"writing", "release"} -> "unique"
       [] pc[f] = "await_grant" -> "want_shared"
       [] pc[f] = "reading" -> "shared"
       [] OTHER -> "none"]

Abstract == INSTANCE RwLock WITH mode <- Mode

\* SharedMutex is a readers-writer lock: the one HashKv's partitions rely on.
ImplementsRwLock == Abstract!Spec
=============================================================================
