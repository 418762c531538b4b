--------------------------- MODULE SharedMutexProofs ---------------------------
(***************************************************************************)
(* Theorems about flare::fiber::SharedMutex and the fiber mutexes and the  *)
(* condition variable it is built from, for any number of readers and      *)
(* writers (fewer than kMaxReaders).  The invariant says where a fiber can *)
(* be in its calls, what it has to do with each mutex, in which wait chain *)
(* it is, and what the counters count.  First come the parts about the     *)
(* mutexes and the wait chains, under SharedMutex's own steps and under    *)
(* those of FiberSync; then the counters; then the theorems.               *)
(***************************************************************************)
EXTENDS SharedMutex, FiniteSetTheorems, TLAPS

(***************************************************************************)
(* Where a fiber is: what its frames say, without the frames.              *)
(***************************************************************************)
LockAts == {"lock", "lock_slow", "enqueue", "halt", "asleep"}
UnlockAts == {"unlock", "wake", "ready"}
NotifyAts == {"notify_all", "ready"}
WaitAts == {"halt_wait", "asleep_wait"}

Frames ==
  [at : LockAts \cup UnlockAts \cup NotifyAts \cup WaitAts,
   on : Waitables, woken : Seq(Fibers)]

HaltWait == Frame("halt_wait", "wakeup_lock")

\* Only the unlock inside wait is called from another frame.
Stacks ==
  {<<>>} \cup {<<r>> : r \in Frames} \cup {<<r, HaltWait>> : r \in Frames}

StackTyped == stack \in [Fibers -> Stacks]

Where(f) == IF stack[f] = <<>> THEN "here" ELSE stack[f][1].at
Object(f) == IF stack[f] = <<>> THEN "none" ELSE stack[f][1].on
Woken(f) == IF stack[f] = <<>> THEN <<>> ELSE stack[f][1].woken
Nested(f) == Len(stack[f]) = 2

\* The other fibers stay where they are.
Others(f) ==
  \A g \in Fibers \ {f} :
    /\ Where(g)' = Where(g) /\ Object(g)' = Object(g)
    /\ Woken(g)' = Woken(g) /\ Nested(g)' = Nested(g)

\* The fiber is at a place with an empty list of woken fibers.
Arrives(f, at, on) ==
  Where(f)' = at /\ Object(f)' = on /\ Woken(f)' = <<>> /\ ~Nested(f)'

Labels == {"idle", "announce", "await_readers", "writing", "try_quota", "release",
           "release_writer", "leave", "reading", "await_grant", "wakeup_writer"}

\* The frames in the terms of Where, Object and Woken.
LEMMA AtPlace ==
  ASSUME StackTyped, NEW f \in Fibers, NEW at, At(f, at)
  PROVE  /\ stack[f] # <<>> /\ Where(f) = at
         /\ On(f) = Object(f) /\ Head(stack[f]).woken = Woken(f)
         /\ Object(f) \in Waitables /\ Woken(f) \in Seq(Fibers)
  BY DEF At, On, Where, Object, Woken, StackTyped, Stacks, Frames

LEMMA HerePlace ==
  ASSUME NEW f \in Fibers, stack[f] = <<>>
  PROVE  /\ Where(f) = "here" /\ Object(f) = "none"
         /\ Woken(f) = <<>> /\ ~Nested(f)
  BY DEF Where, Object, Woken, Nested

\* A call from SharedMutex's own code.
LEMMA CallForm ==
  ASSUME StackTyped, NEW f \in Fibers, stack[f] = <<>>,
         NEW at \in LockAts \cup UnlockAts \cup NotifyAts, NEW on \in Waitables,
         Call(f, at, on)
  PROVE  StackTyped' /\ Others(f) /\ Arrives(f, at, on)
  <1>1. Frame(at, on) \in Frames
    BY DEF Frame, Frames
  <1>2. stack' = [stack EXCEPT ![f] = <<Frame(at, on)>>]
    BY <1>1 DEF Call
  <1>3. StackTyped'
    BY Zenon, <1>1, <1>2 DEF StackTyped, Stacks
  <1>4. Others(f)
    BY Zenon, <1>2 DEF Others, StackTyped, Where, Object, Woken, Nested
  <1>5. stack'[f] = <<Frame(at, on)>>
    BY Zenon, <1>2 DEF StackTyped
  <1>6. Arrives(f, at, on)
    BY <1>1, <1>5 DEF Arrives, Frame, Where, Object, Woken, Nested
  <1> QED
    BY Zenon, <1>3, <1>4, <1>6

\* ConditionVariable::wait unlocks the user's lock in a nested call.
LEMMA WaitForm ==
  ASSUME StackTyped, NEW f \in Fibers, stack[f] = <<>>,
         Wait(f, "wakeup_cv", "wakeup_lock")
  PROVE  /\ StackTyped' /\ Others(f)
         /\ Where(f)' = "unlock" /\ Object(f)' = "wakeup_lock"
         /\ Woken(f)' = <<>> /\ Nested(f)'
  <1> DEFINE r == Frame("unlock", "wakeup_lock")
  <1>1. r \in Frames
    BY MemberAssumption DEF Frame, Frames, UnlockAts, Waitables
  <1>2. stack' = [stack EXCEPT ![f] = <<r, HaltWait>>]
    BY <1>1 DEF Wait, HaltWait
  <1>3. StackTyped'
    BY Zenon, <1>1, <1>2 DEF StackTyped, Stacks
  <1>4. Others(f)
    BY Zenon, <1>2 DEF Others, StackTyped, Where, Object, Woken, Nested
  <1>5. stack'[f] = <<r, HaltWait>>
    BY Zenon, <1>2 DEF StackTyped
  <1>6. /\ Where(f)' = "unlock" /\ Object(f)' = "wakeup_lock"
        /\ Woken(f)' = <<>> /\ Nested(f)'
    BY <1>1, <1>5 DEF Frame, Where, Object, Woken, Nested
  <1> QED
    BY Zenon, <1>3, <1>4, <1>6

\* The return from a call.
LEMMA ReturnForm ==
  ASSUME StackTyped, NEW f \in Fibers, stack[f] # <<>>, Return(f)
  PROVE  /\ StackTyped' /\ Others(f)
         /\ Nested(f) => Arrives(f, "halt_wait", "wakeup_lock")
         /\ ~Nested(f) => Arrives(f, "here", "none")
  <1>1. stack' = [stack EXCEPT ![f] = Tail(stack[f])]
    BY Zenon DEF Return
  <1>2. Others(f)
    BY Zenon, <1>1 DEF Others, StackTyped, Where, Object, Woken, Nested
  <1>3. CASE \E r \in Frames : stack[f] = <<r>>
    <2>1. stack'[f] = <<>> /\ ~Nested(f)
      BY <1>1, <1>3 DEF StackTyped, Nested
    <2>2. StackTyped'
      BY Zenon, <1>1, <2>1 DEF StackTyped, Stacks
    <2>3. Arrives(f, "here", "none")
      BY <2>1 DEF Arrives, Where, Object, Woken, Nested
    <2> QED
      BY Zenon, <1>2, <2>1, <2>2, <2>3
  <1>4. CASE \E r \in Frames : stack[f] = <<r, HaltWait>>
    <2>1. stack'[f] = <<HaltWait>> /\ Nested(f)
      BY <1>1, <1>4 DEF StackTyped, Nested
    <2>2. HaltWait \in Frames
      BY MemberAssumption DEF HaltWait, Frame, Frames, WaitAts, Waitables
    <2>3. StackTyped'
      BY Zenon, <1>1, <2>1, <2>2 DEF StackTyped, Stacks
    <2>4. Arrives(f, "halt_wait", "wakeup_lock")
      BY <2>1, <2>2 DEF Arrives, HaltWait, Frame, Where, Object, Woken, Nested
    <2> QED
      BY Zenon, <1>2, <2>1, <2>3, <2>4
  <1> QED
    BY Zenon, <1>3, <1>4 DEF StackTyped, Stacks

\* The innermost frame is replaced.
LEMMA TopForm ==
  ASSUME StackTyped, NEW f \in Fibers, stack[f] # <<>>, NEW r \in Frames,
         stack' = [stack EXCEPT ![f] = [stack[f] EXCEPT ![1] = r]]
  PROVE  /\ StackTyped' /\ Others(f)
         /\ Where(f)' = r.at /\ Object(f)' = r.on
         /\ Woken(f)' = r.woken /\ Nested(f)' = Nested(f)
  <1>1. Others(f)
    BY Zenon DEF Others, StackTyped, Where, Object, Woken, Nested
  <1>2. stack'[f] = [stack[f] EXCEPT ![1] = r]
    BY Zenon DEF StackTyped
  <1>3. CASE \E s \in Frames : stack[f] = <<s>>
    <2>1. stack'[f] = <<r>>
      BY <1>2, <1>3
    <2>2. StackTyped'
      BY Zenon, <2>1 DEF StackTyped, Stacks
    <2>3. ~Nested(f) /\ ~Nested(f)'
      BY <1>3, <2>1 DEF Nested
    <2>4. Where(f)' = r.at /\ Object(f)' = r.on /\ Woken(f)' = r.woken
      BY <2>1 DEF Where, Object, Woken
    <2>5. Nested(f)' = Nested(f)
      BY Zenon, <2>3 DEF Nested
    <2> QED
      BY Zenon, <1>1, <2>2, <2>4, <2>5
  <1>4. CASE \E s \in Frames : stack[f] = <<s, HaltWait>>
    <2>1. stack'[f] = <<r, HaltWait>>
      BY <1>2, <1>4
    <2>2. StackTyped'
      BY Zenon, <2>1 DEF StackTyped, Stacks
    <2>3. Nested(f) /\ Nested(f)'
      BY Zenon, <1>4, <2>1 DEF Nested
    <2>4. Where(f)' = r.at /\ Object(f)' = r.on /\ Woken(f)' = r.woken
      BY <2>1 DEF Where, Object, Woken
    <2>5. Nested(f)' = Nested(f)
      BY Zenon, <2>3 DEF Nested
    <2> QED
      BY Zenon, <1>1, <2>2, <2>4, <2>5
  <1> QED
    BY Zenon, <1>3, <1>4 DEF StackTyped, Stacks

\* The innermost frame is a frame.
LEMMA TopTyped ==
  ASSUME StackTyped, NEW f \in Fibers, stack[f] # <<>>
  PROVE  /\ stack[f][1] \in Frames
         /\ Where(f) = stack[f][1].at /\ Object(f) = stack[f][1].on
         /\ Woken(f) = stack[f][1].woken
  BY DEF StackTyped, Stacks, Where, Object, Woken

\* The fiber goes on inside its call.
LEMMA JumpForm ==
  ASSUME StackTyped, NEW f \in Fibers, stack[f] # <<>>,
         NEW at \in LockAts \cup UnlockAts \cup NotifyAts \cup WaitAts, Jump(f, at)
  PROVE  /\ StackTyped' /\ Others(f)
         /\ Where(f)' = at /\ Object(f)' = Object(f)
         /\ Woken(f)' = Woken(f) /\ Nested(f)' = Nested(f)
  <1> DEFINE r == [stack[f][1] EXCEPT !.at = at]
  <1>1. r \in Frames /\ r.at = at /\ r.on = Object(f) /\ r.woken = Woken(f)
    BY Zenon, TopTyped DEF Frames
  <1>2. stack' = [stack EXCEPT ![f] = [stack[f] EXCEPT ![1] = r]]
    BY Zenon DEF Jump
  <1> HIDE DEF r
  <1> QED
    BY Zenon, <1>1, <1>2, TopForm

\* Fibers have been taken from a wait chain.
LEMMA WokenForm ==
  ASSUME StackTyped, NEW f \in Fibers, stack[f] # <<>>,
         NEW woken \in Seq(Fibers),
         stack' = [stack EXCEPT ![f][1].woken = woken]
  PROVE  /\ StackTyped' /\ Others(f)
         /\ Where(f)' = Where(f) /\ Object(f)' = Object(f)
         /\ Woken(f)' = woken /\ Nested(f)' = Nested(f)
  <1> DEFINE r == [stack[f][1] EXCEPT !.woken = woken]
  <1>1. r \in Frames /\ r.at = Where(f) /\ r.on = Object(f) /\ r.woken = woken
    BY Zenon, TopTyped DEF Frames
  <1>2. stack' = [stack EXCEPT ![f] = [stack[f] EXCEPT ![1] = r]]
    BY Zenon
  <1> HIDE DEF r
  <1> QED
    BY Zenon, <1>1, <1>2, TopForm

\* unlock has taken the first waiter.
LEMMA WakeForm ==
  ASSUME StackTyped, NEW f \in Fibers, stack[f] # <<>>,
         NEW woken \in Seq(Fibers),
         stack' = [stack EXCEPT ![f][1].at = "ready", ![f][1].woken = woken]
  PROVE  /\ StackTyped' /\ Others(f)
         /\ Where(f)' = "ready" /\ Object(f)' = Object(f)
         /\ Woken(f)' = woken /\ Nested(f)' = Nested(f)
  <1> DEFINE q == [stack[f][1] EXCEPT !.at = "ready"]
             r == [q EXCEPT !.woken = woken]
  <1>1. r \in Frames /\ r.at = "ready" /\ r.on = Object(f) /\ r.woken = woken
    BY Zenon, TopTyped DEF Frames, UnlockAts
  <1>2. stack' = [stack EXCEPT ![f] = [stack[f] EXCEPT ![1] = r]]
    BY Zenon DEF StackTyped, Stacks
  <1> HIDE DEF r
  <1> QED
    BY Zenon, <1>1, <1>2, TopForm

(***************************************************************************)
(* The inductive invariant.                                                *)
(***************************************************************************)
SyncTyped ==
  /\ count \in [Mutexes -> Nat]
  /\ slow_path_lock \in [Mutexes -> Fibers \cup {Null}]
  /\ waiters \in [Waitables -> Seq(Fibers)]
  /\ persistent_awakened \in [Events -> BOOLEAN]
  /\ state \in [Fibers -> {"Running", "Waiting", "Ready"}]
  /\ scheduler_lock \in [Fibers -> BOOLEAN]
  /\ StackTyped

\* The calls a fiber can be in when it will go on at pc[f].
Place(f) ==
  \/ Where(f) = "here" /\ Object(f) = "none" /\ ~Nested(f)
  \/ /\ Where(f) \in LockAts /\ ~Nested(f)
     /\ \/ Object(f) = "writer_lock" /\ pc[f] = "announce"
        \/ /\ Object(f) = "wakeup_lock"
           /\ pc[f] \in {"await_readers", "release", "await_grant", "wakeup_writer"}
  \/ /\ Where(f) \in UnlockAts /\ ~Nested(f)
     /\ \/ Object(f) = "writer_lock" /\ pc[f] \in {"leave", "idle"}
        \/ /\ Object(f) = "wakeup_lock"
           /\ pc[f] \in {"writing", "reading", "idle"}
  \/ /\ Where(f) \in NotifyAts /\ ~Nested(f)
     /\ Object(f) = "wakeup_cv" /\ pc[f] \in {"release_writer", "leave"}
  \/ /\ \/ Where(f) \in WaitAts /\ ~Nested(f)
        \/ Where(f) \in UnlockAts /\ Nested(f)
     /\ Object(f) = "wakeup_lock" /\ pc[f] \in {"await_readers", "await_grant"}

\* The scheduler_lock is held from the entry into a wait chain to Halt.
Scheduled(f) ==
  /\ scheduler_lock[f] <=> Nested(f) \/ Where(f) \in {"halt", "halt_wait"}
  /\ state[f] = "Running" <=> Where(f) \notin {"asleep", "asleep_wait"}

PlaceInv ==
  /\ pc \in [Fibers -> Labels]
  /\ \A f \in Fibers : Place(f) /\ Scheduled(f)

\* A fiber has a mutex from the return of lock to the count_.fetch_sub(1) of
\* unlock.
Holds(f, m) ==
  IF m = "writer_lock"
  THEN \/ pc[f] = "announce" /\ Where(f) = "here"
       \/ pc[f] \in {"await_readers", "try_quota", "writing", "release",
                     "release_writer"}
       \/ Where(f) = "unlock" /\ Object(f) = "writer_lock"
  ELSE \/ /\ Where(f) = "here"
          /\ pc[f] \in {"await_readers", "await_grant", "wakeup_writer", "release",
                        "release_writer", "leave"}
       \/ Where(f) = "unlock" /\ Object(f) = "wakeup_lock"
       \/ Object(f) = "wakeup_cv"
       \/ pc[f] = "leave" /\ Object(f) = "writer_lock"

\* What a fiber has to do with a mutex: it has it, it is counted and about to
\* enter the wait chain, it has entered it, or it has to wake a waiter.
Status(f, m) ==
  IF Holds(f, m) THEN "hold"
  ELSE IF Object(f) # m THEN "none"
  ELSE IF Where(f) = "enqueue" THEN "enqueue"
  ELSE IF Where(f) \in {"halt", "asleep"} THEN "chain"
  ELSE IF Where(f) = "wake" THEN "wake"
  ELSE "none"

Queued(f, w) == \E i \in DOMAIN waiters[w] : waiters[w][i] = f

\* The fiber has the mutex, has to pass it on, or it has been passed to it.
Token(f, m) ==
  \/ Status(f, m) \in {"hold", "wake"}
  \/ Status(f, m) = "chain" /\ ~Queued(f, m)

Counted(m) == {f \in Fibers : Status(f, m) \in {"hold", "enqueue", "chain"}}

\* There is one token, count_ counts the owner and the waiters, and the one who
\* has to wake a waiter finds one.
MutexInv(m) ==
  /\ \A f, g \in Fibers : Token(f, m) /\ Token(g, m) => f = g
  /\ count[m] = Cardinality(Counted(m))
  /\ \A f \in Fibers : Queued(f, m) => Status(f, m) = "chain"
  /\ \A f \in Fibers :
       Status(f, m) = "wake" =>
         \E g \in Fibers : Status(g, m) \in {"enqueue", "chain"}
  /\ \A f \in Fibers : slow_path_lock[m] = f <=> Status(f, m) = "enqueue"

\* The object in whose wait chain the fiber is or was.
WaitsOn(f) ==
  IF Nested(f) \/ Where(f) \in WaitAts THEN "wakeup_cv"
  ELSE IF Where(f) \in {"halt", "asleep"} THEN Object(f) ELSE "none"

\* A fiber that waits is once in the wait chain of what it waits for, or has been
\* taken from it by one fiber that will make it ready, or is ready.
ChainInv ==
  /\ \A w \in Waitables : \A i \in DOMAIN waiters[w] :
       /\ WaitsOn(waiters[w][i]) = w /\ state[waiters[w][i]] # "Ready"
       /\ \A j \in DOMAIN waiters[w] : waiters[w][i] = waiters[w][j] => i = j
  /\ \A f \in Fibers : \A i \in DOMAIN Woken(f) :
       /\ WaitsOn(Woken(f)[i]) = Object(f) /\ state[Woken(f)[i]] # "Ready"
       /\ ~Queued(Woken(f)[i], Object(f))
       /\ \A g \in Fibers : \A j \in DOMAIN Woken(g) :
            Woken(f)[i] = Woken(g)[j] => f = g /\ i = j

\* Who has taken fibers from a wait chain.
WokenInv ==
  \A f \in Fibers :
    /\ Where(f) = "ready" => Woken(f) # <<>>
    /\ Where(f) \notin {"ready", "notify_all"} => Woken(f) = <<>>

SyncInv ==
  /\ SyncTyped /\ PlaceInv /\ ChainInv /\ WokenInv
  /\ \A m \in Mutexes : MutexInv(m)

\* ReadersAccounted, that no reader is in beside a writer, and that a writer has
\* found no more readers than there are.
CounterInv ==
  /\ reader_quota \in Int /\ exited_readers \in Nat
  /\ newly_granted_readers \in Nat
  /\ pending_readers \in [Fibers -> 0 .. Cardinality(Fibers)]
  /\ \A f \in Fibers : pc[f] # "await_readers" => pending_readers[f] = 0
  /\ ReadersAccounted
  /\ PcIn({"writing", "release"}) # {} => PcIn({"reading"}) = {}

IInv == SyncInv /\ CounterInv

(***************************************************************************)
(* One mutex: what each kind of step does to its invariant.                *)
(***************************************************************************)
\* The other fibers keep their status.
Still(f, m) == \A g \in Fibers \ {f} : Status(g, m)' = Status(g, m)

\* One fiber more.
LEMMA CardinalityMore ==
  ASSUME NEW S, IsFiniteSet(S), NEW x, x \notin S, NEW T, T = S \cup {x}
  PROVE  Cardinality(T) = Cardinality(S) + 1 /\ Cardinality(S) \in Nat
  BY Zenon, FS_AddElement, FS_CardinalityType

\* One fiber less.
LEMMA CardinalityLess ==
  ASSUME NEW S, IsFiniteSet(S), NEW x, x \in S, NEW T, T = S \ {x}
  PROVE  /\ IsFiniteSet(T) /\ Cardinality(S) \in Nat
         /\ Cardinality(T) = Cardinality(S) - 1
  BY Zenon, FS_RemoveElement, FS_CardinalityType

\* The set of counted fibers is finite.
LEMMA CountedFinite ==
  ASSUME NEW m
  PROVE  IsFiniteSet(Counted(m)) /\ Cardinality(Counted(m)) \in Nat
  <1>1. Counted(m) \in SUBSET Fibers
    BY Zenon DEF Counted
  <1> QED
    BY Zenon, <1>1, QuotaAssumption, FS_Subset, FS_CardinalityType

\* A step that is none of the mutex's.
LEMMA MutexQuiet ==
  ASSUME NEW m \in Mutexes, MutexInv(m),
         count'[m] = count[m], slow_path_lock'[m] = slow_path_lock[m],
         waiters'[m] = waiters[m],
         \A g \in Fibers : Status(g, m)' = Status(g, m)
  PROVE  MutexInv(m)'
  <1>1. \A g \in Fibers : (Queued(g, m)' <=> Queued(g, m))
    BY Zenon DEF Queued
  <1>2. \A g \in Fibers : (Token(g, m)' <=> Token(g, m))
    BY Zenon, <1>1 DEF Token
  <1>3. Counted(m)' = Counted(m)
    BY Zenon DEF Counted
  <1> QED
    BY Zenon, <1>1, <1>2, <1>3 DEF MutexInv

\* try_lock succeeds, or lock finds nobody on its slow path.
LEMMA MutexAcquire ==
  ASSUME NEW m \in Mutexes, MutexInv(m), NEW f \in Fibers,
         count[m] = 0, count'[m] = 1,
         slow_path_lock'[m] = slow_path_lock[m], waiters'[m] = waiters[m],
         Status(f, m) = "none", Status(f, m)' = "hold", Still(f, m)
  PROVE  MutexInv(m)'
  <1>1. Counted(m) = {}
    BY Zenon, CountedFinite, FS_EmptySet DEF MutexInv
  <1>2. \A g \in Fibers : Status(g, m) \notin {"hold", "enqueue", "chain", "wake"}
    BY Zenon, <1>1 DEF Counted, MutexInv
  <1>3. \A g \in Fibers : ~Queued(g, m)'
    BY Zenon, <1>2 DEF MutexInv, Queued
  <1>4. Counted(m)' = {f}
    BY Zenon, <1>2 DEF Counted, Still
  <1>5. Cardinality({f}) = 1
    BY Zenon, FS_Singleton
  <1>6. \A g \in Fibers : Token(g, m)' => g = f
    BY Zenon, <1>2 DEF Token, Still
  <1> QED
    BY Zenon, <1>2, <1>3, <1>4, <1>5, <1>6 DEF MutexInv, Still

\* lock finds the mutex taken and is counted.
LEMMA MutexEnlist ==
  ASSUME NEW m \in Mutexes, MutexInv(m), NEW f \in Fibers,
         count'[m] = count[m] + 1,
         slow_path_lock[m] = Null, slow_path_lock'[m] = f,
         waiters'[m] = waiters[m],
         Status(f, m) = "none", Status(f, m)' = "enqueue", Still(f, m)
  PROVE  MutexInv(m)'
  <1>1. \A g \in Fibers : Status(g, m) # "enqueue"
    BY Zenon, FiberAssumption DEF MutexInv
  <1>2. \A g \in Fibers : (Queued(g, m)' <=> Queued(g, m))
    BY Zenon DEF Queued
  <1>3. \A g \in Fibers : Token(g, m)' => Token(g, m)
    BY Zenon, <1>2 DEF Token, Still
  <1>4. Counted(m)' = Counted(m) \cup {f} /\ f \notin Counted(m)
    BY Zenon DEF Counted, Still
  <1>5. count'[m] = Cardinality(Counted(m)')
    BY Zenon, <1>4, CountedFinite, CardinalityMore DEF MutexInv
  <1>6. \A g \in Fibers :
          Status(g, m)' = "wake" =>
            \E h \in Fibers : Status(h, m)' \in {"enqueue", "chain"}
    BY Zenon
  <1>7. \A g \in Fibers : slow_path_lock'[m] = g <=> Status(g, m)' = "enqueue"
    BY Zenon, <1>1 DEF Still
  <1>8. \A g \in Fibers : Queued(g, m)' => Status(g, m)' = "chain"
    BY Zenon, <1>2 DEF MutexInv, Still
  <1> QED
    BY Zenon, <1>3, <1>5, <1>6, <1>7, <1>8 DEF MutexInv

\* AddWaiter puts it into the wait chain.
LEMMA MutexEnter ==
  ASSUME NEW m \in Mutexes, MutexInv(m), NEW f \in Fibers,
         waiters[m] \in Seq(Fibers),
         count'[m] = count[m], slow_path_lock'[m] = Null,
         waiters'[m] = Append(waiters[m], f),
         Status(f, m) = "enqueue", Status(f, m)' = "chain", Still(f, m)
  PROVE  MutexInv(m)'
  <1>1. \A g \in Fibers : Queued(g, m)' <=> Queued(g, m) \/ g = f
    BY DEF Queued
  <1>2. \A g \in Fibers : Token(g, m)' => Token(g, m)
    BY Zenon, <1>1 DEF Token, Still
  <1>3. Counted(m)' = Counted(m)
    BY Zenon DEF Counted, Still
  <1>4. \A g \in Fibers : Status(g, m) = "enqueue" => g = f
    BY Zenon DEF MutexInv
  <1>5. \A g \in Fibers : slow_path_lock'[m] = g <=> Status(g, m)' = "enqueue"
    BY Zenon, <1>4, FiberAssumption DEF Still
  <1>6. \A g \in Fibers : Queued(g, m)' => Status(g, m)' = "chain"
    BY Zenon, <1>1 DEF MutexInv, Still
  <1> QED
    BY Zenon, <1>2, <1>3, <1>5, <1>6 DEF MutexInv

\* unlock without a waiter.
LEMMA MutexFree ==
  ASSUME NEW m \in Mutexes, MutexInv(m), NEW f \in Fibers,
         count[m] = 1, count'[m] = 0,
         slow_path_lock'[m] = slow_path_lock[m], waiters'[m] = waiters[m],
         Status(f, m) = "hold", Status(f, m)' = "none", Still(f, m)
  PROVE  MutexInv(m)'
  <1>1. Counted(m) = {f}
    <2>1. f \in Counted(m)
      BY Zenon DEF Counted
    <2> DEFINE T == Counted(m) \ {f}
    <2>2. T = Counted(m) \ {f}
      BY Zenon
    <2> HIDE DEF T
    <2>3. Cardinality(T) = 0 /\ IsFiniteSet(T)
      <3>1. Cardinality(Counted(m)) = 1
        BY Zenon DEF MutexInv
      <3>2. IsFiniteSet(T) /\ Cardinality(T) = Cardinality(Counted(m)) - 1
        BY Zenon, <2>1, <2>2, CountedFinite, CardinalityLess
      <3> QED
        BY <3>1, <3>2
    <2> QED
      BY Zenon, <2>1, <2>2, <2>3, FS_EmptySet
  <1>2. \A g \in Fibers \ {f} : Status(g, m) \notin {"hold", "enqueue", "chain"}
    BY Zenon, <1>1 DEF Counted
  <1>3. \A g \in Fibers : Status(g, m) # "wake"
    BY Zenon, <1>2 DEF MutexInv
  <1>4. Counted(m)' = {}
    BY Zenon, <1>2 DEF Counted, Still
  <1>5. \A g \in Fibers : (Queued(g, m)' <=> Queued(g, m))
    BY Zenon DEF Queued
  <1>6. \A g \in Fibers : ~Token(g, m)'
    BY Zenon, <1>2, <1>3 DEF Token, Still
  <1>7. \A g \in Fibers : ~Queued(g, m)'
    BY Zenon, <1>2, <1>5 DEF MutexInv
  <1>8. \A g \in Fibers : slow_path_lock'[m] = g <=> Status(g, m)' = "enqueue"
    BY Zenon DEF Still, MutexInv
  <1> QED
    BY Zenon, <1>3, <1>4, <1>6, <1>7, <1>8, FS_EmptySet DEF MutexInv, Still

\* unlock with waiters: they stay counted.
LEMMA MutexPass ==
  ASSUME NEW m \in Mutexes, MutexInv(m), NEW f \in Fibers,
         count[m] # 1, count'[m] = count[m] - 1,
         slow_path_lock'[m] = slow_path_lock[m], waiters'[m] = waiters[m],
         Status(f, m) = "hold", Status(f, m)' = "wake", Still(f, m)
  PROVE  MutexInv(m)'
  <1>1. \A g \in Fibers : (Queued(g, m)' <=> Queued(g, m))
    BY Zenon DEF Queued
  <1>2. \A g \in Fibers : (Token(g, m)' <=> Token(g, m))
    BY Zenon, <1>1 DEF Token, Still
  <1>3. f \in Counted(m) /\ Counted(m)' = Counted(m) \ {f}
    BY Zenon DEF Counted, Still
  <1>4. count'[m] = Cardinality(Counted(m)')
    BY Zenon, <1>3, CountedFinite, CardinalityLess DEF MutexInv
  <1>5. PICK h \in Fibers \ {f} : Status(h, m) \in {"hold", "enqueue", "chain"}
    <2>1. Counted(m) # {f}
      BY Zenon, FS_Singleton DEF MutexInv
    <2> QED
      BY Zenon, <2>1, <1>3 DEF Counted
  <1>6. Status(h, m) # "hold"
    BY Zenon DEF MutexInv, Token
  <1>7. Status(h, m)' \in {"enqueue", "chain"}
    BY Zenon, <1>5, <1>6 DEF Still
  <1>8. \A g \in Fibers : slow_path_lock'[m] = g <=> Status(g, m)' = "enqueue"
    BY Zenon DEF Still, MutexInv
  <1>9. \A g \in Fibers : Queued(g, m)' => Status(g, m)' = "chain"
    BY Zenon, <1>1 DEF MutexInv, Still
  <1> QED
    BY Zenon, <1>2, <1>4, <1>7, <1>8, <1>9 DEF MutexInv

\* WakeOne passes the mutex to the first in the wait chain.
LEMMA MutexHand ==
  ASSUME NEW m \in Mutexes, MutexInv(m), NEW f \in Fibers,
         waiters[m] \in Seq(Fibers), waiters[m] # <<>>,
         \A i, j \in DOMAIN waiters[m] : waiters[m][i] = waiters[m][j] => i = j,
         count'[m] = count[m], slow_path_lock'[m] = slow_path_lock[m],
         waiters'[m] = Tail(waiters[m]),
         Status(f, m) = "wake", Status(f, m)' = "none", Still(f, m)
  PROVE  MutexInv(m)'
  <1> DEFINE h == Head(waiters[m])
  <1>1. h \in Fibers /\ Queued(h, m)
    BY DEF Queued
  <1>2. \A g \in Fibers : Queued(g, m)' <=> Queued(g, m) /\ g # h
    <2>1. \A i \in DOMAIN waiters'[m] :
            i + 1 \in DOMAIN waiters[m] /\ waiters'[m][i] = waiters[m][i + 1]
            /\ i + 1 # 1
      OBVIOUS
    <2>2. \A i \in DOMAIN waiters[m] :
            i # 1 => i - 1 \in DOMAIN waiters'[m]
                     /\ waiters'[m][i - 1] = waiters[m][i]
      OBVIOUS
    <2>3. 1 \in DOMAIN waiters[m] /\ h = waiters[m][1]
      OBVIOUS
    <2> HIDE DEF h
    <2>4. ASSUME NEW g \in Fibers, Queued(g, m)' PROVE Queued(g, m) /\ g # h
      BY Zenon, <2>1, <2>3, <2>4 DEF Queued
    <2>5. ASSUME NEW g \in Fibers, Queued(g, m), g # h PROVE Queued(g, m)'
      BY Zenon, <2>2, <2>3, <2>5 DEF Queued
    <2> QED
      BY Zenon, <2>4, <2>5
  <1> HIDE DEF h
  <1>3. Status(h, m) = "chain" /\ h # f
    BY Zenon, <1>1 DEF MutexInv
  <1>4. \A g \in Fibers : Token(g, m) => g = f
    BY Zenon DEF MutexInv, Token
  <1>5. \A g \in Fibers : Token(g, m)' => g = h
    BY Zenon, <1>2, <1>4 DEF Token, Still
  <1>6. Counted(m)' = Counted(m)
    BY Zenon DEF Counted, Still
  <1>7. \A g \in Fibers : Status(g, m)' # "wake"
    BY Zenon, <1>4 DEF Token, Still
  <1>8. \A g \in Fibers : slow_path_lock'[m] = g <=> Status(g, m)' = "enqueue"
    BY Zenon DEF Still, MutexInv
  <1>9. \A g \in Fibers : Queued(g, m)' => Status(g, m)' = "chain"
    BY Zenon, <1>2 DEF MutexInv, Still
  <1> QED
    BY Zenon, <1>5, <1>6, <1>7, <1>8, <1>9 DEF MutexInv

\* The fiber to which the mutex was passed runs again.
LEMMA MutexTake ==
  ASSUME NEW m \in Mutexes, MutexInv(m), NEW f \in Fibers,
         count'[m] = count[m], slow_path_lock'[m] = slow_path_lock[m],
         waiters'[m] = waiters[m], ~Queued(f, m),
         Status(f, m) = "chain", Status(f, m)' = "hold", Still(f, m)
  PROVE  MutexInv(m)'
  <1>1. \A g \in Fibers : (Queued(g, m)' <=> Queued(g, m))
    BY Zenon DEF Queued
  <1>2. \A g \in Fibers : (Token(g, m)' <=> Token(g, m))
    BY Zenon, <1>1 DEF Token, Still
  <1>3. Counted(m)' = Counted(m)
    BY Zenon DEF Counted, Still
  <1>4. \A g \in Fibers : Status(g, m) # "wake"
    BY Zenon DEF MutexInv, Token
  <1>5. \A g \in Fibers : slow_path_lock'[m] = g <=> Status(g, m)' = "enqueue"
    BY Zenon DEF Still, MutexInv
  <1>6. \A g \in Fibers : Queued(g, m)' => Status(g, m)' = "chain"
    BY Zenon, <1>1 DEF MutexInv, Still
  <1> QED
    BY Zenon, <1>2, <1>3, <1>4, <1>5, <1>6 DEF MutexInv, Still

(***************************************************************************)
(* The wait chains: what each kind of step does to ChainInv.               *)
(***************************************************************************)
\* Woken fibers are fibers, and come from the chain of an object.
LEMMA WokenTyped ==
  ASSUME StackTyped
  PROVE  \A f \in Fibers :
           /\ Woken(f) \in Seq(Fibers)
           /\ Woken(f) # <<>> => Object(f) \in Waitables
  BY DEF StackTyped, Stacks, Frames, Woken, Object

LEMMA NoneIsNoObject == "none" \notin Waitables
  BY Zenon, MemberAssumption DEF Waitables

\* A step that moves nobody into or out of a chain.
LEMMA ChainQuiet ==
  ASSUME SyncTyped, ChainInv, waiters' = waiters,
         \A g \in Fibers :
           /\ WaitsOn(g)' = WaitsOn(g) /\ Woken(g)' = Woken(g)
           /\ Woken(g) # <<>> => Object(g)' = Object(g)
           /\ state'[g] = "Ready" => state[g] = "Ready"
  PROVE  ChainInv'
  <1>1. \A w \in Waitables : \A i \in DOMAIN waiters[w] : waiters[w][i] \in Fibers
    BY DEF SyncTyped
  <1>2. \A f \in Fibers : \A i \in DOMAIN Woken(f) : Woken(f)[i] \in Fibers /\ Woken(f) # <<>>
    BY WokenTyped DEF SyncTyped
  <1>3. \A w \in Waitables : \A i \in DOMAIN waiters'[w] :
          /\ WaitsOn(waiters[w][i])' = w /\ state'[waiters'[w][i]] # "Ready"
          /\ \A j \in DOMAIN waiters'[w] : waiters'[w][i] = waiters'[w][j] => i = j
    BY Zenon, <1>1 DEF ChainInv
  <1>4. ASSUME NEW f \in Fibers, NEW i \in DOMAIN Woken(f)'
        PROVE  /\ WaitsOn(Woken(f)[i])' = Object(f)' /\ state'[Woken(f)'[i]] # "Ready"
               /\ ~Queued(Woken(f)[i], Object(f))'
               /\ \A g \in Fibers : \A j \in DOMAIN Woken(g)' :
                    Woken(f)'[i] = Woken(g)'[j] => f = g /\ i = j
    BY <1>2 DEF ChainInv, Queued
  <1> QED
    BY Zenon, <1>3, <1>4 DEF ChainInv

\* AddWaiter: the fiber was in no chain.
LEMMA ChainEnter ==
  ASSUME SyncTyped, ChainInv, NEW f \in Fibers, NEW w \in Waitables,
         AddWaiter(w, f), WaitsOn(f) = "none", WaitsOn(f)' = w,
         state' = state, state[f] # "Ready",
         \A g \in Fibers \ {f} : WaitsOn(g)' = WaitsOn(g),
         \A g \in Fibers :
           /\ Woken(g)' = Woken(g)
           /\ Woken(g) # <<>> => Object(g)' = Object(g)
  PROVE  ChainInv'
  <1> DEFINE n == Len(waiters[w]) + 1
  <1>1. /\ \A v \in Waitables : waiters[v] \in Seq(Fibers)
        /\ \A v \in Waitables \ {w} : waiters'[v] = waiters[v]
        /\ waiters'[w] = Append(waiters[w], f)
    BY Zenon DEF SyncTyped, AddWaiter
  <1>2. /\ DOMAIN waiters'[w] = DOMAIN waiters[w] \cup {n}
        /\ \A i \in DOMAIN waiters[w] : waiters'[w][i] = waiters[w][i] /\ i # n
        /\ waiters'[w][n] = f
    BY <1>1
  <1> HIDE DEF n
  <1>3. \A v \in Waitables : \A i \in DOMAIN waiters[v] :
          waiters[v][i] \in Fibers \ {f}
    BY <1>1, NoneIsNoObject DEF ChainInv
  <1>4. \A g \in Fibers : \A i \in DOMAIN Woken(g) :
          Woken(g)[i] \in Fibers \ {f} /\ Woken(g) # <<>> /\ Object(g) \in Waitables
    BY WokenTyped, NoneIsNoObject DEF SyncTyped, ChainInv
  <1>5. ASSUME NEW v \in Waitables, NEW i \in DOMAIN waiters'[v]
        PROVE  /\ WaitsOn(waiters[v][i])' = v /\ state'[waiters'[v][i]] # "Ready"
               /\ \A j \in DOMAIN waiters'[v] : waiters'[v][i] = waiters'[v][j] => i = j
    <2>1. CASE v # w
      BY <2>1, <1>1, <1>3 DEF ChainInv
    <2>2. CASE v = w
      <3>1. CASE i = n
        BY Zenon, <2>2, <3>1, <1>2, <1>3
      <3>2. CASE i \in DOMAIN waiters[w]
        BY <2>2, <3>2, <1>2, <1>3 DEF ChainInv
      <3> QED
        BY Zenon, <3>1, <3>2, <2>2, <1>2
    <2> QED
      BY Zenon, <2>1, <2>2
  <1>6. ASSUME NEW g \in Fibers, NEW i \in DOMAIN Woken(g)'
        PROVE  /\ WaitsOn(Woken(g)[i])' = Object(g)' /\ state'[Woken(g)'[i]] # "Ready"
               /\ ~Queued(Woken(g)[i], Object(g))'
               /\ \A h \in Fibers : \A j \in DOMAIN Woken(h)' :
                    Woken(g)'[i] = Woken(h)'[j] => g = h /\ i = j
    <2>1. ~Queued(Woken(g)[i], Object(g))'
      BY <1>1, <1>2, <1>4 DEF ChainInv, Queued
    <2> QED
      BY <2>1, <1>4 DEF ChainInv
  <1> QED
    BY Zenon, <1>5, <1>6 DEF ChainInv

\* WakeOne: the first of a chain passes to the fiber that will make it ready.
LEMMA ChainTake ==
  ASSUME SyncTyped, ChainInv, NEW f \in Fibers, NEW w \in Waitables,
         waiters[w] # <<>>, WakeOne(w), state' = state,
         \A g \in Fibers : WaitsOn(g)' = WaitsOn(g),
         \A g \in Fibers \ {f} : Woken(g)' = Woken(g) /\ Object(g)' = Object(g),
         Object(f) = w, Object(f)' = w,
         Woken(f)' = Append(Woken(f), Head(waiters[w]))
  PROVE  ChainInv'
  <1>0. PICK h, n : h = Head(waiters[w]) /\ n = Len(Woken(f)) + 1
    BY Zenon
  <1>1. /\ \A v \in Waitables : waiters[v] \in Seq(Fibers)
        /\ \A v \in Waitables \ {w} : waiters'[v] = waiters[v]
        /\ waiters'[w] = Tail(waiters[w])
    BY Zenon DEF SyncTyped, WakeOne
  <1>2. /\ 1 \in DOMAIN waiters[w] /\ waiters[w][1] = h /\ h \in Fibers
        /\ \A i \in DOMAIN waiters'[w] :
             /\ i + 1 \in DOMAIN waiters[w] /\ waiters'[w][i] = waiters[w][i + 1]
             /\ i + 1 # 1 /\ i \in Nat
    BY <1>0, <1>1
  <1>3. /\ DOMAIN Woken(f)' = DOMAIN Woken(f) \cup {n}
        /\ \A i \in DOMAIN Woken(f) : Woken(f)'[i] = Woken(f)[i] /\ i # n
        /\ Woken(f)'[n] = h
    BY <1>0, <1>2, WokenTyped DEF SyncTyped
  <1>4. \A v \in Waitables : \A i \in DOMAIN waiters'[v] :
          \E j \in DOMAIN waiters[v] :
            waiters'[v][i] = waiters[v][j] /\ waiters'[v][i] # h
    <2>1. \A v \in Waitables \ {w} : \A i \in DOMAIN waiters[v] : waiters[v][i] # h
      BY <1>2 DEF ChainInv
    <2>2. \A i \in DOMAIN waiters'[w] :
            waiters'[w][i] = waiters[w][i + 1] /\ waiters'[w][i] # h
      BY <1>2 DEF ChainInv
    <2>3. ASSUME NEW v \in Waitables, NEW i \in DOMAIN waiters'[v]
          PROVE  \E j \in DOMAIN waiters[v] :
                   waiters'[v][i] = waiters[v][j] /\ waiters'[v][i] # h
      <3>1. CASE v = w
        BY Zenon, <3>1, <1>2, <2>2
      <3>2. CASE v # w
        BY Zenon, <3>2, <1>1, <2>1
      <3> QED
        BY Zenon, <3>1, <3>2
    <2> QED
      BY Zenon, <2>3
  <1>5. \A g \in Fibers : \A i \in DOMAIN Woken(g) :
          Woken(g)[i] # h /\ Woken(g)[i] \in Fibers /\ Object(g) \in Waitables
    <2>1. ASSUME NEW g \in Fibers, NEW i \in DOMAIN Woken(g)
          PROVE  Woken(g)[i] # h
      <3>1. WaitsOn(h) = w /\ Queued(h, w)
        BY Zenon, <1>2 DEF ChainInv, Queued
      <3> QED
        BY <3>1 DEF ChainInv
    <2> QED
      BY <2>1, WokenTyped DEF SyncTyped
  <1>6. ASSUME NEW v \in Waitables, NEW i \in DOMAIN waiters'[v]
        PROVE  /\ WaitsOn(waiters[v][i])' = v /\ state'[waiters'[v][i]] # "Ready"
               /\ \A j \in DOMAIN waiters'[v] : waiters'[v][i] = waiters'[v][j] => i = j
    <2>1. /\ WaitsOn(waiters[v][i])' = v /\ state'[waiters'[v][i]] # "Ready"
      BY <1>1, <1>4 DEF ChainInv
    <2>2. CASE v # w
      BY Zenon, <2>1, <2>2, <1>1 DEF ChainInv
    <2>3. CASE v = w
      BY <2>1, <2>3, <1>2 DEF ChainInv
    <2> QED
      BY Zenon, <2>2, <2>3
  <1>7. ASSUME NEW g \in Fibers, NEW i \in DOMAIN Woken(g)'
        PROVE  /\ WaitsOn(Woken(g)[i])' = Object(g)' /\ state'[Woken(g)'[i]] # "Ready"
               /\ ~Queued(Woken(g)[i], Object(g))'
    <2>1. CASE g = f /\ i = n
      <3>1. WaitsOn(h) = w /\ state[h] # "Ready"
        BY Zenon, <1>2 DEF ChainInv
      <3>2. ~Queued(h, w)'
        BY Zenon, <1>4 DEF Queued
      <3> QED
        BY Zenon, <2>1, <3>1, <3>2, <1>2, <1>3 DEF Queued
    <2>2. CASE i \in DOMAIN Woken(g) /\ Woken(g)'[i] = Woken(g)[i]
      <3>1. /\ WaitsOn(Woken(g)[i]) = Object(g) /\ state[Woken(g)[i]] # "Ready"
            /\ ~Queued(Woken(g)[i], Object(g))
        BY Zenon, <2>2 DEF ChainInv
      <3>2. Object(g)' = Object(g) /\ Object(g) \in Waitables /\ Woken(g)[i] \in Fibers
        BY Zenon, <2>2, <1>5
      <3>3. ~Queued(Woken(g)[i], Object(g))'
        BY <2>2, <3>1, <3>2, <1>4 DEF Queued
      <3> QED
        BY Zenon, <2>2, <3>1, <3>2, <3>3
    <2> QED
      BY Zenon, <2>1, <2>2, <1>3
  <1>8. ASSUME NEW g \in Fibers, NEW i \in DOMAIN Woken(g)',
               NEW k \in Fibers, NEW j \in DOMAIN Woken(k)', Woken(g)'[i] = Woken(k)'[j]
        PROVE  g = k /\ i = j
    <2>1. \/ g = f /\ i = n /\ Woken(g)'[i] = h
          \/ i \in DOMAIN Woken(g) /\ Woken(g)'[i] = Woken(g)[i]
      BY Zenon, <1>3
    <2>2. \/ k = f /\ j = n /\ Woken(k)'[j] = h
          \/ j \in DOMAIN Woken(k) /\ Woken(k)'[j] = Woken(k)[j]
      BY Zenon, <1>3
    <2> QED
      BY <2>1, <2>2, <1>5, <1>8 DEF ChainInv
  <1> QED
    BY Zenon, <1>6, <1>7, <1>8 DEF ChainInv

\* ReadyFiber: the first of the woken fibers is in no list any more.
LEMMA ChainReady ==
  ASSUME SyncTyped, ChainInv, NEW f \in Fibers, Woken(f) # <<>>,
         state' = [state EXCEPT ![Head(Woken(f))] = "Ready"], waiters' = waiters,
         \A g \in Fibers : WaitsOn(g)' = WaitsOn(g),
         \A g \in Fibers \ {f} : Woken(g)' = Woken(g) /\ Object(g)' = Object(g),
         Woken(f)' = Tail(Woken(f)), Woken(f)' # <<>> => Object(f)' = Object(f)
  PROVE  ChainInv'
  <1>0. PICK h : h = Head(Woken(f))
    BY Zenon
  <1>1. \A g \in Fibers : Woken(g) \in Seq(Fibers)
    BY Zenon, WokenTyped DEF SyncTyped
  <1>2. /\ 1 \in DOMAIN Woken(f) /\ Woken(f)[1] = h /\ h \in Fibers
        /\ \A i \in DOMAIN Woken(f)' :
             /\ i + 1 \in DOMAIN Woken(f) /\ Woken(f)'[i] = Woken(f)[i + 1]
             /\ i + 1 # 1 /\ i \in Nat
    BY <1>0, <1>1
  <1>3. \A w \in Waitables : \A i \in DOMAIN waiters[w] :
          waiters[w][i] \in Fibers /\ waiters[w][i] # h
    <2>1. WaitsOn(h) = Object(f) /\ ~Queued(h, Object(f))
      BY Zenon, <1>2 DEF ChainInv
    <2>2. ASSUME NEW w \in Waitables, NEW i \in DOMAIN waiters[w] PROVE waiters[w][i] # h
      BY <2>1 DEF ChainInv, Queued
    <2> QED
      BY <2>2 DEF SyncTyped
  <1>4. \A g \in Fibers : \A i \in DOMAIN Woken(g)' :
          /\ Woken(g)'[i] \in Fibers \ {h} /\ Object(g)' = Object(g)
          /\ \E j \in DOMAIN Woken(g) : Woken(g)'[i] = Woken(g)[j]
    <2>1. ASSUME NEW g \in Fibers \ {f}, NEW i \in DOMAIN Woken(g)
          PROVE  Woken(g)[i] # h
      BY Zenon, <1>2 DEF ChainInv
    <2>2. ASSUME NEW i \in DOMAIN Woken(f)'
          PROVE  /\ Woken(f)'[i] \in Fibers \ {h} /\ Object(f)' = Object(f)
                 /\ \E j \in DOMAIN Woken(f) : Woken(f)'[i] = Woken(f)[j]
      <3>1. Woken(f)[i + 1] # h
        BY <1>2 DEF ChainInv
      <3>2. Woken(f)' # <<>>
        BY <1>2
      <3> QED
        BY <1>1, <1>2, <3>1, <3>2
    <2>3. ASSUME NEW g \in Fibers, NEW i \in DOMAIN Woken(g)'
          PROVE  /\ Woken(g)'[i] \in Fibers \ {h} /\ Object(g)' = Object(g)
                 /\ \E j \in DOMAIN Woken(g) : Woken(g)'[i] = Woken(g)[j]
      <3>1. CASE g = f
        BY Zenon, <3>1, <2>2
      <3>2. CASE g # f
        BY <3>2, <1>1, <2>1
      <3> QED
        BY Zenon, <3>1, <3>2
    <2> QED
      BY Zenon, <2>3
  <1>5. \A g \in Fibers \ {h} : state'[g] = state[g]
    BY Zenon, <1>0 DEF SyncTyped
  <1>6. \A w \in Waitables : \A i \in DOMAIN waiters'[w] :
          /\ WaitsOn(waiters[w][i])' = w /\ state'[waiters'[w][i]] # "Ready"
          /\ \A j \in DOMAIN waiters'[w] : waiters'[w][i] = waiters'[w][j] => i = j
    BY <1>3, <1>5 DEF ChainInv
  <1>7. ASSUME NEW g \in Fibers, NEW i \in DOMAIN Woken(g)'
        PROVE  /\ WaitsOn(Woken(g)[i])' = Object(g)' /\ state'[Woken(g)'[i]] # "Ready"
               /\ ~Queued(Woken(g)[i], Object(g))'
    <2>1. PICK j \in DOMAIN Woken(g) : Woken(g)'[i] = Woken(g)[j]
      BY Zenon, <1>4
    <2>2. /\ WaitsOn(Woken(g)[j]) = Object(g) /\ state[Woken(g)[j]] # "Ready"
          /\ ~Queued(Woken(g)[j], Object(g))
      BY Zenon DEF ChainInv
    <2> QED
      BY Zenon, <2>1, <2>2, <1>4, <1>5 DEF Queued
  <1>8. ASSUME NEW g \in Fibers, NEW i \in DOMAIN Woken(g)',
               NEW k \in Fibers, NEW j \in DOMAIN Woken(k)', Woken(g)'[i] = Woken(k)'[j]
        PROVE  g = k /\ i = j
    <2>1. g = k
      BY <1>4, <1>8 DEF ChainInv
    <2>2. CASE g = f
      BY <2>1, <2>2, <1>2, <1>8 DEF ChainInv
    <2>3. CASE g # f
      BY <2>1, <2>3, <1>8 DEF ChainInv
    <2> QED
      BY Zenon, <2>1, <2>2, <2>3
  <1> QED
    BY Zenon, <1>6, <1>7, <1>8 DEF ChainInv

\* AcquireFiber: a fiber that is ready is in no list.
LEMMA ChainResume ==
  ASSUME SyncTyped, ChainInv, NEW f \in Fibers, state[f] = "Ready",
         state' = [state EXCEPT ![f] = "Running"], waiters' = waiters,
         \A g \in Fibers \ {f} : WaitsOn(g)' = WaitsOn(g),
         \A g \in Fibers :
           /\ Woken(g)' = Woken(g)
           /\ Woken(g) # <<>> => Object(g)' = Object(g)
  PROVE  ChainInv'
  <1>1. \A w \in Waitables : \A i \in DOMAIN waiters[w] : waiters[w][i] \in Fibers \ {f}
    BY DEF SyncTyped, ChainInv
  <1>2. \A g \in Fibers : \A i \in DOMAIN Woken(g) :
          Woken(g)[i] \in Fibers \ {f} /\ Woken(g) # <<>>
    BY WokenTyped DEF SyncTyped, ChainInv
  <1>3. \A g \in Fibers \ {f} : state'[g] = state[g]
    BY Zenon DEF SyncTyped
  <1>4. \A w \in Waitables : \A i \in DOMAIN waiters'[w] :
          /\ WaitsOn(waiters[w][i])' = w /\ state'[waiters'[w][i]] # "Ready"
          /\ \A j \in DOMAIN waiters'[w] : waiters'[w][i] = waiters'[w][j] => i = j
    BY <1>1, <1>3 DEF ChainInv
  <1>5. ASSUME NEW g \in Fibers, NEW i \in DOMAIN Woken(g)'
        PROVE  /\ WaitsOn(Woken(g)[i])' = Object(g)' /\ state'[Woken(g)'[i]] # "Ready"
               /\ ~Queued(Woken(g)[i], Object(g))'
               /\ \A h \in Fibers : \A j \in DOMAIN Woken(h)' :
                    Woken(g)'[i] = Woken(h)'[j] => g = h /\ i = j
    BY <1>2, <1>3 DEF ChainInv, Queued
  <1> QED
    BY Zenon, <1>4, <1>5 DEF ChainInv

(***************************************************************************)
(* A step of a fiber leaves the others where they are.                     *)
(***************************************************************************)
OthersGoOn(f) == \A g \in Fibers \ {f} : pc'[g] = pc[g]

LEMMA OthersStay ==
  ASSUME NEW f \in Fibers, Others(f), OthersGoOn(f)
  PROVE  /\ \A g \in Fibers \ {f} :
              (Place(g)' <=> Place(g)) /\ WaitsOn(g)' = WaitsOn(g)
         /\ \A m \in Mutexes : Still(f, m)
  <1>1. ASSUME NEW g \in Fibers \ {f}
        PROVE  (Place(g)' <=> Place(g)) /\ WaitsOn(g)' = WaitsOn(g)
    <2>1. /\ Where(g)' = Where(g) /\ Object(g)' = Object(g)
          /\ (Nested(g)' <=> Nested(g)) /\ pc'[g] = pc[g]
      BY Zenon DEF Others, OthersGoOn
    <2> QED
      BY Zenon, <2>1 DEF Place, WaitsOn
  <1>2. ASSUME NEW m \in Mutexes, NEW g \in Fibers \ {f}
        PROVE  Status(g, m)' = Status(g, m)
    BY Zenon DEF Others, OthersGoOn, Status, Holds
  <1> QED
    BY Zenon, <1>1, <1>2 DEF Still

LEMMA PlaceStep ==
  ASSUME PlaceInv, NEW f \in Fibers, Others(f), OthersGoOn(f),
         pc' \in [Fibers -> Labels],
         \A g \in Fibers \ {f} :
           /\ scheduler_lock'[g] = scheduler_lock[g]
           /\ state'[g] = "Running" <=> state[g] = "Running",
         Place(f)', Scheduled(f)'
  PROVE  PlaceInv'
  <1>1. ASSUME NEW g \in Fibers \ {f} PROVE Scheduled(g)'
    <2>1. /\ Where(g)' = Where(g) /\ (Nested(g)' <=> Nested(g))
          /\ Scheduled(g)
      BY Zenon DEF Others, PlaceInv
    <2> QED
      BY Zenon, <2>1 DEF Scheduled
  <1> QED
    BY Zenon, <1>1, OthersStay DEF PlaceInv

LEMMA WokenStep ==
  ASSUME WokenInv, NEW f \in Fibers, Others(f),
         Where(f)' = "ready" => Woken(f)' # <<>>,
         Where(f)' \notin {"ready", "notify_all"} => Woken(f)' = <<>>
  PROVE  WokenInv'
  BY Zenon DEF WokenInv, Others

\* The whole of SyncInv, for a step that no mutex and no chain notices.
LEMMA QuietStep ==
  ASSUME SyncInv, SyncTyped', NEW f \in Fibers, Others(f), OthersGoOn(f),
         pc' \in [Fibers -> Labels],
         UNCHANGED <<count, slow_path_lock, waiters, state, scheduler_lock>>,
         Place(f)', Scheduled(f)', Woken(f) = <<>>, Woken(f)' = <<>>,
         Where(f)' # "ready", WaitsOn(f)' = WaitsOn(f),
         \A m \in Mutexes : Status(f, m)' = Status(f, m)
  PROVE  SyncInv'
  <1>1. PlaceInv' /\ WokenInv'
    BY Zenon, PlaceStep, WokenStep DEF SyncInv
  <1>2. \A m \in Mutexes : \A g \in Fibers : Status(g, m)' = Status(g, m)
    BY Zenon, OthersStay DEF Still
  <1>3. \A m \in Mutexes : MutexInv(m)'
    BY Zenon, <1>2, MutexQuiet DEF SyncInv
  <1>4. \A g \in Fibers :
          /\ WaitsOn(g)' = WaitsOn(g) /\ Woken(g)' = Woken(g)
          /\ Woken(g) # <<>> => Object(g)' = Object(g)
    BY Zenon, OthersStay DEF Others
  <1>5. ChainInv'
    BY Zenon, <1>4, ChainQuiet DEF SyncInv
  <1> QED
    BY Zenon, <1>1, <1>3, <1>5 DEF SyncInv

\* A call from SharedMutex's own code.
LEMMA CallStep ==
  ASSUME SyncInv, NEW f \in Fibers, stack[f] = <<>>,
         NEW at \in {"lock", "unlock", "notify_all"}, NEW on \in Waitables,
         NEW l \in Labels, CallThen(f, at, on, l),
         Arrives(f, at, on) /\ pc'[f] = l =>
           Place(f)' /\ \A m \in Mutexes : Status(f, m)' = Status(f, m)
  PROVE  SyncInv'
  <1>1. SyncTyped /\ StackTyped /\ PlaceInv
    BY Zenon DEF SyncInv, SyncTyped
  <1>2. StackTyped' /\ Others(f) /\ Arrives(f, at, on)
    BY Zenon, <1>1, CallForm DEF CallThen, LockAts, UnlockAts, NotifyAts
  <1>3. /\ pc' \in [Fibers -> Labels] /\ OthersGoOn(f) /\ pc'[f] = l
        /\ UNCHANGED <<count, slow_path_lock, waiters, state, scheduler_lock>>
        /\ SyncTyped'
    BY Zenon, <1>1, <1>2 DEF CallThen, Goto, PlaceInv, OthersGoOn, objectVars, schedulerVars,
                      SyncTyped
  <1>4. /\ Where(f) = "here" /\ ~Nested(f) /\ Woken(f) = <<>>
        /\ WaitsOn(f) = "none" /\ Scheduled(f)
    BY Zenon, <1>1, HerePlace DEF WaitsOn, WaitAts, PlaceInv
  <1>5. /\ Woken(f)' = <<>> /\ Where(f)' # "ready" /\ WaitsOn(f)' = "none"
        /\ Scheduled(f)'
    BY Zenon, <1>2, <1>3, <1>4 DEF Arrives, WaitsOn, WaitAts, Scheduled
  <1> QED
    BY Zenon, <1>2, <1>3, <1>4, <1>5, QuietStep

\* A step of SharedMutex's own code that makes no call.
LEMMA GotoStep ==
  ASSUME SyncInv, NEW f \in Fibers, stack[f] = <<>>, NEW l \in Labels,
         Goto(f, l), UNCHANGED syncVars,
         Where(f)' = "here" /\ Object(f)' = "none" /\ pc'[f] = l =>
           \A m \in Mutexes : Status(f, m)' = Status(f, m)
  PROVE  SyncInv'
  <1>1. SyncTyped /\ StackTyped /\ PlaceInv
    BY Zenon DEF SyncInv, SyncTyped
  <1>2. \A g \in Fibers :
          /\ Where(g)' = Where(g) /\ Object(g)' = Object(g)
          /\ Woken(g)' = Woken(g) /\ Nested(g)' = Nested(g)
    BY Zenon DEF syncVars, Where, Object, Woken, Nested
  <1>3. /\ pc' \in [Fibers -> Labels] /\ OthersGoOn(f) /\ pc'[f] = l
        /\ UNCHANGED <<count, slow_path_lock, waiters, state, scheduler_lock>>
        /\ SyncTyped' /\ Others(f)
    BY Zenon, <1>1, <1>2 DEF Goto, PlaceInv, OthersGoOn, syncVars, objectVars, schedulerVars,
                      SyncTyped, StackTyped, Others
  <1>4. /\ Where(f) = "here" /\ Object(f) = "none" /\ ~Nested(f) /\ Woken(f) = <<>>
        /\ Scheduled(f)
    BY Zenon, <1>1, HerePlace DEF PlaceInv
  <1>5. /\ Where(f)' = "here" /\ Object(f)' = "none" /\ ~Nested(f)'
        /\ Woken(f)' = <<>> /\ WaitsOn(f)' = WaitsOn(f)
    BY Zenon, <1>2, <1>4 DEF WaitsOn
  <1>6. Place(f)' /\ Scheduled(f)'
    BY Zenon, <1>3, <1>4, <1>5 DEF Place, Scheduled
  <1> QED
    BY Zenon, <1>3, <1>4, <1>5, <1>6, QuietStep

(***************************************************************************)
(* SharedMutex's own steps and SyncInv.                                    *)
(***************************************************************************)
\* SharedMutex's own code runs with no call open.
LEMMA HereFacts ==
  ASSUME SyncInv, NEW f \in Fibers, NEW l, Here(f, l)
  PROVE  /\ pc[f] = l /\ stack[f] = <<>>
         /\ Where(f) = "here" /\ Object(f) = "none"
         /\ Woken(f) = <<>> /\ ~Nested(f)
  BY Zenon, HerePlace DEF Here

LEMMA Members ==
  /\ \A m \in Mutexes : m = "writer_lock" \/ m = "wakeup_lock"
  /\ "writer_lock" \in Mutexes /\ "wakeup_lock" \in Mutexes
  /\ Mutexes \subseteq Waitables /\ "wakeup_cv" \in Waitables \ Mutexes
  BY Zenon, MemberAssumption DEF Waitables

\* Where SharedMutex's code is, the call it makes, and where it goes on.
OwnCalls ==
  {<<"idle", "lock", "writer_lock", "announce">>,
   <<"announce", "lock", "wakeup_lock", "await_readers">>,
   <<"await_readers", "unlock", "wakeup_lock", "writing">>,
   <<"try_quota", "unlock", "writer_lock", "idle">>,
   <<"writing", "lock", "wakeup_lock", "release">>,
   <<"release", "notify_all", "wakeup_cv", "release_writer">>,
   <<"release_writer", "unlock", "writer_lock", "leave">>,
   <<"leave", "unlock", "wakeup_lock", "idle">>,
   <<"idle", "lock", "wakeup_lock", "await_grant">>,
   <<"await_grant", "unlock", "wakeup_lock", "reading">>,
   <<"reading", "lock", "wakeup_lock", "wakeup_writer">>,
   <<"wakeup_writer", "notify_all", "wakeup_cv", "leave">>}

\* Where it goes on without a call.
OwnSteps ==
  {<<"announce", "writing">>, <<"try_quota", "writing">>,
   <<"release", "release_writer">>, <<"idle", "reading">>, <<"reading", "idle">>}

\* What the fiber has to do with the two mutexes does not change with a call.
LEMMA OwnCallSync ==
  ASSUME SyncInv, NEW f \in Fibers, NEW from, NEW at, NEW on, NEW l,
         <<from, at, on, l>> \in OwnCalls,
         Here(f, from), CallThen(f, at, on, l)
  PROVE  SyncInv'
  <1>1. /\ at \in {"lock", "unlock", "notify_all"}
        /\ on \in Waitables /\ l \in Labels
    BY Zenon, Members DEF OwnCalls, Labels
  <1>2. Arrives(f, at, on) /\ pc'[f] = l => Place(f)'
    BY Zenon DEF OwnCalls, Arrives, Place, LockAts, UnlockAts, NotifyAts
  <1>3. Arrives(f, at, on) /\ pc'[f] = l =>
          Status(f, "writer_lock")' = Status(f, "writer_lock")
    BY Zenon, HereFacts DEF OwnCalls, Arrives, Status, Holds
  <1>4. Arrives(f, at, on) /\ pc'[f] = l =>
          Status(f, "wakeup_lock")' = Status(f, "wakeup_lock")
    BY Zenon, HereFacts DEF OwnCalls, Arrives, Status, Holds
  <1> QED
    BY Zenon, <1>1, <1>2, <1>3, <1>4, CallStep, HereFacts, Members

LEMMA OwnStepSync ==
  ASSUME SyncInv, NEW f \in Fibers, NEW from, NEW l, <<from, l>> \in OwnSteps,
         Here(f, from), Goto(f, l), UNCHANGED syncVars
  PROVE  SyncInv'
  <1>1. Where(f)' = "here" /\ Object(f)' = "none" /\ pc'[f] = l =>
          \A m \in Mutexes : Status(f, m)' = Status(f, m)
    BY Zenon, HereFacts, Members DEF OwnSteps, Status, Holds
  <1>2. l \in Labels
    BY Zenon DEF OwnSteps, Labels
  <1> QED
    BY Zenon, <1>1, <1>2, GotoStep, HereFacts

\* try_lock takes writer_lock_.
LEMMA TryLockSync ==
  ASSUME SyncInv, NEW f \in Fibers, TryLock(f)
  PROVE  SyncInv'
  <1>1. SyncTyped /\ StackTyped /\ PlaceInv
    BY Zenon DEF SyncInv, SyncTyped
  <1>2. \A g \in Fibers :
          /\ Where(g)' = Where(g) /\ Object(g)' = Object(g)
          /\ Woken(g)' = Woken(g) /\ Nested(g)' = Nested(g)
    BY Zenon DEF TryLock, Where, Object, Woken, Nested
  <1>3. /\ pc' \in [Fibers -> Labels] /\ OthersGoOn(f) /\ pc'[f] = "try_quota"
        /\ UNCHANGED <<slow_path_lock, waiters, state, scheduler_lock>>
        /\ count["writer_lock"] = 0 /\ count'["writer_lock"] = 1
        /\ count'["wakeup_lock"] = count["wakeup_lock"] /\ SyncTyped' /\ Others(f)
    BY Zenon, <1>1, <1>2, Members DEF TryLock, Goto, PlaceInv, OthersGoOn, schedulerVars,
                               SyncTyped, StackTyped, Others, Labels
  <1>4. /\ pc[f] = "idle" /\ Where(f) = "here" /\ Object(f) = "none"
        /\ Woken(f) = <<>> /\ ~Nested(f) /\ Scheduled(f)
    BY Zenon, <1>1, HereFacts DEF TryLock, PlaceInv
  <1>5. Place(f)' /\ Scheduled(f)' /\ WaitsOn(f)' = WaitsOn(f)
    BY Zenon, <1>2, <1>3, <1>4 DEF Place, Scheduled, WaitsOn
  <1>6. PlaceInv' /\ WokenInv'
    BY Zenon, <1>2, <1>3, <1>4, <1>5, PlaceStep, WokenStep DEF SyncInv
  <1>7. /\ Status(f, "writer_lock") = "none" /\ Status(f, "writer_lock")' = "hold"
        /\ Status(f, "wakeup_lock") = "none" /\ Status(f, "wakeup_lock")' = "none"
    BY Zenon, <1>2, <1>3, <1>4 DEF Status, Holds
  <1>8. MutexInv("writer_lock")'
    BY Zenon, <1>3, <1>7, OthersStay, MutexAcquire, Members DEF SyncInv
  <1>9. MutexInv("wakeup_lock")'
    BY Zenon, <1>3, <1>7, OthersStay, MutexQuiet, Members DEF SyncInv, Still
  <1>10. ChainInv'
    BY Zenon, <1>1, <1>2, <1>3, <1>5, OthersStay, ChainQuiet DEF SyncInv
  <1> QED
    BY Zenon, <1>3, <1>6, <1>8, <1>9, <1>10, Members DEF SyncInv

\* The fiber is in the wait chain of wakeup_cv_ while it still has wakeup_lock_.
LEMMA WaitSync ==
  ASSUME SyncInv, NEW f \in Fibers, stack[f] = <<>>,
         pc[f] \in {"await_readers", "await_grant"},
         Wait(f, "wakeup_cv", "wakeup_lock"), UNCHANGED pc
  PROVE  SyncInv'
  <1>1. SyncTyped /\ StackTyped /\ PlaceInv
    BY Zenon DEF SyncInv, SyncTyped
  <1>2. /\ StackTyped' /\ Others(f)
        /\ Where(f)' = "unlock" /\ Object(f)' = "wakeup_lock"
        /\ Woken(f)' = <<>> /\ Nested(f)'
    BY Zenon, <1>1, WaitForm
  <1>3. /\ pc' \in [Fibers -> Labels] /\ OthersGoOn(f) /\ pc'[f] = pc[f]
        /\ UNCHANGED <<count, slow_path_lock, state>>
        /\ scheduler_lock' = [scheduler_lock EXCEPT ![f] = TRUE]
        /\ waiters' = [waiters EXCEPT !["wakeup_cv"] = Append(@, f)]
        /\ SyncTyped'
    BY <1>1, <1>2, Members DEF Wait, AddWaiter, PlaceInv, OthersGoOn, SyncTyped
  <1>4. /\ Where(f) = "here" /\ Object(f) = "none"
        /\ Woken(f) = <<>> /\ ~Nested(f) /\ Scheduled(f)
    BY Zenon, <1>1, HerePlace DEF PlaceInv
  <1>5. /\ Place(f)' /\ Scheduled(f)' /\ WaitsOn(f)' = "wakeup_cv"
        /\ WaitsOn(f) = "none"
    BY Zenon, <1>1, <1>2, <1>3, <1>4
    DEF Place, Scheduled, WaitsOn, WaitAts, UnlockAts, SyncTyped
  <1>6. PlaceInv' /\ WokenInv'
    BY Zenon, <1>1, <1>2, <1>3, <1>5, PlaceStep, WokenStep DEF SyncInv, SyncTyped
  <1>7. \A m \in Mutexes : Status(f, m)' = Status(f, m)
    BY Zenon, <1>2, <1>3, <1>4, Members DEF Status, Holds
  <1>8. ASSUME NEW m \in Mutexes PROVE MutexInv(m)'
    <2>1. waiters'[m] = waiters[m]
      BY Zenon, <1>1, <1>3, Members DEF SyncTyped
    <2> QED
      BY Zenon, <1>2, <1>3, <1>7, <2>1, OthersStay, MutexQuiet DEF SyncInv, Still
  <1>9. ChainInv'
    <2>1. AddWaiter("wakeup_cv", f) /\ state[f] # "Ready"
      BY Zenon, <1>4 DEF Wait, Scheduled
    <2>2. \A g \in Fibers :
            /\ Woken(g)' = Woken(g)
            /\ Woken(g) # <<>> => Object(g)' = Object(g)
      BY Zenon, <1>2, <1>4 DEF Others
    <2>3. \A g \in Fibers \ {f} : WaitsOn(g)' = WaitsOn(g)
      BY Zenon, <1>2, <1>3, OthersStay
    <2> QED
      BY Zenon, <1>1, <1>3, <1>5, <2>1, <2>2, <2>3, ChainEnter, Members DEF SyncInv
  <1> QED
    BY Zenon, <1>3, <1>6, <1>8, <1>9 DEF SyncInv

(***************************************************************************)
(* The steps of the mutexes, the condition variable and the scheduler.     *)
(***************************************************************************)
\* Where a fiber can be inside a call.
LEMMA AtFacts ==
  ASSUME SyncInv, NEW f \in Fibers, NEW at, At(f, at)
  PROVE  /\ stack[f] # <<>> /\ Where(f) = at /\ On(f) = Object(f)
         /\ Head(stack[f]).woken = Woken(f) /\ Woken(f) \in Seq(Fibers)
         /\ Object(f) \in Waitables /\ Place(f) /\ Scheduled(f)
         /\ SyncTyped /\ StackTyped /\ PlaceInv
  BY Zenon, AtPlace DEF SyncInv, SyncTyped, PlaceInv

\* The places inside lock.
LEMMA InLock ==
  ASSUME NEW f \in Fibers, Place(f), Where(f) \in LockAts
  PROVE  /\ ~Nested(f) /\ Object(f) \in Mutexes
         /\ \/ Object(f) = "writer_lock" /\ pc[f] = "announce"
            \/ /\ Object(f) = "wakeup_lock"
               /\ pc[f] \in {"await_readers", "release", "await_grant", "wakeup_writer"}
  BY Zenon, Members DEF Place, LockAts, UnlockAts, NotifyAts, WaitAts

\* A fiber in lock has a mutex only when it has returned.
LEMMA LockStatus ==
  ASSUME NEW f \in Fibers, Place(f), Where(f) \in LockAts
  PROVE  /\ Status(f, Object(f)) =
              (IF Where(f) = "enqueue" THEN "enqueue"
               ELSE IF Where(f) \in {"halt", "asleep"} THEN "chain" ELSE "none")
         /\ \A m \in Mutexes \ {Object(f)} :
              Status(f, m) = IF Holds(f, m) THEN "hold" ELSE "none"
  BY Zenon, InLock, Members DEF Status, Holds, LockAts

\* lock returns: the fiber has the mutex.
LEMMA LockReturns ==
  ASSUME NEW f \in Fibers, Place(f), Where(f) \in LockAts, NEW m, m = Object(f),
         Arrives(f, "here", "none"), UNCHANGED pc
  PROVE  /\ Place(f)' /\ Status(f, m)' = "hold"
         /\ \A k \in Mutexes \ {m} : Status(f, k)' = Status(f, k)
  <1>1. Place(f)'
    BY Zenon DEF Place, Arrives
  <1>2. Status(f, m)' = "hold"
    BY Zenon, InLock, Members DEF Arrives, Status, Holds
  <1>3. ASSUME NEW k \in Mutexes \ {m} PROVE Status(f, k)' = Status(f, k)
    BY Zenon, InLock, Members DEF Arrives, Status, Holds, LockAts
  <1> QED
    BY Zenon, <1>1, <1>2, <1>3

\* The fiber goes on inside lock.
LEMMA LockGoes ==
  ASSUME NEW f \in Fibers, Place(f), Where(f) \in LockAts, NEW m, m = Object(f),
         NEW at \in LockAts, Where(f)' = at, Object(f)' = Object(f),
         Nested(f)' = Nested(f), UNCHANGED pc
  PROVE  /\ Place(f)'
         /\ Status(f, m)' = (IF at = "enqueue" THEN "enqueue"
                             ELSE IF at \in {"halt", "asleep"} THEN "chain" ELSE "none")
         /\ \A k \in Mutexes \ {m} : Status(f, k)' = Status(f, k)
  <1>1. Place(f)'
    BY Zenon, InLock DEF Place
  <1>2. Status(f, m)' = (IF at = "enqueue" THEN "enqueue"
                         ELSE IF at \in {"halt", "asleep"} THEN "chain" ELSE "none")
    BY Zenon, InLock, Members DEF Status, Holds, LockAts
  <1>3. ASSUME NEW k \in Mutexes \ {m} PROVE Status(f, k)' = Status(f, k)
    BY Zenon, InLock, Members DEF Status, Holds, LockAts
  <1> QED
    BY Zenon, <1>1, <1>2, <1>3

\* A step that concerns one of the two mutexes.
LEMMA OneMutexStep ==
  ASSUME SyncInv, SyncTyped', NEW f \in Fibers, Others(f), UNCHANGED pc,
         PlaceInv', WokenInv', ChainInv', NEW m, m \in Mutexes => MutexInv(m)',
         \A k \in Mutexes \ {m} :
           /\ count'[k] = count[k] /\ slow_path_lock'[k] = slow_path_lock[k]
           /\ waiters'[k] = waiters[k] /\ Status(f, k)' = Status(f, k)
  PROVE  SyncInv'
  <1>1. OthersGoOn(f)
    BY Zenon DEF OthersGoOn
  <1>2. ASSUME NEW k \in Mutexes \ {m} PROVE MutexInv(k)'
    BY Zenon, <1>1, OthersStay, MutexQuiet DEF SyncInv, Still
  <1> QED
    BY Zenon, <1>2 DEF SyncInv

\* The other fibers keep what they wait for and whom they have woken.
LEMMA ChainOthers ==
  ASSUME NEW f \in Fibers, Others(f), UNCHANGED pc, Woken(f) = <<>>, Woken(f)' = <<>>,
         WaitsOn(f)' = WaitsOn(f)
  PROVE  \A g \in Fibers :
           /\ WaitsOn(g)' = WaitsOn(g) /\ Woken(g)' = Woken(g)
           /\ Woken(g) # <<>> => Object(g)' = Object(g)
  <1>1. OthersGoOn(f)
    BY Zenon DEF OthersGoOn
  <1> QED
    BY Zenon, <1>1, OthersStay DEF Others

LEMMA MutexLockSync ==
  ASSUME SyncInv, NEW f \in Fibers, MutexLock(f), UNCHANGED mutexVars
  PROVE  SyncInv'
  <1>1. At(f, "lock") /\ UNCHANGED pc
    BY Zenon DEF MutexLock, mutexVars
  <1>2. PICK m : m = Object(f)
    BY Zenon
  <1>3. /\ stack[f] # <<>> /\ Where(f) = "lock" /\ On(f) = m /\ Place(f) /\ Scheduled(f)
        /\ SyncTyped /\ StackTyped /\ PlaceInv /\ Woken(f) = <<>>
    BY <1>1, <1>2, AtFacts DEF SyncInv, WokenInv
  <1>4. /\ ~Nested(f) /\ m \in Mutexes /\ Status(f, m) = "none"
        /\ Where(f) \in LockAts
    BY Zenon, <1>2, <1>3, InLock, LockStatus DEF LockAts
  <1>5. /\ UNCHANGED <<slow_path_lock, waiters, persistent_awakened, state,
                       scheduler_lock>>
        /\ OthersGoOn(f) /\ pc' \in [Fibers -> Labels]
    BY Zenon, <1>1, <1>3 DEF MutexLock, schedulerVars, OthersGoOn, PlaceInv
  <1>6. CASE count[m] = 0 /\ count' = [count EXCEPT ![m] = 1] /\ Return(f)
    <2>1. StackTyped' /\ Others(f) /\ Arrives(f, "here", "none")
      BY Zenon, <1>3, <1>4, <1>6, ReturnForm
    <2>2. SyncTyped'
      BY Zenon, <1>3, <1>5, <1>6, <2>1 DEF SyncTyped
    <2>3. /\ Place(f)' /\ Status(f, m)' = "hold"
          /\ \A k \in Mutexes \ {m} : Status(f, k)' = Status(f, k)
      BY Zenon, <1>1, <1>2, <1>3, <1>4, <2>1, LockReturns
    <2>4. Scheduled(f)' /\ WaitsOn(f)' = WaitsOn(f)
      BY Zenon, <1>3, <1>4, <1>5, <2>1 DEF Scheduled, WaitsOn, Arrives, WaitAts
    <2>5. PlaceInv' /\ WokenInv'
      BY Zenon, <1>3, <1>5, <2>1, <2>3, <2>4, PlaceStep, WokenStep DEF SyncInv, Arrives
    <2>6. ChainInv'
      BY Zenon, <1>1, <1>3, <1>5, <2>1, <2>4, ChainOthers, ChainQuiet DEF SyncInv, Arrives
    <2>7. MutexInv(m)'
      BY Zenon, <1>3, <1>4, <1>5, <1>6, <2>1, <2>3, OthersStay, MutexAcquire
      DEF SyncInv, SyncTyped
    <2> QED
      BY Zenon, <1>1, <1>3, <1>5, <1>6, <2>1, <2>2, <2>3, <2>5, <2>6, <2>7, OneMutexStep
      DEF SyncTyped
  <1>7. CASE Jump(f, "lock_slow") /\ UNCHANGED count
    <2>1. /\ StackTyped' /\ Others(f) /\ Where(f)' = "lock_slow"
          /\ Object(f)' = Object(f) /\ Woken(f)' = <<>> /\ Nested(f)' = Nested(f)
      BY Zenon, <1>3, <1>7, JumpForm DEF LockAts
    <2>2. SyncTyped'
      BY Zenon, <1>3, <1>5, <1>7, <2>1 DEF SyncTyped
    <2>3. /\ Place(f)' /\ Status(f, m)' = "none"
          /\ \A k \in Mutexes \ {m} : Status(f, k)' = Status(f, k)
      BY Zenon, <1>1, <1>2, <1>3, <1>4, <2>1, LockGoes DEF LockAts
    <2>4. Scheduled(f)' /\ WaitsOn(f)' = WaitsOn(f)
      BY Zenon, <1>3, <1>4, <1>5, <2>1 DEF Scheduled, WaitsOn, WaitAts
    <2> QED
      BY Zenon, <1>3, <1>4, <1>5, <1>7, <2>1, <2>2, <2>3, <2>4, QuietStep
  <1> QED
    BY Zenon, <1>3, <1>6, <1>7 DEF MutexLock

LEMMA LockSlowSync ==
  ASSUME SyncInv, NEW f \in Fibers, LockSlow(f), UNCHANGED mutexVars
  PROVE  SyncInv'
  <1>1. At(f, "lock_slow") /\ UNCHANGED pc
    BY Zenon DEF LockSlow, mutexVars
  <1>2. PICK m : m = Object(f)
    BY Zenon
  <1>3. /\ stack[f] # <<>> /\ Where(f) = "lock_slow" /\ On(f) = m
        /\ Place(f) /\ Scheduled(f)
        /\ SyncTyped /\ StackTyped /\ PlaceInv /\ Woken(f) = <<>>
    BY <1>1, <1>2, AtFacts DEF SyncInv, WokenInv
  <1>4. /\ ~Nested(f) /\ m \in Mutexes /\ Status(f, m) = "none"
        /\ Where(f) \in LockAts
    BY Zenon, <1>2, <1>3, InLock, LockStatus DEF LockAts
  <1>5. /\ UNCHANGED <<waiters, persistent_awakened, state, scheduler_lock>>
        /\ OthersGoOn(f) /\ pc' \in [Fibers -> Labels]
        /\ count' = [count EXCEPT ![m] = @ + 1] /\ slow_path_lock[m] = Null
    BY Zenon, <1>1, <1>3 DEF LockSlow, schedulerVars, OthersGoOn, PlaceInv
  <1>6. CASE count[m] = 0 /\ Return(f) /\ UNCHANGED slow_path_lock
    <2>1. StackTyped' /\ Others(f) /\ Arrives(f, "here", "none")
      BY Zenon, <1>3, <1>4, <1>6, ReturnForm
    <2>2. SyncTyped'
      BY <1>3, <1>4, <1>5, <1>6, <2>1 DEF SyncTyped
    <2>3. /\ Place(f)' /\ Status(f, m)' = "hold"
          /\ \A k \in Mutexes \ {m} : Status(f, k)' = Status(f, k)
      BY Zenon, <1>1, <1>2, <1>3, <1>4, <2>1, LockReturns
    <2>4. Scheduled(f)' /\ WaitsOn(f)' = WaitsOn(f)
      BY Zenon, <1>3, <1>4, <1>5, <2>1 DEF Scheduled, WaitsOn, Arrives, WaitAts
    <2>5. PlaceInv' /\ WokenInv'
      BY Zenon, <1>3, <1>5, <2>1, <2>3, <2>4, PlaceStep, WokenStep DEF SyncInv, Arrives
    <2>6. ChainInv'
      BY Zenon, <1>1, <1>3, <1>5, <2>1, <2>4, ChainOthers, ChainQuiet DEF SyncInv, Arrives
    <2>7. count'[m] = 1
      BY <1>3, <1>4, <1>5, <1>6 DEF SyncTyped
    <2>8. MutexInv(m)'
      BY Zenon, <1>4, <1>5, <1>6, <2>1, <2>3, <2>7, OthersStay, MutexAcquire DEF SyncInv
    <2> QED
      BY Zenon, <1>1, <1>3, <1>5, <1>6, <2>1, <2>2, <2>3, <2>5, <2>6, <2>8, OneMutexStep
      DEF SyncTyped
  <1>7. CASE /\ slow_path_lock' = [slow_path_lock EXCEPT ![m] = f]
             /\ Jump(f, "enqueue")
    <2>1. /\ StackTyped' /\ Others(f) /\ Where(f)' = "enqueue"
          /\ Object(f)' = Object(f) /\ Woken(f)' = <<>> /\ Nested(f)' = Nested(f)
      BY Zenon, <1>3, <1>7, JumpForm DEF LockAts
    <2>2. SyncTyped'
      BY <1>3, <1>4, <1>5, <1>7, <2>1 DEF SyncTyped
    <2>3. /\ Place(f)' /\ Status(f, m)' = "enqueue"
          /\ \A k \in Mutexes \ {m} : Status(f, k)' = Status(f, k)
      BY Zenon, <1>1, <1>2, <1>3, <1>4, <2>1, LockGoes DEF LockAts
    <2>4. Scheduled(f)' /\ WaitsOn(f)' = WaitsOn(f)
      BY Zenon, <1>3, <1>4, <1>5, <2>1 DEF Scheduled, WaitsOn, WaitAts
    <2>5. PlaceInv' /\ WokenInv'
      BY Zenon, <1>3, <1>5, <2>1, <2>3, <2>4, PlaceStep, WokenStep DEF SyncInv
    <2>6. ChainInv'
      BY Zenon, <1>1, <1>3, <1>5, <2>1, <2>4, ChainOthers, ChainQuiet DEF SyncInv
    <2>7. count'[m] = count[m] + 1 /\ slow_path_lock'[m] = f
      BY Zenon, <1>3, <1>4, <1>5, <1>7 DEF SyncTyped
    <2>8. MutexInv(m)'
      BY Zenon, <1>4, <1>5, <2>1, <2>3, <2>7, OthersStay, MutexEnlist DEF SyncInv
    <2> QED
      BY Zenon, <1>1, <1>3, <1>5, <1>7, <2>1, <2>2, <2>3, <2>5, <2>6, <2>8, OneMutexStep
      DEF SyncTyped
  <1> QED
    BY Zenon, <1>3, <1>6, <1>7 DEF LockSlow

LEMMA LockEnqueueSync ==
  ASSUME SyncInv, NEW f \in Fibers, LockEnqueue(f), UNCHANGED mutexVars
  PROVE  SyncInv'
  <1>1. At(f, "enqueue") /\ UNCHANGED pc
    BY Zenon DEF LockEnqueue, mutexVars
  <1>2. PICK m : m = Object(f)
    BY Zenon
  <1>3. /\ stack[f] # <<>> /\ Where(f) = "enqueue" /\ On(f) = m
        /\ Place(f) /\ Scheduled(f)
        /\ SyncTyped /\ StackTyped /\ PlaceInv /\ Woken(f) = <<>>
    BY <1>1, <1>2, AtFacts DEF SyncInv, WokenInv
  <1>4. /\ ~Nested(f) /\ m \in Mutexes /\ m \in Waitables /\ Status(f, m) = "enqueue"
        /\ Where(f) \in LockAts
    BY Zenon, <1>2, <1>3, InLock, LockStatus, Members DEF LockAts
  <1>5. /\ UNCHANGED <<count, persistent_awakened, state>>
        /\ OthersGoOn(f) /\ pc' \in [Fibers -> Labels]
        /\ scheduler_lock' = [scheduler_lock EXCEPT ![f] = TRUE]
        /\ slow_path_lock' = [slow_path_lock EXCEPT ![m] = Null]
        /\ AddWaiter(m, f) /\ Jump(f, "halt")
    BY Zenon, <1>1, <1>3 DEF LockEnqueue, OthersGoOn, PlaceInv
  <1>6. /\ StackTyped' /\ Others(f) /\ Where(f)' = "halt"
        /\ Object(f)' = Object(f) /\ Woken(f)' = <<>> /\ Nested(f)' = Nested(f)
    BY Zenon, <1>3, <1>5, JumpForm DEF LockAts
  <1>7. SyncTyped'
    BY <1>3, <1>4, <1>5, <1>6 DEF SyncTyped, AddWaiter
  <1>8. /\ Place(f)' /\ Status(f, m)' = "chain"
        /\ \A k \in Mutexes \ {m} : Status(f, k)' = Status(f, k)
    BY Zenon, <1>1, <1>2, <1>3, <1>4, <1>6, LockGoes DEF LockAts
  <1>9. /\ Scheduled(f)' /\ WaitsOn(f) = "none" /\ WaitsOn(f)' = m
        /\ state[f] # "Ready"
    BY Zenon, <1>2, <1>3, <1>4, <1>5, <1>6 DEF Scheduled, WaitsOn, WaitAts, SyncTyped
  <1>10. /\ \A g \in Fibers \ {f} :
              scheduler_lock'[g] = scheduler_lock[g] /\ WaitsOn(g)' = WaitsOn(g)
         /\ \A g \in Fibers :
              Woken(g)' = Woken(g) /\ (Woken(g) # <<>> => Object(g)' = Object(g))
    BY Zenon, <1>3, <1>5, <1>6, OthersStay DEF SyncTyped, Others
  <1>11. PlaceInv' /\ WokenInv'
    BY Zenon, <1>3, <1>5, <1>6, <1>8, <1>9, <1>10, PlaceStep, WokenStep DEF SyncInv
  <1>12. ChainInv'
    BY Zenon, <1>3, <1>4, <1>5, <1>9, <1>10, ChainEnter DEF SyncInv
  <1>13. /\ slow_path_lock'[m] = Null /\ waiters'[m] = Append(waiters[m], f)
         /\ waiters[m] \in Seq(Fibers)
    BY Zenon, <1>3, <1>4, <1>5 DEF SyncTyped, AddWaiter
  <1>14. MutexInv(m)'
    BY Zenon, <1>4, <1>5, <1>6, <1>8, <1>13, OthersStay, MutexEnter DEF SyncInv
  <1>15. \A k \in Mutexes \ {m} :
           slow_path_lock'[k] = slow_path_lock[k] /\ waiters'[k] = waiters[k]
    BY Zenon, <1>3, <1>5, Members DEF SyncTyped, AddWaiter
  <1> QED
    BY Zenon, <1>1, <1>5, <1>6, <1>7, <1>8, <1>11, <1>12, <1>14, <1>15, OneMutexStep

\* The places inside unlock, called from SharedMutex's own code or from wait.
LEMMA InUnlock ==
  ASSUME NEW f \in Fibers, Place(f), Where(f) \in UnlockAts, Object(f) \in Mutexes
  PROVE  \/ /\ ~Nested(f)
            /\ \/ Object(f) = "writer_lock" /\ pc[f] \in {"leave", "idle"}
               \/ Object(f) = "wakeup_lock" /\ pc[f] \in {"writing", "reading", "idle"}
         \/ /\ Nested(f) /\ Object(f) = "wakeup_lock"
            /\ pc[f] \in {"await_readers", "await_grant"}
  BY Zenon, Members DEF Place, LockAts, UnlockAts, NotifyAts, WaitAts

\* unlock returns: the fiber has nothing to do with the mutex any more.
LEMMA UnlockReturns ==
  ASSUME NEW f \in Fibers, Place(f), Where(f) \in UnlockAts, NEW m \in Mutexes,
         m = Object(f), UNCHANGED <<pc, scheduler_lock>>, Scheduled(f),
         state'[f] = state[f],
         Nested(f) => Arrives(f, "halt_wait", "wakeup_lock"),
         ~Nested(f) => Arrives(f, "here", "none")
  PROVE  /\ Place(f)' /\ Scheduled(f)' /\ WaitsOn(f)' = WaitsOn(f)
         /\ Woken(f)' = <<>> /\ Where(f)' # "ready"
         /\ Status(f, m)' = "none"
         /\ \A k \in Mutexes \ {m} : Status(f, k)' = Status(f, k)
  <1>1. Place(f)'
    BY Zenon, InUnlock DEF Place, Arrives, WaitAts
  <1>2. Scheduled(f)'
    BY Zenon DEF Arrives, Scheduled, UnlockAts
  <1>3. WaitsOn(f)' = WaitsOn(f)
    BY Zenon DEF Arrives, WaitsOn, WaitAts, UnlockAts
  <1>4. Status(f, m)' = "none"
    BY Zenon, InUnlock, Members DEF Arrives, Status, Holds, UnlockAts
  <1>5. ASSUME NEW k \in Mutexes \ {m} PROVE Status(f, k)' = Status(f, k)
    BY Zenon, InUnlock, Members DEF Arrives, Status, Holds, UnlockAts
  <1> QED
    BY Zenon, <1>1, <1>2, <1>3, <1>4, <1>5 DEF Arrives

\* The fiber goes on inside unlock.
LEMMA UnlockGoes ==
  ASSUME NEW f \in Fibers, Place(f), Where(f) \in UnlockAts, NEW m \in Mutexes,
         m = Object(f), UNCHANGED <<pc, scheduler_lock>>, Scheduled(f),
         state'[f] = state[f],
         NEW at \in UnlockAts \ {"unlock"}, Where(f)' = at, Object(f)' = Object(f),
         Nested(f)' = Nested(f)
  PROVE  /\ Place(f)' /\ Scheduled(f)' /\ WaitsOn(f)' = WaitsOn(f)
         /\ Status(f, m)' = (IF at = "wake" THEN "wake" ELSE "none")
         /\ \A k \in Mutexes \ {m} : Status(f, k)' = Status(f, k)
  <1>1. Place(f)'
    BY Zenon, InUnlock DEF Place
  <1>2. Scheduled(f)'
    BY Zenon DEF Scheduled, UnlockAts
  <1>3. WaitsOn(f)' = WaitsOn(f)
    BY Zenon DEF WaitsOn, WaitAts, UnlockAts
  <1>4. Status(f, m)' = (IF at = "wake" THEN "wake" ELSE "none")
    BY Zenon, InUnlock, Members DEF Status, Holds, UnlockAts
  <1>5. ASSUME NEW k \in Mutexes \ {m} PROVE Status(f, k)' = Status(f, k)
    BY Zenon, InUnlock, Members DEF Status, Holds, UnlockAts
  <1> QED
    BY Zenon, <1>1, <1>2, <1>3, <1>4, <1>5

LEMMA MutexUnlockSync ==
  ASSUME SyncInv, NEW f \in Fibers, MutexUnlock(f), UNCHANGED mutexVars
  PROVE  SyncInv'
  <1>1. At(f, "unlock") /\ UNCHANGED pc
    BY Zenon DEF MutexUnlock, mutexVars
  <1>2. PICK m : m = Object(f)
    BY Zenon
  <1>3. /\ stack[f] # <<>> /\ Where(f) = "unlock" /\ On(f) = m
        /\ Place(f) /\ Scheduled(f)
        /\ SyncTyped /\ StackTyped /\ PlaceInv /\ Woken(f) = <<>>
    BY <1>1, <1>2, AtFacts DEF SyncInv, WokenInv
  <1>4. /\ m \in Mutexes /\ Where(f) \in UnlockAts /\ Status(f, m) = "hold"
    BY Zenon, <1>2, <1>3, Members
    DEF Place, LockAts, UnlockAts, NotifyAts, WaitAts, Status, Holds
  <1>5. /\ UNCHANGED <<slow_path_lock, waiters, persistent_awakened, state,
                       scheduler_lock>>
        /\ OthersGoOn(f) /\ pc' \in [Fibers -> Labels]
        /\ count' = [count EXCEPT ![m] = @ - 1]
    BY Zenon, <1>1, <1>3 DEF MutexUnlock, schedulerVars, OthersGoOn, PlaceInv
  <1>6. count[m] \in Nat \ {0}
    <2>1. f \in Counted(m)
      BY Zenon, <1>4 DEF Counted
    <2> QED
      BY Zenon, <2>1, <1>4, CountedFinite, FS_EmptySet DEF SyncInv, MutexInv
  <1>7. /\ count' \in [Mutexes -> Nat] /\ count'[m] = count[m] - 1
        /\ \A k \in Mutexes \ {m} : count'[k] = count[k]
    BY <1>3, <1>4, <1>5, <1>6 DEF SyncTyped
  <1>8. CASE count[m] = 1 /\ Return(f)
    <2>1. /\ StackTyped' /\ Others(f)
          /\ Nested(f) => Arrives(f, "halt_wait", "wakeup_lock")
          /\ ~Nested(f) => Arrives(f, "here", "none")
      BY Zenon, <1>3, <1>8, ReturnForm
    <2>2. SyncTyped'
      BY Zenon, <1>3, <1>5, <1>7, <2>1 DEF SyncTyped
    <2>3. /\ Place(f)' /\ Scheduled(f)' /\ WaitsOn(f)' = WaitsOn(f)
          /\ Woken(f)' = <<>> /\ Where(f)' # "ready"
          /\ Status(f, m)' = "none"
          /\ \A k \in Mutexes \ {m} : Status(f, k)' = Status(f, k)
      BY Zenon, <1>1, <1>2, <1>3, <1>4, <1>5, <2>1, UnlockReturns
    <2>4. PlaceInv' /\ WokenInv'
      BY Zenon, <1>3, <1>5, <2>1, <2>3, PlaceStep, WokenStep DEF SyncInv
    <2>5. ChainInv'
      BY Zenon, <1>1, <1>3, <1>5, <2>1, <2>3, ChainOthers, ChainQuiet DEF SyncInv
    <2>6. MutexInv(m)'
      <3>1. count'[m] = 0 /\ MutexInv(m)
        BY <1>4, <1>7, <1>8 DEF SyncInv
      <3>2. Still(f, m)
        BY Zenon, <1>4, <1>5, <2>1, OthersStay
      <3> QED
        BY Zenon, <1>4, <1>5, <1>8, <2>3, <3>1, <3>2, MutexFree
    <2> QED
      BY Zenon, <1>1, <1>5, <1>7, <2>1, <2>2, <2>3, <2>4, <2>5, <2>6, OneMutexStep
  <1>9. CASE count[m] # 1 /\ Jump(f, "wake")
    <2>1. /\ StackTyped' /\ Others(f) /\ Where(f)' = "wake"
          /\ Object(f)' = Object(f) /\ Woken(f)' = <<>> /\ Nested(f)' = Nested(f)
      BY Zenon, <1>3, <1>9, JumpForm DEF UnlockAts
    <2>2. SyncTyped'
      BY Zenon, <1>3, <1>5, <1>7, <2>1 DEF SyncTyped
    <2>3. /\ Place(f)' /\ Scheduled(f)' /\ WaitsOn(f)' = WaitsOn(f)
          /\ Status(f, m)' = "wake"
          /\ \A k \in Mutexes \ {m} : Status(f, k)' = Status(f, k)
      BY Zenon, <1>1, <1>2, <1>3, <1>4, <1>5, <2>1, UnlockGoes DEF UnlockAts
    <2>4. PlaceInv' /\ WokenInv'
      BY Zenon, <1>3, <1>5, <2>1, <2>3, PlaceStep, WokenStep DEF SyncInv
    <2>5. ChainInv'
      BY Zenon, <1>1, <1>3, <1>5, <2>1, <2>3, ChainOthers, ChainQuiet DEF SyncInv
    <2>6. MutexInv(m)'
      BY Zenon, <1>4, <1>5, <1>7, <1>9, <2>1, <2>3, OthersStay, MutexPass DEF SyncInv
    <2> QED
      BY Zenon, <1>1, <1>5, <1>7, <2>1, <2>2, <2>3, <2>4, <2>5, <2>6, OneMutexStep
  <1> QED
    BY Zenon, <1>3, <1>8, <1>9 DEF MutexUnlock

LEMMA UnlockWakeSync ==
  ASSUME SyncInv, NEW f \in Fibers, UnlockWake(f), UNCHANGED mutexVars
  PROVE  SyncInv'
  <1>1. At(f, "wake") /\ UNCHANGED pc
    BY Zenon DEF UnlockWake, mutexVars
  <1>2. PICK m, h : m = Object(f) /\ h = Head(waiters[m])
    BY Zenon
  <1>3. /\ stack[f] # <<>> /\ Where(f) = "wake" /\ On(f) = m
        /\ Place(f) /\ Scheduled(f)
        /\ SyncTyped /\ StackTyped /\ PlaceInv /\ Woken(f) = <<>>
    BY <1>1, <1>2, AtFacts DEF SyncInv, WokenInv
  <1>4. /\ m \in Mutexes /\ m \in Waitables /\ Where(f) \in UnlockAts
        /\ Status(f, m) = "wake"
    <2>1. m \in Mutexes /\ Where(f) \in UnlockAts
      BY Zenon, <1>2, <1>3, Members DEF Place, LockAts, UnlockAts, NotifyAts, WaitAts
    <2> QED
      BY Zenon, <1>2, <1>3, <2>1, InUnlock, Members DEF Status, Holds
  <1>5. /\ UNCHANGED <<count, slow_path_lock, persistent_awakened, state, scheduler_lock>>
        /\ OthersGoOn(f) /\ pc' \in [Fibers -> Labels]
        /\ WakeOne(m) /\ waiters[m] # <<>>
        /\ stack' = [stack EXCEPT ![f][1].at = "ready", ![f][1].woken = <<h>>]
    BY Zenon, <1>1, <1>2, <1>3 DEF UnlockWake, schedulerVars, OthersGoOn, PlaceInv
  <1>6. /\ waiters[m] \in Seq(Fibers) /\ h \in Fibers /\ <<h>> \in Seq(Fibers)
        /\ waiters'[m] = Tail(waiters[m])
        /\ \A k \in Mutexes \ {m} : waiters'[k] = waiters[k]
        /\ waiters' \in [Waitables -> Seq(Fibers)]
    BY <1>2, <1>3, <1>4, <1>5, Members DEF SyncTyped, WakeOne
  <1>7. /\ StackTyped' /\ Others(f) /\ Where(f)' = "ready"
        /\ Object(f)' = Object(f) /\ Woken(f)' = <<h>> /\ Nested(f)' = Nested(f)
    BY Zenon, <1>3, <1>5, <1>6, WakeForm
  <1>8. SyncTyped'
    BY Zenon, <1>3, <1>5, <1>6, <1>7 DEF SyncTyped
  <1>9. /\ Place(f)' /\ Scheduled(f)' /\ WaitsOn(f)' = WaitsOn(f)
        /\ Status(f, m)' = "none"
        /\ \A k \in Mutexes \ {m} : Status(f, k)' = Status(f, k)
    BY Zenon, <1>1, <1>2, <1>3, <1>4, <1>5, <1>7, UnlockGoes DEF UnlockAts
  <1>10. PlaceInv' /\ WokenInv'
    BY <1>3, <1>5, <1>7, <1>9, PlaceStep, WokenStep DEF SyncInv
  <1>11. ChainInv'
    <2>1. \A g \in Fibers : WaitsOn(g)' = WaitsOn(g)
      BY Zenon, <1>5, <1>7, <1>9, OthersStay
    <2>2. Woken(f)' = Append(Woken(f), Head(waiters[m]))
      BY <1>2, <1>3, <1>6, <1>7
    <2> QED
      BY Zenon, <1>2, <1>3, <1>4, <1>5, <1>7, <2>1, <2>2, ChainTake DEF SyncInv, Others
  <1>12. MutexInv(m)'
    <2>1. \A i, j \in DOMAIN waiters[m] : waiters[m][i] = waiters[m][j] => i = j
      BY Zenon, <1>4 DEF SyncInv, ChainInv
    <2> QED
      BY Zenon, <1>4, <1>5, <1>6, <1>7, <1>9, <2>1, OthersStay, MutexHand DEF SyncInv
  <1> QED
    BY Zenon, <1>1, <1>5, <1>6, <1>7, <1>8, <1>9, <1>10, <1>11, <1>12, OneMutexStep

\* The places inside notify_all.
LEMMA InNotify ==
  ASSUME NEW f \in Fibers, Place(f), Where(f) \in NotifyAts, Object(f) \notin Mutexes
  PROVE  /\ ~Nested(f) /\ Object(f) = "wakeup_cv"
         /\ pc[f] \in {"release_writer", "leave"}
  BY Zenon, Members DEF Place, LockAts, UnlockAts, NotifyAts, WaitAts

\* notify_all goes on or returns: the fiber keeps the mutexes it has.
LEMMA NotifyMoves ==
  ASSUME NEW f \in Fibers, Place(f), Where(f) \in NotifyAts, Object(f) \notin Mutexes,
         UNCHANGED <<pc, scheduler_lock>>, Scheduled(f), state'[f] = state[f],
         \/ Arrives(f, "here", "none")
         \/ /\ Where(f)' \in NotifyAts /\ Object(f)' = Object(f)
            /\ Nested(f)' = Nested(f)
  PROVE  /\ Place(f)' /\ Scheduled(f)' /\ WaitsOn(f)' = WaitsOn(f)
         /\ \A k \in Mutexes : Status(f, k)' = Status(f, k)
  <1>1. Place(f)'
    BY Zenon, InNotify DEF Place, Arrives
  <1>2. Scheduled(f)'
    BY Zenon, InNotify DEF Arrives, Scheduled, NotifyAts
  <1>3. WaitsOn(f)' = WaitsOn(f)
    BY Zenon, InNotify DEF Arrives, WaitsOn, WaitAts, NotifyAts
  <1>4. ASSUME NEW k \in Mutexes PROVE Status(f, k)' = Status(f, k)
    BY Zenon, InNotify, Members DEF Arrives, Status, Holds, NotifyAts
  <1> QED
    BY Zenon, <1>1, <1>2, <1>3, <1>4

LEMMA NotifyAllSync ==
  ASSUME SyncInv, NEW f \in Fibers, NotifyAll(f), UNCHANGED mutexVars
  PROVE  SyncInv'
  <1>1. At(f, "notify_all") /\ UNCHANGED pc
    BY Zenon DEF NotifyAll, mutexVars
  <1>2. PICK w, h : w = Object(f) /\ h = Head(waiters[w])
    BY Zenon
  <1>3. /\ stack[f] # <<>> /\ Where(f) = "notify_all" /\ On(f) = w
        /\ Head(stack[f]).woken = Woken(f) /\ Woken(f) \in Seq(Fibers)
        /\ Place(f) /\ Scheduled(f) /\ SyncTyped /\ StackTyped /\ PlaceInv
    BY Zenon, <1>1, <1>2, AtFacts
  <1>4. /\ w = "wakeup_cv" /\ ~Nested(f) /\ Where(f) \in NotifyAts
        /\ Object(f) \notin Mutexes /\ w \in Waitables
    BY Zenon, <1>2, <1>3, Members DEF Place, LockAts, UnlockAts, NotifyAts, WaitAts
  <1>5. /\ UNCHANGED <<count, slow_path_lock, persistent_awakened, state, scheduler_lock>>
        /\ OthersGoOn(f) /\ pc' \in [Fibers -> Labels]
    BY Zenon, <1>1, <1>3 DEF NotifyAll, schedulerVars, OthersGoOn, PlaceInv
  <1>6. CASE /\ waiters[w] # <<>> /\ WakeOne(w)
             /\ stack' = [stack EXCEPT ![f][1].woken = Append(@, h)]
    <2>1. /\ waiters[w] \in Seq(Fibers) /\ h \in Fibers
          /\ Append(Woken(f), h) \in Seq(Fibers)
          /\ \A k \in Mutexes : waiters'[k] = waiters[k]
          /\ waiters' \in [Waitables -> Seq(Fibers)]
      BY <1>2, <1>3, <1>4, <1>6, Members DEF SyncTyped, WakeOne
    <2>2. stack' = [stack EXCEPT ![f][1].woken = Append(Woken(f), h)]
      BY Zenon, <1>3, <1>6, TopTyped
    <2>3. /\ StackTyped' /\ Others(f)
          /\ Where(f)' = Where(f) /\ Object(f)' = Object(f)
          /\ Woken(f)' = Append(Woken(f), h) /\ Nested(f)' = Nested(f)
      BY Zenon, <1>3, <2>1, <2>2, WokenForm
    <2>4. SyncTyped'
      BY Zenon, <1>3, <1>5, <2>1, <2>3 DEF SyncTyped
    <2>5. /\ Place(f)' /\ Scheduled(f)' /\ WaitsOn(f)' = WaitsOn(f)
          /\ \A k \in Mutexes : Status(f, k)' = Status(f, k)
      BY Zenon, <1>1, <1>3, <1>4, <1>5, <2>3, NotifyMoves
    <2>6. PlaceInv' /\ WokenInv'
      BY Zenon, <1>3, <1>5, <2>3, <2>5, PlaceStep, WokenStep DEF SyncInv
    <2>7. \A g \in Fibers : WaitsOn(g)' = WaitsOn(g)
      BY Zenon, <1>5, <2>3, <2>5, OthersStay
    <2>8. ChainInv'
      BY Zenon, <1>2, <1>3, <1>4, <1>5, <1>6, <2>3, <2>7, ChainTake DEF SyncInv, Others
    <2> QED
      BY Zenon, <1>1, <1>2, <1>4, <1>5, <2>1, <2>3, <2>4, <2>5, <2>6, <2>8, OneMutexStep
  <1>7. CASE Woken(f) = <<>> /\ Return(f) /\ UNCHANGED waiters
    <2>1. StackTyped' /\ Others(f) /\ Arrives(f, "here", "none")
      BY Zenon, <1>3, <1>4, <1>7, ReturnForm
    <2>2. SyncTyped'
      BY Zenon, <1>3, <1>5, <1>7, <2>1 DEF SyncTyped
    <2>3. /\ Place(f)' /\ Scheduled(f)' /\ WaitsOn(f)' = WaitsOn(f)
          /\ \A k \in Mutexes : Status(f, k)' = Status(f, k)
      BY Zenon, <1>1, <1>3, <1>4, <1>5, <2>1, NotifyMoves
    <2> QED
      BY Zenon, <1>5, <1>7, <2>1, <2>2, <2>3, QuietStep DEF Arrives
  <1>8. CASE Woken(f) # <<>> /\ Jump(f, "ready") /\ UNCHANGED waiters
    <2>1. /\ StackTyped' /\ Others(f) /\ Where(f)' = "ready"
          /\ Object(f)' = Object(f) /\ Woken(f)' = Woken(f) /\ Nested(f)' = Nested(f)
      BY Zenon, <1>3, <1>8, JumpForm DEF NotifyAts
    <2>2. SyncTyped'
      BY Zenon, <1>3, <1>5, <1>8, <2>1 DEF SyncTyped
    <2>3. /\ Place(f)' /\ Scheduled(f)' /\ WaitsOn(f)' = WaitsOn(f)
          /\ \A k \in Mutexes : Status(f, k)' = Status(f, k)
      BY Zenon, <1>1, <1>3, <1>4, <1>5, <2>1, NotifyMoves DEF NotifyAts
    <2>4. PlaceInv' /\ WokenInv'
      BY Zenon, <1>3, <1>5, <1>8, <2>1, <2>3, PlaceStep, WokenStep DEF SyncInv
    <2>5. \A g \in Fibers :
            /\ WaitsOn(g)' = WaitsOn(g) /\ Woken(g)' = Woken(g)
            /\ Object(g)' = Object(g)
      BY Zenon, <1>5, <2>1, <2>3, OthersStay DEF Others
    <2>6. ChainInv'
      BY Zenon, <1>3, <1>5, <1>8, <2>5, ChainQuiet DEF SyncInv
    <2> QED
      BY Zenon, <1>1, <1>2, <1>4, <1>5, <1>8, <2>1, <2>2, <2>3, <2>4, <2>6, OneMutexStep
  <1> QED
    BY Zenon, <1>2, <1>3, <1>6, <1>7, <1>8 DEF NotifyAll

\* A fiber that waits keeps the mutexes it has when it falls asleep.
LEMMA HaltSync ==
  ASSUME SyncInv, NEW f \in Fibers, Halt(f), UNCHANGED mutexVars
  PROVE  SyncInv'
  <1>1. PICK at : /\ at = (IF At(f, "halt") THEN "halt" ELSE "halt_wait")
                  /\ At(f, at)
                  /\ Jump(f, IF at = "halt" THEN "asleep" ELSE "asleep_wait")
    BY Zenon DEF Halt, At
  <1>2. PICK m : m = Object(f)
    BY Zenon
  <1>3. /\ stack[f] # <<>> /\ Where(f) = at /\ at \in {"halt", "halt_wait"}
        /\ Place(f) /\ Scheduled(f)
        /\ SyncTyped /\ StackTyped /\ PlaceInv /\ Woken(f) = <<>>
    BY <1>1, AtFacts DEF SyncInv, WokenInv
  <1>4. /\ UNCHANGED <<count, slow_path_lock, waiters, persistent_awakened, pc>>
        /\ state' = [state EXCEPT ![f] = "Waiting"]
        /\ scheduler_lock' = [scheduler_lock EXCEPT ![f] = FALSE]
        /\ OthersGoOn(f) /\ pc' \in [Fibers -> Labels]
    BY Zenon, <1>3 DEF Halt, objectVars, mutexVars, OthersGoOn, PlaceInv
  <1>5. /\ StackTyped' /\ Others(f)
        /\ Where(f)' = (IF at = "halt" THEN "asleep" ELSE "asleep_wait")
        /\ Object(f)' = Object(f) /\ Woken(f)' = <<>> /\ Nested(f)' = Nested(f)
    BY Zenon, <1>1, <1>3, JumpForm DEF LockAts, WaitAts
  <1>6. SyncTyped'
    BY Zenon, <1>3, <1>4, <1>5 DEF SyncTyped
  <1>7. ~Nested(f) /\ m \in Mutexes
    BY Zenon, <1>2, <1>3, Members DEF Place, LockAts, UnlockAts, NotifyAts, WaitAts
  <1>8. Place(f)'
    BY Zenon, <1>3, <1>4, <1>5 DEF Place, LockAts, UnlockAts, NotifyAts, WaitAts
  <1>9. Scheduled(f)' /\ WaitsOn(f)' = WaitsOn(f)
    BY Zenon, <1>3, <1>4, <1>5, <1>7 DEF Scheduled, WaitsOn, WaitAts, SyncTyped
  <1>10. \A g \in Fibers \ {f} :
           scheduler_lock'[g] = scheduler_lock[g] /\ state'[g] = state[g]
    BY Zenon, <1>3, <1>4 DEF SyncTyped
  <1>11. PlaceInv' /\ WokenInv'
    BY Zenon, <1>3, <1>4, <1>5, <1>8, <1>9, <1>10, PlaceStep, WokenStep DEF SyncInv
  <1>12. \A g \in Fibers : state'[g] = "Ready" => state[g] = "Ready"
    BY Zenon, <1>3, <1>4 DEF SyncTyped
  <1>13. ChainInv'
    BY Zenon, <1>3, <1>4, <1>5, <1>9, <1>12, ChainOthers, ChainQuiet DEF SyncInv
  <1>14. ASSUME NEW k \in Mutexes PROVE Status(f, k)' = Status(f, k)
    BY Zenon, <1>3, <1>4, <1>5, Members DEF Status, Holds
  <1>15. \A k \in Mutexes : MutexInv(k)'
    BY Zenon, <1>4, <1>5, <1>14, OthersStay, MutexQuiet DEF SyncInv, Still
  <1> QED
    BY Zenon, <1>6, <1>11, <1>13, <1>15 DEF SyncInv

\* The fiber that is to be made ready sleeps, once its scheduler_lock is free.
LEMMA WokenSleeps ==
  ASSUME SyncInv, NEW f \in Fibers, At(f, "ready")
  PROVE  /\ Woken(f) # <<>> /\ Head(Woken(f)) \in Fibers
         /\ CanReady(Head(Woken(f))) =>
              state[Head(Woken(f))] = "Waiting" /\ Head(Woken(f)) # f
  <1>1. Where(f) = "ready" /\ Woken(f) \in Seq(Fibers) /\ SyncTyped /\ PlaceInv
        /\ Object(f) \in Waitables
    BY Zenon, AtFacts
  <1>2. PICK h : h = Head(Woken(f))
    BY Zenon
  <1>3. Woken(f) # <<>> /\ h \in Fibers /\ 1 \in DOMAIN Woken(f) /\ Woken(f)[1] = h
    BY <1>1, <1>2 DEF SyncInv, WokenInv
  <1>4. WaitsOn(h) = Object(f) /\ state[h] # "Ready"
    BY Zenon, <1>3 DEF SyncInv, ChainInv
  <1>5. Nested(h) \/ Where(h) \in WaitAts \/ Where(h) \in {"halt", "asleep"}
    BY Zenon, <1>1, <1>4, NoneIsNoObject DEF WaitsOn
  <1>6. ASSUME CanReady(h) PROVE Where(h) \in {"asleep", "asleep_wait"}
    BY Zenon, <1>3, <1>5, <1>6, <1>1 DEF CanReady, PlaceInv, Scheduled, WaitAts
  <1>7. ASSUME CanReady(h) PROVE state[h] = "Waiting" /\ h # f
    BY Zenon, <1>1, <1>3, <1>4, <1>6, <1>7 DEF PlaceInv, Scheduled, SyncTyped
  <1> QED
    BY Zenon, <1>2, <1>3, <1>7

LEMMA TailOfOne ==
  ASSUME NEW S, NEW s \in Seq(S), s # <<>>
  PROVE  Tail(s) \in Seq(S) /\ (Len(s) = 1 <=> Tail(s) = <<>>)
  <1>1. Len(s) \in Nat \ {0} /\ Tail(s) \in Seq(S) /\ Len(Tail(s)) = Len(s) - 1
    OBVIOUS
  <1>2. ASSUME NEW t \in Seq(S) PROVE t = <<>> <=> Len(t) = 0
    OBVIOUS
  <1>3. Tail(s) = <<>> <=> Len(s) - 1 = 0
    BY Zenon, <1>1, <1>2
  <1> QED
    BY <1>1, <1>3

LEMMA ReadyFiberSync ==
  ASSUME SyncInv, NEW f \in Fibers, ReadyFiber(f), UNCHANGED mutexVars
  PROVE  SyncInv'
  <1>1. At(f, "ready") /\ UNCHANGED pc
    BY Zenon DEF ReadyFiber, mutexVars
  <1>2. PICK m, h : m = Object(f) /\ h = Head(Woken(f))
    BY Zenon
  <1>3. /\ stack[f] # <<>> /\ Where(f) = "ready"
        /\ Head(stack[f]).woken = Woken(f) /\ Woken(f) \in Seq(Fibers)
        /\ Place(f) /\ Scheduled(f) /\ SyncTyped /\ StackTyped /\ PlaceInv
    BY Zenon, <1>1, <1>2, AtFacts
  <1>4. Woken(f) # <<>> /\ h \in Fibers /\ state[h] = "Waiting" /\ h # f
    BY Zenon, <1>1, <1>2, <1>3, WokenSleeps DEF ReadyFiber
  <1>5. /\ UNCHANGED <<count, slow_path_lock, waiters, persistent_awakened,
                       scheduler_lock>>
        /\ state' = [state EXCEPT ![h] = "Ready"]
        /\ OthersGoOn(f) /\ pc' \in [Fibers -> Labels]
    BY Zenon, <1>1, <1>2, <1>3 DEF ReadyFiber, objectVars, OthersGoOn, PlaceInv
  <1>6. /\ state' \in [Fibers -> {"Running", "Waiting", "Ready"}]
        /\ state'[f] = state[f]
        /\ \A g \in Fibers \ {f} : state'[g] = "Running" <=> state[g] = "Running"
    BY Zenon, <1>3, <1>4, <1>5 DEF SyncTyped
  <1>7. /\ Where(f) \in UnlockAts /\ Where(f) \in NotifyAts
        /\ m \in Mutexes => Status(f, m) = "none"
    <2>1. Where(f) \in UnlockAts /\ Where(f) \in NotifyAts
      BY Zenon, <1>3 DEF UnlockAts, NotifyAts
    <2> QED
      BY Zenon, <1>2, <1>3, <2>1, InUnlock, Members DEF Status, Holds
  <1>8. CASE Len(Woken(f)) = 1 /\ Return(f)
    <2>1. /\ StackTyped' /\ Others(f)
          /\ Nested(f) => Arrives(f, "halt_wait", "wakeup_lock")
          /\ ~Nested(f) => Arrives(f, "here", "none")
      BY Zenon, <1>3, <1>8, ReturnForm
    <2>2. SyncTyped'
      BY Zenon, <1>3, <1>5, <1>6, <2>1 DEF SyncTyped
    <2>3. /\ Place(f)' /\ Scheduled(f)' /\ WaitsOn(f)' = WaitsOn(f)
          /\ \A k \in Mutexes : Status(f, k)' = Status(f, k)
      <3>1. CASE m \in Mutexes
        BY Zenon, <1>1, <1>2, <1>3, <1>5, <1>6, <1>7, <2>1, <3>1, UnlockReturns
      <3>2. CASE m \notin Mutexes
        BY Zenon, <1>1, <1>2, <1>3, <1>5, <1>6, <1>7, <2>1, <3>2, InNotify, NotifyMoves
      <3> QED
        BY Zenon, <3>1, <3>2
    <2>4. Woken(f)' = <<>> /\ Where(f)' # "ready"
      BY Zenon, <2>1 DEF Arrives
    <2>5. PlaceInv' /\ WokenInv'
      BY Zenon, <1>3, <1>5, <1>6, <2>1, <2>3, <2>4, PlaceStep, WokenStep DEF SyncInv
    <2>6. \A g \in Fibers : WaitsOn(g)' = WaitsOn(g)
      BY Zenon, <1>5, <2>1, <2>3, OthersStay
    <2>7. Woken(f)' = Tail(Woken(f))
      BY Zenon, <1>3, <1>4, <1>8, <2>4, TailOfOne
    <2>8. ChainInv'
      BY Zenon, <1>2, <1>3, <1>4, <1>5, <2>1, <2>4, <2>6, <2>7, ChainReady DEF SyncInv, Others
    <2>9. \A k \in Mutexes : MutexInv(k)'
      BY Zenon, <1>5, <2>1, <2>3, OthersStay, MutexQuiet DEF SyncInv, Still
    <2> QED
      BY Zenon, <2>2, <2>5, <2>8, <2>9 DEF SyncInv
  <1>9. CASE /\ Len(Woken(f)) # 1
             /\ stack' = [stack EXCEPT ![f][1].woken = Tail(@)]
    <2>1. stack' = [stack EXCEPT ![f][1].woken = Tail(Woken(f))]
      BY Zenon, <1>3, <1>9, TopTyped
    <2>2. Tail(Woken(f)) \in Seq(Fibers) /\ Tail(Woken(f)) # <<>>
      BY Zenon, <1>3, <1>4, <1>9, TailOfOne
    <2>3. /\ StackTyped' /\ Others(f)
          /\ Where(f)' = Where(f) /\ Object(f)' = Object(f)
          /\ Woken(f)' = Tail(Woken(f)) /\ Nested(f)' = Nested(f)
      BY Zenon, <1>3, <2>1, <2>2, WokenForm
    <2>4. SyncTyped'
      BY Zenon, <1>3, <1>5, <1>6, <2>3 DEF SyncTyped
    <2>5. /\ Place(f)' /\ Scheduled(f)' /\ WaitsOn(f)' = WaitsOn(f)
          /\ \A k \in Mutexes : Status(f, k)' = Status(f, k)
      <3>1. CASE m \in Mutexes
        BY Zenon, <1>1, <1>2, <1>3, <1>5, <1>6, <1>7, <2>3, <3>1, UnlockGoes
      <3>2. CASE m \notin Mutexes
        BY Zenon, <1>1, <1>2, <1>3, <1>5, <1>6, <1>7, <2>3, <3>2, NotifyMoves
      <3> QED
        BY Zenon, <3>1, <3>2
    <2>6. PlaceInv' /\ WokenInv'
      BY Zenon, <1>3, <1>5, <1>6, <2>2, <2>3, <2>5, PlaceStep, WokenStep DEF SyncInv
    <2>7. \A g \in Fibers : WaitsOn(g)' = WaitsOn(g)
      BY Zenon, <1>5, <2>3, <2>5, OthersStay
    <2>8. ChainInv'
      BY Zenon, <1>2, <1>3, <1>4, <1>5, <2>3, <2>7, ChainReady DEF SyncInv, Others
    <2>9. \A k \in Mutexes : MutexInv(k)'
      BY Zenon, <1>5, <2>3, <2>5, OthersStay, MutexQuiet DEF SyncInv, Still
    <2> QED
      BY Zenon, <2>4, <2>6, <2>8, <2>9 DEF SyncInv
  <1> QED
    BY Zenon, <1>3, <1>8, <1>9 DEF ReadyFiber

LEMMA ResumeSync ==
  ASSUME SyncInv, NEW f \in Fibers, Resume(f), UNCHANGED mutexVars
  PROVE  SyncInv'
  <1>1. /\ UNCHANGED <<count, slow_path_lock, waiters, persistent_awakened, pc,
                       scheduler_lock>>
        /\ state' = [state EXCEPT ![f] = "Running"]
        /\ state[f] = "Ready" /\ ~scheduler_lock[f]
    BY Zenon DEF Resume, objectVars, mutexVars
  <1>2. PICK m : m = Object(f)
    BY Zenon
  <1>3. PICK at \in {"asleep", "asleep_wait"} :
          /\ At(f, at)
          /\ at = "asleep" => Return(f)
          /\ at = "asleep_wait" => Jump(f, "lock")
    BY Zenon DEF Resume
  <1>4. /\ stack[f] # <<>> /\ Where(f) = at /\ Place(f) /\ Scheduled(f)
        /\ SyncTyped /\ StackTyped /\ PlaceInv /\ Woken(f) = <<>>
    BY Zenon, <1>3, AtFacts DEF SyncInv, WokenInv
  <1>5. /\ OthersGoOn(f) /\ pc' \in [Fibers -> Labels]
        /\ \A g \in Fibers \ {f} : state'[g] = state[g]
        /\ state'[f] = "Running"
        /\ state' \in [Fibers -> {"Running", "Waiting", "Ready"}]
    BY Zenon, <1>1, <1>4 DEF OthersGoOn, PlaceInv, SyncTyped
  <1>6. CASE at = "asleep"
    <2>1. /\ ~Nested(f) /\ m \in Mutexes /\ m \in Waitables
          /\ Status(f, m) = "chain" /\ Where(f) \in LockAts
      BY Zenon, <1>2, <1>4, <1>6, InLock, LockStatus, Members DEF LockAts
    <2>2. StackTyped' /\ Others(f) /\ Arrives(f, "here", "none")
      BY Zenon, <1>3, <1>4, <1>6, <2>1, ReturnForm
    <2>3. SyncTyped'
      BY Zenon, <1>1, <1>4, <1>5, <2>2 DEF SyncTyped
    <2>4. /\ Place(f)' /\ Status(f, m)' = "hold"
          /\ \A k \in Mutexes \ {m} : Status(f, k)' = Status(f, k)
      BY Zenon, <1>1, <1>2, <1>4, <2>1, <2>2, LockReturns
    <2>5. Scheduled(f)'
      BY Zenon, <1>1, <1>5, <2>2 DEF Scheduled, Arrives
    <2>6. PlaceInv' /\ WokenInv'
      BY Zenon, <1>1, <1>4, <1>5, <2>2, <2>4, <2>5, PlaceStep, WokenStep DEF SyncInv, Arrives
    <2>7. \A g \in Fibers \ {f} : WaitsOn(g)' = WaitsOn(g)
      BY Zenon, <1>5, <2>2, OthersStay
    <2>8. ChainInv'
      BY Zenon, <1>1, <1>4, <2>2, <2>7, ChainResume DEF SyncInv, Others, Arrives
    <2>9. ~Queued(f, m)
      BY Zenon, <1>1, <2>1 DEF SyncInv, ChainInv, Queued
    <2>10. MutexInv(m)'
      BY Zenon, <1>1, <1>5, <2>1, <2>2, <2>4, <2>9, OthersStay, MutexTake DEF SyncInv
    <2> QED
      BY Zenon, <1>1, <2>2, <2>3, <2>4, <2>6, <2>8, <2>10, OneMutexStep
  <1>7. CASE at = "asleep_wait"
    <2>1. /\ ~Nested(f) /\ m = "wakeup_lock"
          /\ pc[f] \in {"await_readers", "await_grant"}
      BY Zenon, <1>2, <1>4, <1>7 DEF Place, LockAts, UnlockAts, NotifyAts, WaitAts
    <2>2. /\ StackTyped' /\ Others(f) /\ Where(f)' = "lock"
          /\ Object(f)' = m /\ Woken(f)' = <<>> /\ ~Nested(f)'
      BY Zenon, <1>2, <1>3, <1>4, <1>7, <2>1, JumpForm DEF LockAts
    <2>3. SyncTyped'
      BY Zenon, <1>1, <1>4, <1>5, <2>2 DEF SyncTyped
    <2>4. Place(f)' /\ Scheduled(f)'
      BY Zenon, <1>1, <1>5, <2>1, <2>2 DEF Place, Scheduled, LockAts
    <2>5. ASSUME NEW k \in Mutexes PROVE Status(f, k)' = Status(f, k)
      BY Zenon, <1>1, <1>2, <1>4, <1>7, <2>1, <2>2, Members DEF Status, Holds
    <2>6. PlaceInv' /\ WokenInv'
      BY Zenon, <1>1, <1>4, <1>5, <2>2, <2>4, PlaceStep, WokenStep DEF SyncInv
    <2>7. \A g \in Fibers \ {f} : WaitsOn(g)' = WaitsOn(g)
      BY Zenon, <1>5, <2>2, OthersStay
    <2>8. ChainInv'
      BY Zenon, <1>1, <1>4, <2>2, <2>7, ChainResume DEF SyncInv, Others
    <2>9. \A k \in Mutexes : MutexInv(k)'
      BY Zenon, <1>1, <1>5, <2>2, <2>5, OthersStay, MutexQuiet DEF SyncInv, Still
    <2> QED
      BY Zenon, <2>3, <2>6, <2>8, <2>9 DEF SyncInv
  <1> QED
    BY Zenon, <1>6, <1>7

(***************************************************************************)
(* The counters.                                                           *)
(***************************************************************************)
LEMMA PcInFinite ==
  ASSUME NEW k
  PROVE  /\ IsFiniteSet(PcIn({k})) /\ Cardinality(PcIn({k})) \in Nat
         /\ Cardinality(PcIn({k})) = 0 <=> PcIn({k}) = {}
         /\ \A f \in Fibers : pc[f] = k => Cardinality(PcIn({k})) # 0
  <1>1. PcIn({k}) \in SUBSET Fibers
    BY Zenon DEF PcIn
  <1>2. IsFiniteSet(PcIn({k})) /\ Cardinality(PcIn({k})) \in Nat
    BY Zenon, <1>1, QuotaAssumption, FS_Subset, FS_CardinalityType
  <1>3. Cardinality(PcIn({k})) = 0 <=> PcIn({k}) = {}
    BY Zenon, <1>2, FS_EmptySet
  <1>4. \A f \in Fibers : pc[f] = k => PcIn({k}) # {}
    BY Zenon DEF PcIn
  <1> QED
    BY Zenon, <1>2, <1>3, <1>4

\* How many fibers are at a label after one has moved.
LEMMA PcMoves ==
  ASSUME pc \in [Fibers -> Labels], NEW f \in Fibers, NEW l, Goto(f, l), NEW k
  PROVE  Cardinality(PcIn({k}))' = Cardinality(PcIn({k})) +
           (IF pc[f] # k /\ l = k THEN 1 ELSE IF pc[f] = k /\ l # k THEN -1 ELSE 0)
  <1>1. pc' = [pc EXCEPT ![f] = l]
    BY Zenon DEF Goto
  <1>2. IsFiniteSet(PcIn({k})) /\ Cardinality(PcIn({k})) \in Nat
    BY Zenon, PcInFinite
  <1>3. CASE pc[f] # k /\ l = k
    <2>1. f \notin PcIn({k}) /\ PcIn({k})' = PcIn({k}) \cup {f}
      BY Zenon, <1>1, <1>3 DEF PcIn
    <2>2. Cardinality(PcIn({k})') = Cardinality(PcIn({k})) + 1
      BY Zenon, <1>2, <2>1, CardinalityMore
    <2> QED
      BY Zenon, <1>3, <2>2
  <1>4. CASE pc[f] = k /\ l # k
    <2>1. f \in PcIn({k}) /\ PcIn({k})' = PcIn({k}) \ {f}
      BY Zenon, <1>1, <1>4 DEF PcIn
    <2>2. Cardinality(PcIn({k})') = Cardinality(PcIn({k})) - 1
      BY Zenon, <1>2, <2>1, CardinalityLess
    <2> QED
      BY Zenon, <1>2, <1>4, <2>2
  <1>5. CASE pc[f] = k <=> l = k
    <2>1. PcIn({k})' = PcIn({k})
      BY Zenon, <1>1, <1>5 DEF PcIn
    <2> QED
      BY <1>2, <1>5, <2>1
  <1> QED
    BY <1>3, <1>4, <1>5

\* Readers that are in or wait are different fibers.
LEMMA ReadersFit ==
  /\ Cardinality(PcIn({"reading"})) + Cardinality(PcIn({"await_grant"}))
       <= Cardinality(Fibers)
  /\ \A f \in Fibers :
       pc[f] = "idle" =>
         Cardinality(PcIn({"reading"})) + Cardinality(PcIn({"await_grant"}))
           < Cardinality(Fibers)
  <1> DEFINE A == PcIn({"reading"})
             B == PcIn({"await_grant"})
  <1>1. /\ A \cap B = {} /\ A \cup B \in SUBSET Fibers
        /\ \A f \in Fibers : pc[f] = "idle" => A \cup B \in SUBSET (Fibers \ {f})
    BY Zenon DEF PcIn
  <1>2. /\ IsFiniteSet(A) /\ Cardinality(A) \in Nat
        /\ IsFiniteSet(B) /\ Cardinality(B) \in Nat
    BY Zenon, PcInFinite
  <1>3. IsFiniteSet(Fibers) /\ Cardinality(Fibers) \in Nat
    BY Zenon, QuotaAssumption, FS_CardinalityType
  <1> HIDE DEF A, B
  <1>4. Cardinality(A \cup B) = Cardinality(A) + Cardinality(B)
    BY <1>1, <1>2, FS_Union, FS_EmptySet
  <1>5. Cardinality(A \cup B) <= Cardinality(Fibers)
    BY Zenon, <1>1, <1>3, FS_Subset
  <1>6. ASSUME NEW f \in Fibers, pc[f] = "idle"
        PROVE  Cardinality(A \cup B) <= Cardinality(Fibers) - 1
    <2> DEFINE T == Fibers \ {f}
    <2>1. IsFiniteSet(T) /\ Cardinality(T) = Cardinality(Fibers) - 1
      BY Zenon, <1>3, FS_RemoveElement
    <2>2. A \cup B \in SUBSET T
      BY Zenon, <1>1, <1>6
    <2> HIDE DEF T
    <2> QED
      BY Zenon, <2>1, <2>2, FS_Subset
  <1>7. Cardinality(A) + Cardinality(B) <= Cardinality(Fibers)
    BY Zenon, <1>4, <1>5
  <1>8. ASSUME NEW f \in Fibers, pc[f] = "idle"
        PROVE  Cardinality(A) + Cardinality(B) < Cardinality(Fibers)
    <2>1. Cardinality(A \cup B) <= Cardinality(Fibers) - 1
      BY Zenon, <1>6, <1>8
    <2> QED
      BY <1>2, <1>3, <1>4, <2>1
  <1> QED
    BY Zenon, <1>7, <1>8 DEF A, B

\* Only one fiber has writer_lock_.
LEMMA OneWriter ==
  ASSUME SyncInv, NEW f \in Fibers, Holds(f, "writer_lock"),
         NEW g \in Fibers, pc[g] \in {"await_readers", "writing", "release"}
  PROVE  g = f
  <1>1. Status(f, "writer_lock") = "hold" /\ Status(g, "writer_lock") = "hold"
    BY Zenon DEF Status, Holds
  <1> QED
    BY Zenon, <1>1, Members DEF SyncInv, MutexInv, Token

\* The counts of the fibers, as numbers.
Reading == Cardinality(PcIn({"reading"}))
Waiting == Cardinality(PcIn({"await_grant"}))
Exiting == Cardinality(PcIn({"wakeup_writer"}))

LEMMA CountsTyped == Reading \in Nat /\ Waiting \in Nat /\ Exiting \in Nat
  BY Zenon, PcInFinite DEF Reading, Waiting, Exiting

\* CounterInv without the sets of fibers.
NoWriter == \A f \in Fibers : pc[f] \notin {"await_readers", "writing", "release"}
NoneAwaits == \A f \in Fibers : pc[f] # "await_readers"
NoneInside == \A f \in Fibers : pc[f] \notin {"writing", "release"}

Counts ==
  /\ reader_quota \in Int /\ exited_readers \in Nat
  /\ newly_granted_readers \in Nat
  /\ pending_readers \in [Fibers -> 0 .. Cardinality(Fibers)]
  /\ \A f \in Fibers : pc[f] # "await_readers" => pending_readers[f] = 0
  /\ reader_quota = (IF NoWriter THEN kMaxReaders ELSE 0) - Reading - Waiting
  /\ NoWriter => newly_granted_readers = Waiting
  /\ NoneAwaits => exited_readers + Exiting = 0
  /\ \A f \in Fibers :
       pc[f] = "await_readers" =>
         pending_readers[f] =
           exited_readers + Exiting + Reading + newly_granted_readers
  /\ ~NoneInside => newly_granted_readers = 0 /\ Reading = 0

LEMMA CountsForm == CounterInv <=> Counts
  <1>1. /\ Announced = {} <=> NoWriter
        /\ PcIn({"await_readers"}) = {} <=> NoneAwaits
        /\ PcIn({"writing", "release"}) = {} <=> NoneInside
        /\ \A f \in Fibers : f \in PcIn({"await_readers"}) <=> pc[f] = "await_readers"
        /\ PcIn({"await_readers"}) \subseteq Fibers
    BY Zenon DEF Announced, PcIn, NoWriter, NoneAwaits, NoneInside
  <1>2. PcIn({"reading"}) = {} <=> Reading = 0
    BY Zenon, PcInFinite DEF Reading
  <1> QED
    BY Zenon, <1>1, <1>2 DEF CounterInv, ReadersAccounted, Counts, Reading, Waiting, Exiting

\* The same of the next state.
LEMMA CountsFormNext == CounterInv' <=> Counts'
  BY CountsForm, PTL

Delta(from, to, k) ==
  IF from # k /\ to = k THEN 1 ELSE IF from = k /\ to # k THEN -1 ELSE 0

LEMMA CountMoves ==
  ASSUME pc \in [Fibers -> Labels], NEW f \in Fibers, NEW l, Goto(f, l)
  PROVE  /\ Reading' = Reading + Delta(pc[f], l, "reading")
         /\ Waiting' = Waiting + Delta(pc[f], l, "await_grant")
         /\ Exiting' = Exiting + Delta(pc[f], l, "wakeup_writer")
         /\ pc'[f] = l /\ \A g \in Fibers \ {f} : pc'[g] = pc[g]
  <1>1. /\ Reading' = Reading + Delta(pc[f], l, "reading")
        /\ Waiting' = Waiting + Delta(pc[f], l, "await_grant")
        /\ Exiting' = Exiting + Delta(pc[f], l, "wakeup_writer")
    BY Zenon, PcMoves DEF Reading, Waiting, Exiting, Delta
  <1>2. pc'[f] = l /\ \A g \in Fibers \ {f} : pc'[g] = pc[g]
    BY Zenon DEF Goto
  <1> QED
    BY Zenon, <1>1, <1>2

\* The label of a fiber says something about the counts.
LEMMA CountsPositive ==
  ASSUME NEW f \in Fibers
  PROVE  /\ pc[f] = "reading" => Reading > 0
         /\ pc[f] = "await_grant" => Waiting > 0
         /\ pc[f] = "wakeup_writer" => Exiting > 0
  <1>1. /\ pc[f] = "reading" => Reading # 0
        /\ pc[f] = "await_grant" => Waiting # 0
        /\ pc[f] = "wakeup_writer" => Exiting # 0
    BY Zenon, PcInFinite DEF Reading, Waiting, Exiting
  <1> QED
    BY <1>1, CountsTyped

LEMMA QuotaFits ==
  /\ Cardinality(Fibers) \in Nat /\ Reading + Waiting <= Cardinality(Fibers)
  /\ kMaxReaders \in Nat /\ Cardinality(Fibers) < kMaxReaders
  /\ \A f \in Fibers : pc[f] = "idle" => Reading + Waiting < Cardinality(Fibers)
  BY Zenon, ReadersFit, QuotaAssumption, FS_CardinalityType DEF Reading, Waiting

\* What the label and the quota say about a writer.
LEMMA WriterKnown ==
  ASSUME Counts
  PROVE  /\ reader_quota > 0 <=> NoWriter
         /\ \A f \in Fibers : pc[f] = "idle" => (reader_quota > 1 <=> NoWriter)
  BY CountsTyped, QuotaFits DEF Counts

\* Steps that move no fiber into or out of what the counters count.
LEMMA CountersQuiet ==
  ASSUME IInv, NEW f \in Fibers, NEW l, Goto(f, l), UNCHANGED counters,
         pc[f] \in {"idle", "announce", "try_quota", "release_writer", "leave"},
         l \in {"idle", "announce", "try_quota", "release_writer", "leave"}
  PROVE  CounterInv'
  <1>1. Counts /\ pc \in [Fibers -> Labels]
    BY Zenon, CountsForm DEF IInv, SyncInv, PlaceInv
  <1>2. /\ Reading' = Reading /\ Waiting' = Waiting /\ Exiting' = Exiting
        /\ pc'[f] = l /\ \A g \in Fibers \ {f} : pc'[g] = pc[g]
    BY <1>1, CountMoves, CountsTyped DEF Delta
  <1>3. (NoWriter' <=> NoWriter) /\ (NoneAwaits' <=> NoneAwaits)
        /\ (NoneInside' <=> NoneInside)
    BY Zenon, <1>2 DEF NoWriter, NoneAwaits, NoneInside
  <1>4. /\ UNCHANGED <<reader_quota, exited_readers, newly_granted_readers,
                       pending_readers>>
        /\ \A g \in Fibers :
             pc'[g] = "await_readers" <=> pc[g] = "await_readers"
    BY Zenon, <1>2 DEF counters
  <1>5. Counts'
    BY Zenon, <1>1, <1>2, <1>3, <1>4 DEF Counts
  <1> QED
    BY Zenon, <1>5, CountsFormNext

LEMMA UnlockCounters ==
  ASSUME IInv, NEW f \in Fibers, Unlock(f)
  PROVE  CounterInv'
  <1>1. Counts /\ pc \in [Fibers -> Labels]
    BY Zenon, CountsForm DEF IInv, SyncInv, PlaceInv
  <1>2. Goto(f, "release") /\ pc[f] = "writing" /\ UNCHANGED counters
    BY Zenon DEF Unlock, CallThen, Here
  <1>3. /\ Reading' = Reading /\ Waiting' = Waiting /\ Exiting' = Exiting
        /\ pc'[f] = "release" /\ \A g \in Fibers \ {f} : pc'[g] = pc[g]
    BY <1>1, <1>2, CountMoves, CountsTyped DEF Delta
  <1>4. (NoWriter' <=> NoWriter) /\ (NoneAwaits' <=> NoneAwaits)
        /\ (NoneInside' <=> NoneInside)
    BY Zenon, <1>2, <1>3 DEF NoWriter, NoneAwaits, NoneInside
  <1>5. /\ UNCHANGED <<reader_quota, exited_readers, newly_granted_readers,
                       pending_readers>>
        /\ \A g \in Fibers :
             pc'[g] = "await_readers" <=> pc[g] = "await_readers"
    BY Zenon, <1>2, <1>3 DEF counters
  <1>6. Counts'
    BY Zenon, <1>1, <1>3, <1>4, <1>5 DEF Counts
  <1> QED
    BY Zenon, <1>6, CountsFormNext

\* lock: the quota tells how many readers are in or have a grant.
LEMMA AnnounceCounters ==
  ASSUME IInv, NEW f \in Fibers, Announce(f)
  PROVE  CounterInv'
  <1>1. Counts /\ pc \in [Fibers -> Labels] /\ SyncInv
    BY Zenon, CountsForm DEF IInv, SyncInv, PlaceInv
  <1>2. PICK l \in {"writing", "await_readers"} :
          /\ Goto(f, l)
          /\ l = "writing" => reader_quota = kMaxReaders /\ UNCHANGED pending_readers
          /\ l = "await_readers" =>
               pending_readers' =
                 [pending_readers EXCEPT ![f] = kMaxReaders - reader_quota]
    BY Zenon DEF Announce, CallThen
  <1>3. /\ pc[f] = "announce" /\ Where(f) = "here"
        /\ reader_quota' = reader_quota - kMaxReaders
        /\ UNCHANGED <<exited_readers, newly_granted_readers>>
    BY Zenon, <1>1, HereFacts DEF Announce, Here
  <1>4. NoWriter /\ NoneAwaits /\ NoneInside
    BY Zenon, <1>1, <1>3, OneWriter DEF Holds, NoWriter, NoneAwaits, NoneInside
  <1>5. /\ Reading' = Reading /\ Waiting' = Waiting /\ Exiting' = Exiting
        /\ pc'[f] = l /\ \A g \in Fibers \ {f} : pc'[g] = pc[g]
    BY <1>1, <1>2, <1>3, CountMoves, CountsTyped DEF Delta
  <1>6. /\ ~NoWriter' /\ (NoneAwaits' <=> l = "writing")
        /\ (NoneInside' <=> l = "await_readers")
        /\ \A g \in Fibers : pc'[g] = "await_readers" => g = f
    BY Zenon, <1>2, <1>4, <1>5 DEF NoWriter, NoneAwaits, NoneInside
  <1>7. /\ reader_quota = kMaxReaders - Reading - Waiting
        /\ newly_granted_readers = Waiting /\ exited_readers + Exiting = 0
        /\ exited_readers \in Nat /\ reader_quota \in Int
        /\ pending_readers \in [Fibers -> 0 .. Cardinality(Fibers)]
        /\ \A g \in Fibers : pending_readers[g] = 0
    BY Zenon, <1>1, <1>4 DEF Counts, NoneAwaits
  <1>8. /\ Reading \in Nat /\ Waiting \in Nat /\ Exiting \in Nat /\ kMaxReaders \in Nat
        /\ Cardinality(Fibers) \in Nat /\ Reading + Waiting <= Cardinality(Fibers)
    BY Zenon, CountsTyped, QuotaFits
  <1>9. /\ pending_readers' \in [Fibers -> 0 .. Cardinality(Fibers)]
        /\ \A g \in Fibers : pc'[g] # "await_readers" => pending_readers'[g] = 0
        /\ l = "await_readers" => pending_readers'[f] = Reading + Waiting
    BY <1>2, <1>5, <1>7, <1>8
  <1>10. Counts'
    BY <1>2, <1>3, <1>5, <1>6, <1>7, <1>8, <1>9 DEF Counts
  <1> QED
    BY Zenon, <1>10, CountsFormNext

\* lock returns: no reader is in, on its way out, or has a grant left to take.
LEMMA AwaitReadersCounters ==
  ASSUME IInv, NEW f \in Fibers, Here(f, "await_readers"), ReadersGone(f),
         exited_readers' = 0, pending_readers' = [pending_readers EXCEPT ![f] = 0],
         Goto(f, "writing"), UNCHANGED <<reader_quota, newly_granted_readers>>
  PROVE  CounterInv'
  <1>1. Counts /\ pc \in [Fibers -> Labels] /\ SyncInv /\ pc[f] = "await_readers"
    BY Zenon, CountsForm DEF IInv, SyncInv, PlaceInv, Here
  <1>2. \A g \in Fibers : pc[g] \in {"await_readers", "writing", "release"} => g = f
    BY Zenon, <1>1, OneWriter DEF Holds
  <1>3. /\ Reading' = Reading /\ Waiting' = Waiting /\ Exiting' = Exiting
        /\ pc'[f] = "writing" /\ \A g \in Fibers \ {f} : pc'[g] = pc[g]
    BY <1>1, CountMoves, CountsTyped DEF Delta
  <1>4. ~NoWriter /\ ~NoWriter' /\ NoneAwaits' /\ ~NoneInside'
    BY Zenon, <1>1, <1>2, <1>3 DEF NoWriter, NoneAwaits, NoneInside
  <1>5. Reading \in Nat /\ Waiting \in Nat /\ Exiting \in Nat
    BY Zenon, CountsTyped
  <1>6. Exiting = 0 /\ Reading = 0 /\ newly_granted_readers = 0
    BY <1>1, <1>5 DEF Counts, ReadersGone
  <1>7. /\ pending_readers' \in [Fibers -> 0 .. Cardinality(Fibers)]
        /\ \A g \in Fibers : pc'[g] # "await_readers" => pending_readers'[g] = 0
        /\ \A g \in Fibers : pc'[g] # "await_readers"
    BY <1>1, <1>2, <1>3, QuotaFits DEF Counts
  <1>8. Counts'
    BY <1>1, <1>3, <1>4, <1>5, <1>6, <1>7 DEF Counts
  <1> QED
    BY Zenon, <1>8, CountsFormNext

\* try_lock finds the whole quota.
LEMMA TryQuotaCounters ==
  ASSUME IInv, NEW f \in Fibers, Here(f, "try_quota"), reader_quota = kMaxReaders,
         reader_quota' = 0, Goto(f, "writing"),
         UNCHANGED <<exited_readers, newly_granted_readers, pending_readers>>
  PROVE  CounterInv'
  <1>1. Counts /\ pc \in [Fibers -> Labels] /\ SyncInv /\ pc[f] = "try_quota"
    BY Zenon, CountsForm DEF IInv, SyncInv, PlaceInv, Here
  <1>2. NoWriter /\ NoneAwaits /\ NoneInside
    BY Zenon, <1>1, OneWriter DEF Holds, NoWriter, NoneAwaits, NoneInside
  <1>3. /\ Reading' = Reading /\ Waiting' = Waiting /\ Exiting' = Exiting
        /\ pc'[f] = "writing" /\ \A g \in Fibers \ {f} : pc'[g] = pc[g]
    BY <1>1, CountMoves, CountsTyped DEF Delta
  <1>4. ~NoWriter' /\ NoneAwaits' /\ ~NoneInside'
    BY Zenon, <1>2, <1>3 DEF NoWriter, NoneAwaits, NoneInside
  <1>5. Reading = 0 /\ Waiting = 0 /\ newly_granted_readers = 0
    BY <1>1, <1>2, CountsTyped, QuotaFits DEF Counts
  <1>6. \A g \in Fibers : pc'[g] # "await_readers" /\ pc[g] # "await_readers"
    BY Zenon, <1>2, <1>3 DEF NoneAwaits
  <1>7. Counts'
    BY <1>1, <1>2, <1>3, <1>4, <1>5, <1>6 DEF Counts
  <1> QED
    BY Zenon, <1>7, CountsFormNext

\* unlock: the quota tells how many readers wait.
LEMMA ReleaseCounters ==
  ASSUME IInv, NEW f \in Fibers, Release(f)
  PROVE  CounterInv'
  <1>1. Counts /\ pc \in [Fibers -> Labels] /\ SyncInv /\ pc[f] = "release"
    BY Zenon, CountsForm DEF IInv, SyncInv, PlaceInv, Release, Here
  <1>2. /\ Goto(f, "release_writer") /\ reader_quota' = reader_quota + kMaxReaders
        /\ UNCHANGED <<exited_readers, pending_readers>>
        /\ reader_quota = 0 => UNCHANGED newly_granted_readers
        /\ reader_quota # 0 => newly_granted_readers' = -reader_quota
    BY Zenon DEF Release, CallThen
  <1>3. \A g \in Fibers : pc[g] \in {"await_readers", "writing", "release"} => g = f
    BY Zenon, <1>1, OneWriter DEF Holds
  <1>4. /\ Reading' = Reading /\ Waiting' = Waiting /\ Exiting' = Exiting
        /\ pc'[f] = "release_writer" /\ \A g \in Fibers \ {f} : pc'[g] = pc[g]
    BY <1>1, <1>2, CountMoves, CountsTyped DEF Delta
  <1>5. ~NoWriter /\ NoneAwaits /\ ~NoneInside /\ NoWriter' /\ NoneAwaits' /\ NoneInside'
    BY Zenon, <1>1, <1>3, <1>4 DEF NoWriter, NoneAwaits, NoneInside
  <1>6. Reading = 0 /\ newly_granted_readers = 0 /\ reader_quota = -Waiting
    BY <1>1, <1>5, CountsTyped DEF Counts
  <1>7. newly_granted_readers' = Waiting
    BY <1>2, <1>6, CountsTyped
  <1>8. \A g \in Fibers : pc'[g] # "await_readers" /\ pc[g] # "await_readers"
    BY Zenon, <1>5 DEF NoneAwaits
  <1>9. Counts'
    BY <1>1, <1>2, <1>4, <1>5, <1>6, <1>7, <1>8, CountsTyped, QuotaFits DEF Counts
  <1> QED
    BY Zenon, <1>9, CountsFormNext

\* lock_shared and try_lock_shared without a writer.
LEMMA EnterCounters ==
  ASSUME IInv, NEW f \in Fibers, pc[f] = "idle", reader_quota > 0,
         reader_quota' = reader_quota - 1, Goto(f, "reading"),
         UNCHANGED <<exited_readers, newly_granted_readers, pending_readers>>
  PROVE  CounterInv'
  <1>1. Counts /\ pc \in [Fibers -> Labels]
    BY Zenon, CountsForm DEF IInv, SyncInv, PlaceInv
  <1>2. NoWriter
    BY Zenon, <1>1, WriterKnown
  <1>3. /\ Reading' = Reading + 1 /\ Waiting' = Waiting /\ Exiting' = Exiting
        /\ pc'[f] = "reading" /\ \A g \in Fibers \ {f} : pc'[g] = pc[g]
    BY <1>1, CountMoves, CountsTyped DEF Delta
  <1>4. NoWriter' /\ NoneAwaits /\ NoneAwaits' /\ NoneInside'
    BY Zenon, <1>2, <1>3 DEF NoWriter, NoneAwaits, NoneInside
  <1>5. \A g \in Fibers : pc'[g] # "await_readers" /\ pc[g] # "await_readers"
    BY Zenon, <1>4 DEF NoneAwaits
  <1>6. Counts'
    BY <1>1, <1>2, <1>3, <1>4, <1>5, CountsTyped, QuotaFits DEF Counts
  <1> QED
    BY Zenon, <1>6, CountsFormNext

\* lock_shared finds a writer and waits.
LEMMA AskCounters ==
  ASSUME IInv, NEW f \in Fibers, pc[f] = "idle", ~(reader_quota > 1),
         reader_quota' = reader_quota - 1, Goto(f, "await_grant"),
         UNCHANGED <<exited_readers, newly_granted_readers, pending_readers>>
  PROVE  CounterInv'
  <1>1. Counts /\ pc \in [Fibers -> Labels]
    BY Zenon, CountsForm DEF IInv, SyncInv, PlaceInv
  <1>2. ~NoWriter
    BY Zenon, <1>1, WriterKnown
  <1>3. /\ Reading' = Reading /\ Waiting' = Waiting + 1 /\ Exiting' = Exiting
        /\ pc'[f] = "await_grant" /\ \A g \in Fibers \ {f} : pc'[g] = pc[g]
    BY <1>1, CountMoves, CountsTyped DEF Delta
  <1>4. /\ ~NoWriter' /\ (NoneAwaits' <=> NoneAwaits) /\ (NoneInside' <=> NoneInside)
    BY Zenon, <1>2, <1>3 DEF NoWriter, NoneAwaits, NoneInside
  <1>5. \A g \in Fibers : pc'[g] = "await_readers" <=> pc[g] = "await_readers"
    BY Zenon, <1>3
  <1>6. Counts'
    BY <1>1, <1>2, <1>3, <1>4, <1>5, CountsTyped, QuotaFits DEF Counts
  <1> QED
    BY Zenon, <1>6, CountsFormNext

\* WaitForRead takes a grant.
LEMMA AwaitGrantCounters ==
  ASSUME IInv, NEW f \in Fibers, pc[f] = "await_grant", Granted,
         newly_granted_readers' = newly_granted_readers - 1, Goto(f, "reading"),
         UNCHANGED <<reader_quota, exited_readers, pending_readers>>
  PROVE  CounterInv'
  <1>1. Counts /\ pc \in [Fibers -> Labels]
    BY Zenon, CountsForm DEF IInv, SyncInv, PlaceInv
  <1>2. newly_granted_readers \in Nat \ {0} /\ NoneInside /\ Waiting > 0
    BY Zenon, <1>1, CountsPositive DEF Counts, Granted
  <1>3. /\ Reading' = Reading + 1 /\ Waiting' = Waiting - 1 /\ Exiting' = Exiting
        /\ pc'[f] = "reading" /\ \A g \in Fibers \ {f} : pc'[g] = pc[g]
    BY <1>1, CountMoves, CountsTyped DEF Delta
  <1>4. (NoWriter' <=> NoWriter) /\ (NoneAwaits' <=> NoneAwaits) /\ NoneInside'
    BY Zenon, <1>2, <1>3 DEF NoWriter, NoneAwaits, NoneInside
  <1>5. \A g \in Fibers : pc'[g] = "await_readers" <=> pc[g] = "await_readers"
    BY Zenon, <1>3
  <1>6. Counts'
    BY <1>1, <1>2, <1>3, <1>4, <1>5, CountsTyped, QuotaFits DEF Counts
  <1> QED
    BY Zenon, <1>6, CountsFormNext

\* unlock_shared without a writer.
LEMMA LeaveCounters ==
  ASSUME IInv, NEW f \in Fibers, pc[f] = "reading", reader_quota > 0,
         reader_quota' = reader_quota + 1, Goto(f, "idle"),
         UNCHANGED <<exited_readers, newly_granted_readers, pending_readers>>
  PROVE  CounterInv'
  <1>1. Counts /\ pc \in [Fibers -> Labels]
    BY Zenon, CountsForm DEF IInv, SyncInv, PlaceInv
  <1>2. NoWriter
    BY Zenon, <1>1, WriterKnown
  <1>3. /\ Reading' = Reading - 1 /\ Waiting' = Waiting /\ Exiting' = Exiting
        /\ pc'[f] = "idle" /\ \A g \in Fibers \ {f} : pc'[g] = pc[g]
    BY <1>1, CountMoves, CountsTyped DEF Delta
  <1>4. NoWriter' /\ NoneAwaits /\ NoneAwaits' /\ NoneInside'
    BY Zenon, <1>2, <1>3 DEF NoWriter, NoneAwaits, NoneInside
  <1>5. \A g \in Fibers : pc'[g] # "await_readers" /\ pc[g] # "await_readers"
    BY Zenon, <1>4 DEF NoneAwaits
  <1>6. Counts'
    BY <1>1, <1>2, <1>3, <1>4, <1>5, CountsTyped, QuotaFits DEF Counts
  <1> QED
    BY Zenon, <1>6, CountsFormNext

\* unlock_shared finds a writer: the writer still waits, for this reader too.
LEMMA ExitCounters ==
  ASSUME IInv, NEW f \in Fibers, pc[f] = "reading", ~(reader_quota > 0),
         reader_quota' = reader_quota + 1, Goto(f, "wakeup_writer"),
         UNCHANGED <<exited_readers, newly_granted_readers, pending_readers>>
  PROVE  CounterInv'
  <1>1. Counts /\ pc \in [Fibers -> Labels]
    BY Zenon, CountsForm DEF IInv, SyncInv, PlaceInv
  <1>2. ~NoWriter /\ NoneInside /\ ~NoneAwaits /\ Reading > 0
    <2>1. ~NoWriter /\ Reading > 0
      BY Zenon, <1>1, WriterKnown, CountsPositive
    <2>2. NoneInside
      BY <1>1, <2>1 DEF Counts
    <2> QED
      BY Zenon, <2>1, <2>2 DEF NoWriter, NoneAwaits, NoneInside
  <1>3. /\ Reading' = Reading - 1 /\ Waiting' = Waiting /\ Exiting' = Exiting + 1
        /\ pc'[f] = "wakeup_writer" /\ \A g \in Fibers \ {f} : pc'[g] = pc[g]
    BY <1>1, CountMoves, CountsTyped DEF Delta
  <1>4. ~NoWriter' /\ ~NoneAwaits' /\ NoneInside'
    BY Zenon, <1>2, <1>3 DEF NoWriter, NoneAwaits, NoneInside
  <1>5. \A g \in Fibers : pc'[g] = "await_readers" <=> pc[g] = "await_readers"
    BY Zenon, <1>3
  <1>6. Counts'
    BY <1>1, <1>2, <1>3, <1>4, <1>5, CountsTyped, QuotaFits DEF Counts
  <1> QED
    BY Zenon, <1>6, CountsFormNext

\* The exit is counted: the writer is still there to see it.
LEMMA WakeupWriterCounters ==
  ASSUME IInv, NEW f \in Fibers, WakeupWriter(f)
  PROVE  CounterInv'
  <1>1. Counts /\ pc \in [Fibers -> Labels] /\ pc[f] = "wakeup_writer"
    BY Zenon, CountsForm DEF IInv, SyncInv, PlaceInv, WakeupWriter, Here
  <1>2. /\ Goto(f, "leave") /\ exited_readers' = exited_readers + 1
        /\ UNCHANGED <<reader_quota, newly_granted_readers, pending_readers>>
    BY Zenon DEF WakeupWriter, CallThen
  <1>3. Exiting > 0 /\ ~NoneAwaits
    BY <1>1, CountsPositive, CountsTyped DEF Counts
  <1>4. /\ Reading' = Reading /\ Waiting' = Waiting /\ Exiting' = Exiting - 1
        /\ pc'[f] = "leave" /\ \A g \in Fibers \ {f} : pc'[g] = pc[g]
    BY <1>1, <1>2, CountMoves, CountsTyped DEF Delta
  <1>5. /\ (NoWriter' <=> NoWriter) /\ ~NoneAwaits' /\ (NoneInside' <=> NoneInside)
    BY Zenon, <1>1, <1>3, <1>4 DEF NoWriter, NoneAwaits, NoneInside
  <1>6. \A g \in Fibers : pc'[g] = "await_readers" <=> pc[g] = "await_readers"
    BY Zenon, <1>1, <1>4
  <1>7. Counts'
    BY <1>1, <1>2, <1>3, <1>4, <1>5, <1>6, CountsTyped, QuotaFits DEF Counts
  <1> QED
    BY Zenon, <1>7, CountsFormNext

(***************************************************************************)
(* The invariant.                                                          *)
(***************************************************************************)
\* A step inside a call leaves the counters and the labels alone.
LEMMA CallStepIInv ==
  ASSUME IInv, NEW f \in Fibers, UNCHANGED mutexVars,
         MutexStep(f) \/ NotifyAll(f) \/ SchedulerStep(f)
  PROVE  IInv'
  <1>1. SyncInv
    BY Zenon DEF IInv
  <1>2. SyncInv'
    BY Zenon, <1>1, MutexLockSync, LockSlowSync, LockEnqueueSync, MutexUnlockSync, UnlockWakeSync,
       NotifyAllSync, HaltSync, ReadyFiberSync, ResumeSync
    DEF MutexStep, SchedulerStep
  <1>3. CounterInv'
    BY Zenon DEF IInv, CounterInv, ReadersAccounted, Announced, PcIn, mutexVars
  <1> QED
    BY Zenon, <1>2, <1>3 DEF IInv

LEMMA BeginIInv ==
  ASSUME IInv, NEW f \in Fibers, Begin(f)
  PROVE  IInv'
  <1>1. SyncInv
    BY Zenon DEF IInv
  <1>2. CASE Lock(f)
    <2>1. Here(f, "idle") /\ CallThen(f, "lock", "writer_lock", "announce")
          /\ UNCHANGED counters
      BY Zenon, <1>2 DEF Lock
    <2>2. SyncInv'
      BY <1>1, <2>1, OwnCallSync DEF OwnCalls
    <2>3. CounterInv'
      BY Zenon, <2>1, CountersQuiet DEF CallThen, Here
    <2> QED
      BY Zenon, <2>2, <2>3 DEF IInv
  <1>3. CASE TryLock(f)
    <2>1. CounterInv'
      BY Zenon, <1>3, CountersQuiet DEF TryLock, Here
    <2> QED
      BY Zenon, <1>1, <1>3, <2>1, TryLockSync DEF IInv
  <1>4. CASE LockShared(f)
    <2>1. /\ Here(f, "idle") /\ pc[f] = "idle" /\ reader_quota' = reader_quota - 1
          /\ UNCHANGED <<exited_readers, newly_granted_readers, pending_readers>>
      BY Zenon, <1>4 DEF LockShared, Here
    <2>2. CASE reader_quota > 1 /\ Goto(f, "reading") /\ UNCHANGED syncVars
      <3>1. SyncInv'
        BY <1>1, <2>1, <2>2, OwnStepSync DEF OwnSteps
      <3>2. reader_quota > 0
        BY <2>2 DEF IInv, CounterInv
      <3>3. CounterInv'
        BY Zenon, <2>1, <2>2, <3>2, EnterCounters
      <3> QED
        BY Zenon, <3>1, <3>3 DEF IInv
    <2>3. CASE reader_quota <= 1 /\ CallThen(f, "lock", "wakeup_lock", "await_grant")
      <3>1. SyncInv'
        BY <1>1, <2>1, <2>3, OwnCallSync DEF OwnCalls
      <3>2. ~(reader_quota > 1)
        BY <2>3 DEF IInv, CounterInv
      <3>3. CounterInv'
        BY Zenon, <2>1, <2>3, <3>2, AskCounters DEF CallThen
      <3> QED
        BY Zenon, <3>1, <3>3 DEF IInv
    <2> QED
      BY Zenon, <1>4, <2>2, <2>3 DEF LockShared
  <1>5. CASE TryLockShared(f)
    <2>1. /\ Here(f, "idle") /\ pc[f] = "idle" /\ Goto(f, "reading")
          /\ UNCHANGED syncVars
      BY Zenon, <1>5 DEF TryLockShared, Here
    <2>2. SyncInv'
      BY <1>1, <2>1, OwnStepSync DEF OwnSteps
    <2>3. CounterInv'
      BY Zenon, <1>5, <2>1, EnterCounters DEF TryLockShared
    <2> QED
      BY Zenon, <2>2, <2>3 DEF IInv
  <1> QED
    BY Zenon, <1>2, <1>3, <1>4, <1>5 DEF Begin

LEMMA ProceedIInv ==
  ASSUME IInv, NEW f \in Fibers, Proceed(f)
  PROVE  IInv'
  <1>1. SyncInv
    BY Zenon DEF IInv
  <1>2. CASE Announce(f)
    <2>1. Here(f, "announce")
      BY Zenon, <1>2 DEF Announce
    <2>2. SyncInv'
      BY <1>1, <1>2, <2>1, OwnCallSync, OwnStepSync DEF Announce, OwnCalls, OwnSteps
    <2> QED
      BY Zenon, <1>2, <2>2, AnnounceCounters DEF IInv
  <1>3. CASE AwaitReaders(f)
    <2>1. Here(f, "await_readers") /\ UNCHANGED <<reader_quota, newly_granted_readers>>
      BY Zenon, <1>3 DEF AwaitReaders
    <2>2. CASE /\ ReadersGone(f) /\ exited_readers' = 0
               /\ pending_readers' = [pending_readers EXCEPT ![f] = 0]
               /\ CallThen(f, "unlock", "wakeup_lock", "writing")
      <3>1. SyncInv'
        BY <1>1, <2>1, <2>2, OwnCallSync DEF OwnCalls
      <3>2. CounterInv'
        BY Zenon, <2>1, <2>2, AwaitReadersCounters DEF CallThen
      <3> QED
        BY Zenon, <3>1, <3>2 DEF IInv
    <2>3. CASE /\ Wait(f, "wakeup_cv", "wakeup_lock")
               /\ UNCHANGED <<exited_readers, pending_readers, pc>>
      <3>1. SyncInv'
        BY Zenon, <1>1, <2>1, <2>3, WaitSync DEF Here
      <3>2. CounterInv'
        BY Zenon, <2>1, <2>3 DEF IInv, CounterInv, ReadersAccounted, Announced, PcIn
      <3> QED
        BY Zenon, <3>1, <3>2 DEF IInv
    <2> QED
      BY Zenon, <1>3, <2>2, <2>3 DEF AwaitReaders
  <1>4. CASE TryQuota(f)
    <2>1. /\ Here(f, "try_quota")
          /\ UNCHANGED <<exited_readers, newly_granted_readers, pending_readers>>
      BY Zenon, <1>4 DEF TryQuota
    <2>2. SyncInv'
      BY <1>1, <1>4, <2>1, OwnCallSync, OwnStepSync DEF TryQuota, OwnCalls, OwnSteps
    <2>3. CASE reader_quota = kMaxReaders /\ reader_quota' = 0 /\ Goto(f, "writing")
      BY Zenon, <2>1, <2>2, <2>3, TryQuotaCounters DEF IInv
    <2>4. CASE Goto(f, "idle") /\ UNCHANGED reader_quota
      BY Zenon, <2>1, <2>2, <2>4, CountersQuiet DEF IInv, Here, counters
    <2> QED
      BY Zenon, <1>4, <2>3, <2>4 DEF TryQuota, CallThen
  <1>5. CASE Unlock(f)
    <2>1. SyncInv'
      BY <1>1, <1>5, OwnCallSync DEF Unlock, OwnCalls
    <2> QED
      BY Zenon, <1>5, <2>1, UnlockCounters DEF IInv
  <1>6. CASE Release(f)
    <2>1. Here(f, "release")
      BY Zenon, <1>6 DEF Release
    <2>2. SyncInv'
      BY <1>1, <1>6, <2>1, OwnCallSync, OwnStepSync DEF Release, OwnCalls, OwnSteps
    <2> QED
      BY Zenon, <1>6, <2>2, ReleaseCounters DEF IInv
  <1>7. CASE ReleaseWriter(f)
    <2>1. SyncInv'
      BY <1>1, <1>7, OwnCallSync DEF ReleaseWriter, OwnCalls
    <2>2. CounterInv'
      BY Zenon, <1>7, CountersQuiet DEF ReleaseWriter, CallThen, Here
    <2> QED
      BY Zenon, <2>1, <2>2 DEF IInv
  <1>8. CASE Leave(f)
    <2>1. SyncInv'
      BY <1>1, <1>8, OwnCallSync DEF Leave, OwnCalls
    <2>2. CounterInv'
      BY Zenon, <1>8, CountersQuiet DEF Leave, CallThen, Here
    <2> QED
      BY Zenon, <2>1, <2>2 DEF IInv
  <1>9. CASE AwaitGrant(f)
    <2>1. /\ Here(f, "await_grant") /\ pc[f] = "await_grant"
          /\ UNCHANGED <<reader_quota, exited_readers, pending_readers>>
      BY Zenon, <1>9 DEF AwaitGrant, Here
    <2>2. CASE /\ Granted /\ newly_granted_readers' = newly_granted_readers - 1
               /\ CallThen(f, "unlock", "wakeup_lock", "reading")
      <3>1. SyncInv'
        BY <1>1, <2>1, <2>2, OwnCallSync DEF OwnCalls
      <3>2. CounterInv'
        BY Zenon, <2>1, <2>2, AwaitGrantCounters DEF CallThen
      <3> QED
        BY Zenon, <3>1, <3>2 DEF IInv
    <2>3. CASE /\ Wait(f, "wakeup_cv", "wakeup_lock")
               /\ UNCHANGED <<newly_granted_readers, pc>>
      <3>1. SyncInv'
        BY Zenon, <1>1, <2>1, <2>3, WaitSync DEF Here
      <3>2. CounterInv'
        BY Zenon, <2>1, <2>3 DEF IInv, CounterInv, ReadersAccounted, Announced, PcIn
      <3> QED
        BY Zenon, <3>1, <3>2 DEF IInv
    <2> QED
      BY Zenon, <1>9, <2>2, <2>3 DEF AwaitGrant
  <1>10. CASE UnlockShared(f)
    <2>1. /\ Here(f, "reading") /\ pc[f] = "reading" /\ reader_quota' = reader_quota + 1
          /\ UNCHANGED <<exited_readers, newly_granted_readers, pending_readers>>
      BY Zenon, <1>10 DEF UnlockShared, Here
    <2>2. SyncInv'
      BY <1>1, <1>10, <2>1, OwnCallSync, OwnStepSync DEF UnlockShared, OwnCalls, OwnSteps
    <2>3. CASE reader_quota > 0 /\ Goto(f, "idle")
      BY Zenon, <2>1, <2>2, <2>3, LeaveCounters DEF IInv
    <2>4. CASE reader_quota <= 0 /\ Goto(f, "wakeup_writer")
      <3>1. ~(reader_quota > 0)
        BY <2>4 DEF IInv, CounterInv
      <3> QED
        BY Zenon, <2>1, <2>2, <2>4, <3>1, ExitCounters DEF IInv
    <2> QED
      BY Zenon, <1>10, <2>3, <2>4 DEF UnlockShared, CallThen
  <1>11. CASE WakeupWriter(f)
    <2>1. SyncInv'
      BY <1>1, <1>11, OwnCallSync DEF WakeupWriter, OwnCalls
    <2> QED
      BY Zenon, <1>11, <2>1, WakeupWriterCounters DEF IInv
  <1>12. CASE /\ MutexStep(f) \/ NotifyAll(f) \/ SchedulerStep(f)
              /\ UNCHANGED mutexVars
    BY Zenon, <1>12, CallStepIInv
  <1> QED
    BY Zenon, <1>2, <1>3, <1>4, <1>5, <1>6, <1>7, <1>8, <1>9, <1>10, <1>11, <1>12 DEF Proceed

LEMMA InitIInv == Init => IInv
  <1> SUFFICES ASSUME Init PROVE IInv
    BY Zenon
  <1> USE DEF Init, SyncInit
  <1>1. SyncTyped
    BY FiberAssumption DEF SyncTyped, StackTyped, Stacks
  <1>2. \A f \in Fibers :
          /\ pc[f] = "idle" /\ Where(f) = "here" /\ Object(f) = "none"
          /\ Woken(f) = <<>> /\ ~Nested(f)
    BY Zenon, HerePlace
  <1>3. PlaceInv /\ WokenInv
    BY Zenon, <1>2 DEF PlaceInv, Place, Scheduled, Labels, WokenInv
  <1>4. ChainInv
    BY <1>2 DEF ChainInv
  <1>5. ASSUME NEW m \in Mutexes PROVE MutexInv(m)
    <2>1. \A f \in Fibers : Status(f, m) = "none"
      BY Zenon, <1>2, Members DEF Status, Holds
    <2>2. \A f \in Fibers : ~Queued(f, m)
      <3>1. waiters[m] = <<>>
        BY Zenon, Members
      <3>2. DOMAIN waiters[m] = {}
        BY <3>1
      <3> QED
        BY Zenon, <3>2 DEF Queued
    <2>3. Counted(m) = {}
      BY Zenon, <2>1 DEF Counted
    <2> QED
      BY Zenon, <2>1, <2>2, <2>3, FiberAssumption, FS_EmptySet DEF MutexInv, Token
  <1>6. Reading = 0 /\ Waiting = 0 /\ Exiting = 0
    <2>1. PcIn({"reading"}) = {} /\ PcIn({"await_grant"}) = {}
          /\ PcIn({"wakeup_writer"}) = {}
      BY Zenon, <1>2 DEF PcIn
    <2> QED
      BY Zenon, <2>1, FS_EmptySet DEF Reading, Waiting, Exiting
  <1>7. NoWriter /\ NoneAwaits /\ NoneInside
    BY Zenon, <1>2 DEF NoWriter, NoneAwaits, NoneInside
  <1>8. Counts
    BY <1>2, <1>6, <1>7, QuotaFits DEF Counts
  <1> QED
    BY Zenon, <1>1, <1>3, <1>4, <1>5, <1>8, CountsForm DEF IInv, SyncInv

LEMMA NextIInv ==
  ASSUME IInv, [Next]_vars
  PROVE  IInv'
  <1>1. CASE Next
    BY Zenon, <1>1, BeginIInv, ProceedIInv DEF Next
  <1>2. CASE UNCHANGED vars
    <2>1. /\ UNCHANGED <<reader_quota, exited_readers, newly_granted_readers,
                         pending_readers, pc, stack>>
          /\ UNCHANGED <<count, slow_path_lock, waiters, persistent_awakened, state,
                         scheduler_lock>>
      BY Zenon, <1>2 DEF vars, mutexVars, syncVars, objectVars, schedulerVars
    <2>2. SyncTyped' /\ PlaceInv' /\ WokenInv'
      BY <2>1 DEF IInv, SyncInv, SyncTyped, StackTyped, PlaceInv, Place, Scheduled,
                  WokenInv, Where, Object, Woken, Nested
    <2>3. \A f \in Fibers :
            /\ Where(f)' = Where(f) /\ Object(f)' = Object(f)
            /\ Woken(f)' = Woken(f) /\ (Nested(f)' <=> Nested(f))
      BY Zenon, <2>1 DEF Where, Object, Woken, Nested
    <2>4. \A f \in Fibers : WaitsOn(f)' = WaitsOn(f)
      BY Zenon, <2>3 DEF WaitsOn
    <2>5. ChainInv'
      BY Zenon, <2>1, <2>3, <2>4, ChainQuiet DEF IInv, SyncInv
    <2>6. \A m \in Mutexes : \A f \in Fibers : Status(f, m)' = Status(f, m)
      BY Zenon, <2>1, <2>3 DEF Status, Holds
    <2>7. \A m \in Mutexes : MutexInv(m)'
      BY Zenon, <2>1, <2>6, MutexQuiet DEF IInv, SyncInv
    <2>8. CounterInv'
      BY Zenon, <2>1 DEF IInv, CounterInv, ReadersAccounted, Announced, PcIn
    <2> QED
      BY Zenon, <2>2, <2>5, <2>7, <2>8 DEF IInv, SyncInv
  <1> QED
    BY Zenon, <1>1, <1>2

\* The inductive invariant: every fiber is where its call can be, one fiber has or
\* is given each mutex, a fiber that waits is in one wait chain or about to be
\* woken by one fiber, and the counters account for every reader.
THEOREM Invariant == Spec => []IInv
  BY InitIInv, NextIInv, PTL DEF Spec

\* The counters of SharedMutex stay in the range that as many fibers can account
\* for, and the objects below it keep their types.
THEOREM TypeCorrect == Spec => []TypeOK
  <1>1. IInv => TypeOK
    <2> SUFFICES ASSUME IInv PROVE TypeOK
      BY Zenon
    <2>1. Counts /\ SyncTyped /\ PlaceInv
      BY Zenon, CountsForm DEF IInv, SyncInv
    <2>2. SyncTypeOK
      BY Zenon, <2>1 DEF SyncTyped, SyncTypeOK
    <2>3. reader_quota \in -kMaxReaders .. kMaxReaders
      BY <2>1, CountsTyped, QuotaFits DEF Counts
    <2>4. /\ exited_readers \in 0 .. Cardinality(Fibers)
          /\ newly_granted_readers \in 0 .. Cardinality(Fibers)
      <3>1. CASE NoneAwaits
        <4>1. exited_readers = 0
          BY <2>1, <3>1, CountsTyped DEF Counts
        <4>2. NoWriter \/ ~NoneInside
          BY Zenon, <3>1 DEF NoWriter, NoneAwaits, NoneInside
        <4>3. newly_granted_readers = Waiting \/ newly_granted_readers = 0
          BY Zenon, <2>1, <4>2 DEF Counts
        <4> QED
          BY <4>1, <4>3, CountsTyped, QuotaFits
      <3>2. CASE ~NoneAwaits
        <4>1. PICK f \in Fibers : pc[f] = "await_readers"
          BY Zenon, <3>2 DEF NoneAwaits
        <4>2. /\ pending_readers[f] =
                   exited_readers + Exiting + Reading + newly_granted_readers
              /\ pending_readers[f] \in 0 .. Cardinality(Fibers)
              /\ exited_readers \in Nat /\ newly_granted_readers \in Nat
          BY Zenon, <2>1, <4>1 DEF Counts
        <4> QED
          BY <4>2, CountsTyped, QuotaFits
      <3> QED
        BY Zenon, <3>1, <3>2
    <2> QED
      BY Zenon, <2>1, <2>2, <2>3, <2>4 DEF TypeOK, Counts, PlaceInv, Labels
  <1> QED
    BY <1>1, Invariant, PTL

\* Every reader that is in, waits or is on its way out is accounted for in
\* reader_quota_, newly_granted_readers_, exited_readers_ and the number of readers
\* that a waiting writer has found, whichever reader takes a grant.
THEOREM CountersAreRight == Spec => []ReadersAccounted
  <1>1. IInv => ReadersAccounted
    BY Zenon DEF IInv, CounterInv
  <1> QED
    BY <1>1, Invariant, PTL

\* At most one element.
LEMMA AtMostOne ==
  ASSUME NEW S, \A x, y \in S : x = y
  PROVE  Cardinality(S) <= 1
  <1>1. CASE S = {}
    BY <1>1, FS_EmptySet
  <1>2. CASE S # {}
    <2>1. PICK x \in S : S = {x}
      BY Zenon, <1>2
    <2> QED
      BY <2>1, FS_Singleton
  <1> QED
    BY Zenon, <1>1, <1>2

\* The sections under writer_lock_ and under wakeup_lock_ are each run by one fiber
\* at a time.
THEOREM SectionsExclude == Spec => []MutexesExclude
  <1>1. IInv => MutexesExclude
    <2> SUFFICES ASSUME IInv PROVE MutexesExclude
      BY Zenon
    <2> DEFINE HereIn(labels) == {f \in PcIn(labels) : stack[f] = <<>>}
               W == HereIn({"announce", "await_readers", "try_quota", "writing",
                            "release", "release_writer"})
               K == HereIn({"await_readers", "await_grant", "wakeup_writer", "release",
                            "release_writer", "leave"})
    <2>1. /\ \A f \in W : f \in Fibers /\ Status(f, "writer_lock") = "hold"
          /\ \A f \in K : f \in Fibers /\ Status(f, "wakeup_lock") = "hold"
      BY Zenon, HerePlace DEF PcIn, Status, Holds
    <2>2. \A m \in Mutexes : \A f, g \in Fibers :
            Status(f, m) = "hold" /\ Status(g, m) = "hold" => f = g
      BY Zenon DEF IInv, SyncInv, MutexInv, Token
    <2>3. (\A f, g \in W : f = g) /\ (\A f, g \in K : f = g)
      BY Zenon, <2>1, <2>2, Members
    <2> HIDE DEF W, K
    <2>4. Cardinality(W) <= 1 /\ Cardinality(K) <= 1
      BY Zenon, <2>3, AtMostOne
    <2> QED
      BY Zenon, <2>4 DEF MutexesExclude, W, K
  <1> QED
    BY <1>1, Invariant, PTL

\* No FLARE_CHECK of SharedMutex and of the objects below it fails: the quota is
\* where lock, unlock, lock_shared and unlock_shared expect it, unlock finds the
\* mutex locked and a counted waiter in the wait chain, and a fiber is made ready
\* only when it sleeps.
THEOREM ChecksNeverFail == Spec => []ChecksHold
  <1>1. IInv => ChecksHold
    <2> SUFFICES ASSUME IInv PROVE ChecksHold
      BY Zenon
    <2>1. Counts /\ SyncInv
      BY Zenon, CountsForm DEF IInv
    <2>2. WakesSleepers
      <3>1. ASSUME NEW f \in Fibers, At(f, "ready"),
                   CanReady(Head(Head(stack[f]).woken))
            PROVE  state[Head(Head(stack[f]).woken)] = "Waiting"
        <4>1. Head(stack[f]).woken = Woken(f)
          BY Zenon, <2>1, <3>1, AtFacts
        <4> QED
          BY Zenon, <2>1, <3>1, <4>1, WokenSleeps
      <3> QED
        BY Zenon, <3>1 DEF WakesSleepers
    <2>3. ASSUME NEW f \in Fibers
          PROVE  /\ f \in Readers /\ Here(f, "idle") => reader_quota # 1
                 /\ Here(f, "announce") => reader_quota \in 1 .. kMaxReaders
                 /\ Here(f, "release") => reader_quota \in 1 - kMaxReaders .. 0
                 /\ Here(f, "reading") => reader_quota < kMaxReaders
      <3>1. Here(f, "idle") => reader_quota # 1
        BY <2>1, WriterKnown DEF Here
      <3>2. ASSUME Here(f, "announce") PROVE reader_quota \in 1 .. kMaxReaders
        <4>1. Holds(f, "writer_lock") /\ pc[f] = "announce"
          BY Zenon, <2>1, <3>2, HereFacts DEF Holds
        <4>2. NoWriter
          BY Zenon, <2>1, <4>1, OneWriter DEF NoWriter
        <4> QED
          BY <2>1, <4>2, CountsTyped, QuotaFits DEF Counts
      <3>3. ASSUME Here(f, "release") PROVE reader_quota \in 1 - kMaxReaders .. 0
        <4>1. ~NoWriter
          BY Zenon, <3>3 DEF NoWriter, Here
        <4> QED
          BY <2>1, <4>1, CountsTyped, QuotaFits DEF Counts
      <3>4. ASSUME Here(f, "reading") PROVE reader_quota < kMaxReaders
        <4>1. Reading > 0
          BY Zenon, <3>4, CountsPositive DEF Here
        <4> QED
          BY <2>1, <4>1, CountsTyped, QuotaFits DEF Counts
      <3> QED
        BY Zenon, <3>1, <3>2, <3>3, <3>4
    <2>4. ASSUME NEW f \in Fibers, At(f, "unlock") PROVE count[On(f)] > 0
      <3>1. PICK m : m = On(f)
        BY Zenon
      <3>2. m \in Mutexes /\ Status(f, m) = "hold"
        BY <2>1, <2>4, <3>1, AtFacts, Members
        DEF Place, LockAts, UnlockAts, NotifyAts, WaitAts, Status, Holds
      <3>3. f \in Counted(m) /\ count[m] = Cardinality(Counted(m))
        BY Zenon, <2>1, <3>2 DEF Counted, SyncInv, MutexInv
      <3>4. Cardinality(Counted(m)) # 0 /\ Cardinality(Counted(m)) \in Nat
        BY Zenon, <3>3, CountedFinite, FS_EmptySet
      <3> QED
        BY <3>1, <3>3, <3>4
    <2>5. ASSUME NEW f \in Fibers, At(f, "wake"), CanWake(On(f))
          PROVE  waiters[On(f)] # <<>>
      <3>1. PICK m : m = On(f)
        BY Zenon
      <3>2. m = Object(f) /\ m \in Mutexes /\ Where(f) \in UnlockAts /\ Place(f)
            /\ Where(f) = "wake"
        BY <2>1, <2>5, <3>1, AtFacts, Members
        DEF Place, LockAts, UnlockAts, NotifyAts, WaitAts
      <3>3. Status(f, m) = "wake"
        BY Zenon, <3>2, InUnlock, Members DEF Status, Holds
      <3>4. PICK g \in Fibers : Status(g, m) \in {"enqueue", "chain"}
        BY Zenon, <2>1, <3>2, <3>3 DEF SyncInv, MutexInv
      <3>5. Status(g, m) = "chain"
        BY <2>1, <2>5, <3>1, <3>2, <3>4, FiberAssumption DEF SyncInv, MutexInv, CanWake
      <3>6. Queued(g, m)
        BY Zenon, <2>1, <3>2, <3>3, <3>5 DEF SyncInv, MutexInv, Token
      <3> QED
        BY <3>1, <3>6 DEF Queued
    <2> QED
      BY Zenon, <2>2, <2>3, <2>4, <2>5 DEF ChecksHold
  <1> QED
    BY <1>1, Invariant, PTL

(***************************************************************************)
(* The refinement of RwLock.                                               *)
(***************************************************************************)
ModeAt(l) ==
  CASE l \in {"announce", "await_readers"} -> "want_unique"
    [] l \in {"writing", "release"} -> "unique"
    [] l = "await_grant" -> "want_shared"
    [] l = "reading" -> "shared"
    [] OTHER -> "none"

LEMMA ModeIs == Mode = [f \in Fibers |-> ModeAt(pc[f])]
  BY Zenon DEF Mode, ModeAt

\* A fiber that goes on at l changes its own mode.
LEMMA ModeMoves ==
  ASSUME pc \in [Fibers -> Labels], NEW f \in Fibers, NEW l, Goto(f, l)
  PROVE  Mode' = [Mode EXCEPT ![f] = ModeAt(l)]
  BY Zenon DEF Mode, ModeAt, Goto

\* Nobody has the lock, or nobody has it exclusively.
LEMMA ModeFree ==
  /\ NoneInside => Abstract!Free({"unique"})
  /\ NoneInside /\ Reading = 0 => Abstract!Free({"shared", "unique"})
  <1>1. \A f \in Fibers :
          /\ Mode[f] = "unique" => pc[f] \in {"writing", "release"}
          /\ Mode[f] = "shared" => pc[f] = "reading"
    BY Zenon DEF Mode
  <1>2. \A f \in Fibers : pc[f] = "reading" => Reading # 0
    BY CountsPositive
  <1> QED
    BY Zenon, <1>1, <1>2 DEF NoneInside, Abstract!Free

LEMMA InitRefines == Init => Abstract!Init
  BY Zenon DEF Init, Mode, Abstract!Init

\* A step that moves a fiber between labels of the same mode is none of RwLock.
LEMMA ModeStays ==
  ASSUME pc \in [Fibers -> Labels], NEW f \in Fibers, NEW l, Goto(f, l),
         ModeAt(l) = ModeAt(pc[f])
  PROVE  UNCHANGED Mode
  <1>1. /\ Mode' = [Mode EXCEPT ![f] = ModeAt(l)]
        /\ Mode[f] = ModeAt(l) /\ Mode \in [Fibers -> {ModeAt(k) : k \in Labels}]
    BY Zenon, ModeMoves, ModeIs
  <1> QED
    BY Zenon, <1>1

LEMMA BeginRefines ==
  ASSUME IInv, NEW f \in Fibers, Begin(f)
  PROVE  Abstract!Next \/ UNCHANGED Mode
  <1>1. Counts /\ pc \in [Fibers -> Labels] /\ pc[f] = "idle"
    BY Zenon, CountsForm
    DEF IInv, SyncInv, PlaceInv, Begin, Lock, TryLock, LockShared, TryLockShared, Here
  <1>2. Mode[f] = "none"
    BY Zenon, <1>1 DEF Mode
  <1>3. CASE Goto(f, "announce")
    <2>1. Abstract!AskUnique(f)
      BY Zenon, <1>1, <1>2, <1>3, ModeMoves DEF ModeAt, Abstract!AskUnique, Abstract!Become
    <2> QED
      BY Zenon, <2>1 DEF Abstract!Next
  <1>4. CASE Goto(f, "try_quota")
    BY Zenon, <1>1, <1>4, ModeStays DEF ModeAt
  <1>5. CASE Goto(f, "reading") /\ NoWriter
    <2>1. Abstract!GetShared(f)
      BY Zenon, <1>1, <1>2, <1>5, ModeMoves, ModeFree
      DEF ModeAt, Abstract!GetShared, Abstract!Become, NoWriter, NoneInside
    <2> QED
      BY Zenon, <2>1 DEF Abstract!Next
  <1>6. CASE Goto(f, "await_grant")
    <2>1. Abstract!AskShared(f)
      BY Zenon, <1>1, <1>2, <1>6, ModeMoves DEF ModeAt, Abstract!AskShared, Abstract!Become
    <2> QED
      BY Zenon, <2>1 DEF Abstract!Next
  <1>7. (reader_quota > 0 <=> NoWriter) /\ (reader_quota > 1 <=> NoWriter)
    BY Zenon, <1>1, WriterKnown
  <1> QED
    BY Zenon, <1>3, <1>4, <1>5, <1>6, <1>7
    DEF Begin, Lock, TryLock, LockShared, TryLockShared, CallThen

LEMMA ProceedRefines ==
  ASSUME IInv, NEW f \in Fibers, Proceed(f)
  PROVE  Abstract!Next \/ UNCHANGED Mode
  <1>1. Counts /\ pc \in [Fibers -> Labels] /\ SyncInv
    BY Zenon, CountsForm DEF IInv, SyncInv, PlaceInv
  <1>2. CASE UNCHANGED pc
    BY Zenon, <1>2 DEF Mode
  <1>3. CASE \/ pc[f] = "announce" /\ Goto(f, "await_readers")
             \/ pc[f] = "try_quota" /\ Goto(f, "idle")
             \/ pc[f] = "writing" /\ Goto(f, "release")
             \/ pc[f] = "release_writer" /\ Goto(f, "leave")
             \/ pc[f] = "leave" /\ Goto(f, "idle")
             \/ pc[f] = "wakeup_writer" /\ Goto(f, "leave")
    BY Zenon, <1>1, <1>3, ModeStays DEF ModeAt
  <1>4. CASE /\ pc[f] \in {"announce", "await_readers", "try_quota"} /\ Goto(f, "writing")
             /\ NoneInside /\ Reading = 0
    <2>1. Mode[f] \in {"none", "want_unique"}
      BY Zenon, <1>4 DEF Mode
    <2>2. Abstract!GetUnique(f)
      BY Zenon, <1>1, <1>4, <2>1, ModeMoves, ModeFree
      DEF ModeAt, Abstract!GetUnique, Abstract!Become
    <2> QED
      BY Zenon, <2>2 DEF Abstract!Next
  <1>5. CASE pc[f] = "await_grant" /\ Goto(f, "reading") /\ NoneInside
    <2>1. Mode[f] = "want_shared"
      BY Zenon, <1>5 DEF Mode
    <2>2. Abstract!GetShared(f)
      BY Zenon, <1>1, <1>5, <2>1, ModeMoves, ModeFree
      DEF ModeAt, Abstract!GetShared, Abstract!Become
    <2> QED
      BY Zenon, <2>2 DEF Abstract!Next
  <1>6. CASE \/ pc[f] = "release" /\ Goto(f, "release_writer")
             \/ pc[f] = "reading" /\ (Goto(f, "idle") \/ Goto(f, "wakeup_writer"))
    <2>1. Mode[f] \in {"shared", "unique"}
      BY Zenon, <1>6 DEF Mode
    <2>2. Abstract!Release(f)
      BY <1>1, <1>6, <2>1, ModeMoves DEF ModeAt, Abstract!Release, Abstract!Become
    <2> QED
      BY Zenon, <2>2 DEF Abstract!Next
  <1>7. CASE Announce(f)
    <2>1. pc[f] = "announce" /\ Holds(f, "writer_lock")
      BY Zenon, <1>1, <1>7, HereFacts DEF Announce, Holds
    <2>2. NoWriter /\ NoneInside
      BY Zenon, <1>1, <2>1, OneWriter DEF NoWriter, NoneInside
    <2>3. reader_quota = kMaxReaders => Reading = 0
      BY <1>1, <2>2, CountsTyped, QuotaFits DEF Counts
    <2> QED
      BY Zenon, <1>3, <1>4, <1>7, <2>1, <2>2, <2>3 DEF Announce, CallThen
  <1>8. CASE AwaitReaders(f)
    <2>1. pc[f] = "await_readers" /\ Holds(f, "writer_lock")
      BY Zenon, <1>8 DEF AwaitReaders, Here, Holds
    <2>2. NoneInside
      BY Zenon, <1>1, <2>1, OneWriter DEF NoneInside
    <2>3. ReadersGone(f) => Reading = 0
      BY <1>1, <2>1, CountsTyped DEF Counts, ReadersGone
    <2> QED
      BY Zenon, <1>2, <1>4, <1>8, <2>1, <2>2, <2>3 DEF AwaitReaders, CallThen
  <1>9. CASE TryQuota(f)
    <2>1. pc[f] = "try_quota" /\ Holds(f, "writer_lock")
      BY Zenon, <1>9 DEF TryQuota, Here, Holds
    <2>2. NoWriter /\ NoneInside
      BY Zenon, <1>1, <2>1, OneWriter DEF NoWriter, NoneInside
    <2>3. reader_quota = kMaxReaders => Reading = 0
      BY <1>1, <2>2, CountsTyped, QuotaFits DEF Counts
    <2> QED
      BY Zenon, <1>3, <1>4, <1>9, <2>1, <2>2, <2>3 DEF TryQuota, CallThen
  <1>10. CASE AwaitGrant(f)
    <2>1. Granted => NoneInside
      BY Zenon, <1>1 DEF Counts, Granted
    <2> QED
      BY Zenon, <1>2, <1>5, <1>10, <2>1 DEF AwaitGrant, CallThen, Here
  <1>11. CASE Unlock(f) \/ ReleaseWriter(f) \/ Leave(f) \/ WakeupWriter(f)
    BY Zenon, <1>3, <1>11 DEF Unlock, ReleaseWriter, Leave, WakeupWriter, CallThen, Here
  <1>12. CASE Release(f) \/ UnlockShared(f)
    BY Zenon, <1>6, <1>12 DEF Release, UnlockShared, CallThen, Here
  <1>13. CASE UNCHANGED mutexVars
    BY Zenon, <1>2, <1>13 DEF mutexVars
  <1> QED
    BY Zenon, <1>7, <1>8, <1>9, <1>10, <1>11, <1>12, <1>13 DEF Proceed

\* SharedMutex is a readers-writer lock: a fiber gets it exclusively only when
\* nobody has it and shared only when nobody has it exclusively, for any number of
\* fibers and whichever way their steps, sleeps and wake-ups interleave.
THEOREM SharedMutexIsRwLock == Spec => ImplementsRwLock
  <1>1. IInv /\ [Next]_vars => [Abstract!Next]_Mode
    <2> SUFFICES ASSUME IInv, [Next]_vars PROVE Abstract!Next \/ UNCHANGED Mode
      BY Zenon
    <2>1. CASE Next
      BY Zenon, <2>1, BeginRefines, ProceedRefines DEF Next
    <2>2. CASE UNCHANGED vars
      BY Zenon, <2>2 DEF vars, mutexVars, Mode
    <2> QED
      BY Zenon, <2>1, <2>2
  <1> QED
    BY <1>1, InitRefines, Invariant, PTL DEF Spec, ImplementsRwLock, Abstract!Spec
================================================================================
