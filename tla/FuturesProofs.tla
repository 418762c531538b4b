---------------------------- MODULE FuturesProofs ----------------------------
(***************************************************************************)
(* Proofs about Futures, for any number of fibers that a handler starts:   *)
(* the checks never fail, no fiber touches the receiver or the event of a  *)
(* BlockingGet that has returned, and Futures implements ForkJoin.         *)
(***************************************************************************)
EXTENDS Futures, FiniteSetTheorems, TLAPS

Tasks == 1 .. MaxTasks

(***************************************************************************)
(* Where a fiber is: what its frame says, without the frame.               *)
(***************************************************************************)
\* On its way to the end of a core's continuation, and waiting for it.
ProducerAts ==
  {"run", "satisfy", "store", "count", "receive", "event_set", "ready"}
WaitAts == {"chain", "event_wait", "halt", "asleep"}

Frames == [at : ProducerAts \cup WaitAts, on : Cores, woken : Seq(Fibers)]

\* No call is made from inside another.
StackTyped == stack \in [Fibers -> {<<>>} \cup {<<r>> : r \in Frames}]

Where(f) == IF stack[f] = <<>> THEN "here" ELSE stack[f][1].at
Object(f) == IF stack[f] = <<>> THEN Null ELSE stack[f][1].on
Woken(f) == IF stack[f] = <<>> THEN <<>> ELSE stack[f][1].woken

\* The fiber f has moved, the others are where they were.
Moves(f, at, on, woken) ==
  /\ StackTyped'
  /\ Where(f)' = at /\ Object(f)' = on /\ Woken(f)' = woken
  /\ \A g \in Fibers \ {f} :
       /\ Where(g)' = Where(g) /\ Object(g)' = Object(g)
       /\ Woken(g)' = Woken(g)

\* The frame in the terms of Where, Object and Woken.
LEMMA AtPlace ==
  ASSUME StackTyped, NEW f \in Fibers, NEW at, At(f, at)
  PROVE  /\ stack[f] # <<>> /\ Where(f) = at
         /\ On(f) = Object(f) /\ Head(stack[f]).woken = Woken(f)
         /\ Object(f) \in Cores /\ Woken(f) \in Seq(Fibers)
  BY DEF At, On, Where, Object, Woken, StackTyped, Frames

LEMMA PlaceAt ==
  ASSUME StackTyped, NEW f \in Fibers, NEW at, at # "here"
  PROVE  At(f, at) <=> Where(f) = at
  BY DEF At, Where, StackTyped

\* Where a fiber can be.
LEMMA PlaceTyped ==
  ASSUME StackTyped, NEW f \in Fibers
  PROVE  /\ Where(f) \in ProducerAts \cup WaitAts \cup {"here"}
         /\ Where(f) # "here" => Object(f) \in Cores
         /\ stack[f] = <<>> <=> Where(f) = "here"
  BY DEF StackTyped, Where, Object, Frames, ProducerAts, WaitAts

\* A fiber in a call has one frame.
LEMMA OneFrame ==
  ASSUME StackTyped, NEW f \in Fibers, stack[f] # <<>>
  PROVE  /\ stack[f] = <<stack[f][1]>> /\ stack[f][1] \in Frames
         /\ Where(f) = stack[f][1].at /\ Object(f) = stack[f][1].on
         /\ Woken(f) = stack[f][1].woken
  BY DEF StackTyped, Where, Object, Woken

\* The fibers whose frames stay are where they were.
LEMMA OthersStay ==
  ASSUME NEW g \in Fibers, stack'[g] = stack[g]
  PROVE  /\ Where(g)' = Where(g) /\ Object(g)' = Object(g)
         /\ Woken(g)' = Woken(g)
  BY Zenon DEF Where, Object, Woken

\* The fiber has a new frame.
LEMMA FrameForm ==
  ASSUME StackTyped, NEW f \in Fibers, NEW r \in Frames,
         stack' = [stack EXCEPT ![f] = <<r>>]
  PROVE  Moves(f, r.at, r.on, r.woken)
  <1>1. StackTyped'
    BY Zenon DEF StackTyped
  <1>2. stack'[f] = <<r>>
    BY Zenon DEF StackTyped
  <1>3. Where(f)' = r.at /\ Object(f)' = r.on /\ Woken(f)' = r.woken
    BY <1>2 DEF Where, Object, Woken
  <1>4. \A g \in Fibers \ {f} : stack'[g] = stack[g]
    BY Zenon DEF StackTyped
  <1> QED
    BY Zenon, <1>1, <1>3, <1>4, OthersStay DEF Moves

\* The return from a call.
LEMMA ReturnForm ==
  ASSUME StackTyped, NEW f \in Fibers, stack[f] # <<>>, Return(f)
  PROVE  Moves(f, "here", Null, <<>>)
  <1>1. stack' = [stack EXCEPT ![f] = Tail(stack[f])]
    BY Zenon DEF Return
  <1>2. Tail(stack[f]) = <<>>
    <2>1. PICK r \in Frames : stack[f] = <<r>>
      BY OneFrame
    <2> QED
      BY <2>1
  <1>3. StackTyped' /\ stack'[f] = <<>>
    BY Zenon, <1>1, <1>2 DEF StackTyped
  <1>4. \A g \in Fibers \ {f} : stack'[g] = stack[g]
    BY Zenon, <1>1 DEF StackTyped
  <1>5. Where(f)' = "here" /\ Object(f)' = Null /\ Woken(f)' = <<>>
    BY Zenon, <1>3 DEF Where, Object, Woken
  <1> QED
    BY Zenon, <1>3, <1>4, <1>5, OthersStay DEF Moves

\* A call from the handler's own code, and the start of a fiber.
LEMMA CallForm ==
  ASSUME StackTyped, NEW f \in Fibers, stack[f] = <<>>,
         NEW at \in ProducerAts \cup WaitAts, NEW on \in Cores, Call(f, at, on)
  PROVE  Moves(f, at, on, <<>>)
  <1> DEFINE r == Frame(at, on)
  <1>1. r \in Frames /\ r.at = at /\ r.on = on /\ r.woken = <<>>
    BY DEF Frame, Frames
  <1>2. stack' = [stack EXCEPT ![f] = <<r>>]
    BY <1>1 DEF Call
  <1> HIDE DEF r
  <1> QED
    BY Zenon, <1>1, <1>2, FrameForm

\* The frame is replaced by a new one.
LEMMA ReplaceForm ==
  ASSUME StackTyped, NEW f \in Fibers, stack[f] # <<>>,
         NEW at \in ProducerAts \cup WaitAts, NEW on \in Cores,
         \/ stack' = [stack EXCEPT ![f] = <<Frame(at, on)>> \o Tail(@)]
         \/ stack' = [stack EXCEPT ![f][1] = Frame(at, on)]
  PROVE  Moves(f, at, on, <<>>)
  <1> DEFINE r == Frame(at, on)
  <1>1. r \in Frames /\ r.at = at /\ r.on = on /\ r.woken = <<>>
    BY DEF Frame, Frames
  <1>2. stack' = [stack EXCEPT ![f] = <<r>>]
    BY <1>1, OneFrame
  <1> HIDE DEF r
  <1> QED
    BY Zenon, <1>1, <1>2, FrameForm

\* The fiber goes on inside its call.
LEMMA JumpForm ==
  ASSUME StackTyped, NEW f \in Fibers, stack[f] # <<>>,
         NEW at \in ProducerAts \cup WaitAts, Jump(f, at)
  PROVE  Moves(f, at, Object(f), Woken(f))
  <1> DEFINE r == [stack[f][1] EXCEPT !.at = at]
  <1>1. r \in Frames /\ r.at = at /\ r.on = Object(f) /\ r.woken = Woken(f)
    BY Zenon, OneFrame DEF Frames
  <1>2. stack' = [stack EXCEPT ![f] = [stack[f] EXCEPT ![1] = r]]
    BY Zenon DEF Jump
  <1> HIDE DEF r
  <1>3. [stack[f] EXCEPT ![1] = r] = <<r>>
    BY OneFrame
  <1> QED
    BY Zenon, <1>1, <1>2, <1>3, FrameForm

\* Event::Set has taken the waiters.
LEMMA WakeForm ==
  ASSUME StackTyped, NEW f \in Fibers, stack[f] # <<>>,
         NEW woken \in Seq(Fibers),
         stack' = [stack EXCEPT ![f][1].at = "ready", ![f][1].woken = woken]
  PROVE  Moves(f, "ready", Object(f), woken)
  <1> DEFINE q == [stack[f][1] EXCEPT !.at = "ready"]
             r == [q EXCEPT !.woken = woken]
  <1>1. r \in Frames /\ r.at = "ready" /\ r.on = Object(f) /\ r.woken = woken
    BY Zenon, OneFrame DEF Frames, ProducerAts
  <1>2. stack' = [stack EXCEPT ![f] = [stack[f] EXCEPT ![1] = r]]
    BY Zenon DEF StackTyped
  <1> HIDE DEF r
  <1>3. [stack[f] EXCEPT ![1] = r] = <<r>>
    BY OneFrame
  <1> QED
    BY Zenon, <1>1, <1>2, <1>3, FrameForm DEF Moves

(***************************************************************************)
(* The inductive invariant.                                                *)
(***************************************************************************)
Results == [i \in 1 .. size |-> i]

Typed ==
  /\ SyncTypeOK /\ StackTyped
  /\ kind \in {"list", "batch"}
  /\ size \in 0 .. MaxTasks
  /\ index \in 1 .. size + 1
  /\ core \in [Cores -> {"waiting", "chained", "satisfied", "called"}]
  /\ DOMAIN value = Cores
  /\ ran \subseteq 1 .. size
  /\ values \in [1 .. size -> Tasks \cup {Null}]
  /\ left \in 0 .. size
  /\ DOMAIN receiver = Events

\* Where the handler is, and the results it has.
HandlerInv ==
  /\ pc \in {"start", "when_all", "then", "get", "wait", "take", "done"}
  /\ \/ /\ kind = "list"
        /\ pc \notin {"when_all", "then"}
        /\ pc \in {"wait", "take"} => index <= size
        /\ got \in Seq(Tasks)
        /\ Len(got) = IF pc = "start" THEN 0 ELSE index - 1
        /\ left = size
     \/ /\ kind = "batch"
        /\ pc \notin {"start", "when_all"} => index = size + 1
        /\ got = IF pc = "done" THEN Results ELSE <<>>
  /\ Where(handler) = "chain" =>
       \/ /\ pc = "when_all" /\ kind = "batch"
          /\ index > 1 /\ Object(handler) = index - 1
       \/ pc = "get" /\ kind = "batch" /\ Object(handler) = all
       \/ pc = "wait" /\ Object(handler) = Awaited
  /\ Where(handler) \in {"store", "count"} =>
       pc = "when_all" /\ Object(handler) = index - 1
  /\ Where(handler) = "satisfy" =>
       \/ pc = "when_all" /\ Object(handler) = all
       \/ pc = "get" /\ Object(handler) = result
  /\ Where(handler) \in {"receive", "event_set"} => pc = "wait"
  /\ Where(handler) \in {"event_wait", "halt", "asleep"} =>
       pc = "take" /\ Object(handler) = Awaited
  /\ Where(handler) \notin {"run", "ready"}
  /\ pc = "take" /\ Where(handler) = "here" => persistent_awakened[Awaited]

\* What is true of the core a fiber is working on.
FrameInv(f) ==
  LET c == Object(f)
  IN  /\ Where(f) \in WaitAts => f = handler
      /\ Where(f) = "chain" => core[c] \in {"waiting", "satisfied"}
      /\ Where(f) = "run" => f = c /\ c \in 1 .. size \ ran
      /\ Where(f) \in {"run", "satisfy"} => core[c] \in {"waiting", "chained"}
      /\ Where(f) = "satisfy" =>
           /\ c \in Tasks => f = c /\ f \in ran
           /\ c = all => kind = "batch" /\ size > 0 /\ left = 0
           /\ c = result => kind = "batch" /\ core[all] = "called"
      /\ Where(f) \in {"store", "count"} =>
           kind = "batch" /\ c \in 1 .. size /\ core[c] = "called"
      /\ Where(f) = "count" => values[c] = c
      /\ Where(f) \in {"receive", "event_set", "ready"} =>
           /\ c \in Events /\ c = Awaited /\ core[c] = "called"
           /\ persistent_awakened[c] <=> Where(f) = "ready"
      /\ Where(f) \in {"receive", "event_set"} => pc \in {"wait", "take"}
      /\ Where(f) = "receive" => receiver[c] = Null
      /\ Where(f) = "event_set" => receiver[c] = value[c]
      /\ Where(f) = "ready" =>
           /\ Woken(f) = <<handler>>
           /\ Where(handler) \in {"halt", "asleep"} /\ Object(handler) = c
           /\ state[handler] # "Ready"

\* A core is satisfied, and its continuation run, by one fiber.
OneProducer ==
  \A f, g \in Fibers :
    /\ Where(f) \in ProducerAts /\ Where(g) \in ProducerAts
    /\ Object(f) = Object(g)
    => f = g

\* The scheduler_lock is held from the entry into a wait chain to Halt.
Scheduled ==
  \A f \in Fibers :
    /\ scheduler_lock[f] <=> Where(f) = "halt"
    /\ state[f] = "Running" <=> Where(f) # "asleep"

\* How far the handler is when a core has been given its continuation.
Chained(c) ==
  IF c = all THEN kind = "batch" /\ pc \in {"get", "wait", "take", "done"}
  ELSE IF c = result THEN kind = "batch" /\ pc \in {"wait", "take", "done"}
  ELSE /\ pc # "start"
       /\ \/ c < index
          \/ kind = "list" /\ c = index /\ pc \in {"wait", "take"}
          \/ kind = "batch" /\ pc # "when_all"

\* A core has its value once it is satisfied, and a continuation only from the
\* handler.
CoreInv ==
  /\ \A c \in Tasks :
       core[c] \in {"satisfied", "called"} => c \in ran /\ value[c] = c
  /\ core[all] \in {"satisfied", "called"} =>
       /\ kind = "batch" /\ left = 0 /\ value[all] = Results
       /\ size = 0 => pc \notin {"start", "when_all"}
  /\ core[result] \in {"satisfied", "called"} =>
       kind = "batch" /\ core[all] = "called" /\ value[result] = Results
  /\ \A c \in Cores : core[c] \in {"chained", "called"} => Chained(c)
  /\ \A c \in Events :
       core[c] = "chained" /\ (kind = "list" \/ c = result) =>
         pc \in {"wait", "take"} /\ c = Awaited

\* An event is set once, after its receiver has been filled, and only the handler
\* waits for it.
EventInv ==
  /\ \A e \in Events :
       /\ persistent_awakened[e] =>
            /\ core[e] = "called" /\ receiver[e] = value[e]
            /\ kind = "list" \/ e = result
       /\ receiver[e] # Null => core[e] = "called"
       /\ waiters[e] # <<>> =>
            /\ ~persistent_awakened[e] /\ waiters[e] = <<handler>>
            /\ Where(handler) \in {"halt", "asleep"} /\ Object(handler) = e
            /\ state[handler] # "Ready"
  /\ state[handler] = "Ready" => persistent_awakened[Object(handler)]

\* The fibers that StartTasks has not come to.
StartInv ==
  pc = "start" =>
    \A i \in Tasks :
      i >= index => Where(i) = "here" /\ i \notin ran /\ core[i] = "waiting"

\* The futures WhenAll has not counted.
Busy(f, i) == Where(f) \in {"store", "count"} /\ Object(f) = i

Pending ==
  {i \in 1 .. size : core[i] # "called" \/ \E f \in Fibers : Busy(f, i)}

LeftInv ==
  kind = "batch" =>
    /\ left = Cardinality(Pending)
    /\ \A i \in 1 .. size \ Pending : values[i] = i

IInv ==
  /\ Typed /\ HandlerInv
  /\ \A f \in Fibers : FrameInv(f)
  /\ OneProducer /\ Scheduled /\ CoreInv /\ EventInv /\ StartInv /\ LeftInv

\* What the constants are.
LEMMA Members ==
  /\ handler \in Fibers /\ \A i \in Tasks : i \in Fibers /\ i # handler /\ i \in Int
  /\ \A c \in Tasks : c \in Cores /\ c \in Events /\ c # all /\ c # result
  /\ all \in Cores /\ result \in Cores /\ result \in Events /\ all # result
  /\ \A c \in Cores : c \in Tasks \/ c = all \/ c = result
  /\ \A e \in Events : e \in Cores /\ e \in Waitables /\ e # all
  /\ \A f \in Fibers : f = handler \/ f \in Tasks
  BY TaskAssumption DEF Tasks, Cores, Waitables

\* WhenAll counts on.
LEMMA LeftStays ==
  ASSUME IInv, UNCHANGED <<kind, size, core, values, left>>,
         \A g \in Fibers, i \in 1 .. size : Busy(g, i)' <=> Busy(g, i)
  PROVE  LeftInv'
  <1>1. Pending' = Pending
    BY Zenon DEF Pending
  <1> QED
    BY Zenon, <1>1 DEF IInv, LeftInv

\* The cores stay as they are, and so does where the handler is.
LEMMA CoresStay ==
  ASSUME IInv, UNCHANGED <<kind, size, pc, index, core, value, ran, left>>
  PROVE  CoreInv' /\ Awaited' = Awaited /\ Results' = Results
  BY Zenon DEF IInv, CoreInv, Chained, Results, Awaited

\* No fiber starts to work on a core.
LEMMA ProducersStay ==
  ASSUME IInv,
         \A g \in Fibers :
           Where(g)' \in ProducerAts =>
             Where(g) \in ProducerAts /\ Object(g)' = Object(g)
  PROVE  OneProducer'
  BY Zenon DEF IInv, OneProducer

(***************************************************************************)
(* The steps of a core and of the continuations.                           *)
(***************************************************************************)
\* WhenAll's continuation stores the value of its core.
LEMMA StoreValueIInv ==
  ASSUME IInv, NEW f \in Fibers, StoreValue(f)
  PROVE  IInv'
  <1>1. /\ stack[f] # <<>> /\ Where(f) = "store" /\ On(f) = Object(f)
        /\ StackTyped
    BY Zenon, AtPlace DEF StoreValue, IInv, Typed
  <1>2. PICK c : c = Object(f)
    BY Zenon
  <1>3. /\ kind = "batch" /\ c \in 1 .. size /\ core[c] = "called"
        /\ c \in Tasks /\ value[c] = c
    <2>1. kind = "batch" /\ c \in 1 .. size /\ core[c] = "called"
      BY Zenon, <1>1, <1>2 DEF IInv, FrameInv
    <2>2. c \in Tasks
      BY <2>1, TaskAssumption DEF IInv, Typed, Tasks
    <2> QED
      BY Zenon, <2>1, <2>2 DEF IInv, CoreInv
  <1>4. Moves(f, "count", c, Woken(f))
    BY Zenon, <1>1, <1>2, JumpForm DEF StoreValue, ProducerAts
  <1>5. values' = [values EXCEPT ![c] = c]
    BY <1>1, <1>2, <1>3 DEF StoreValue
  <1>6. UNCHANGED <<kind, size, pc, index, core, value, ran, left, receiver, got,
                    objectVars, schedulerVars>>
    BY Zenon DEF StoreValue
  <1>7. Typed'
    BY <1>3, <1>4, <1>5, <1>6
       DEF IInv, Typed, SyncTypeOK, Moves, objectVars, schedulerVars
  <1>8. HandlerInv'
    BY Members, <1>1, <1>2, <1>4, <1>6
       DEF IInv, HandlerInv, Moves, objectVars, schedulerVars, Awaited, Results
  <1>9. ASSUME NEW g \in Fibers PROVE FrameInv(g)'
    <2>1. FrameInv(g)
      BY Zenon DEF IInv
    <2>2. CASE g = f
      BY <1>1, <1>2, <1>3, <1>4, <1>5, <1>6, <2>2 DEF FrameInv, Moves, IInv, Typed, WaitAts
    <2>3. CASE g # f
      BY Members, <1>1, <1>2, <1>4, <1>5, <1>6, <2>1, <2>3
         DEF IInv, Typed, FrameInv, Moves, objectVars, schedulerVars, Awaited
    <2> QED
      BY Zenon, <2>2, <2>3
  <1>10. OneProducer'
    BY <1>1, <1>2, <1>4 DEF IInv, OneProducer, Moves, ProducerAts
  <1>11. Scheduled'
    BY <1>1, <1>4, <1>6 DEF IInv, Scheduled, Moves, schedulerVars
  <1>12. CoreInv'
    BY <1>6 DEF IInv, CoreInv, Chained, Results, Awaited
  <1>13. EventInv'
    BY Members, <1>1, <1>4, <1>6 DEF IInv, EventInv, Moves, Scheduled, objectVars, schedulerVars
  <1>14. StartInv'
    BY Members, <1>1, <1>2, <1>3, <1>4, <1>6 DEF IInv, StartInv, Moves, HandlerInv
  <1>15. LeftInv'
    <2>1. \A g \in Fibers, i \in 1 .. size : Busy(g, i)' <=> Busy(g, i)
      BY Zenon, <1>1, <1>2, <1>4 DEF Busy, Moves
    <2>2. Pending' = Pending
      BY Zenon, <2>1, <1>6 DEF Pending
    <2> QED
      BY <1>3, <1>5, <1>6, <2>2 DEF IInv, LeftInv, Typed
  <1> QED
    BY Zenon, <1>7, <1>8, <1>9, <1>10, <1>11, <1>12, <1>13, <1>14, <1>15 DEF IInv

\* Finite sets of futures.
LEMMA PendingFinite ==
  ASSUME Typed
  PROVE  IsFiniteSet(Pending) /\ Cardinality(Pending) \in Nat
  <1>1. Pending \in SUBSET (1 .. size) /\ IsFiniteSet(1 .. size)
    BY TaskAssumption, FS_Interval DEF Pending, Typed
  <1> QED
    BY Zenon, <1>1, FS_Subset, FS_CardinalityType

\* WhenAll's continuation counts its core, and the last one satisfies the promise.
LEMMA CountDownIInv ==
  ASSUME IInv, NEW f \in Fibers, CountDown(f)
  PROVE  IInv'
  <1>1. /\ stack[f] # <<>> /\ Where(f) = "count" /\ On(f) = Object(f)
        /\ StackTyped
    BY Zenon, AtPlace DEF CountDown, IInv, Typed
  <1>2. PICK c : c = Object(f)
    BY Zenon
  <1>3. kind = "batch" /\ c \in 1 .. size /\ core[c] = "called" /\ values[c] = c
    BY Zenon, <1>1, <1>2 DEF IInv, FrameInv
  <1>4. UNCHANGED <<kind, size, pc, index, core, value, ran, values, receiver, got,
                    objectVars, schedulerVars>>
    BY Zenon DEF CountDown
  <1>5. /\ left = 1 => Moves(f, "satisfy", all, <<>>)
        /\ left # 1 => Moves(f, "here", Null, <<>>)
    BY Zenon, <1>1, Members, ReplaceForm, ReturnForm DEF CountDown, IsLast, ProducerAts
  <1>6. \A g \in Fibers \ {f} :
          /\ Where(g)' = Where(g) /\ Object(g)' = Object(g) /\ Woken(g)' = Woken(g)
    BY Zenon, <1>5 DEF Moves
  <1>7. StackTyped' /\ Where(f)' \in {"here", "satisfy"}
    BY Zenon, <1>5 DEF Moves
  <1>8. /\ Pending' = Pending \ {c} /\ c \in Pending
        /\ left = Cardinality(Pending) /\ \A i \in 1 .. size \ Pending : values[i] = i
    <2>1. \A g \in Fibers : ~Busy(g, c)'
      BY Zenon, <1>1, <1>2, <1>6, <1>7 DEF IInv, Busy, OneProducer, ProducerAts
    <2>2. \A g \in Fibers, i \in 1 .. size : i # c => (Busy(g, i)' <=> Busy(g, i))
      BY Zenon, <1>1, <1>2, <1>6, <1>7 DEF Busy
    <2>3. c \in Pending
      BY Zenon, <1>1, <1>2, <1>3 DEF Pending, Busy
    <2>4. Pending' = Pending \ {c}
      BY <2>1, <2>2, <1>3, <1>4 DEF Pending
    <2> QED
      BY Zenon, <2>3, <2>4, <1>3 DEF IInv, LeftInv
  <1>9. left' = left - 1 /\ left' = Cardinality(Pending') /\ left \in 1 .. size
    <2>1. IsFiniteSet(Pending) /\ Cardinality(Pending) \in Nat
      BY Zenon, PendingFinite DEF IInv
    <2>2. Cardinality(Pending \ {c}) = Cardinality(Pending) - 1
      BY Zenon, <1>8, <2>1, FS_RemoveElement
    <2>3. Cardinality(Pending \ {c}) \in Nat
      BY Zenon, <2>1, FS_Subset, FS_RemoveElement, FS_CardinalityType
    <2> QED
      BY <1>8, <2>1, <2>2, <2>3 DEF CountDown, IInv, Typed
  <1>10. core[all] \in {"waiting", "chained"}
    BY <1>9, Members DEF IInv, CoreInv, Typed
  <1>11. Typed'
    BY <1>4, <1>7, <1>9 DEF IInv, Typed, SyncTypeOK, objectVars, schedulerVars
  <1>12. HandlerInv'
    <2>1. CASE f = handler
      BY Members, <1>1, <1>2, <1>3, <1>4, <1>5, <2>1
         DEF IInv, HandlerInv, Moves, objectVars, Awaited, Results
    <2>2. CASE f # handler
      BY Members, <1>3, <1>4, <1>6, <2>2
         DEF IInv, HandlerInv, objectVars, Awaited, Results
    <2> QED
      BY Zenon, <2>1, <2>2
  <1>13. ASSUME NEW g \in Fibers PROVE FrameInv(g)'
    <2>1. FrameInv(g)
      BY Zenon DEF IInv
    <2>2. CASE g = f /\ left = 1
      <3>1. Where(f)' = "satisfy" /\ Object(f)' = all
        BY Zenon, <1>5, <2>2 DEF Moves
      <3>2. left' = 0 /\ size' > 0
        BY <1>4, <1>9, <2>2 DEF IInv, Typed
      <3> QED
        BY Members, <1>3, <1>4, <1>10, <2>2, <3>1, <3>2 DEF FrameInv, WaitAts
    <2>3. CASE g = f /\ left # 1
      BY Zenon, <1>5, <2>3 DEF FrameInv, Moves, WaitAts
    <2>4. CASE g # f
      BY Members, <1>1, <1>3, <1>4, <1>6, <1>9, <2>1, <2>4
         DEF FrameInv, objectVars, schedulerVars, Awaited
    <2> QED
      BY Zenon, <2>2, <2>3, <2>4
  <1>14. OneProducer'
    <2>1. ASSUME NEW g \in Fibers, Where(g) \in ProducerAts, Object(g) = all
          PROVE  FALSE
      BY Members, <1>9, <2>1, TaskAssumption
         DEF IInv, FrameInv, ProducerAts, Typed, Tasks
    <2>2. CASE left = 1
      BY Zenon, <1>5, <1>6, <2>1, <2>2 DEF IInv, OneProducer, Moves
    <2>3. CASE left # 1
      BY Zenon, <1>5, <1>6, <2>3 DEF IInv, OneProducer, Moves, ProducerAts
    <2> QED
      BY Zenon, <2>2, <2>3
  <1>15. Scheduled'
    BY <1>1, <1>4, <1>6, <1>7 DEF IInv, Scheduled, schedulerVars
  <1>16. CoreInv'
    BY <1>4, <1>10 DEF IInv, CoreInv, Chained, Results, Awaited
  <1>17. EventInv'
    BY Members, <1>1, <1>4, <1>6, <1>7
       DEF IInv, EventInv, Scheduled, objectVars, schedulerVars
  <1>18. StartInv'
    BY Members, <1>1, <1>4, <1>6 DEF IInv, StartInv
  <1>19. LeftInv'
    BY <1>3, <1>4, <1>8, <1>9 DEF LeftInv
  <1> QED
    BY Zenon, <1>11, <1>12, <1>13, <1>14, <1>15, <1>16, <1>17, <1>18, <1>19 DEF IInv

\* A core's continuation runs on the stack of the fiber that came second.
LEMMA ContinuationForm ==
  ASSUME StackTyped, NEW f \in Fibers, stack[f] # <<>>, RunContinuation(f),
         NEW c \in Cores, c = On(f)
  PROVE  /\ c = all => Moves(f, "satisfy", result, <<>>)
         /\ c \in Tasks /\ kind = "batch" => Moves(f, "store", c, <<>>)
         /\ c \in Tasks /\ kind # "batch" => Moves(f, "receive", c, <<>>)
         /\ c = result => Moves(f, "receive", c, <<>>)
  <1>1. stack' = [stack EXCEPT ![f] = <<Continuation(c)>> \o Tail(@)]
    BY Zenon DEF RunContinuation
  <1>2. /\ c = all => Continuation(c) = Frame("satisfy", result)
        /\ c \in Tasks /\ kind = "batch" => Continuation(c) = Frame("store", c)
        /\ c \in Tasks /\ kind # "batch" => Continuation(c) = Frame("receive", c)
        /\ c = result => Continuation(c) = Frame("receive", c)
    BY Zenon, Members DEF Continuation, Tasks
  <1>3. /\ {"satisfy", "store", "receive"} \subseteq ProducerAts \cup WaitAts
        /\ result \in Cores
    BY Zenon, Members DEF ProducerAts
  <1> QED
    BY Zenon, <1>1, <1>2, <1>3, ReplaceForm

\* The value with which a core is satisfied.
LEMMA ValueForm ==
  ASSUME IInv, NEW f \in Fibers, Where(f) = "satisfy", NEW c \in Cores,
         c = Object(f)
  PROVE  /\ c \in Tasks => f = c /\ c \in ran /\ ValueOf(c) = c
         /\ c = all => /\ kind = "batch" /\ left = 0 /\ size # 0
                       /\ ValueOf(c) = Results
         /\ c = result => /\ kind = "batch" /\ core[all] = "called"
                          /\ ValueOf(c) = Results
  <1>1. /\ c \in Tasks => f = c /\ c \in ran
        /\ c = all => kind = "batch" /\ left = 0 /\ size > 0
        /\ c = result => kind = "batch" /\ core[all] = "called"
    BY Zenon DEF IInv, FrameInv
  <1>2. c = all => size # 0
    BY <1>1 DEF IInv, Typed
  <1>3. c \in Tasks => ValueOf(c) = c
    BY Zenon, Members DEF ValueOf
  <1>4. c = result => ValueOf(c) = Results
    BY Zenon, <1>1, Members DEF ValueOf, IInv, CoreInv
  <1>5. ASSUME c = all PROVE ValueOf(c) = Results
    <2>1. Cardinality(Pending) = 0 /\ IsFiniteSet(Pending)
      BY Zenon, <1>1, <1>5, PendingFinite DEF IInv, LeftInv
    <2>2. Pending = {}
      BY Zenon, <2>1, FS_EmptySet
    <2>3. \A i \in 1 .. size : values[i] = i
      BY <1>1, <1>5, <2>2 DEF IInv, LeftInv
    <2>4. values = Results
      BY <2>3 DEF Results, IInv, Typed
    <2> QED
      BY Zenon, <1>5, <2>4 DEF ValueOf
  <1> QED
    BY Zenon, <1>1, <1>2, <1>3, <1>4, <1>5

\* SetBoxed and ChainAction: who comes first leaves what the other needs, who
\* comes second runs the continuation.
CoreMoves(f, c, s, v) ==
  /\ c = Object(f) /\ c \in Cores
  /\ \/ /\ Where(f) = "satisfy" /\ v = ValueOf(c)
        /\ \/ core[c] = "waiting" /\ s = "satisfied"
           \/ core[c] = "chained" /\ s = "called"
     \/ /\ Where(f) = "chain" /\ v = value[c]
        /\ \/ core[c] = "waiting" /\ s = "chained"
           \/ core[c] = "satisfied" /\ s = "called"
  /\ core' = [core EXCEPT ![c] = s]
  /\ DOMAIN value' = Cores /\ value'[c] = v
  /\ \A d \in Cores \ {c} : value'[d] = value[d]
  /\ s # "called" => Moves(f, "here", Null, <<>>)
  /\ s = "called" /\ c = all => Moves(f, "satisfy", result, <<>>)
  /\ s = "called" /\ c \in Tasks /\ kind = "batch" => Moves(f, "store", c, <<>>)
  /\ s = "called" /\ c \in Tasks /\ kind = "list" => Moves(f, "receive", c, <<>>)
  /\ s = "called" /\ c = result => Moves(f, "receive", c, <<>>)
  /\ UNCHANGED <<kind, size, pc, index, ran, values, left, receiver, got,
                 objectVars, schedulerVars>>

\* Where the handler is when the core has got its continuation.
LEMMA ContinuationKnown ==
  ASSUME IInv, NEW f \in Fibers, NEW c, NEW s, NEW v, CoreMoves(f, c, s, v),
         s \in {"chained", "called"}
  PROVE  /\ Chained(c)
         /\ c \in Events /\ (kind = "list" \/ c = result) =>
              pc \in {"wait", "take"} /\ c = Awaited
  <1>1. CASE Where(f) = "satisfy"
    BY Zenon, <1>1 DEF CoreMoves, IInv, CoreInv
  <1>2. CASE Where(f) = "chain"
    <2>1. f = handler
      BY Zenon, <1>2 DEF IInv, FrameInv, WaitAts
    <2>2. \/ pc = "when_all" /\ kind = "batch" /\ index > 1 /\ c = index - 1
          \/ pc = "get" /\ kind = "batch" /\ c = all
          \/ pc = "wait" /\ c = Awaited
      BY Zenon, <1>2, <2>1 DEF IInv, HandlerInv, CoreMoves
    <2>3. CASE pc = "when_all" /\ kind = "batch" /\ index > 1 /\ c = index - 1
      <3>1. c \in Tasks /\ c < index
        BY <2>3, TaskAssumption DEF IInv, Typed, Tasks
      <3> QED
        BY Zenon, <3>1, <2>3, Members DEF Chained
    <2>4. CASE pc = "get" /\ kind = "batch" /\ c = all
      BY Zenon, <2>4, Members DEF Chained
    <2>5. CASE pc = "wait" /\ c = Awaited
      BY <2>5, Members, TaskAssumption
         DEF Chained, Awaited, IInv, HandlerInv, Typed, Tasks
    <2> QED
      BY Zenon, <2>2, <2>3, <2>4, <2>5
  <1> QED
    BY Zenon, <1>1, <1>2 DEF CoreMoves

\* The value of the core, once it is satisfied.
LEMMA ValueKnown ==
  ASSUME IInv, NEW f \in Fibers, NEW c, NEW s, NEW v, CoreMoves(f, c, s, v),
         s \in {"satisfied", "called"}
  PROVE  /\ c \in Tasks => c \in ran /\ v = c
         /\ c = all => /\ kind = "batch" /\ left = 0 /\ v = Results
                       /\ size = 0 => pc \notin {"start", "when_all"}
         /\ c = result => kind = "batch" /\ core[all] = "called" /\ v = Results
  <1>1. CASE Where(f) = "satisfy"
    BY Zenon, <1>1, ValueForm DEF CoreMoves
  <1>2. CASE Where(f) = "chain"
    BY Zenon, <1>2 DEF CoreMoves, IInv, CoreInv
  <1> QED
    BY Zenon, <1>1, <1>2 DEF CoreMoves

\* Another fiber that works on the core is about to satisfy it, and the core has
\* only been given its continuation.
LEMMA OtherProducer ==
  ASSUME IInv, NEW f \in Fibers, NEW c, NEW s, NEW v, CoreMoves(f, c, s, v),
         NEW g \in Fibers, g # f, Object(g) = c, Where(g) \in ProducerAts
  PROVE  s = "chained" /\ Where(g) \in {"run", "satisfy"}
  <1>1. Where(f) = "chain"
    BY Zenon DEF CoreMoves, IInv, OneProducer, ProducerAts
  <1>2. FrameInv(g)
    BY Zenon DEF IInv
  <1>3. Where(g) \in {"run", "satisfy"} => core[c] \in {"waiting", "chained"}
    BY Zenon, <1>2 DEF FrameInv
  <1>4. Where(g) \notin {"run", "satisfy"} => core[c] = "called"
    BY Zenon, <1>2 DEF FrameInv, ProducerAts
  <1> QED
    BY <1>1, <1>3, <1>4 DEF CoreMoves

\* What SetBoxed and ChainAction move.
LEMMA CoreMoved ==
  ASSUME IInv, NEW f \in Fibers, NEW c, NEW s, NEW v, CoreMoves(f, c, s, v)
  PROVE  /\ StackTyped'
         /\ Where(f)' \in {"here", "satisfy", "store", "receive"}
         /\ Woken(f)' = <<>>
         /\ \A g \in Fibers \ {f} :
              /\ Where(g)' = Where(g) /\ Object(g)' = Object(g)
              /\ Woken(g)' = Woken(g)
         /\ core'[c] = s /\ value'[c] = v
         /\ s \in {"chained", "satisfied", "called"} /\ core[c] # "called"
         /\ core[c] # s
         /\ \A d \in Cores \ {c} : core'[d] = core[d] /\ value'[d] = value[d]
  <1>1. c \in Cores /\ (c \in Tasks \/ c = all \/ c = result)
    BY Zenon, Members DEF CoreMoves
  <1>2. kind \in {"list", "batch"}
    BY Zenon DEF IInv, Typed
  <1>3. \/ Moves(f, "here", Null, <<>>) \/ Moves(f, "satisfy", result, <<>>)
        \/ Moves(f, "store", c, <<>>) \/ Moves(f, "receive", c, <<>>)
    BY Zenon, <1>1, <1>2 DEF CoreMoves
  <1>4. /\ core' = [core EXCEPT ![c] = s] /\ value'[c] = v
        /\ \A d \in Cores \ {c} : value'[d] = value[d]
    BY Zenon DEF CoreMoves
  <1>5. core'[c] = s /\ value'[c] = v
    BY Zenon, <1>1, <1>4 DEF IInv, Typed
  <1>6. \A d \in Cores \ {c} : core'[d] = core[d] /\ value'[d] = value[d]
    BY Zenon, <1>1, <1>4 DEF IInv, Typed
  <1>7. /\ s \in {"chained", "satisfied", "called"} /\ core[c] # "called"
        /\ core[c] # s
    BY DEF CoreMoves
  <1>8. /\ StackTyped'
        /\ Where(f)' \in {"here", "satisfy", "store", "receive"}
        /\ Woken(f)' = <<>>
        /\ \A g \in Fibers \ {f} :
              /\ Where(g)' = Where(g) /\ Object(g)' = Object(g)
              /\ Woken(g)' = Woken(g)
    BY Zenon, <1>3 DEF Moves
  <1> QED
    BY Zenon, <1>5, <1>6, <1>7, <1>8

\* The fiber that has run into the continuation works on its core alone.
LEMMA CoreStepFrame ==
  ASSUME IInv, NEW f \in Fibers, NEW c, NEW s, NEW v, CoreMoves(f, c, s, v)
  PROVE  FrameInv(f)'
  <1>0. /\ core'[c] = s /\ core[c] # "called"
        /\ \A d \in Cores \ {c} : core'[d] = core[d]
    BY Zenon, CoreMoved
  <1>1. CASE s # "called"
    BY Zenon, <1>0, <1>1 DEF CoreMoves, Moves, FrameInv, WaitAts
  <1>2. ASSUME s = "called", c = all PROVE FrameInv(f)'
    <2>1. Where(f)' = "satisfy" /\ Object(f)' = result
      BY Zenon, <1>2 DEF CoreMoves, Moves
    <2>2. core'[all] = "called" /\ kind' = "batch"
      <3>1. core'[all] = "called"
        BY Zenon, <1>0, <1>2
      <3>2. kind = "batch"
        BY Zenon, <1>2, ValueKnown
      <3> QED
        BY Zenon, <3>1, <3>2 DEF CoreMoves
    <2>3. core'[result] \in {"waiting", "chained"}
      <3>1. core'[result] = core[result] /\ core[all] # "called"
        BY Zenon, <1>0, <1>2, Members
      <3> QED
        BY Members, <3>1 DEF IInv, CoreInv, Typed
    <2> QED
      BY Zenon, Members, <2>1, <2>2, <2>3 DEF FrameInv, WaitAts
  <1>3. ASSUME s = "called", c \in Tasks, kind = "batch" PROVE FrameInv(f)'
    <2>1. Where(f)' = "store" /\ Object(f)' = c /\ core'[c] = "called"
      BY Zenon, <1>0, <1>3 DEF CoreMoves, Moves
    <2>2. c \in 1 .. size /\ size' = size /\ kind' = "batch"
      BY Zenon, <1>3, ValueKnown DEF CoreMoves, IInv, Typed
    <2> QED
      BY Zenon, <2>1, <2>2 DEF FrameInv, WaitAts
  <1>4. ASSUME s = "called", (c \in Tasks /\ kind = "list") \/ c = result
        PROVE  FrameInv(f)'
    <2>1. Where(f)' = "receive" /\ Object(f)' = c /\ core'[c] = "called"
      BY Zenon, <1>0, <1>4 DEF CoreMoves, Moves
    <2>2. c \in Events /\ pc \in {"wait", "take"} /\ c = Awaited
      <3>1. c \in Events /\ (kind = "list" \/ c = result)
        BY Zenon, <1>4, Members
      <3> QED
        BY Zenon, <1>4, <3>1, ContinuationKnown
    <2>3. receiver[c] = Null /\ ~persistent_awakened[c]
      BY Zenon, <1>0, <2>2 DEF IInv, EventInv
    <2>4. /\ c = Awaited' /\ pc' = pc /\ receiver' = receiver
          /\ persistent_awakened' = persistent_awakened
      BY Zenon, <2>2 DEF CoreMoves, Awaited, objectVars
    <2> QED
      BY Zenon, <2>1, <2>2, <2>3, <2>4 DEF FrameInv, WaitAts
  <1> QED
    BY Zenon, Members, <1>1, <1>2, <1>3, <1>4 DEF CoreMoves, IInv, Typed

\* The other fibers do not depend on what the step changes.
LEMMA CoreStepFrames ==
  ASSUME IInv, NEW f \in Fibers, NEW c, NEW s, NEW v, CoreMoves(f, c, s, v),
         NEW g \in Fibers, g # f
  PROVE  FrameInv(g)'
  <1>0. /\ core'[c] = s /\ core[c] # "called" /\ StackTyped
        /\ \A d \in Cores \ {c} : core'[d] = core[d] /\ value'[d] = value[d]
        /\ \A h \in Fibers \ {f} : Where(h)' = Where(h) /\ Object(h)' = Object(h)
    BY Zenon, CoreMoved DEF IInv, Typed
  <1>1. FrameInv(g) /\ Where(g)' = Where(g) /\ Object(g)' = Object(g)
        /\ Woken(g)' = Woken(g)
    BY Zenon, CoreMoved DEF IInv
  <1>2. /\ kind' = kind /\ size' = size /\ pc' = pc /\ ran' = ran /\ left' = left
        /\ values' = values /\ receiver' = receiver /\ state' = state
        /\ persistent_awakened' = persistent_awakened /\ Awaited' = Awaited
    BY Zenon DEF CoreMoves, Awaited, objectVars, schedulerVars
  <1>3. Where(g) = "chain" => core'[Object(g)] \in {"waiting", "satisfied"}
    <2>1. CASE Object(g) = c
      BY <1>0, <1>1, <2>1 DEF CoreMoves, FrameInv, WaitAts, IInv
    <2>2. CASE Object(g) # c
      <3> SUFFICES ASSUME Where(g) = "chain"
                   PROVE  core'[Object(g)] \in {"waiting", "satisfied"}
        BY Zenon
      <3>1. Object(g) \in Cores
        BY Zenon, <1>0, PlaceTyped
      <3> QED
        BY Zenon, <1>0, <1>1, <2>2, <3>1 DEF FrameInv
    <2> QED
      BY Zenon, <2>1, <2>2
  <1>4. ASSUME Where(g) \in ProducerAts, Object(g) # c
        PROVE  core'[Object(g)] = core[Object(g)] /\ value'[Object(g)] = value[Object(g)]
    <2>1. Object(g) \in Cores
      BY Zenon, <1>0, <1>4, PlaceTyped DEF ProducerAts
    <2> QED
      BY Zenon, <1>0, <1>4, <2>1
  <1>5. ASSUME Where(g) \in ProducerAts, Object(g) = c
        PROVE  core'[c] \in {"waiting", "chained"} /\ Where(g) \in {"run", "satisfy"}
    <2>1. s = "chained" /\ Where(g) \in {"run", "satisfy"}
      BY Zenon, <1>5, OtherProducer
    <2> QED
      BY Zenon, <1>0, <2>1
  <1>6. core[all] = "called" => core'[all] = "called"
    BY Zenon, <1>0, Members
  <1>7. Where(g) = "ready" => /\ Where(handler)' \in {"halt", "asleep"}
                              /\ Object(handler)' = Object(g)
    <2>1. Where(g) = "ready" => /\ Where(handler) \in {"halt", "asleep"}
                                /\ Object(handler) = Object(g)
      BY Zenon, <1>1 DEF FrameInv
    <2>2. Where(f) \in {"satisfy", "chain"}
      BY Zenon DEF CoreMoves
    <2> QED
      BY Zenon, <1>0, <2>1, <2>2, Members
  <1> QED
    BY <1>1, <1>2, <1>3, <1>4, <1>5, <1>6, <1>7 DEF FrameInv, ProducerAts

\* SetBoxed and ChainAction keep the invariant.
LEMMA CoreStepIInv ==
  ASSUME IInv, NEW f \in Fibers, NEW c, NEW s, NEW v, CoreMoves(f, c, s, v)
  PROVE  IInv'
  <1>1. /\ StackTyped' /\ c \in Cores /\ c = Object(f)
        /\ Where(f)' \in {"here", "satisfy", "store", "receive"}
        /\ Where(f) \in {"satisfy", "chain"}
    BY Zenon, CoreMoved DEF CoreMoves
  <1>2. \A g \in Fibers \ {f} :
          /\ Where(g)' = Where(g) /\ Object(g)' = Object(g) /\ Woken(g)' = Woken(g)
    BY Zenon, CoreMoved
  <1>3. /\ core'[c] = s /\ value'[c] = v /\ core[c] # "called" /\ core[c] # s
        /\ s \in {"chained", "satisfied", "called"}
    BY Zenon, CoreMoved
  <1>4. \A d \in Cores \ {c} : core'[d] = core[d] /\ value'[d] = value[d]
    BY Zenon, CoreMoved
  <1>5. UNCHANGED <<kind, size, pc, index, ran, values, left, receiver, got,
                    objectVars, schedulerVars>>
    BY Zenon DEF CoreMoves
  <1>6. Awaited' = Awaited /\ Results' = Results /\ \A d : Chained(d)' <=> Chained(d)
    BY Zenon, <1>5 DEF Awaited, Results, Chained
  <1>7. Typed'
    <2>1. /\ core' \in [Cores -> {"waiting", "chained", "satisfied", "called"}]
          /\ DOMAIN value' = Cores
      BY Zenon, <1>1, <1>3 DEF IInv, Typed, CoreMoves
    <2> QED
      BY Zenon, <1>1, <1>5, <2>1
         DEF IInv, Typed, SyncTypeOK, objectVars, schedulerVars
  <1>8. HandlerInv'
    <2>1. HandlerInv
      BY Zenon DEF IInv
    <2>2. CASE f # handler
      BY Zenon, Members, <1>2, <1>5, <1>6, <2>1, <2>2 DEF HandlerInv, objectVars
    <2>3. CASE f = handler /\ Where(f) = "satisfy"
      <3>1. s # "called"
        <4>1. s = "called" => Chained(c)
          BY Zenon, ContinuationKnown
        <4> QED
          BY Zenon, Members, <4>1, <1>1, <2>1, <2>3 DEF HandlerInv, Chained
      <3>2. Where(handler)' = "here" /\ pc # "take"
        BY Zenon, <2>1, <2>3, <3>1 DEF CoreMoves, Moves, HandlerInv
      <3> QED
        BY Zenon, <1>5, <1>6, <2>1, <3>2 DEF HandlerInv
    <2>4. CASE f = handler /\ Where(f) = "chain"
      <3>1. \/ pc = "when_all" /\ kind = "batch" /\ index > 1 /\ c = index - 1
            \/ pc = "get" /\ kind = "batch" /\ c = all
            \/ pc = "wait" /\ c = Awaited
        BY Zenon, <1>1, <2>1, <2>4 DEF HandlerInv
      <3>2. CASE s # "called"
        <4>1. Where(handler)' = "here" /\ pc # "take"
          BY Zenon, <2>4, <3>1, <3>2 DEF CoreMoves, Moves
        <4> QED
          BY Zenon, <1>5, <1>6, <2>1, <4>1 DEF HandlerInv
      <3>3. CASE s = "called" /\ pc = "when_all" /\ kind = "batch"
        <4>1. c \in Tasks
          BY <3>1, <3>3, TaskAssumption DEF IInv, Typed, Tasks
        <4>2. Where(handler)' = "store" /\ Object(handler)' = c
          BY Zenon, <2>4, <3>3, <4>1 DEF CoreMoves, Moves
        <4>3. pc' = "when_all" /\ index' = index /\ c = index - 1
          BY Zenon, <1>5, <3>1, <3>3
        <4> QED
          BY Zenon, <1>5, <1>6, <2>1, <4>2, <4>3 DEF HandlerInv
      <3>4. CASE s = "called" /\ pc = "get"
        <4>1. Where(handler)' = "satisfy" /\ Object(handler)' = result
          BY Zenon, <2>4, <3>1, <3>4 DEF CoreMoves, Moves
        <4> QED
          BY Zenon, <1>5, <1>6, <2>1, <3>4, <4>1 DEF HandlerInv
      <3>5. CASE s = "called" /\ pc = "wait"
        <4>1. c = result \/ (c \in Tasks /\ kind = "list")
          BY <3>1, <3>5, <2>1, TaskAssumption
             DEF HandlerInv, Awaited, IInv, Typed, Tasks
        <4>2. Where(handler)' = "receive"
          BY Zenon, <2>4, <3>5, <4>1 DEF CoreMoves, Moves
        <4> QED
          BY Zenon, <1>5, <1>6, <2>1, <3>5, <4>2 DEF HandlerInv
      <3> QED
        BY Zenon, <3>1, <3>2, <3>3, <3>4, <3>5
    <2> QED
      BY Zenon, <1>1, <2>2, <2>3, <2>4
  <1>9. ASSUME NEW g \in Fibers PROVE FrameInv(g)'
    BY Zenon, CoreStepFrame, CoreStepFrames
  <1>10. OneProducer'
    <2>1. ASSUME NEW g \in Fibers, g # f, Where(g) \in ProducerAts,
                 Where(f)' \in ProducerAts, Object(g) = Object(f)'
          PROVE  FALSE
      <3>1. s = "called"
        BY Zenon, <2>1 DEF CoreMoves, Moves, ProducerAts
      <3>2. CASE c # all
        <4>1. Object(f)' = c
          BY Zenon, <3>1, <3>2, Members DEF CoreMoves, Moves, IInv, Typed
        <4>2. Object(g) = c
          BY Zenon, <2>1, <4>1
        <4>3. g \in Fibers /\ g # f /\ Where(g) \in ProducerAts
          BY Zenon, <2>1
        <4>4. s = "chained" /\ Where(g) \in {"run", "satisfy"}
          BY <4>2, <4>3, OtherProducer
        <4> QED
          BY <3>1, <4>4
      <3>3. CASE c = all
        <4>1. Object(g) = result /\ core[all] # "called"
          BY Zenon, <1>3, <2>1, <3>1, <3>3 DEF CoreMoves, Moves
        <4>2. core[result] \notin {"satisfied", "called"}
          BY Zenon, <4>1 DEF IInv, CoreInv
        <4>3. FrameInv(g)
          BY Zenon DEF IInv
        <4>4. result \notin 1 .. size
          BY TaskAssumption DEF IInv, Typed
        <4> QED
          BY Zenon, <2>1, <4>1, <4>2, <4>3, <4>4 DEF FrameInv, ProducerAts
      <3> QED
        BY Zenon, <3>2, <3>3
    <2> QED
      BY Zenon, <1>2, <2>1 DEF IInv, OneProducer
  <1>11. Scheduled'
    BY Zenon, <1>1, <1>2, <1>5 DEF IInv, Scheduled, schedulerVars
  <1>12. CoreInv'
    <2>1. ASSUME NEW d \in Tasks, core'[d] \in {"satisfied", "called"}
          PROVE  d \in ran /\ value'[d] = d
      <3>1. CASE d = c
        BY Zenon, <1>3, <2>1, <3>1, ValueKnown
      <3>2. CASE d # c
        BY Zenon, Members, <1>4, <2>1, <3>2 DEF IInv, CoreInv
      <3> QED
        BY Zenon, <3>1, <3>2
    <2>2. core'[all] \in {"satisfied", "called"} =>
            /\ kind = "batch" /\ left = 0 /\ value'[all] = Results
            /\ size = 0 => pc \notin {"start", "when_all"}
      <3>1. CASE c = all
        BY Zenon, <1>3, <3>1, ValueKnown
      <3>2. CASE c # all
        BY Zenon, Members, <1>4, <3>2 DEF IInv, CoreInv
      <3> QED
        BY Zenon, <3>1, <3>2
    <2>3. core'[result] \in {"satisfied", "called"} =>
            kind = "batch" /\ core'[all] = "called" /\ value'[result] = Results
      <3>1. core[all] = "called" => core'[all] = "called"
        BY Zenon, Members, <1>3, <1>4
      <3>2. CASE c = result
        BY Zenon, <1>3, <3>1, <3>2, ValueKnown
      <3>3. CASE c # result
        BY Zenon, Members, <1>4, <3>1, <3>3 DEF IInv, CoreInv
      <3> QED
        BY Zenon, <3>2, <3>3
    <2>4. ASSUME NEW d \in Cores, core'[d] \in {"chained", "called"}
          PROVE  Chained(d)
      BY Zenon, <1>3, <1>4, <2>4, ContinuationKnown DEF IInv, CoreInv
    <2>5. ASSUME NEW d \in Events, core'[d] = "chained", kind = "list" \/ d = result
          PROVE  pc \in {"wait", "take"} /\ d = Awaited
      <3>1. CASE d = c
        BY Zenon, <1>3, <2>5, <3>1, ContinuationKnown
      <3>2. CASE d # c
        BY Zenon, Members, <1>4, <2>5, <3>2 DEF IInv, CoreInv
      <3> QED
        BY Zenon, <3>1, <3>2
    <2> QED
      BY Zenon, <1>5, <1>6, <2>1, <2>2, <2>3, <2>4, <2>5 DEF CoreInv
  <1>13. EventInv'
    <2>1. \A e \in Events : core[e] = "called" =>
            core'[e] = "called" /\ value'[e] = value[e]
      BY Zenon, Members, <1>3, <1>4
    <2>2. state[handler] = "Ready" \/ Where(handler) \in {"halt", "asleep"} =>
            Where(handler)' = Where(handler) /\ Object(handler)' = Object(handler)
      BY Members, <1>1, <1>2 DEF IInv, Scheduled
    <2> QED
      BY Zenon, <1>5, <2>1, <2>2 DEF IInv, EventInv, objectVars, schedulerVars
  <1>14. StartInv'
    <2>1. ASSUME NEW i \in Tasks, Where(i) = "here", core[i] = "waiting", i \notin ran,
                 pc = "start"
          PROVE  Where(i)' = "here" /\ core'[i] = "waiting"
      <3>1. i # f /\ Where(i)' = "here"
        BY Zenon, Members, <1>1, <1>2, <2>1
      <3>2. i # c
        <4>1. Where(f) = "satisfy"
          BY Zenon, <1>1, <2>1 DEF IInv, HandlerInv, FrameInv, WaitAts
        <4> QED
          BY Zenon, <1>1, <3>1, <4>1 DEF IInv, FrameInv
      <3> QED
        BY Zenon, Members, <1>4, <2>1, <3>1, <3>2
    <2> QED
      BY Zenon, <1>5, <2>1 DEF IInv, StartInv
  <1>15. LeftInv'
    <2> SUFFICES ASSUME kind = "batch" PROVE LeftInv'
      BY Zenon, <1>5 DEF LeftInv
    <2>1. \A g \in Fibers, i \in 1 .. size : i # c => (Busy(g, i)' <=> Busy(g, i))
      BY Zenon, Members, <1>1, <1>2 DEF Busy, CoreMoves, Moves
    <2>2. c \in 1 .. size => c \in Tasks
      BY TaskAssumption DEF IInv, Typed, Tasks
    <2>3. c \in 1 .. size => (core'[c] # "called" \/ \E g \in Fibers : Busy(g, c)')
      BY Zenon, <1>3, <2>2 DEF Busy, CoreMoves, Moves
    <2>4. \A i \in 1 .. size : i # c => core'[i] = core[i]
      BY <1>4, TaskAssumption DEF IInv, Typed, Cores
    <2>5. Pending' = Pending
      BY Zenon, <1>3, <1>5, <2>1, <2>3, <2>4 DEF Pending
    <2> QED
      BY Zenon, <1>5, <2>5 DEF IInv, LeftInv
  <1> QED
    BY Zenon, <1>7, <1>8, <1>9, <1>10, <1>11, <1>12, <1>13, <1>14, <1>15 DEF IInv

LEMMA SetBoxedIInv ==
  ASSUME IInv, NEW f \in Fibers, SetBoxed(f)
  PROVE  IInv'
  <1>1. /\ stack[f] # <<>> /\ Where(f) = "satisfy" /\ On(f) = Object(f)
        /\ StackTyped /\ Object(f) \in Cores
    BY Zenon, AtPlace DEF SetBoxed, IInv, Typed
  <1>2. PICK c, v : c = Object(f) /\ v = ValueOf(c)
    BY Zenon
  <1>3. /\ DOMAIN value' = Cores /\ value'[c] = v
        /\ \A d \in Cores \ {c} : value'[d] = value[d]
    BY Zenon, <1>1, <1>2 DEF SetBoxed, IInv, Typed
  <1>4. UNCHANGED <<kind, size, pc, index, ran, values, left, receiver, got,
                    objectVars, schedulerVars>>
    BY Zenon DEF SetBoxed
  <1>5. CASE core[c] = "waiting" /\ core' = [core EXCEPT ![c] = "satisfied"] /\ Return(f)
    <2>1. Moves(f, "here", Null, <<>>)
      BY Zenon, <1>1, <1>5, ReturnForm
    <2>2. CoreMoves(f, c, "satisfied", v)
      BY Zenon, <1>1, <1>2, <1>3, <1>4, <1>5, <2>1 DEF CoreMoves
    <2> QED
      BY Zenon, <2>2, CoreStepIInv
  <1>6. CASE core[c] = "chained" /\ core' = [core EXCEPT ![c] = "called"]
             /\ RunContinuation(f)
    <2>1. CoreMoves(f, c, "called", v)
      BY Zenon, <1>1, <1>2, <1>3, <1>4, <1>6, ContinuationForm DEF CoreMoves
    <2> QED
      BY Zenon, <2>1, CoreStepIInv
  <1> QED
    BY Zenon, <1>1, <1>2, <1>5, <1>6 DEF SetBoxed

LEMMA ChainActionIInv ==
  ASSUME IInv, NEW f \in Fibers, ChainAction(f)
  PROVE  IInv'
  <1>1. /\ stack[f] # <<>> /\ Where(f) = "chain" /\ On(f) = Object(f)
        /\ StackTyped /\ Object(f) \in Cores
    BY Zenon, AtPlace DEF ChainAction, IInv, Typed
  <1>2. PICK c, v : c = Object(f) /\ v = value[c]
    BY Zenon
  <1>3. /\ DOMAIN value' = Cores /\ value'[c] = v
        /\ \A d \in Cores \ {c} : value'[d] = value[d]
    BY Zenon, <1>2 DEF ChainAction, IInv, Typed
  <1>4. UNCHANGED <<kind, size, pc, index, ran, values, left, receiver, got,
                    objectVars, schedulerVars>>
    BY Zenon DEF ChainAction
  <1>5. CASE core[c] = "waiting" /\ core' = [core EXCEPT ![c] = "chained"] /\ Return(f)
    <2>1. Moves(f, "here", Null, <<>>)
      BY Zenon, <1>1, <1>5, ReturnForm
    <2>2. CoreMoves(f, c, "chained", v)
      BY Zenon, <1>1, <1>2, <1>3, <1>4, <1>5, <2>1 DEF CoreMoves
    <2> QED
      BY Zenon, <2>2, CoreStepIInv
  <1>6. CASE core[c] = "satisfied" /\ core' = [core EXCEPT ![c] = "called"]
             /\ RunContinuation(f)
    <2>1. CoreMoves(f, c, "called", v)
      BY Zenon, <1>1, <1>2, <1>3, <1>4, <1>6, ContinuationForm DEF CoreMoves
    <2> QED
      BY Zenon, <2>1, CoreStepIInv
  <1> QED
    BY Zenon, <1>1, <1>2, <1>5, <1>6 DEF ChainAction

\* BlockingGet's continuation fills the receiver.
LEMMA ReceiveIInv ==
  ASSUME IInv, NEW f \in Fibers, Receive(f)
  PROVE  IInv'
  <1>1. /\ stack[f] # <<>> /\ Where(f) = "receive" /\ On(f) = Object(f)
        /\ StackTyped
    BY Zenon, AtPlace DEF Receive, IInv, Typed
  <1>2. PICK c : c = Object(f)
    BY Zenon
  <1>3. /\ c \in Events /\ c = Awaited /\ core[c] = "called"
        /\ ~persistent_awakened[c] /\ pc \in {"wait", "take"}
    BY <1>1, <1>2 DEF IInv, FrameInv
  <1>4. Moves(f, "event_set", c, Woken(f))
    BY Zenon, <1>1, <1>2, JumpForm DEF Receive, ProducerAts
  <1>5. /\ receiver'[c] = value[c] /\ DOMAIN receiver' = Events
        /\ \A e \in Events \ {c} : receiver'[e] = receiver[e]
    BY Zenon, <1>1, <1>2, <1>3 DEF Receive, IInv, Typed
  <1>6. UNCHANGED <<kind, size, pc, index, core, value, ran, values, left, got,
                    objectVars, schedulerVars>>
    BY Zenon DEF Receive
  <1>7. Typed'
    BY Zenon, <1>4, <1>5, <1>6
       DEF IInv, Typed, SyncTypeOK, Moves, objectVars, schedulerVars
  <1>8. HandlerInv'
    BY Members, <1>1, <1>2, <1>4, <1>6
       DEF IInv, HandlerInv, Moves, objectVars, schedulerVars, Awaited, Results
  <1>9. ASSUME NEW g \in Fibers PROVE FrameInv(g)'
    <2>1. FrameInv(g)
      BY Zenon DEF IInv
    <2>2. CASE g = f
      BY <1>3, <1>4, <1>5, <1>6, <2>2
         DEF FrameInv, Moves, WaitAts, objectVars, Awaited
    <2>3. CASE g # f
      <3>1. Where(g) \in ProducerAts => Object(g) # c
        BY Zenon, <1>1, <1>2, <2>3 DEF IInv, OneProducer, ProducerAts
      <3> QED
        BY Members, <1>1, <1>4, <1>5, <1>6, <2>1, <2>3, <3>1
           DEF FrameInv, Moves, objectVars, schedulerVars, Awaited, ProducerAts
    <2> QED
      BY Zenon, <2>2, <2>3
  <1>10. OneProducer'
    BY <1>1, <1>2, <1>4 DEF IInv, OneProducer, Moves, ProducerAts
  <1>11. Scheduled'
    BY <1>1, <1>4, <1>6 DEF IInv, Scheduled, Moves, schedulerVars
  <1>12. CoreInv'
    BY <1>6 DEF IInv, CoreInv, Chained, Results, Awaited
  <1>13. EventInv'
    BY Members, <1>1, <1>3, <1>4, <1>5, <1>6
       DEF IInv, EventInv, Moves, Scheduled, objectVars, schedulerVars
  <1>14. StartInv'
    BY Members, <1>1, <1>2, <1>3, <1>4, <1>6 DEF IInv, StartInv, Moves, HandlerInv
  <1>15. LeftInv'
    <2>1. \A g \in Fibers, i \in 1 .. size : Busy(g, i)' <=> Busy(g, i)
      BY Zenon, <1>1, <1>2, <1>4 DEF Busy, Moves
    <2> QED
      BY Zenon, <1>6, <2>1, LeftStays
  <1> QED
    BY Zenon, <1>7, <1>8, <1>9, <1>10, <1>11, <1>12, <1>13, <1>14, <1>15 DEF IInv

\* The function of a fiber returns.
LEMMA RunTaskIInv ==
  ASSUME IInv, NEW f \in Fibers, RunTask(f)
  PROVE  IInv'
  <1>1. /\ stack[f] # <<>> /\ Where(f) = "run" /\ On(f) = Object(f)
        /\ StackTyped
    BY Zenon, AtPlace DEF RunTask, IInv, Typed
  <1>2. /\ f = Object(f) /\ f \in 1 .. size /\ f \notin ran
        /\ core[f] \in {"waiting", "chained"}
    BY <1>1 DEF IInv, FrameInv
  <1>3. f \in Tasks
    BY <1>2, TaskAssumption DEF IInv, Typed, Tasks
  <1>4. Moves(f, "satisfy", f, Woken(f))
    BY Zenon, <1>1, <1>2, JumpForm DEF RunTask, ProducerAts
  <1>5. ran' = ran \cup {f}
    BY Zenon DEF RunTask
  <1>6. UNCHANGED <<kind, size, pc, index, core, value, values, left, receiver, got,
                    objectVars, schedulerVars>>
    BY Zenon DEF RunTask
  <1>7. Typed'
    BY Zenon, <1>2, <1>4, <1>5, <1>6
       DEF IInv, Typed, SyncTypeOK, Moves, objectVars, schedulerVars
  <1>8. HandlerInv'
    BY Zenon, Members, <1>3, <1>4, <1>6
       DEF IInv, HandlerInv, Moves, objectVars, Awaited, Results
  <1>9. ASSUME NEW g \in Fibers PROVE FrameInv(g)'
    <2>1. FrameInv(g)
      BY Zenon DEF IInv
    <2>2. CASE g = f
      BY Zenon, Members, <1>2, <1>3, <1>4, <1>5, <1>6, <2>2
         DEF FrameInv, Moves, WaitAts
    <2>3. CASE g # f
      BY Members, <1>3, <1>4, <1>5, <1>6, <2>1, <2>3
         DEF FrameInv, Moves, objectVars, schedulerVars, Awaited
    <2> QED
      BY Zenon, <2>2, <2>3
  <1>10. OneProducer'
    BY Zenon, <1>1, <1>2, <1>4, ProducersStay DEF Moves, ProducerAts
  <1>11. Scheduled'
    BY <1>1, <1>4, <1>6 DEF IInv, Scheduled, Moves, schedulerVars
  <1>12. CoreInv'
    BY <1>5, <1>6 DEF IInv, CoreInv, Chained, Results, Awaited
  <1>13. EventInv'
    BY Members, <1>3, <1>4, <1>6
       DEF IInv, EventInv, Moves, objectVars, schedulerVars
  <1>14. StartInv'
    BY Members, <1>1, <1>4, <1>5, <1>6 DEF IInv, StartInv, Moves
  <1>15. LeftInv'
    <2>1. \A g \in Fibers, i \in 1 .. size : Busy(g, i)' <=> Busy(g, i)
      BY Zenon, <1>1, <1>4 DEF Busy, Moves
    <2> QED
      BY Zenon, <1>6, <2>1, LeftStays
  <1> QED
    BY Zenon, <1>7, <1>8, <1>9, <1>10, <1>11, <1>12, <1>13, <1>14, <1>15 DEF IInv

(***************************************************************************)
(* The steps of the event and of the scheduler.                            *)
(***************************************************************************)
\* The handler waits for the event of the future it waits for.
LEMMA EventWaitIInv ==
  ASSUME IInv, NEW f \in Fibers, EventWait(f), UNCHANGED futureVars
  PROVE  IInv'
  <1>1. /\ stack[f] # <<>> /\ Where(f) = "event_wait" /\ On(f) = Object(f)
        /\ StackTyped
    BY Zenon, AtPlace DEF EventWait, IInv, Typed
  <1>2. PICK e : e = Object(f)
    BY Zenon
  <1>3. f = handler /\ pc = "take" /\ e = Awaited
    BY Zenon, <1>1, <1>2 DEF IInv, FrameInv, HandlerInv, WaitAts
  <1>4. e \in Events /\ e \in Waitables /\ waiters[e] = <<>>
    <2>1. e \in Events
      BY Members, <1>3, TaskAssumption
         DEF Awaited, IInv, HandlerInv, Typed, Tasks
    <2> QED
      BY <1>1, <1>3, <2>1, Members DEF IInv, EventInv
  <1>5. UNCHANGED <<kind, size, pc, index, core, value, ran, values, left, receiver,
                    got, count, slow_path_lock, persistent_awakened, state>>
    BY Zenon DEF EventWait, futureVars
  <1>6. CASE /\ persistent_awakened[e] /\ Return(f)
             /\ UNCHANGED <<waiters, scheduler_lock>>
    <2>1. Moves(f, "here", Null, <<>>)
      BY Zenon, <1>1, <1>6, ReturnForm
    <2>2. Typed'
      BY Zenon, <1>5, <1>6, <2>1 DEF IInv, Typed, SyncTypeOK, Moves
    <2>3. HandlerInv'
      BY <1>3, <1>5, <1>6, <2>1 DEF IInv, HandlerInv, Moves, Awaited, Results
    <2>4. ASSUME NEW g \in Fibers PROVE FrameInv(g)'
      BY <1>1, <1>3, <1>5, <2>1 DEF IInv, FrameInv, Moves, Awaited, WaitAts
    <2>5. OneProducer'
      BY Zenon, <2>1 DEF IInv, OneProducer, Moves, ProducerAts
    <2>6. Scheduled'
      BY <1>1, <1>5, <1>6, <2>1 DEF IInv, Scheduled, Moves
    <2>7. CoreInv'
      BY Zenon, <1>5 DEF IInv, CoreInv, Chained, Results, Awaited
    <2>8. EventInv'
      BY Members, <1>1, <1>3, <1>5, <1>6 DEF IInv, EventInv, Scheduled
    <2>9. StartInv'
      BY <1>3, <1>5 DEF StartInv
    <2>10. LeftInv'
      <3>1. \A g \in Fibers, i \in 1 .. size : Busy(g, i)' <=> Busy(g, i)
        BY Zenon, <1>1, <2>1 DEF Busy, Moves
      <3> QED
        BY Zenon, <1>5, <3>1, LeftStays
    <2> QED
      BY Zenon, <2>2, <2>3, <2>4, <2>5, <2>6, <2>7, <2>8, <2>9, <2>10 DEF IInv
  <1>7. CASE /\ ~persistent_awakened[e] /\ AddWaiter(e, f)
             /\ scheduler_lock' = [scheduler_lock EXCEPT ![f] = TRUE]
             /\ Jump(f, "halt")
    <2>1. Moves(f, "halt", e, Woken(f))
      BY Zenon, <1>1, <1>2, <1>7, JumpForm DEF WaitAts
    <2>2. /\ waiters'[e] = <<handler>> /\ waiters' \in [Waitables -> Seq(Fibers)]
          /\ \A w \in Events \ {e} : waiters'[w] = waiters[w]
      BY Members, <1>3, <1>4, <1>7 DEF AddWaiter, IInv, Typed, SyncTypeOK
    <2>3. /\ scheduler_lock' \in [Fibers -> BOOLEAN] /\ scheduler_lock'[f]
          /\ \A g \in Fibers \ {f} : scheduler_lock'[g] = scheduler_lock[g]
      BY Zenon, <1>7 DEF IInv, Typed, SyncTypeOK
    <2>4. Typed'
      BY Zenon, <1>5, <2>1, <2>2, <2>3 DEF IInv, Typed, SyncTypeOK, Moves
    <2>5. HandlerInv'
      BY <1>3, <1>5, <2>1 DEF IInv, HandlerInv, Moves, Awaited, Results
    <2>6. ASSUME NEW g \in Fibers PROVE FrameInv(g)'
      BY <1>1, <1>3, <1>5, <2>1 DEF IInv, FrameInv, Moves, Awaited, WaitAts
    <2>7. OneProducer'
      BY Zenon, <2>1 DEF IInv, OneProducer, Moves, ProducerAts
    <2>8. Scheduled'
      BY <1>1, <1>5, <2>1, <2>3 DEF IInv, Scheduled, Moves
    <2>9. CoreInv'
      BY Zenon, <1>5 DEF IInv, CoreInv, Chained, Results, Awaited
    <2>10. EventInv'
      <3>1. state[handler] = "Running"
        BY <1>1, <1>3 DEF IInv, Scheduled
      <3>2. \A w \in Events \ {e} : waiters[w] = <<>>
        BY Members, <1>1, <1>3 DEF IInv, EventInv
      <3> QED
        BY <1>3, <1>4, <1>5, <1>7, <2>1, <2>2, <3>1, <3>2 DEF IInv, EventInv, Moves
    <2>11. StartInv'
      BY <1>3, <1>5 DEF StartInv
    <2>12. LeftInv'
      <3>1. \A g \in Fibers, i \in 1 .. size : Busy(g, i)' <=> Busy(g, i)
        BY Zenon, <1>1, <2>1 DEF Busy, Moves
      <3> QED
        BY Zenon, <1>5, <3>1, LeftStays
    <2> QED
      BY Zenon, <2>4, <2>5, <2>6, <2>7, <2>8, <2>9, <2>10, <2>11, <2>12 DEF IInv
  <1> QED
    BY Zenon, <1>1, <1>2, <1>6, <1>7 DEF EventWait

\* The event is set, and takes the handler from the wait chain.
LEMMA EventSetIInv ==
  ASSUME IInv, NEW f \in Fibers, EventSet(f), UNCHANGED futureVars
  PROVE  IInv'
  <1>1. /\ stack[f] # <<>> /\ Where(f) = "event_set" /\ On(f) = Object(f)
        /\ StackTyped
    BY Zenon, AtPlace DEF EventSet, IInv, Typed
  <1>2. PICK e : e = Object(f)
    BY Zenon
  <1>3. /\ e \in Events /\ e = Awaited /\ core[e] = "called"
        /\ receiver[e] = value[e] /\ e \in Waitables /\ pc \in {"wait", "take"}
    BY Zenon, Members, <1>1, <1>2 DEF IInv, FrameInv
  <1>4. UNCHANGED <<kind, size, pc, index, core, value, ran, values, left, receiver,
                    got, count, slow_path_lock, state, scheduler_lock>>
    BY Zenon DEF EventSet, futureVars, schedulerVars
  <1>5. /\ persistent_awakened' \in [Events -> BOOLEAN] /\ persistent_awakened'[e]
        /\ \A d \in Events \ {e} : persistent_awakened'[d] = persistent_awakened[d]
    BY Zenon, <1>1, <1>2, <1>3 DEF EventSet, IInv, Typed, SyncTypeOK
  <1>6. /\ waiters' \in [Waitables -> Seq(Fibers)] /\ waiters'[e] = <<>>
        /\ \A d \in Events \ {e} : waiters'[d] = waiters[d]
    <2>1. waiters' = [waiters EXCEPT ![e] = <<>>]
      BY Zenon, <1>1, <1>2 DEF EventSet
    <2>2. <<>> \in Seq(Fibers)
      OBVIOUS
    <2> QED
      BY Zenon, Members, <1>3, <2>1, <2>2 DEF IInv, Typed, SyncTypeOK
  <1>7. \/ /\ waiters[e] = <<>> /\ Moves(f, "here", Null, <<>>)
        \/ /\ waiters[e] = <<handler>> /\ Moves(f, "ready", e, <<handler>>)
           /\ Where(handler) \in {"halt", "asleep"} /\ Object(handler) = e
           /\ state[handler] # "Ready" /\ f # handler
    <2>1. CASE waiters[e] = <<>>
      BY Zenon, <1>1, <1>2, <2>1, ReturnForm DEF EventSet
    <2>2. CASE waiters[e] # <<>>
      <3>1. /\ waiters[e] = <<handler>>
            /\ Where(handler) \in {"halt", "asleep"} /\ Object(handler) = e
            /\ state[handler] # "Ready"
        BY Zenon, <1>3, <2>2 DEF IInv, EventInv
      <3>2. f # handler
        BY Zenon, <1>1, <3>1
      <3>3. <<handler>> \in Seq(Fibers)
        BY Members
      <3>4. stack' = [stack EXCEPT ![f][1].at = "ready", ![f][1].woken = <<handler>>]
        BY Zenon, <1>1, <1>2, <2>2, <3>1 DEF EventSet
      <3>5. Moves(f, "ready", e, <<handler>>)
        BY Zenon, <1>1, <1>2, <3>3, <3>4, WakeForm
      <3> QED
        BY Zenon, <3>1, <3>2, <3>5
    <2> QED
      BY Zenon, <2>1, <2>2
  <1>8. /\ StackTyped' /\ Where(f)' \in {"here", "ready"}
        /\ \A g \in Fibers \ {f} :
             /\ Where(g)' = Where(g) /\ Object(g)' = Object(g)
             /\ Woken(g)' = Woken(g)
        /\ Where(f)' = "ready" =>
             /\ f # handler /\ Object(f)' = e /\ Woken(f)' = <<handler>>
             /\ Where(handler) \in {"halt", "asleep"} /\ Object(handler) = e
             /\ state[handler] # "Ready"
    BY Zenon, <1>7 DEF Moves
  <1>9. CoreInv' /\ Awaited' = Awaited /\ Results' = Results
    BY Zenon, <1>4, CoresStay
  <1>10. Typed'
    BY Zenon, <1>4, <1>5, <1>6, <1>8 DEF IInv, Typed, SyncTypeOK
  <1>11. HandlerInv'
    <2>1. \A d \in Events : persistent_awakened[d] => persistent_awakened'[d]
      BY Zenon, <1>5
    <2>2. Awaited \in Events
      BY Zenon, <1>3
    <2>3. CASE f = handler
      BY <1>1, <1>4, <1>8, <1>9, <2>3 DEF IInv, HandlerInv
    <2>4. CASE f # handler
      BY Zenon, Members, <1>4, <1>8, <1>9, <2>1, <2>2, <2>4 DEF IInv, HandlerInv
    <2> QED
      BY Zenon, <2>3, <2>4
  <1>12. ASSUME NEW g \in Fibers PROVE FrameInv(g)'
    <2>1. FrameInv(g)
      BY Zenon DEF IInv
    <2>2. CASE g = f
      BY Members, <1>3, <1>4, <1>5, <1>8, <1>9, <2>2 DEF FrameInv, WaitAts
    <2>3. CASE g # f
      <3>1. Where(g) \in ProducerAts => Object(g) # e
        BY Zenon, <1>1, <1>2, <2>3 DEF IInv, OneProducer, ProducerAts
      <3>2. \/ Where(handler)' = Where(handler) /\ Object(handler)' = Object(handler)
            \/ Where(handler) = "event_set"
        BY Zenon, Members, <1>1, <1>8
      <3> QED
        BY <1>4, <1>5, <1>8, <1>9, <2>1, <2>3, <3>1, <3>2 DEF FrameInv, ProducerAts
    <2> QED
      BY Zenon, <2>2, <2>3
  <1>13. OneProducer'
    BY Zenon, <1>1, <1>2, <1>8, ProducersStay DEF ProducerAts
  <1>14. Scheduled'
    BY <1>1, <1>4, <1>8 DEF IInv, Scheduled
  <1>15. EventInv'
    <2>1. state[handler] = "Ready" \/ Where(handler) \in {"halt", "asleep"} =>
            Where(handler)' = Where(handler) /\ Object(handler)' = Object(handler)
      BY Members, <1>1, <1>8 DEF IInv, Scheduled
    <2>2. kind = "list" \/ e = result
      BY Zenon, <1>3 DEF Awaited
    <2>3. ASSUME NEW d \in Events
          PROVE  /\ persistent_awakened'[d] =>
                      /\ core[d] = "called" /\ receiver[d] = value[d]
                      /\ kind = "list" \/ d = result
                 /\ waiters'[d] # <<>> =>
                      /\ ~persistent_awakened'[d] /\ waiters'[d] = <<handler>>
                      /\ Where(handler)' \in {"halt", "asleep"}
                      /\ Object(handler)' = d /\ state[handler] # "Ready"
      <3>1. CASE d = e
        BY Zenon, <1>3, <1>6, <2>2, <3>1
      <3>2. CASE d # e
        BY Zenon, <1>5, <1>6, <2>1, <3>2 DEF IInv, EventInv
      <3> QED
        BY Zenon, <3>1, <3>2
    <2>4. ASSUME state[handler] = "Ready" PROVE persistent_awakened'[Object(handler)]
      <3>1. Where(handler) = "asleep" /\ persistent_awakened[Object(handler)]
        BY <2>4, Members DEF IInv, Scheduled, EventInv
      <3>2. Object(handler) = e
        BY Zenon, <1>3, <3>1 DEF IInv, HandlerInv
      <3> QED
        BY Zenon, <1>5, <3>2
    <2> QED
      BY Zenon, <1>4, <2>1, <2>3, <2>4 DEF IInv, EventInv
  <1>16. StartInv'
    BY Zenon, <1>3, <1>4 DEF StartInv
  <1>17. LeftInv'
    <2>1. \A g \in Fibers, i \in 1 .. size : Busy(g, i)' <=> Busy(g, i)
      BY Zenon, <1>1, <1>8 DEF Busy
    <2> QED
      BY Zenon, <1>4, <2>1, LeftStays
  <1> QED
    BY Zenon, <1>9, <1>10, <1>11, <1>12, <1>13, <1>14, <1>15, <1>16, <1>17 DEF IInv

\* The fiber sleeps.
LEMMA HaltIInv ==
  ASSUME IInv, NEW f \in Fibers, Halt(f), UNCHANGED futureVars
  PROVE  IInv'
  <1>1. StackTyped /\ ~At(f, "halt_wait")
    BY Zenon, PlaceTyped, PlaceAt DEF IInv, Typed, ProducerAts, WaitAts
  <1>2. stack[f] # <<>> /\ Where(f) = "halt" /\ Jump(f, "asleep")
    BY Zenon, <1>1, AtPlace DEF Halt
  <1>3. f = handler
    BY Zenon, <1>2 DEF IInv, FrameInv, WaitAts
  <1>4. Moves(f, "asleep", Object(f), Woken(f))
    BY Zenon, <1>1, <1>2, JumpForm DEF WaitAts
  <1>5. UNCHANGED <<kind, size, pc, index, core, value, ran, values, left, receiver,
                    got, count, slow_path_lock, waiters, persistent_awakened>>
    BY Zenon DEF Halt, futureVars, objectVars
  <1>6. /\ state' \in [Fibers -> {"Running", "Waiting", "Ready"}]
        /\ state'[f] = "Waiting" /\ \A g \in Fibers \ {f} : state'[g] = state[g]
        /\ scheduler_lock' \in [Fibers -> BOOLEAN] /\ ~scheduler_lock'[f]
        /\ \A g \in Fibers \ {f} : scheduler_lock'[g] = scheduler_lock[g]
    BY DEF Halt, IInv, Typed, SyncTypeOK
  <1>7. CoreInv' /\ Awaited' = Awaited /\ Results' = Results
    BY Zenon, <1>5, CoresStay
  <1>8. Typed'
    BY Zenon, <1>4, <1>5, <1>6 DEF IInv, Typed, SyncTypeOK, Moves
  <1>9. HandlerInv'
    BY <1>2, <1>3, <1>4, <1>5, <1>7 DEF IInv, HandlerInv, Moves
  <1>10. ASSUME NEW g \in Fibers PROVE FrameInv(g)'
    BY <1>2, <1>3, <1>4, <1>5, <1>6, <1>7 DEF IInv, FrameInv, Moves, WaitAts
  <1>11. OneProducer'
    BY Zenon, <1>4, ProducersStay DEF Moves, ProducerAts
  <1>12. Scheduled'
    BY <1>4, <1>6 DEF IInv, Scheduled, Moves
  <1>13. EventInv'
    BY <1>2, <1>3, <1>4, <1>5, <1>6 DEF IInv, EventInv, Moves
  <1>14. StartInv'
    BY Zenon, <1>2, <1>3, <1>5 DEF IInv, HandlerInv, StartInv
  <1>15. LeftInv'
    <2>1. \A g \in Fibers, i \in 1 .. size : Busy(g, i)' <=> Busy(g, i)
      BY Zenon, <1>2, <1>4 DEF Busy, Moves
    <2> QED
      BY Zenon, <1>5, <2>1, LeftStays
  <1> QED
    BY Zenon, <1>7, <1>8, <1>9, <1>10, <1>11, <1>12, <1>13, <1>14, <1>15 DEF IInv

\* The fiber that has set the event makes the handler ready.
LEMMA ReadyFiberIInv ==
  ASSUME IInv, NEW f \in Fibers, ReadyFiber(f), UNCHANGED futureVars
  PROVE  IInv'
  <1>1. /\ stack[f] # <<>> /\ Where(f) = "ready" /\ StackTyped
        /\ Head(stack[f]).woken = Woken(f)
    BY Zenon, AtPlace DEF ReadyFiber, IInv, Typed
  <1>2. /\ Woken(f) = <<handler>> /\ Object(f) = Object(handler)
        /\ Where(handler) \in {"halt", "asleep"} /\ Object(f) \in Events
        /\ persistent_awakened[Object(f)] /\ f # handler
    BY Zenon, <1>1 DEF IInv, FrameInv
  <1>3. Len(Woken(f)) = 1 /\ Head(Woken(f)) = handler
    BY <1>2
  <1>4. /\ Return(f) /\ ~scheduler_lock[handler]
        /\ state' = [state EXCEPT ![handler] = "Ready"]
    BY Zenon, <1>1, <1>3 DEF ReadyFiber, CanReady
  <1>5. Where(handler) = "asleep"
    BY Zenon, Members, <1>2, <1>4 DEF IInv, Scheduled
  <1>6. Moves(f, "here", Null, <<>>)
    BY Zenon, <1>1, <1>4, ReturnForm
  <1>7. UNCHANGED <<kind, size, pc, index, core, value, ran, values, left, receiver,
                    got, count, slow_path_lock, waiters, persistent_awakened,
                    scheduler_lock>>
    BY Zenon DEF ReadyFiber, futureVars, objectVars
  <1>8. /\ state' \in [Fibers -> {"Running", "Waiting", "Ready"}]
        /\ state'[handler] = "Ready"
        /\ \A g \in Fibers \ {handler} : state'[g] = state[g]
    BY Members, <1>4 DEF IInv, Typed, SyncTypeOK
  <1>9. CoreInv' /\ Awaited' = Awaited /\ Results' = Results
    BY Zenon, <1>7, CoresStay
  <1>10. Typed'
    BY Zenon, <1>6, <1>7, <1>8 DEF IInv, Typed, SyncTypeOK, Moves
  <1>11. Where(handler)' = Where(handler) /\ Object(handler)' = Object(handler)
    BY Zenon, Members, <1>2, <1>6 DEF Moves
  <1>12. HandlerInv'
    BY Zenon, <1>7, <1>9, <1>11 DEF IInv, HandlerInv
  <1>13. ASSUME NEW g \in Fibers PROVE FrameInv(g)'
    <2>1. FrameInv(g)
      BY Zenon DEF IInv
    <2>2. CASE g = f
      BY Zenon, <1>6, <2>2 DEF FrameInv, Moves, WaitAts
    <2>3. CASE g # f
      <3>1. Where(g) # "ready"
        BY Zenon, <1>1, <1>2, <2>1, <2>3 DEF FrameInv, IInv, OneProducer, ProducerAts
      <3> QED
        BY Zenon, <1>6, <1>7, <1>9, <2>1, <2>3, <3>1 DEF FrameInv, Moves
    <2> QED
      BY Zenon, <2>2, <2>3
  <1>14. OneProducer'
    BY Zenon, <1>6, ProducersStay DEF Moves, ProducerAts
  <1>15. Scheduled'
    BY <1>1, <1>5, <1>6, <1>7, <1>8 DEF IInv, Scheduled, Moves
  <1>16. EventInv'
    <2>1. \A e \in Events : waiters[e] = <<>>
      BY Zenon, <1>2 DEF IInv, EventInv
    <2> QED
      BY Zenon, <1>2, <1>7, <1>11, <2>1 DEF IInv, EventInv
  <1>17. StartInv'
    BY Zenon, <1>2, <1>7 DEF IInv, HandlerInv, StartInv
  <1>18. LeftInv'
    <2>1. \A g \in Fibers, i \in 1 .. size : Busy(g, i)' <=> Busy(g, i)
      BY Zenon, <1>1, <1>6 DEF Busy, Moves
    <2> QED
      BY Zenon, <1>7, <2>1, LeftStays
  <1> QED
    BY Zenon, <1>9, <1>10, <1>12, <1>13, <1>14, <1>15, <1>16, <1>17, <1>18 DEF IInv

\* The handler runs again.
LEMMA ResumeIInv ==
  ASSUME IInv, NEW f \in Fibers, Resume(f), UNCHANGED futureVars
  PROVE  IInv'
  <1>1. StackTyped /\ ~At(f, "asleep_wait")
    BY Zenon, PlaceTyped, PlaceAt DEF IInv, Typed, ProducerAts, WaitAts
  <1>2. /\ stack[f] # <<>> /\ Where(f) = "asleep" /\ Return(f)
        /\ state[f] = "Ready" /\ ~scheduler_lock[f]
    BY Zenon, <1>1, AtPlace DEF Resume
  <1>3. /\ f = handler /\ pc = "take" /\ Object(f) = Awaited
        /\ persistent_awakened[Awaited]
    BY Zenon, <1>2 DEF IInv, FrameInv, HandlerInv, EventInv, WaitAts
  <1>4. Moves(f, "here", Null, <<>>)
    BY Zenon, <1>1, <1>2, ReturnForm
  <1>5. UNCHANGED <<kind, size, pc, index, core, value, ran, values, left, receiver,
                    got, count, slow_path_lock, waiters, persistent_awakened,
                    scheduler_lock>>
    BY Zenon DEF Resume, futureVars, objectVars
  <1>6. /\ state' \in [Fibers -> {"Running", "Waiting", "Ready"}]
        /\ state'[f] = "Running" /\ \A g \in Fibers \ {f} : state'[g] = state[g]
    BY DEF Resume, IInv, Typed, SyncTypeOK
  <1>7. CoreInv' /\ Awaited' = Awaited /\ Results' = Results
    BY Zenon, <1>5, CoresStay
  <1>8. Typed'
    BY Zenon, <1>4, <1>5, <1>6 DEF IInv, Typed, SyncTypeOK, Moves
  <1>9. HandlerInv'
    BY <1>3, <1>4, <1>5, <1>7 DEF IInv, HandlerInv, Moves
  <1>10. ASSUME NEW g \in Fibers PROVE FrameInv(g)'
    <2>1. FrameInv(g)
      BY Zenon DEF IInv
    <2>2. CASE g = f
      BY Zenon, <1>4, <2>2 DEF FrameInv, Moves, WaitAts
    <2>3. CASE g # f
      <3>1. Where(g) # "ready"
        BY Zenon, <1>2, <1>3, <2>1 DEF FrameInv
      <3> QED
        BY Zenon, <1>4, <1>5, <1>7, <2>1, <2>3, <3>1 DEF FrameInv, Moves
    <2> QED
      BY Zenon, <2>2, <2>3
  <1>11. OneProducer'
    BY Zenon, <1>4, ProducersStay DEF Moves, ProducerAts
  <1>12. Scheduled'
    BY <1>2, <1>4, <1>5, <1>6 DEF IInv, Scheduled, Moves
  <1>13. EventInv'
    <2>1. \A e \in Events : waiters[e] = <<>>
      BY Zenon, <1>2, <1>3 DEF IInv, EventInv
    <2>2. state'[handler] # "Ready"
      BY <1>3, <1>6
    <2> QED
      BY Zenon, <1>5, <2>1, <2>2 DEF IInv, EventInv
  <1>14. StartInv'
    BY Zenon, <1>3, <1>5 DEF StartInv
  <1>15. LeftInv'
    <2>1. \A g \in Fibers, i \in 1 .. size : Busy(g, i)' <=> Busy(g, i)
      BY Zenon, <1>2, <1>4 DEF Busy, Moves
    <2> QED
      BY Zenon, <1>5, <2>1, LeftStays
  <1> QED
    BY Zenon, <1>7, <1>8, <1>9, <1>10, <1>11, <1>12, <1>13, <1>14, <1>15 DEF IInv

(***************************************************************************)
(* The steps of the handler.                                               *)
(***************************************************************************)
\* The handler runs its own code: it does not sleep, nobody has taken it from a
\* wait chain, and it is in none.
LEMMA HereFacts ==
  ASSUME IInv, NEW l, Here(l)
  PROVE  /\ pc = l /\ stack[handler] = <<>> /\ Where(handler) = "here"
         /\ StackTyped /\ state[handler] = "Running"
         /\ \A f \in Fibers : Where(f) # "ready"
         /\ \A e \in Events : waiters[e] = <<>>
  <1>1. pc = l /\ stack[handler] = <<>> /\ StackTyped
    BY Zenon DEF Here, IInv, Typed
  <1>2. Where(handler) = "here"
    BY Zenon, <1>1, Members, PlaceTyped
  <1>3. state[handler] = "Running"
    BY Zenon, <1>2, Members DEF IInv, Scheduled
  <1>4. \A f \in Fibers : Where(f) # "ready"
    BY Zenon, <1>2 DEF IInv, FrameInv
  <1>5. \A e \in Events : waiters[e] = <<>>
    BY Zenon, <1>2 DEF IInv, EventInv
  <1> QED
    BY Zenon, <1>1, <1>2, <1>3, <1>4, <1>5

\* The future that the handler waits for is an event.
LEMMA AwaitedEvent ==
  ASSUME IInv, kind = "list" => index <= size
  PROVE  Awaited \in Events /\ Awaited \in Cores
  <1>1. kind = "list" => index \in Tasks
    BY TaskAssumption DEF IInv, Typed, Tasks
  <1> QED
    BY Zenon, Members, <1>1 DEF Awaited

\* A step of the handler that leaves all frames as they are.
LEMMA StayForm ==
  ASSUME StackTyped, stack[handler] = <<>>, UNCHANGED stack
  PROVE  Moves(handler, "here", Null, <<>>)
  BY Zenon DEF Moves, StackTyped, Where, Object, Woken

\* A step of the handler that moves it into a call, or leaves it in its own code,
\* and keeps the cores.
LEMMA HandlerStep ==
  ASSUME IInv, NEW l, Here(l), NEW at \in WaitAts \cup {"here"}, NEW on,
         Moves(handler, at, on, <<>>), at \notin {"halt", "asleep"},
         UNCHANGED <<kind, size, core, value, rest>>,
         index' \in 1 .. size + 1, HandlerInv', StartInv',
         at = "chain" => core[on] \in {"waiting", "satisfied"},
         \A c \in Cores : core[c] \in {"chained", "called"} => Chained(c)',
         \A c \in Events : core[c] = "chained" /\ (kind = "list" \/ c = result) =>
           pc' \in {"wait", "take"} /\ c = Awaited',
         core[all] \in {"satisfied", "called"} /\ size = 0 =>
           pc' \notin {"start", "when_all"},
         \A g \in Fibers : Where(g) \in {"receive", "event_set"} =>
           pc' \in {"wait", "take"} /\ Object(g) = Awaited'
  PROVE  IInv'
  <1>1. /\ pc = l /\ Where(handler) = "here" /\ StackTyped
        /\ state[handler] = "Running"
        /\ \A f \in Fibers : Where(f) # "ready"
        /\ \A e \in Events : waiters[e] = <<>>
    BY Zenon, HereFacts
  <1>2. /\ StackTyped' /\ Where(handler)' = at /\ Object(handler)' = on
        /\ \A g \in Fibers \ {handler} :
             Where(g)' = Where(g) /\ Object(g)' = Object(g) /\ Woken(g)' = Woken(g)
    BY Zenon DEF Moves
  <1>3. UNCHANGED <<kind, size, core, value, ran, values, left, receiver, count,
                    slow_path_lock, waiters, persistent_awakened, state,
                    scheduler_lock>>
    BY Zenon DEF rest, objectVars, schedulerVars
  <1>4. Typed'
    BY Zenon, <1>2, <1>3 DEF IInv, Typed, SyncTypeOK
  <1>5. ASSUME NEW g \in Fibers PROVE FrameInv(g)'
    <2>1. FrameInv(g) /\ Where(g) # "ready"
      BY Zenon, <1>1 DEF IInv
    <2>2. CASE g = handler
      BY <1>2, <1>3, <2>2 DEF FrameInv, WaitAts
    <2>3. CASE g # handler
      BY Zenon, <1>2, <1>3, <2>1, <2>3 DEF FrameInv
    <2> QED
      BY Zenon, <2>2, <2>3
  <1>6. OneProducer'
    BY Zenon, <1>2, ProducersStay DEF ProducerAts, WaitAts
  <1>7. Scheduled'
    BY Zenon, <1>1, <1>2, <1>3 DEF IInv, Scheduled
  <1>8. CoreInv'
    <2>1. Results' = Results
      BY Zenon, <1>3 DEF Results
    <2> QED
      BY Zenon, <1>3, <2>1 DEF IInv, CoreInv
  <1>9. EventInv'
    <2>1. state'[handler] # "Ready"
      BY <1>1, <1>3
    <2> QED
      BY Zenon, <1>1, <1>3, <2>1 DEF IInv, EventInv
  <1>10. LeftInv'
    <2>1. \A g \in Fibers, i \in 1 .. size : Busy(g, i)' <=> Busy(g, i)
      BY Zenon, <1>1, <1>2 DEF Busy, WaitAts
    <2> QED
      BY Zenon, <1>3, <2>1, LeftStays
  <1> QED
    BY Zenon, <1>4, <1>5, <1>6, <1>7, <1>8, <1>9, <1>10 DEF IInv

\* No fiber is in the continuation of a BlockingGet.
LEMMA NoReceiver ==
  ASSUME IInv, pc \notin {"wait", "take"}
  PROVE  /\ \A g \in Fibers : Where(g) \notin {"receive", "event_set"}
         /\ \A c \in Events : ~(core[c] = "chained" /\ (kind = "list" \/ c = result))
  BY Zenon DEF IInv, FrameInv, CoreInv

\* The loop that calls Async ends.
LEMMA StartedIInv ==
  ASSUME IInv, StartTasks, index > size
  PROVE  IInv'
  <1>1. /\ Here("start") /\ index' = 1 /\ UNCHANGED <<stack, core, value, got, rest>>
        /\ pc' = IF kind = "list" THEN "get" ELSE "when_all"
    BY DEF StartTasks, IInv, Typed
  <1>2. /\ pc = "start" /\ Where(handler) = "here"
        /\ Moves(handler, "here", Null, <<>>)
    BY Zenon, <1>1, HereFacts, StayForm
  <1>3. kind' = kind /\ size' = size /\ left' = left
    BY Zenon, <1>1 DEF rest
  <1>4. 1 \in 1 .. size + 1
    BY TaskAssumption DEF IInv, Typed
  <1>5. Where(handler)' = "here"
    BY Zenon, <1>2 DEF Moves
  <1>6. HandlerInv'
    BY <1>1, <1>2, <1>3, <1>5 DEF HandlerInv, IInv, Typed
  <1>7. StartInv' /\ pc' \notin {"start"}
    BY Zenon, <1>1 DEF StartInv
  <1>8. \A c \in Cores : core[c] \notin {"chained", "called"}
    BY Zenon, <1>2 DEF IInv, CoreInv, Chained
  <1>9. ~(core[all] \in {"satisfied", "called"} /\ size = 0)
    BY Zenon, <1>2 DEF IInv, CoreInv
  <1>10. UNCHANGED <<kind, size, core, value, rest>>
    BY Zenon, <1>1, <1>3
  <1>11. pc \notin {"wait", "take"} /\ index' \in 1 .. size + 1
    BY Zenon, <1>1, <1>2, <1>4
  <1> QED
    BY Zenon, <1>1, <1>2, <1>6, <1>7, <1>8, <1>9, <1>10, <1>11, NoReceiver, HandlerStep

\* WhenAll gives the next core its continuation.
LEMMA WhenAllOneIInv ==
  ASSUME IInv, WhenAll, index <= size
  PROVE  IInv'
  <1>1. /\ Here("when_all") /\ index' = index + 1
        /\ Call(handler, "chain", index) /\ UNCHANGED <<pc, core, value, got, rest>>
    BY DEF WhenAll, IInv, Typed
  <1>2. /\ pc = "when_all" /\ Where(handler) = "here" /\ stack[handler] = <<>>
        /\ StackTyped
    BY Zenon, <1>1, HereFacts
  <1>3. kind' = kind /\ size' = size /\ left' = left /\ kind = "batch"
    BY Zenon, <1>1, <1>2 DEF rest, IInv, HandlerInv
  <1>4. index \in Tasks /\ index \in Cores /\ index + 1 \in 1 .. size + 1
    BY TaskAssumption DEF IInv, Typed, Tasks, Cores
  <1>5. Moves(handler, "chain", index, <<>>)
    BY Zenon, Members, <1>1, <1>2, <1>4, CallForm DEF WaitAts
  <1>6. HandlerInv'
    BY <1>1, <1>2, <1>3, <1>4, <1>5 DEF HandlerInv, IInv, Typed, Moves, Results, Tasks
  <1>7. StartInv'
    BY Zenon, <1>1, <1>2 DEF StartInv
  <1>8. core[index] \in {"waiting", "satisfied"}
    <2>1. ~Chained(index)
      BY <1>2, <1>3, <1>4, Members DEF Chained, Tasks
    <2> QED
      BY Zenon, <1>4, <2>1 DEF IInv, CoreInv, Typed
  <1>9. ASSUME NEW c \in Cores, core[c] \in {"chained", "called"} PROVE Chained(c)'
    <2>1. Chained(c)
      BY Zenon, <1>9 DEF IInv, CoreInv
    <2>2. c \in Tasks /\ c < index => c < index + 1
      BY <1>4 DEF Tasks
    <2> QED
      BY Zenon, <1>1, <1>2, <1>3, <2>1, <2>2, Members DEF Chained
  <1>10. ~(core[all] \in {"satisfied", "called"} /\ size = 0)
    BY Zenon, <1>2 DEF IInv, CoreInv
  <1>11. UNCHANGED <<kind, size, core, value, rest>>
    BY Zenon, <1>1, <1>3
  <1>12. /\ pc \notin {"wait", "take"} /\ index' \in 1 .. size + 1
         /\ "chain" \in WaitAts \cup {"here"}
    BY Zenon, <1>1, <1>2, <1>4 DEF WaitAts
  <1> QED
    BY Zenon, <1>1, <1>5, <1>6, <1>7, <1>8, <1>9, <1>10, <1>11, <1>12, NoReceiver,
       HandlerStep

\* WhenAll has given all cores their continuation; of no futures it makes a
\* future that has its value.
LEMMA WhenAllEndIInv ==
  ASSUME IInv, WhenAll, index > size
  PROVE  IInv'
  <1>1. /\ Here("when_all") /\ pc' = "then" /\ UNCHANGED <<index, stack, got, rest>>
        /\ IF size = 0 THEN /\ core' = [core EXCEPT ![all] = "satisfied"]
                            /\ value' = [value EXCEPT ![all] = <<>>]
                       ELSE UNCHANGED <<core, value>>
    BY DEF WhenAll, IInv, Typed
  <1>2. /\ pc = "when_all" /\ Where(handler) = "here" /\ StackTyped
        /\ Moves(handler, "here", Null, <<>>)
    BY Zenon, <1>1, HereFacts, StayForm
  <1>3. kind' = kind /\ size' = size /\ left' = left /\ kind = "batch"
    BY Zenon, <1>1, <1>2 DEF rest, IInv, HandlerInv
  <1>4. index = size + 1 /\ index' \in 1 .. size + 1
    BY <1>1 DEF IInv, Typed
  <1>5. HandlerInv'
    <2>1. Where(handler)' = "here"
      BY Zenon, <1>2 DEF Moves
    <2> QED
      BY <1>1, <1>2, <1>3, <1>4, <2>1 DEF HandlerInv, IInv, Results
  <1>6. StartInv' /\ pc \notin {"wait", "take"}
    BY Zenon, <1>1, <1>2 DEF StartInv
  <1>7. \A c \in Cores : Chained(c) => Chained(c)'
    BY Zenon, <1>1, <1>2, <1>3 DEF Chained
  <1>8. CASE size # 0
    <2>1. UNCHANGED <<kind, size, core, value, rest>>
      BY Zenon, <1>1, <1>3, <1>8
    <2>2. \A c \in Cores : core[c] \in {"chained", "called"} => Chained(c)'
      BY Zenon, <1>7 DEF IInv, CoreInv
    <2> QED
      BY Zenon, <1>1, <1>2, <1>4, <1>5, <1>6, <1>8, <2>1, <2>2, NoReceiver, HandlerStep
  <1>9. CASE size = 0
    <2>1. /\ core'[all] = "satisfied" /\ value'[all] = <<>>
          /\ core' \in [Cores -> {"waiting", "chained", "satisfied", "called"}]
          /\ DOMAIN value' = Cores
          /\ \A c \in Cores \ {all} : core'[c] = core[c] /\ value'[c] = value[c]
      BY Members, <1>1, <1>9 DEF IInv, Typed
    <2>2. /\ core[all] = "waiting"
          /\ \A f \in Fibers : Where(f) \in ProducerAts => Object(f) # all
      <3>1. core[all] = "waiting"
        BY Members, <1>2, <1>9 DEF IInv, CoreInv, Typed, Chained
      <3>2. ASSUME NEW f \in Fibers, Where(f) \in ProducerAts, Object(f) = all
            PROVE  FALSE
        <4>1. FrameInv(f)
          BY Zenon DEF IInv
        <4>2. all \notin 1 .. size /\ all \notin Events /\ ~(size > 0)
          BY <1>9, Members
        <4> QED
          BY Zenon, <4>1, <4>2, <3>2 DEF FrameInv, ProducerAts
      <3> QED
        BY Zenon, <3>1, <3>2
    <2>3. /\ UNCHANGED <<ran, values, left, receiver, count, slow_path_lock, waiters,
                         persistent_awakened, state, scheduler_lock>>
          /\ Awaited' = Awaited /\ Results' = Results
      BY Zenon, <1>1, <1>3 DEF rest, objectVars, schedulerVars, Awaited, Results
    <2>4. \A g \in Fibers : /\ Where(g)' = Where(g) /\ Object(g)' = Object(g)
                            /\ Woken(g)' = Woken(g)
      BY Zenon, <1>1 DEF Where, Object, Woken
    <2>5. Typed'
      BY Zenon, <1>2, <1>3, <1>4, <2>1, <2>3 DEF IInv, Typed, SyncTypeOK, Moves
    <2>6. ASSUME NEW g \in Fibers PROVE FrameInv(g)'
      <3>1. FrameInv(g) /\ Where(g) \notin {"receive", "event_set", "ready"}
        BY Zenon, <1>1, <1>6, HereFacts, NoReceiver DEF IInv
      <3>2. Where(g) \notin WaitAts
        BY Zenon, <1>2, <3>1 DEF FrameInv, WaitAts
      <3>3. Where(g) \in ProducerAts => core'[Object(g)] = core[Object(g)]
        BY Zenon, <1>2, <2>1, <2>2, PlaceTyped DEF ProducerAts
      <3>4. core[all] # "called"
        BY <2>2
      <3> QED
        BY Zenon, <1>3, <2>3, <2>4, <3>1, <3>2, <3>3, <3>4
           DEF FrameInv, ProducerAts, WaitAts
    <2>7. OneProducer'
      BY Zenon, <2>4, ProducersStay
    <2>8. Scheduled'
      BY Zenon, <2>3, <2>4 DEF IInv, Scheduled
    <2>9. CoreInv'
      <3>1. <<>> = Results /\ left = 0
        BY <1>9 DEF Results, IInv, Typed
      <3>2. core[result] \notin {"satisfied", "called"}
        BY Zenon, <2>2 DEF IInv, CoreInv
      <3>3. core'[result] = core[result]
        BY Zenon, Members, <2>1
      <3>4. \A c \in Tasks : core'[c] = core[c] /\ value'[c] = value[c]
        BY Zenon, Members, <2>1
      <3>5. \A c \in Events : core'[c] = core[c]
        BY Zenon, Members, <2>1
      <3>6. ASSUME NEW c \in Cores, core'[c] \in {"chained", "called"}
            PROVE  Chained(c)'
        BY <1>7, <2>1, <3>6 DEF IInv, CoreInv
      <3> QED
        BY Zenon, <1>1, <1>3, <1>6, <2>1, <2>3, <3>1, <3>2, <3>3, <3>4, <3>5, <3>6,
           NoReceiver DEF IInv, CoreInv
    <2>10. EventInv'
      <3>1. \A e \in Events : core'[e] = core[e] /\ value'[e] = value[e]
        BY Zenon, Members, <2>1
      <3> QED
        BY Zenon, <1>3, <2>3, <2>4, <3>1, Members DEF IInv, EventInv
    <2>11. LeftInv'
      <3>1. \A i \in 1 .. size : core'[i] = core[i]
        BY <1>9
      <3>2. Pending' = Pending
        BY Zenon, <1>3, <2>4, <3>1 DEF Pending, Busy
      <3> QED
        BY Zenon, <1>3, <2>3, <3>2 DEF IInv, LeftInv
    <2> QED
      BY Zenon, <1>5, <1>6, <2>5, <2>6, <2>7, <2>8, <2>9, <2>10, <2>11 DEF IInv
  <1> QED
    BY Zenon, <1>8, <1>9

\* The Then of WhenAll.
LEMMA WhenAllThenIInv ==
  ASSUME IInv, WhenAllThen
  PROVE  IInv'
  <1>1. /\ Here("then") /\ pc' = "get" /\ Call(handler, "chain", all)
        /\ UNCHANGED <<index, core, value, got, rest>>
    BY Zenon DEF WhenAllThen
  <1>2. /\ pc = "then" /\ Where(handler) = "here" /\ stack[handler] = <<>>
        /\ StackTyped
    BY Zenon, <1>1, HereFacts
  <1>3. kind' = kind /\ size' = size /\ left' = left /\ kind = "batch"
    BY Zenon, <1>1, <1>2 DEF rest, IInv, HandlerInv
  <1>4. Moves(handler, "chain", all, <<>>)
    BY Zenon, Members, <1>1, <1>2, CallForm DEF WaitAts
  <1>5. HandlerInv'
    BY <1>1, <1>2, <1>3, <1>4 DEF HandlerInv, IInv, Moves, Results
  <1>6. core[all] \in {"waiting", "satisfied"}
    BY Zenon, Members, <1>2 DEF Chained, IInv, CoreInv, Typed
  <1>7. \A c \in Cores : Chained(c) => Chained(c)'
    BY Zenon, <1>1, <1>2, <1>3 DEF Chained
  <1>8. \A c \in Cores : core[c] \in {"chained", "called"} => Chained(c)'
    BY Zenon, <1>7 DEF IInv, CoreInv
  <1>9. UNCHANGED <<kind, size, core, value, rest>>
    BY Zenon, <1>1, <1>3
  <1>10. /\ pc \notin {"wait", "take"} /\ index' \in 1 .. size + 1 /\ StartInv'
         /\ "chain" \in WaitAts \cup {"here"} /\ pc' \notin {"start", "when_all"}
    BY Zenon, <1>1, <1>2 DEF WaitAts, IInv, Typed, StartInv
  <1> QED
    BY Zenon, <1>1, <1>4, <1>5, <1>6, <1>8, <1>9, <1>10, NoReceiver, HandlerStep

\* Async starts the next fiber: nobody works on its core yet.
LEMMA StartOneIInv ==
  ASSUME IInv, StartTasks, index <= size
  PROVE  IInv'
  <1>1. PICK f : f = index
    OBVIOUS
  <1>2. /\ Here("start") /\ index' = f + 1
        /\ stack' = [stack EXCEPT ![f] = <<Frame("run", f)>>]
        /\ UNCHANGED <<pc, core, value, got, rest>>
    BY <1>1 DEF StartTasks, IInv, Typed
  <1>3. /\ f \in 1 .. size /\ f \in Tasks /\ f \in Fibers /\ f # handler /\ f \in Cores
        /\ index' \in 1 .. size + 1
    BY <1>1, <1>2, TaskAssumption DEF IInv, Typed, Tasks, Cores
  <1>4. /\ pc = "start" /\ Where(handler) = "here" /\ StackTyped
        /\ \A g \in Fibers : Where(g) # "ready"
    BY Zenon, <1>2, HereFacts
  <1>5. Where(f) = "here" /\ f \notin ran /\ core[f] = "waiting"
    BY <1>1, <1>3, <1>4 DEF IInv, StartInv, Typed
  <1>6. Moves(f, "run", f, <<>>)
    <2> DEFINE r == Frame("run", f)
    <2>1. r \in Frames /\ r.at = "run" /\ r.on = f /\ r.woken = <<>>
      BY <1>3 DEF Frame, Frames, ProducerAts
    <2>2. stack' = [stack EXCEPT ![f] = <<r>>]
      BY <1>2
    <2> HIDE DEF r
    <2>3. Moves(f, r.at, r.on, r.woken)
      BY Zenon, <1>3, <1>4, <2>1, <2>2, FrameForm
    <2> QED
      BY Zenon, <2>1, <2>3 DEF Moves
  <1>7. /\ StackTyped' /\ Where(f)' = "run" /\ Object(f)' = f
        /\ \A g \in Fibers \ {f} :
             Where(g)' = Where(g) /\ Object(g)' = Object(g) /\ Woken(g)' = Woken(g)
    BY Zenon, <1>6 DEF Moves
  <1>8. UNCHANGED <<kind, size, pc, core, value, got, ran, values, left, receiver, count,
                    slow_path_lock, waiters, persistent_awakened, state,
                    scheduler_lock>>
    BY Zenon, <1>2 DEF rest, objectVars, schedulerVars
  <1>9. /\ \A g \in Fibers : Where(g) \notin {"receive", "event_set", "ready"}
        /\ \A c \in Cores : core[c] \notin {"chained", "called"}
    BY Zenon, <1>4, NoReceiver DEF IInv, CoreInv, Chained
  <1>10. Typed'
    BY Zenon, <1>3, <1>7, <1>8 DEF IInv, Typed, SyncTypeOK
  <1>11. Where(handler)' = "here"
    BY Zenon, Members, <1>3, <1>4, <1>7
  <1>12. HandlerInv'
    BY Zenon, <1>4, <1>8, <1>11 DEF IInv, HandlerInv, Results
  <1>13. ASSUME NEW g \in Fibers PROVE FrameInv(g)'
    <2>1. CASE g = f
      BY Zenon, <1>3, <1>5, <1>7, <1>8, <2>1 DEF FrameInv, WaitAts
    <2>2. CASE g # f
      <3>1. FrameInv(g)
        BY Zenon DEF IInv
      <3> QED
        BY Zenon, <1>7, <1>8, <1>9, <2>2, <3>1 DEF FrameInv
    <2> QED
      BY Zenon, <2>1, <2>2
  <1>14. OneProducer'
    <2>1. ASSUME NEW g \in Fibers, Where(g) \in ProducerAts, Object(g) = f
          PROVE  FALSE
      <3>1. FrameInv(g) /\ core[f] # "called"
        BY <1>5 DEF IInv
      <3> QED
        BY Zenon, <1>3, <1>5, <1>9, <2>1, <3>1 DEF FrameInv, ProducerAts
    <2>2. ASSUME NEW g \in Fibers, NEW h \in Fibers,
                 Where(g)' \in ProducerAts, Where(h)' \in ProducerAts,
                 Object(g)' = Object(h)'
          PROVE  g = h
      <3>1. CASE g = f
        BY Zenon, <1>7, <2>1, <2>2, <3>1
      <3>2. CASE h = f
        BY Zenon, <1>7, <2>1, <2>2, <3>2
      <3>3. CASE g # f /\ h # f
        BY Zenon, <1>7, <2>2, <3>3 DEF IInv, OneProducer
      <3> QED
        BY Zenon, <3>1, <3>2, <3>3
    <2> QED
      BY Zenon, <2>2 DEF OneProducer
  <1>15. Scheduled'
    BY <1>5, <1>7, <1>8 DEF IInv, Scheduled
  <1>16. CoreInv'
    <2>1. Results' = Results
      BY Zenon, <1>8 DEF Results
    <2>2. \A c \in Events : core[c] # "chained"
      BY Zenon, Members, <1>9
    <2> QED
      BY Zenon, <1>8, <1>9, <2>1, <2>2 DEF IInv, CoreInv
  <1>17. EventInv'
    BY Zenon, Members, <1>3, <1>7, <1>8 DEF IInv, EventInv
  <1>18. StartInv'
    <2>1. \A i \in Tasks : i >= f + 1 => i >= f /\ i # f
      BY <1>3 DEF Tasks
    <2> QED
      BY Zenon, Members, <1>1, <1>2, <1>7, <1>8, <2>1 DEF IInv, StartInv
  <1>19. LeftInv'
    <2>1. \A g \in Fibers, i \in 1 .. size : Busy(g, i)' <=> Busy(g, i)
      BY Zenon, <1>5, <1>7 DEF Busy
    <2> QED
      BY Zenon, <1>8, <2>1, LeftStays
  <1> QED
    BY Zenon, <1>10, <1>12, <1>13, <1>14, <1>15, <1>16, <1>17, <1>18, <1>19 DEF IInv

\* BlockingGet gives the future its continuation, or there is no future left.
LEMMA GetThenIInv ==
  ASSUME IInv, GetThen
  PROVE  IInv'
  <1>1. Here("get") /\ UNCHANGED <<index, core, value, got, rest>>
    BY Zenon DEF GetThen
  <1>2. /\ pc = "get" /\ Where(handler) = "here" /\ stack[handler] = <<>>
        /\ StackTyped
    BY Zenon, <1>1, HereFacts
  <1>3. /\ kind' = kind /\ size' = size /\ left' = left /\ Awaited' = Awaited
        /\ kind \in {"list", "batch"} /\ index' \in 1 .. size + 1
        /\ UNCHANGED <<kind, size, core, value, rest>> /\ pc \notin {"wait", "take"}
    BY Zenon, <1>1, <1>2 DEF rest, Awaited, IInv, Typed
  <1>4. \A c \in Cores : core[c] \in {"chained", "called"} => Chained(c)
    BY Zenon DEF IInv, CoreInv
  <1>5. CASE Call(handler, "chain", Awaited) /\ pc' = "wait"
             /\ (index <= size \/ kind = "batch")
    <2>1. Awaited \in Events /\ Awaited \in Cores
      BY Zenon, <1>5, AwaitedEvent
    <2>2. Moves(handler, "chain", Awaited, <<>>)
      BY Zenon, Members, <1>2, <1>5, <2>1, CallForm DEF WaitAts
    <2>3. HandlerInv'
      BY <1>1, <1>2, <1>3, <1>5, <2>2 DEF HandlerInv, IInv, Moves, Results
    <2>4. ~Chained(Awaited)
      <3>1. CASE kind = "list"
        <4>1. index \in Tasks /\ Awaited = index /\ ~(index < index)
          BY <1>5, <3>1, TaskAssumption DEF Awaited, IInv, Typed, Tasks
        <4> QED
          BY Zenon, Members, <1>2, <3>1, <4>1 DEF Chained
      <3>2. CASE kind = "batch"
        BY Zenon, Members, <1>2, <3>2 DEF Chained, Awaited
      <3> QED
        BY Zenon, <1>3, <3>1, <3>2
    <2>5. core[Awaited] \in {"waiting", "satisfied"}
      BY Zenon, <1>4, <2>1, <2>4 DEF IInv, Typed
    <2>6. \A c \in Cores : Chained(c) => Chained(c)'
      BY Zenon, <1>1, <1>2, <1>3, <1>5 DEF Chained
    <2>7. \A c \in Cores : core[c] \in {"chained", "called"} => Chained(c)'
      BY Zenon, <1>4, <2>6
    <2>8. /\ StartInv' /\ "chain" \in WaitAts \cup {"here"}
          /\ pc' \notin {"start", "when_all"}
      BY Zenon, <1>5 DEF StartInv, WaitAts
    <2> QED
      BY Zenon, <1>1, <1>3, <2>2, <2>3, <2>5, <2>7, <2>8, NoReceiver, HandlerStep
  <1>6. CASE index > size /\ kind = "list" /\ pc' = "done" /\ UNCHANGED stack
    <2>1. Moves(handler, "here", Null, <<>>)
      BY Zenon, <1>2, <1>6, StayForm
    <2>2. HandlerInv'
      BY <1>1, <1>2, <1>3, <1>6, <2>1 DEF HandlerInv, IInv, Moves
    <2>3. \A c \in Cores : Chained(c) => Chained(c)'
      BY Zenon, <1>1, <1>2, <1>3, <1>6 DEF Chained
    <2>4. \A c \in Cores : core[c] \in {"chained", "called"} => Chained(c)'
      BY Zenon, <1>4, <2>3
    <2>5. StartInv' /\ pc' \notin {"start", "when_all"}
      BY Zenon, <1>6 DEF StartInv
    <2> QED
      BY Zenon, <1>1, <1>3, <2>1, <2>2, <2>4, <2>5, NoReceiver, HandlerStep
  <1> QED
    BY Zenon, <1>5, <1>6 DEF GetThen

\* BlockingGet waits for its event.
LEMMA GetWaitIInv ==
  ASSUME IInv, GetWait
  PROVE  IInv'
  <1>1. /\ Here("wait") /\ UNCHANGED <<index, core, value, got, rest>>
        /\ Call(handler, "event_wait", Awaited) /\ pc' = "take"
    BY Zenon DEF GetWait
  <1>2. /\ pc = "wait" /\ Where(handler) = "here" /\ stack[handler] = <<>>
        /\ StackTyped
    BY Zenon, <1>1, HereFacts
  <1>3. /\ kind' = kind /\ size' = size /\ left' = left /\ Awaited' = Awaited
        /\ index' \in 1 .. size + 1 /\ UNCHANGED <<kind, size, core, value, rest>>
    BY Zenon, <1>1 DEF rest, Awaited, IInv, Typed
  <1>4. kind = "list" => index <= size
    BY Zenon, <1>2 DEF IInv, HandlerInv
  <1>5. Awaited \in Events /\ Awaited \in Cores
    BY Zenon, <1>4, AwaitedEvent
  <1>6. Moves(handler, "event_wait", Awaited, <<>>)
    BY Zenon, Members, <1>1, <1>2, <1>5, CallForm DEF WaitAts
  <1>7. HandlerInv'
    BY <1>1, <1>2, <1>3, <1>6 DEF HandlerInv, IInv, Moves, Results
  <1>8. \A c \in Cores : Chained(c) => Chained(c)'
    BY Zenon, <1>1, <1>2, <1>3 DEF Chained
  <1>9. \A c \in Cores : core[c] \in {"chained", "called"} => Chained(c)'
    BY Zenon, <1>8 DEF IInv, CoreInv
  <1>10. \A c \in Events : core[c] = "chained" /\ (kind = "list" \/ c = result) =>
           pc' \in {"wait", "take"} /\ c = Awaited'
    BY Zenon, <1>1, <1>3 DEF IInv, CoreInv
  <1>11. \A g \in Fibers : Where(g) \in {"receive", "event_set"} =>
           pc' \in {"wait", "take"} /\ Object(g) = Awaited'
    BY Zenon, <1>1, <1>3 DEF IInv, FrameInv
  <1>12. /\ StartInv' /\ "event_wait" \in WaitAts \cup {"here"}
         /\ pc' \notin {"start", "when_all"}
    BY Zenon, <1>1 DEF StartInv, WaitAts
  <1> QED
    BY Zenon, <1>1, <1>3, <1>6, <1>7, <1>9, <1>10, <1>11, <1>12, HandlerStep

\* WhenAll has counted all fibers: they have run.
LEMMA AllHaveRun ==
  ASSUME IInv, kind = "batch", left = 0
  PROVE  ran = 1 .. size
  <1>1. IsFiniteSet(Pending) /\ Cardinality(Pending) = 0
    BY Zenon, PendingFinite DEF IInv, LeftInv
  <1>2. Pending = {}
    BY Zenon, <1>1, FS_EmptySet
  <1>3. ASSUME NEW i \in 1 .. size PROVE i \in ran
    <2>1. core[i] = "called" /\ i \in Tasks
      BY <1>2, TaskAssumption DEF Pending, IInv, Typed, Tasks
    <2> QED
      BY Zenon, <2>1 DEF IInv, CoreInv
  <1> QED
    BY Zenon, <1>3 DEF IInv, Typed

\* What BlockingGet finds in the receiver when it returns.
LEMMA Taken ==
  ASSUME IInv, Here("take")
  PROVE  /\ Awaited \in Events /\ persistent_awakened[Awaited]
         /\ kind = "list" =>
              /\ index \in 1 .. size /\ index \in ran /\ index \in Tasks
              /\ receiver[index] = index
              /\ got \in Seq(Tasks) /\ Len(got) = index - 1
         /\ kind = "batch" => ran = 1 .. size /\ receiver[result] = Results
  <1>1. pc = "take" /\ Where(handler) = "here"
    BY Zenon, HereFacts
  <1>2. kind = "list" => index <= size
    BY Zenon, <1>1 DEF IInv, HandlerInv
  <1>3. Awaited \in Events /\ persistent_awakened[Awaited]
    BY Zenon, <1>1, <1>2, AwaitedEvent DEF IInv, HandlerInv
  <1>4. core[Awaited] = "called" /\ receiver[Awaited] = value[Awaited]
    BY Zenon, <1>3 DEF IInv, EventInv
  <1>5. CASE kind = "list"
    <2>1. Awaited = index /\ index \in 1 .. size /\ index \in Tasks
      BY <1>2, <1>5, TaskAssumption DEF Awaited, IInv, Typed, Tasks
    <2>2. index \in ran /\ value[index] = index
      BY Zenon, <1>4, <2>1 DEF IInv, CoreInv
    <2>3. got \in Seq(Tasks) /\ Len(got) = index - 1
      BY <1>1, <1>5 DEF IInv, HandlerInv
    <2> QED
      BY <1>3, <1>4, <1>5, <2>1, <2>2, <2>3
  <1>6. CASE kind = "batch"
    <2>1. Awaited = result
      BY <1>6 DEF Awaited
    <2>2. core[all] = "called" /\ value[result] = Results
      BY Zenon, <1>4, <2>1 DEF IInv, CoreInv
    <2>3. left = 0
      BY Zenon, <2>2 DEF IInv, CoreInv
    <2> QED
      BY <1>3, <1>4, <1>6, <2>1, <2>2, <2>3, AllHaveRun
  <1> QED
    BY Zenon, <1>5, <1>6 DEF IInv, Typed

\* BlockingGet returns.
LEMMA GetTakeIInv ==
  ASSUME IInv, GetTake
  PROVE  IInv'
  <1>1. Here("take") /\ UNCHANGED <<core, value, stack, rest>>
    BY Zenon DEF GetTake
  <1>2. /\ pc = "take" /\ Where(handler) = "here" /\ stack[handler] = <<>>
        /\ StackTyped /\ \A g \in Fibers : Where(g) # "ready"
        /\ Moves(handler, "here", Null, <<>>)
    BY Zenon, <1>1, HereFacts, StayForm
  <1>3. /\ kind' = kind /\ size' = size /\ left' = left
        /\ UNCHANGED <<kind, size, core, value, rest>>
    BY Zenon, <1>1 DEF rest
  <1>4. Awaited \in Events /\ persistent_awakened[Awaited] /\ core[Awaited] = "called"
    BY Zenon, <1>1, Taken DEF IInv, EventInv
  <1>5. \A g \in Fibers : Where(g) \notin {"receive", "event_set"}
    BY Zenon, <1>4 DEF IInv, FrameInv
  <1>6. \A c \in Events : ~(core[c] = "chained" /\ (kind = "list" \/ c = result))
    <2>1. core[Awaited] # "chained"
      BY <1>4
    <2> QED
      BY Zenon, <2>1 DEF IInv, CoreInv
  <1>7. Where(handler)' = "here"
    BY Zenon, <1>2 DEF Moves
  <1>8. CASE /\ kind = "list" /\ got' = Append(got, receiver[index])
             /\ index' = index + 1 /\ pc' = "get"
    <2>1. /\ index \in 1 .. size /\ index \in Tasks /\ receiver[index] = index
          /\ got \in Seq(Tasks) /\ Len(got) = index - 1
      BY Zenon, <1>1, <1>8, Taken
    <2>2. index' \in 1 .. size + 1
      BY <1>8, <2>1 DEF IInv, Typed
    <2>3. got' \in Seq(Tasks) /\ Len(got') = index' - 1
      BY <1>8, <2>1
    <2>4. HandlerInv'
      BY Zenon, <1>2, <1>3, <1>7, <1>8, <2>3 DEF HandlerInv, IInv
    <2>5. ASSUME NEW c \in Cores, core[c] \in {"chained", "called"} PROVE Chained(c)'
      <3>1. Chained(c)
        BY Zenon, <2>5 DEF IInv, CoreInv
      <3>2. c \in Tasks => (c < index \/ c = index => c < index + 1)
        BY <2>1 DEF Tasks
      <3> QED
        BY Zenon, <1>2, <1>3, <1>8, <3>1, <3>2, Members DEF Chained
    <2>6. StartInv' /\ pc' \notin {"start", "when_all"}
      BY Zenon, <1>8 DEF StartInv
    <2> QED
      BY Zenon, <1>1, <1>2, <1>3, <1>5, <1>6, <2>2, <2>4, <2>5, <2>6, HandlerStep
  <1>9. CASE /\ kind = "batch" /\ got' = receiver[result] /\ pc' = "done"
             /\ index' = index
    <2>1. receiver[result] = Results /\ Results' = Results
      BY Zenon, <1>1, <1>3, <1>9, Taken DEF Results
    <2>2. index' \in 1 .. size + 1 /\ index = size + 1
      BY Zenon, <1>2, <1>9 DEF IInv, Typed, HandlerInv
    <2>3. HandlerInv'
      BY Zenon, <1>3, <1>7, <1>9, <2>1, <2>2 DEF HandlerInv
    <2>4. \A c \in Cores : Chained(c) => Chained(c)'
      BY Zenon, <1>2, <1>3, <1>9 DEF Chained
    <2>5. \A c \in Cores : core[c] \in {"chained", "called"} => Chained(c)'
      BY Zenon, <2>4 DEF IInv, CoreInv
    <2>6. StartInv' /\ pc' \notin {"start", "when_all"}
      BY Zenon, <1>9 DEF StartInv
    <2> QED
      BY Zenon, <1>1, <1>2, <1>3, <1>5, <1>6, <2>2, <2>3, <2>5, <2>6, HandlerStep
  <1> QED
    BY Zenon, <1>8, <1>9 DEF GetTake

(***************************************************************************)
(* The theorems.                                                           *)
(***************************************************************************)
LEMMA InitIInv == Init => IInv
  <1> SUFFICES ASSUME Init PROVE IInv
    BY Zenon
  <1>1. size \in 0 .. MaxTasks /\ kind \in {"list", "batch"}
    BY TaskAssumption DEF Init
  <1>2. /\ pc = "start" /\ index = 1 /\ left = size /\ got = <<>> /\ ran = {}
        /\ values = [i \in 1 .. size |-> Null]
        /\ core = [c \in Cores |-> "waiting"] /\ value = [c \in Cores |-> Null]
        /\ receiver = [e \in Events |-> Null]
        /\ stack = [f \in Fibers |-> <<>>] /\ state = [f \in Fibers |-> "Running"]
        /\ waiters = [w \in Waitables |-> <<>>]
        /\ persistent_awakened = [e \in Events |-> FALSE]
        /\ scheduler_lock = [f \in Fibers |-> FALSE]
    BY Zenon DEF Init, SyncInit
  <1>3. \A f \in Fibers : Where(f) = "here"
    BY Zenon, <1>2 DEF Where
  <1>4. Typed
    <2>1. SyncTypeOK
      BY DEF Init, SyncInit, SyncTypeOK
    <2>2. StackTyped
      BY Zenon, <1>2 DEF StackTyped
    <2>3. index \in 1 .. size + 1 /\ left \in 0 .. size
      BY <1>1, <1>2, TaskAssumption
    <2> QED
      BY Zenon, <1>1, <1>2, <2>1, <2>2, <2>3 DEF Typed
  <1>5. HandlerInv
    BY <1>1, <1>2, <1>3, Members DEF HandlerInv
  <1>6. \A f \in Fibers : FrameInv(f)
    BY Zenon, <1>3 DEF FrameInv, WaitAts
  <1>7. OneProducer
    BY Zenon, <1>3 DEF OneProducer, ProducerAts
  <1>8. Scheduled
    BY Zenon, <1>2, <1>3 DEF Scheduled
  <1>9. \A c \in Cores : core[c] = "waiting"
    BY Zenon, <1>2
  <1>10. CoreInv
    BY Zenon, <1>9, Members DEF CoreInv
  <1>11. EventInv
    <2>1. /\ \A e \in Events : /\ ~persistent_awakened[e] /\ receiver[e] = Null
                               /\ waiters[e] = <<>>
          /\ state[handler] = "Running"
      BY Zenon, <1>2, Members
    <2> QED
      BY Zenon, <2>1 DEF EventInv
  <1>12. StartInv
    BY Zenon, <1>2, <1>3, <1>9, Members DEF StartInv
  <1>13. LeftInv
    <2>1. \A i \in 1 .. size : i \in Cores
      BY <1>1, TaskAssumption DEF Cores
    <2>2. Pending = 1 .. size
      BY <1>9, <2>1 DEF Pending
    <2>3. Cardinality(1 .. size) = size
      BY <1>1, TaskAssumption, FS_Interval
    <2> QED
      BY Zenon, <1>2, <2>2, <2>3 DEF LeftInv
  <1> QED
    BY Zenon, <1>4, <1>5, <1>6, <1>7, <1>8, <1>10, <1>11, <1>12, <1>13 DEF IInv

LEMMA HandlerIInv ==
  ASSUME IInv, Handler
  PROVE  IInv'
  <1>1. index <= size \/ index > size
    BY TaskAssumption DEF IInv, Typed
  <1> QED
    BY Zenon, <1>1, StartOneIInv, StartedIInv, WhenAllOneIInv, WhenAllEndIInv,
       WhenAllThenIInv, GetThenIInv, GetWaitIInv, GetTakeIInv DEF Handler

LEMMA NextIInv ==
  ASSUME IInv, [Next]_vars
  PROVE  IInv'
  <1>1. ASSUME NEW f \in Fibers, Step(f) PROVE IInv'
    <2>1. CASE \/ SetBoxed(f) \/ ChainAction(f) \/ StoreValue(f) \/ CountDown(f)
               \/ Receive(f) \/ RunTask(f)
      BY Zenon, <2>1, SetBoxedIInv, ChainActionIInv, StoreValueIInv, CountDownIInv,
         ReceiveIInv, RunTaskIInv
    <2>2. CASE (EventStep(f) \/ SchedulerStep(f)) /\ UNCHANGED futureVars
      BY Zenon, <2>2, EventWaitIInv, EventSetIInv, HaltIInv, ReadyFiberIInv, ResumeIInv
         DEF EventStep, SchedulerStep
    <2>3. CASE Handler
      BY Zenon, <2>3, HandlerIInv
    <2> QED
      BY Zenon, <1>1, <2>1, <2>2, <2>3 DEF Step
  <1>2. CASE UNCHANGED vars
    <2>1. /\ UNCHANGED <<kind, size, pc, index, core, value, ran, values, left,
                         receiver, got, stack>>
          /\ UNCHANGED <<count, slow_path_lock, waiters, persistent_awakened, state,
                         scheduler_lock>>
      BY Zenon, <1>2 DEF vars, futureVars, syncVars, objectVars, schedulerVars
    <2>2. \A f \in Fibers :
            Where(f)' = Where(f) /\ Object(f)' = Object(f) /\ Woken(f)' = Woken(f)
      BY Zenon, <2>1 DEF Where, Object, Woken
    <2>3. Awaited' = Awaited /\ CoreInv'
      BY Zenon, <2>1, CoresStay
    <2>4. Typed' /\ HandlerInv'
      BY Zenon, <2>1, <2>2, <2>3, Members
         DEF IInv, Typed, SyncTypeOK, StackTyped, HandlerInv, Results
    <2>5. ASSUME NEW f \in Fibers PROVE FrameInv(f)'
      <3>1. FrameInv(f)
        BY Zenon DEF IInv
      <3> QED
        BY Zenon, <2>1, <2>2, <2>3, <3>1, Members DEF FrameInv
    <2>6. OneProducer'
      BY Zenon, <2>2, ProducersStay
    <2>7. Scheduled' /\ EventInv' /\ StartInv'
      BY Zenon, <2>1, <2>2, Members DEF IInv, Scheduled, EventInv, StartInv
    <2>8. \A g \in Fibers, i \in 1 .. size : Busy(g, i)' <=> Busy(g, i)
      BY Zenon, <2>2 DEF Busy
    <2>9. LeftInv'
      BY Zenon, <2>1, <2>8, LeftStays
    <2> QED
      BY Zenon, <2>3, <2>4, <2>5, <2>6, <2>7, <2>9 DEF IInv
  <1> QED
    BY Zenon, <1>1, <1>2 DEF Next

\* The inductive invariant: one fiber at a time works on a core, a core has a
\* continuation only from the handler and a value once it is satisfied, an event
\* is set once and after its receiver is filled, and WhenAll's count is the number
\* of the futures it has not counted.
THEOREM Invariant == Spec => []IInv
  BY InitIInv, NextIInv, PTL DEF Spec

\* What BlockingGet returns are results of the handler's fibers, and the cores and
\* WhenAll's context keep their types.
THEOREM TypeCorrect == Spec => []TypeOK
  <1>1. IInv => TypeOK
    <2> SUFFICES ASSUME IInv PROVE TypeOK
      BY Zenon
    <2>1. /\ size \in Nat /\ size <= MaxTasks /\ MaxTasks \in Nat
          /\ kind \in {"list", "batch"}
      BY TaskAssumption DEF IInv, Typed
    <2>2. values \in Seq(1 .. MaxTasks \cup {Null})
      BY <2>1 DEF IInv, Typed, Tasks
    <2>3. got \in Seq(1 .. MaxTasks)
      <3>1. Results \in Seq(1 .. MaxTasks) /\ <<>> \in Seq(1 .. MaxTasks)
        BY <2>1 DEF Results
      <3> QED
        BY Zenon, <2>1, <3>1 DEF IInv, HandlerInv, Tasks
    <2> QED
      BY Zenon, <2>2, <2>3 DEF IInv, Typed, HandlerInv, TypeOK
  <1> QED
    BY <1>1, Invariant, PTL

\* The process never aborts in these calls: a core is satisfied once and given one
\* continuation, a receiver is filled once, and only a sleeping fiber is made ready.
THEOREM ChecksNeverFail == Spec => []ChecksHold
  <1>1. IInv => ChecksHold
    <2> SUFFICES ASSUME IInv PROVE ChecksHold
      BY Zenon
    <2>1. StackTyped
      BY Zenon DEF IInv, Typed
    <2>2. ASSUME NEW f \in Fibers, At(f, "ready"), CanReady(Head(Head(stack[f]).woken))
          PROVE  state[Head(Head(stack[f]).woken)] = "Waiting"
      <3>1. Where(f) = "ready" /\ Head(stack[f]).woken = Woken(f) /\ FrameInv(f)
        BY Zenon, <2>1, <2>2, AtPlace DEF IInv
      <3>2. /\ Woken(f) = <<handler>> /\ Where(handler) \in {"halt", "asleep"}
            /\ state[handler] # "Ready"
        BY Zenon, <3>1 DEF FrameInv
      <3>3. Head(Head(stack[f]).woken) = handler
        BY <3>1, <3>2
      <3>4. Where(handler) = "asleep"
        BY Zenon, <2>2, <3>2, <3>3, Members DEF CanReady, IInv, Scheduled
      <3>5. state[handler] \in {"Running", "Waiting", "Ready"}
        BY Zenon, Members DEF IInv, Typed, SyncTypeOK
      <3>6. state[handler] # "Running"
        BY Zenon, <3>4, Members DEF IInv, Scheduled
      <3> QED
        BY <3>2, <3>3, <3>5, <3>6
    <2>3. ASSUME NEW f \in Fibers
          PROVE  /\ At(f, "satisfy") => core[On(f)] \in {"waiting", "chained"}
                 /\ At(f, "chain") => core[On(f)] \in {"waiting", "satisfied"}
                 /\ At(f, "receive") => receiver[On(f)] = Null
      <3>1. FrameInv(f)
        BY Zenon DEF IInv
      <3>2. \A at : At(f, at) => Where(f) = at /\ On(f) = Object(f)
        BY Zenon, <2>1, AtPlace
      <3> QED
        BY Zenon, <3>1, <3>2 DEF FrameInv
    <2> QED
      BY Zenon, <2>2, <2>3 DEF ChecksHold, WakesSleepers
  <1> QED
    BY <1>1, Invariant, PTL

\* The event and the receiver on the handler's stack are never touched after
\* BlockingGet has returned.
THEOREM ReceiverStaysAlive == Spec => []ReceiverAlive
  <1>1. IInv => ReceiverAlive
    <2> SUFFICES ASSUME IInv, NEW f \in Fibers, At(f, "receive") \/ At(f, "event_set")
                 PROVE  pc \in {"wait", "take"} /\ Awaited = On(f)
      BY Zenon DEF ReceiverAlive
    <2>1. Where(f) \in {"receive", "event_set"} /\ On(f) = Object(f) /\ FrameInv(f)
      BY Zenon, AtPlace DEF IInv, Typed
    <2> QED
      BY Zenon, <2>1 DEF FrameInv
  <1> QED
    BY <1>1, Invariant, PTL

\* What a handler gets from Async, WhenAll and BlockingGet is what KvServer assumes:
\* the result of a fiber that has run, or all results in order once all have run.
THEOREM FuturesForkAndJoin == Spec => ImplementsForkJoin
  <1>1. Init => Abstract!Init
    BY Zenon DEF Init, Abstract!Init
  <1>2. IInv /\ [Next]_vars => [Abstract!Next]_<<kind, size, ran, got>>
    <2> SUFFICES ASSUME IInv, [Next]_vars
                 PROVE  Abstract!Next \/ UNCHANGED <<kind, size, ran, got>>
      BY Zenon
    <2>1. ASSUME NEW f \in Fibers, RunTask(f) PROVE Abstract!Next
      <3>1. Where(f) = "run" /\ FrameInv(f)
        BY Zenon, <2>1, AtPlace DEF RunTask, IInv, Typed
      <3>2. f \in 1 .. size /\ f \notin ran
        BY <3>1 DEF FrameInv
      <3>3. Abstract!Run(f)
        BY Zenon, <2>1, <3>2 DEF RunTask, Abstract!Run
      <3> QED
        BY Zenon, <3>2, <3>3 DEF Abstract!Next
    <2>2. ASSUME GetTake PROVE Abstract!Next
      <3>1. Here("take") /\ UNCHANGED <<kind, size, ran>>
        BY Zenon, <2>2 DEF GetTake, rest
      <3>2. CASE kind = "list" /\ got' = Append(got, receiver[index])
        <4>1. index \in ran /\ receiver[index] = index /\ Len(got) = index - 1
              /\ index \in 1 .. size
          BY Zenon, <3>1, <3>2, Taken
        <4>2. Len(got) + 1 = index
          BY <4>1 DEF IInv, Typed
        <4> QED
          BY Zenon, <3>1, <3>2, <4>1, <4>2 DEF Abstract!GetOne, Abstract!Next
      <3>3. CASE kind = "batch" /\ got' = receiver[result]
        BY Zenon, <3>1, <3>3, Taken DEF Results, Abstract!GetAll, Abstract!Next
      <3> QED
        BY Zenon, <2>2, <3>2, <3>3 DEF GetTake
    <2>3. ASSUME NEW f \in Fibers, Step(f), ~RunTask(f), ~GetTake
          PROVE  UNCHANGED <<kind, size, ran, got>>
      BY Zenon, <2>3
         DEF Step, SetBoxed, ChainAction, StoreValue, CountDown, Receive, futureVars,
             Handler, StartTasks, WhenAll, WhenAllThen, GetThen, GetWait, rest
    <2>4. CASE UNCHANGED vars
      BY Zenon, <2>4 DEF vars, futureVars
    <2> QED
      BY Zenon, <2>1, <2>2, <2>3, <2>4 DEF Next
  <1> QED
    BY <1>1, <1>2, Invariant, PTL
       DEF Spec, ImplementsForkJoin, Abstract!Spec, Abstract!vars
=============================================================================
