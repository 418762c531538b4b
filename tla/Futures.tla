------------------------------- MODULE Futures -------------------------------
(***************************************************************************)
(* How a handler starts fibers and waits for them: fiber::Async            *)
(* (src/flare/fiber/async.h), the shared state of a promise and its future *)
(* (src/flare/base/future/core.h), WhenAll (utils.h) and                   *)
(* fiber::BlockingGet (src/flare/fiber/future.h), as BatchQueryKeyHandler  *)
(* ("list") and BatchAddKeyHandler ("batch") use them.                     *)
(*                                                                         *)
(* A Core is satisfied by one fiber and given its continuation by another; *)
(* whoever comes second runs the continuation, on its own stack, because   *)
(* the default executor is inline.  The frames of FiberSync are used for   *)
(* these calls too.  The result of the i-th fiber is the number i.         *)
(***************************************************************************)
EXTENDS FiberSync

CONSTANTS
  MaxTasks,  \* bound on the fibers a request starts
  handler,   \* the handler's own fiber
  all,       \* the core of WhenAllPreservingErrors' promise
  result     \* the core of the future that WhenAll returns

ASSUME TaskAssumption ==
  /\ MaxTasks \in Nat
  /\ Fibers = 1 .. MaxTasks \cup {handler}
  /\ handler \notin 1 .. MaxTasks
  /\ all # result /\ {all, result} \cap (1 .. MaxTasks) = {}
  /\ Events = 1 .. MaxTasks \cup {result}

Cores == 1 .. MaxTasks \cup {all, result}

VARIABLES
  kind,      \* the handler: "list" or "batch"
  size,      \* the number of fibers it starts
  pc,        \* where the handler is
  index,     \* the variable of its loops
  core,      \* Core::state_: "waiting", "chained" (waiting, with a
             \* continuation), "satisfied" or "called" (continuation taken)
  value,     \* the value a core was satisfied with
  ran,       \* the fibers whose function has returned
  values,    \* WhenAll's Context::values
  left,      \* WhenAll's Context::left
  receiver,  \* BlockingGet's receiver for each future that is waited for
  got        \* the results BlockingGet has returned

futureVars == <<kind, size, pc, index, core, value, ran, values, left,
                receiver, got>>
vars == <<futureVars, syncVars>>

\* An empty list is refused before any future is made, an empty batch is not.
Init ==
  /\ SyncInit
  /\ kind \in {"list", "batch"}
  /\ size \in (IF kind = "list" THEN 1 ELSE 0) .. MaxTasks
  /\ pc = "start"
  /\ index = 1
  /\ core = [c \in Cores |-> "waiting"]
  /\ value = [c \in Cores |-> Null]
  /\ ran = {}
  /\ values = [i \in 1 .. size |-> Null]
  /\ left = size
  /\ receiver = [e \in Events |-> Null]
  /\ got = <<>>

-----------------------------------------------------------------------------
(* Core: the steps of any fiber.                                            *)

\* What the code chains to each core, as the frame that runs it.
Continuation(c) ==
  IF c = all THEN Frame("satisfy", result)
  ELSE IF c \in 1 .. MaxTasks /\ kind = "batch" THEN Frame("store", c)
  ELSE Frame("receive", c)

RunContinuation(f) ==
  stack' = [stack EXCEPT ![f] = <<Continuation(On(f))>> \o Tail(@)]

ValueOf(c) ==
  IF c = all THEN values ELSE IF c = result THEN value[all] ELSE c

\* Mutant: the continuation is looked for before the value is there.
SetBoxedBlind(f) ==
  /\ At(f, "satisfy")
  /\ core' = [core EXCEPT ![On(f)] = "satisfied"]
  /\ value' = [value EXCEPT ![On(f)] = ValueOf(On(f))]
  /\ Return(f)
  /\ UNCHANGED <<kind, size, pc, index, ran, values, left, receiver, got,
                 objectVars, schedulerVars>>

\* SetBoxed: takes the continuation, if there is one, under the core's lock.
SetBoxed(f) ==
  LET c == On(f)
  IN  /\ At(f, "satisfy")
      /\ value' = [value EXCEPT ![c] = ValueOf(c)]
      /\ \/ /\ core[c] = "waiting"
            /\ core' = [core EXCEPT ![c] = "satisfied"]
            /\ Return(f)
         \/ /\ core[c] = "chained"
            /\ core' = [core EXCEPT ![c] = "called"]
            /\ RunContinuation(f)
      /\ UNCHANGED <<kind, size, pc, index, ran, values, left, receiver, got,
                     objectVars, schedulerVars>>

\* ChainAction, from Then: leaves the continuation, or runs it at once.
ChainAction(f) ==
  LET c == On(f)
  IN  /\ At(f, "chain")
      /\ \/ /\ core[c] = "waiting"
            /\ core' = [core EXCEPT ![c] = "chained"]
            /\ Return(f)
         \/ /\ core[c] = "satisfied"
            /\ core' = [core EXCEPT ![c] = "called"]
            /\ RunContinuation(f)
      /\ UNCHANGED <<kind, size, pc, index, value, ran, values, left, receiver,
                     got, objectVars, schedulerVars>>

-----------------------------------------------------------------------------
(* The continuations.                                                       *)

\* WhenAll: context->values[index] = std::move(boxed).
StoreValue(f) ==
  /\ At(f, "store")
  /\ values' = [values EXCEPT ![On(f)] = value[On(f)]]
  /\ Jump(f, "count")
  /\ UNCHANGED <<kind, size, pc, index, core, value, ran, left, receiver, got,
                 objectVars, schedulerVars>>

\* Mutant: an off-by-one in the count of the futures that are left.
IsLastEarly == left <= 2

IsLast == left = 1

\* WhenAll: if (!--context->left) context->promise.SetValue(...).
CountDown(f) ==
  /\ At(f, "count")
  /\ left' = left - 1
  /\ IF IsLast THEN stack' = [stack EXCEPT ![f][1] = Frame("satisfy", all)]
               ELSE Return(f)
  /\ UNCHANGED <<kind, size, pc, index, core, value, ran, values, receiver, got,
                 objectVars, schedulerVars>>

\* Mutant: the event is set before the receiver is filled.
ReceiveLate(f) ==
  LET c == On(f)
  IN  /\ At(f, "receive")
      /\ \/ /\ ~persistent_awakened[c]
            /\ Call(f, "event_set", c)
            /\ UNCHANGED receiver
         \/ /\ persistent_awakened[c]
            /\ receiver' = [receiver EXCEPT ![c] = value[c]]
            /\ Return(f)
      /\ UNCHANGED <<kind, size, pc, index, core, value, ran, values, left, got,
                     objectVars, schedulerVars>>

\* BlockingGet: receiver.Init(std::move(boxed)); ev.Set().
Receive(f) ==
  /\ At(f, "receive")
  /\ receiver' = [receiver EXCEPT ![On(f)] = value[On(f)]]
  /\ Jump(f, "event_set")
  /\ UNCHANGED <<kind, size, pc, index, core, value, ran, values, left, got,
                 objectVars, schedulerVars>>

\* The fiber that Async has started: f's result satisfies the promise.
RunTask(f) ==
  /\ At(f, "run")
  /\ ran' = ran \cup {f}
  /\ Jump(f, "satisfy")
  /\ UNCHANGED <<kind, size, pc, index, core, value, values, left, receiver, got,
                 objectVars, schedulerVars>>

-----------------------------------------------------------------------------
(* The handlers.                                                            *)

Here(l) == pc = l /\ stack[handler] = <<>>

rest == <<kind, size, ran, values, left, receiver, objectVars, schedulerVars>>

\* The loop that calls Async.
StartTasks ==
  /\ Here("start")
  /\ \/ /\ index <= size
        /\ stack' = [stack EXCEPT ![index] = <<Frame("run", index)>>]
        /\ index' = index + 1
        /\ UNCHANGED pc
     \/ /\ index > size
        /\ index' = 1
        /\ pc' = IF kind = "list" THEN "get" ELSE "when_all"
        /\ UNCHANGED stack
  /\ UNCHANGED <<core, value, got, rest>>

\* WhenAllPreservingErrors; of no futures it is a future that has its value.
WhenAll ==
  /\ Here("when_all")
  /\ \/ /\ index <= size
        /\ Call(handler, "chain", index)
        /\ index' = index + 1
        /\ UNCHANGED <<pc, core, value>>
     \/ /\ index > size
        /\ IF size = 0 THEN /\ core' = [core EXCEPT ![all] = "satisfied"]
                            /\ value' = [value EXCEPT ![all] = <<>>]
                       ELSE UNCHANGED <<core, value>>
        /\ pc' = "then"
        /\ UNCHANGED <<index, stack>>
  /\ UNCHANGED <<got, rest>>

\* The Then of WhenAll on WhenAllPreservingErrors.
WhenAllThen ==
  /\ Here("then")
  /\ Call(handler, "chain", all)
  /\ pc' = "get"
  /\ UNCHANGED <<index, core, value, got, rest>>

\* The future that the handler waits for.
Awaited == IF kind = "list" THEN index ELSE result

\* BlockingGet: Then, ev.Wait() and the receiver's content.
GetThen ==
  /\ Here("get")
  /\ \/ /\ index <= size \/ kind = "batch"
        /\ Call(handler, "chain", Awaited)
        /\ pc' = "wait"
     \/ /\ index > size /\ kind = "list"
        /\ pc' = "done"
        /\ UNCHANGED stack
  /\ UNCHANGED <<index, core, value, got, rest>>

GetWait ==
  /\ Here("wait")
  /\ Call(handler, "event_wait", Awaited)
  /\ pc' = "take"
  /\ UNCHANGED <<index, core, value, got, rest>>

GetTake ==
  /\ Here("take")
  /\ \/ /\ kind = "list"
        /\ got' = Append(got, receiver[index])
        /\ index' = index + 1
        /\ pc' = "get"
     \/ /\ kind = "batch"
        /\ got' = receiver[result]
        /\ pc' = "done"
        /\ UNCHANGED index
  /\ UNCHANGED <<core, value, stack, rest>>

-----------------------------------------------------------------------------
Handler == StartTasks \/ WhenAll \/ WhenAllThen \/ GetThen \/ GetWait \/ GetTake

Step(f) ==
  \/ SetBoxed(f) \/ ChainAction(f)
  \/ StoreValue(f) \/ CountDown(f) \/ Receive(f) \/ RunTask(f)
  \/ (EventStep(f) \/ SchedulerStep(f)) /\ UNCHANGED futureVars
  \/ f = handler /\ Handler

Next == \E f \in Fibers : Step(f)

Spec == Init /\ [][Next]_vars

FairSpec == Spec /\ \A f \in Fibers : WF_vars(Step(f))

-----------------------------------------------------------------------------
\* Every variable has its type; what the handler is given are results, so the
\* receiver was filled before the event woke it.
TypeOK ==
  /\ SyncTypeOK
  /\ pc \in {"start", "when_all", "then", "get", "wait", "take", "done"}
  /\ index \in 1 .. size + 1
  /\ core \in [Cores -> {"waiting", "chained", "satisfied", "called"}]
  /\ ran \subseteq 1 .. size
  /\ values \in Seq(1 .. MaxTasks \cup {Null})
  /\ left \in 0 .. size
  /\ got \in Seq(1 .. MaxTasks)

\* The checks that abort the process never fail: a core is satisfied once and
\* given one continuation, a receiver is filled once, and only a fiber that
\* sleeps is made ready.
ChecksHold ==
  /\ WakesSleepers
  /\ \A f \in Fibers :
       /\ At(f, "satisfy") => core[On(f)] \in {"waiting", "chained"}
       /\ At(f, "chain") => core[On(f)] \in {"waiting", "satisfied"}
       /\ At(f, "receive") => receiver[On(f)] = Null

\* The event and the receiver of BlockingGet live on the handler's stack: no
\* other fiber touches them after BlockingGet has returned.
ReceiverAlive ==
  \A f \in Fibers :
    At(f, "receive") \/ At(f, "event_set") =>
      pc \in {"wait", "take"} /\ Awaited = On(f)

\* The handler gets all its results and every fiber it has started ends: no
\* wake-up is lost between the fiber that sets the event and the one that waits.
HandlerReturns == <>[](pc = "done" /\ \A f \in Fibers : stack[f] = <<>>)

Abstract == INSTANCE ForkJoin

\* BlockingGet returns the result of the fiber that has run, and of WhenAll the
\* results of all of them in their order: what KvServer assumes of both.
ImplementsForkJoin == Abstract!Spec
=============================================================================
