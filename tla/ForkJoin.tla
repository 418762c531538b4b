------------------------------ MODULE ForkJoin ------------------------------
(***************************************************************************)
(* What Async, WhenAll and BlockingGet promise a handler, as KvServer uses *)
(* them: the fibers it starts run in any order; BlockingGet on the future  *)
(* of one returns its result once it has run ("list": one future after the *)
(* other), and on WhenAll all the results, in order, once all have run.    *)
(***************************************************************************)
EXTENDS Integers, Sequences

VARIABLES
  kind,  \* "list" or "batch"
  size,  \* the number of fibers the handler starts
  ran,   \* the ones that have run
  got    \* the results the handler has been given

vars == <<kind, size, ran, got>>

Init == ran = {} /\ got = <<>>

Run(i) ==
  /\ i \notin ran
  /\ ran' = ran \cup {i}
  /\ UNCHANGED <<kind, size, got>>

GetOne ==
  /\ kind = "list"
  /\ Len(got) + 1 \in ran
  /\ got' = Append(got, Len(got) + 1)
  /\ UNCHANGED <<kind, size, ran>>

GetAll ==
  /\ kind = "batch"
  /\ ran = 1 .. size
  /\ got' = [i \in 1 .. size |-> i]
  /\ UNCHANGED <<kind, size, ran>>

Next == (\E i \in 1 .. size : Run(i)) \/ GetOne \/ GetAll

Spec == Init /\ [][Next]_vars
=============================================================================
