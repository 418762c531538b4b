------------------------------- MODULE RwLock -------------------------------
(***************************************************************************)
(* What a readers-writer lock promises, as HashKv uses it: a fiber gets    *)
(* the lock shared when no fiber has it exclusively and exclusively when   *)
(* no other fiber has it at all, gets nothing it has not asked for, and a  *)
(* try either gets the lock or leaves it alone.                            *)
(***************************************************************************)
CONSTANT Fibers

VARIABLE mode  \* "none", "want_shared", "want_unique", "shared" or "unique"

Init == mode = [f \in Fibers |-> "none"]

Free(modes) == \A f \in Fibers : mode[f] \notin modes

Become(f, m) == mode' = [mode EXCEPT ![f] = m]

AskShared(f) == mode[f] = "none" /\ Become(f, "want_shared")

AskUnique(f) == mode[f] = "none" /\ Become(f, "want_unique")

\* By a call that waits, or by a try.
GetShared(f) ==
  /\ mode[f] \in {"none", "want_shared"}
  /\ Free({"unique"})
  /\ Become(f, "shared")

GetUnique(f) ==
  /\ mode[f] \in {"none", "want_unique"}
  /\ Free({"shared", "unique"})
  /\ Become(f, "unique")

Release(f) == mode[f] \in {"shared", "unique"} /\ Become(f, "none")

Next ==
  \E f \in Fibers :
    \/ AskShared(f) \/ AskUnique(f)
    \/ GetShared(f) \/ GetUnique(f)
    \/ Release(f)

Spec == Init /\ [][Next]_mode
=============================================================================
