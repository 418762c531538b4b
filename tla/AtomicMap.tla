------------------------------ MODULE AtomicMap ------------------------------
(***************************************************************************)
(* What HashKv promises its callers: a map on which every call takes       *)
(* effect in one indivisible step between its invocation and its return.   *)
(* Get yields the value stored under the key or Null, GetOrCreate yields   *)
(* the value that is stored once the call is over, Add and Del yield       *)
(* nothing a caller can use (the code returns true from both, always).     *)
(***************************************************************************)

CONSTANTS
  Fibers,   \* the fibers that call the map
  Keys,
  Values,
  Ops,      \* the operations the owner of the map calls on each key
  Null      \* no value

VARIABLES
  dict,     \* the map: the value stored under each key, or Null
  call,     \* the call each fiber has made last
  phase,    \* "idle", "called" (no effect yet) or "done" (effect, no return)
  res       \* the result of each fiber's call

vars == <<dict, call, phase, res>>

Calls ==
  {c \in [op : {"Get", "Del"}, key : Keys, value : {Null}]
           \cup [op : {"Add", "GetOrCreate"}, key : Keys, value : Values] :
     c.op \in Ops[c.key]}

Init ==
  /\ dict = [k \in Keys |-> Null]
  /\ call = [f \in Fibers |-> Null]
  /\ phase = [f \in Fibers |-> "idle"]
  /\ res = [f \in Fibers |-> Null]

Invoke(f) ==
  /\ phase[f] = "idle"
  /\ \E c \in Calls : call' = [call EXCEPT ![f] = c]
  /\ phase' = [phase EXCEPT ![f] = "called"]
  /\ res' = [res EXCEPT ![f] = Null]
  /\ UNCHANGED dict

Get(f) ==
  /\ call[f].op = "Get"
  /\ res' = [res EXCEPT ![f] = dict[call[f].key]]
  /\ UNCHANGED dict

GetOrCreate(f) ==
  LET k == call[f].key
  IN  /\ call[f].op = "GetOrCreate"
      /\ dict' = [dict EXCEPT ![k] = IF @ = Null THEN call[f].value ELSE @]
      /\ res' = [res EXCEPT ![f] = dict'[k]]

Add(f) ==
  /\ call[f].op = "Add"
  /\ dict' = [dict EXCEPT ![call[f].key] = call[f].value]
  /\ UNCHANGED res

Del(f) ==
  /\ call[f].op = "Del"
  /\ dict' = [dict EXCEPT ![call[f].key] = Null]
  /\ UNCHANGED res

Apply(f) ==
  /\ phase[f] = "called"
  /\ Get(f) \/ GetOrCreate(f) \/ Add(f) \/ Del(f)
  /\ phase' = [phase EXCEPT ![f] = "done"]
  /\ UNCHANGED call

Return(f) ==
  /\ phase[f] = "done"
  /\ phase' = [phase EXCEPT ![f] = "idle"]
  /\ UNCHANGED <<dict, call, res>>

Next == \E f \in Fibers : Invoke(f) \/ Apply(f) \/ Return(f)

Spec == Init /\ [][Next]_vars
=============================================================================
