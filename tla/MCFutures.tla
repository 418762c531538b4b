------------------------------ MODULE MCFutures ------------------------------
(* Small instances of Futures.                                              *)
EXTENDS Futures

TheFibers == 1 .. MaxTasks \cup {handler}
TheEvents == 1 .. MaxTasks \cup {result}
None == {}
=============================================================================
