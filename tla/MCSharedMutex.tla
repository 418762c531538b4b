---------------------------- MODULE MCSharedMutex ----------------------------
(* Small instances of SharedMutex.                                          *)
EXTENDS SharedMutex

CONSTANTS r1, r2, w1, w2

OneReader == {r1}
TwoReaders == {r1, r2}
OneWriter == {w1}
TwoWriters == {w1, w2}
TheFibers == Readers \cup Writers

TheMutexes == {"writer_lock", "wakeup_lock"}
TheConditions == {"wakeup_cv"}
NoEvents == {}
=============================================================================
