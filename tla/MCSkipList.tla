----------------------------- MODULE MCSkipList -----------------------------
(* Small instances of SkipList for TLC.                                     *)
EXTENDS SkipList

CONSTANTS w1, i1

OneWriter == {w1}
OneReader == {i1}

MCKeys == 1 .. 2
MCBefore(a, b) == a < b
=============================================================================
