------------------------------- MODULE MCZset -------------------------------
(* Small instances of Zset for TLC.                                         *)
EXTENDS Zset, TLC

CONSTANTS w1, w2, z1, d1, a, b

OneWriter == {w1}
TwoWriters == {w1, w2}
OneReader == {z1}
OneRemover == {d1}
None == {}

OneMember == {a}
TwoMembers == {a, b}
\* The members are interchangeable.
Symmetry == Permutations(Members)

TwoScores == 1 .. 2
=============================================================================
