-------------------------------- MODULE Random --------------------------------
(***************************************************************************)
(* The pseudo-random generator of src/cache/utils/random.h, for a modulus  *)
(* M = 2^Bits - 1 and a multiplier A (2^31 - 1 and 16807 in the code).     *)
(* Shifting right by Bits is dividing by M + 1, masking with M its rest.   *)
(***************************************************************************)
EXTENDS Integers

CONSTANTS Bits, M, A

ASSUME BitsAssumption == Bits \in Nat \ {0} /\ M = 2 ^ Bits - 1

\* M is a prime in the code and A not a multiple of it: no draw is 0.
ASSUME RandomAssumption ==
  /\ M \in Nat \ {0, 1}
  /\ A \in 1 .. M
  /\ \A s \in 1 .. M - 1 : (s * A) % M # 0

\* Mutant: bad seeds are not avoided.
SeededRaw(s) == s % (M + 1)

\* The constructor, which avoids the seeds that Next would never leave.
Seeded(s) ==
  LET masked == s % (M + 1)
  IN  IF masked \in {0, M} THEN 1 ELSE masked

\* Mutant: the overflow of the first reduction is forgotten.
NextSeedOnce(seed) == ((seed * A) \div (M + 1)) + ((seed * A) % (M + 1))

\* Next: the product modulo M, by adding its upper bits to its lower ones.
NextSeed(seed) ==
  LET product == seed * A
      reduced == ((product \div (M + 1)) + (product % (M + 1))) % (2 * (M + 1))
  IN  IF reduced > M THEN reduced - M ELSE reduced
===============================================================================
