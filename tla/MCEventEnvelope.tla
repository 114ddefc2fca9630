-------------------------- MODULE MCEventEnvelope --------------------------
(***************************************************************************)
(* Doubles scaled down: integers are exact up to 32, and beyond it the     *)
(* doubles are the multiples of 8.  JSON.stringify prints the multiple of  *)
(* ten that reads back as the double, if there is one.  The samples are    *)
(* exact (5, 32), a double (40, 56), rounded (45, 47), and rounded but     *)
(* printed as they were (50).                                              *)
(***************************************************************************)
EXTENDS EventEnvelope

SmallIntegers == 0..64
Safe          == 32

Nearest == [n \in SmallIntegers |->
              IF n <= Safe THEN n
              ELSE CHOOSE d \in {8 * k : k \in 4..8} :
                     \/ n - d \in -3..3
                     \/ n - d \in {-4, 4} /\ d % 16 = 0]

Printed == [d \in SmallIntegers |->
              IF d > Safe /\ \E n \in SmallIntegers : n % 10 = 0 /\ Nearest[n] = d
              THEN CHOOSE n \in SmallIntegers : n % 10 = 0 /\ Nearest[n] = d
              ELSE d]
=============================================================================
