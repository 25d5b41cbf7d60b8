---------------------------- MODULE MCPhoneBridge ----------------------------
(***************************************************************************)
(* Small instances of PhoneBridge: which query each phone understands, and *)
(* which of its messages cannot be read.                                   *)
(***************************************************************************)
EXTENDS PhoneBridge

CONSTANTS a, b

OldPhone == [p \in Phones |-> IF p = a THEN 2 ELSE 0]
NewPhones == [p \in Phones |-> 0]

SecondOfA == {<<a, 2>>}
SecondOfB == {<<b, 2>>}
SecondAndThirdOfA == {<<a, 2>>, <<a, 3>>}
==============================================================================
