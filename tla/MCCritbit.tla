------------------------------ MODULE MCCritbit ------------------------------
(***************************************************************************)
(* A small instance of Critbit: names of one or two bytes of two bits, one *)
(* of them a prefix of another, others that differ in the first or in the  *)
(* second bit.                                                             *)
(***************************************************************************)
EXTENDS Critbit, TLC

CONSTANTS e1, e2, e3, e4

Names == {<<1>>, <<1, 2>>, <<2>>, <<3, 1>>}
NameOf == (e1 :> <<1>>) @@ (e2 :> <<1, 2>>) @@ (e3 :> <<2>>) @@ (e4 :> <<3, 1>>)

NodeSymmetry == Permutations(Node)
=============================================================================
