----------------------------- MODULE Dimensions -----------------------------
(***************************************************************************)
(* The nodes, the number of variables and the labels of a diagram.        *)
(***************************************************************************)
EXTENDS Integers

CONSTANTS Node,     \* the Node objects
          Null,     \* nullptr
          Size,     \* MDD::size_, the number of variables
          Label     \* the values of the variables

ASSUME NullIsNoNode == Null \notin Node
ASSUME SizeIsNat == Size \in Nat
=============================================================================
