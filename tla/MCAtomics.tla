----------------------------- MODULE MCAtomics -----------------------------
(***************************************************************************)
(* Two harts and two pages of two granules, mapped crossed, or with the    *)
(* second page on a frame the bus does not answer for.                     *)
(***************************************************************************)
EXTENDS Atomics

Crossed == [p \in 0 .. 1 |-> 1 - p]
Hole == [p \in 0 .. 1 |-> 2 * p]

SmallSpaces == {Crossed, Hole}
=============================================================================
