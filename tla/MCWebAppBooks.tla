---------------------------- MODULE MCWebAppBooks ----------------------------
(***************************************************************************)
(* WebAppBooks for TLC: the ads of a publisher are interchangeable.         *)
(***************************************************************************)
EXTENDS WebAppBooks, TLC

Symmetry == Permutations(Books)
=============================================================================
