--------------------------- MODULE MCWebAppSession ---------------------------
(***************************************************************************)
(* WebAppSession for TLC: tabs are interchangeable, and so are users.       *)
(***************************************************************************)
EXTENDS WebAppSession, TLC

Symmetry == Permutations(Tabs) \cup Permutations(Users)
=============================================================================
