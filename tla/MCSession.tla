----------------------------- MODULE MCSession ------------------------------
(* An instance of Session for TLC: tabs are alike, and so are accounts. *)
EXTENDS Session, TLC

Alike == Permutations(Tab) \cup Permutations(User)
=============================================================================
