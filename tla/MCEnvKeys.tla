----------------------------- MODULE MCEnvKeys ------------------------------
(* An instance of EnvKeys for TLC: savers, rotations and readers of the    *)
(* same kind are alike, and so are scripts.                                *)
EXTENDS EnvKeys, TLC

Alike ==
    Permutations(Script) \cup Permutations(Saver) \cup
    Permutations(Rotation) \cup Permutations(Reader)
=============================================================================
