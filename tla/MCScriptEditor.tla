--------------------------- MODULE MCScriptEditor ---------------------------
(* Two files, of which one at most may be missing, and room for both. *)
EXTENDS ScriptEditor, TLC
MCPaths == {1, 2}
MCCandidates == {1, 2}
MCVersions == [p \in MCPaths |-> IF p = 1 THEN 2 ELSE 1]
SaveSymmetry == Permutations(Saves)
=============================================================================
