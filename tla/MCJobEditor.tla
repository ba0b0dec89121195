------------------------------ MODULE MCJobEditor ------------------------------
(* The job editor on a small instance.                                        *)
EXTENDS JobEditor, TLC

EditorSymmetry == Permutations(Names) \cup Permutations(Sources)
=============================================================================
