------------------------------ MODULE MCMountPanel ------------------------------
(* Partitions, mount points and folder names that are told apart only by what *)
(* happens to them.                                                            *)
EXTENDS MountPanel

PanelSymmetry == Permutations(Parts) \cup Permutations(Dirs) \cup Permutations(Names)
=============================================================================
