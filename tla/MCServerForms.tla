---------------------------- MODULE MCServerForms ----------------------------
(* The forms with interchangeable servers, and interchangeable hosts.        *)
EXTENDS ServerForms, TLC

FormSymmetry == Permutations(Uuids) \cup Permutations(Hosts)
=============================================================================
