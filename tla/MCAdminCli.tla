----------------------------- MODULE MCAdminCli -----------------------------
(***************************************************************************)
(* Small instances of AdminCli for TLC.                                    *)
(***************************************************************************)
EXTENDS AdminCli, TLC

(* Launches, workers and the processes of a kind are interchangeable for   *)
(* the properties checked with symmetry, none of which is a liveness       *)
(* property.                                                               *)
Symmetric ==
    Permutations(Launches) \cup Permutations(Workers) \cup Permutations(Admins)
=============================================================================
