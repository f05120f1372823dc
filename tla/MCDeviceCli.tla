----------------------------- MODULE MCDeviceCli ----------------------------
(***************************************************************************)
(* Small instances of DeviceCli for TLC.                                   *)
(***************************************************************************)
EXTENDS DeviceCli, TLC

(* Launches, support users and the processes of a kind are interchangeable *)
(* for the properties checked with symmetry, none of which is a liveness   *)
(* property.                                                               *)
Symmetric ==
    Permutations(Launches) \cup Permutations(SupportUsers)
        \cup Permutations(Shells)
=============================================================================
