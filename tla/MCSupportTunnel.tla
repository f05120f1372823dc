--------------------------- MODULE MCSupportTunnel --------------------------
(***************************************************************************)
(* Small instances of SupportTunnel for TLC.                               *)
(***************************************************************************)
EXTENDS SupportTunnel, TLC

(* Launches, users and workers are interchangeable for the properties      *)
(* checked with symmetry, none of which is a liveness property.            *)
Symmetric ==
    Permutations(Launches) \cup Permutations(SupportUsers)
        \cup Permutations(Workers)

(* A bound of the run support: a fault or a loss at any step, not both.    *)
OneDisturbance == faults + lost <= 1
=============================================================================
