---------------------------- MODULE MCTunnelApi -----------------------------
(***************************************************************************)
(* Small instances of TunnelApi for TLC.                                   *)
(***************************************************************************)
EXTENDS TunnelApi, TLC

(* Launches, users and workers are interchangeable.                        *)
Symmetric ==
    Permutations(Launches) \cup Permutations(SupportUsers)
        \cup Permutations(Workers)
=============================================================================
