-------------------------- MODULE TunnelLifecycle ---------------------------
(***************************************************************************)
(* What the bookkeeping API promises of a tunnel, without rows, handlers   *)
(* or transactions.  A tunnel waits, is opened and is closed.  It may only *)
(* be opened by a request that was admitted while it was not closed, so    *)
(* after it is closed, and the requests admitted before are gone, it stays *)
(* closed; and no tunnel goes back to waiting.                             *)
(***************************************************************************)
CONSTANT Tunnels

VARIABLES
    phase,      \* where each tunnel is in its life
    admitted    \* tunnels that requests in flight may still open

vars == <<phase, admitted>>

Phases == {"unknown", "waiting", "open", "closed"}

TypeOK ==
    /\ phase \in [Tunnels -> Phases]
    /\ admitted \subseteq Tunnels

Init ==
    /\ phase = [t \in Tunnels |-> "unknown"]
    /\ admitted = {}

Request(t) ==
    /\ phase[t] = "unknown"
    /\ phase' = [phase EXCEPT ![t] = "waiting"]
    /\ UNCHANGED admitted

(* A request that would open t is let in.                                  *)
Admit(t) ==
    /\ phase[t] \in {"waiting", "open"}
    /\ admitted' = admitted \cup {t}
    /\ UNCHANGED phase

(* An admitted request takes effect; others may still be in flight.        *)
Open(t) ==
    /\ t \in admitted
    /\ phase' = [phase EXCEPT ![t] = "open"]
    /\ admitted' \in {admitted, admitted \ {t}}

(* The last admitted request is gone without effect.                       *)
Withdraw(t) ==
    /\ admitted' = admitted \ {t}
    /\ UNCHANGED phase

Close(t) ==
    /\ phase[t] # "unknown"
    /\ phase' = [phase EXCEPT ![t] = "closed"]
    /\ UNCHANGED admitted

Next ==
    \E t \in Tunnels :
        Request(t) \/ Admit(t) \/ Open(t) \/ Withdraw(t) \/ Close(t)

Spec == Init /\ [][Next]_vars
=============================================================================
