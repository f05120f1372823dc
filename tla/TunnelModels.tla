---------------------------- MODULE TunnelModels ----------------------------
(***************************************************************************)
(* The vocabulary of common/models.py: the states of a tunnel, which the   *)
(* API server and the device keep in tables of their own, and the unit of  *)
(* work of the ORM both of them write these tables with.                   *)
(***************************************************************************)
EXTENDS Naturals

(* TunnelState is an integer enumeration "to ensure we never move          *)
(* backwards in this process with simple greater than/less than            *)
(* comparisons".                                                           *)
pending == 10
started == 20
running == 30
connected == 40
completed == 50
timedout == 60

TunnelState == {pending, started, running, connected, completed, timedout}

(* A tunnel in one of these states is over.                                *)
Closed == {completed, timedout}

(* The states in which a device may use the tunnel server.                 *)
Usable == {started, running, connected}

-----------------------------------------------------------------------------
(* What the UPDATE of a commit leaves in a column.  SQLAlchemy writes only *)
(* the attributes whose value differs from the one the session loaded; a   *)
(* column it does not write keeps what another transaction may have put    *)
(* there since.                                                            *)
WrittenWholeRow(current, loaded, new) == new

Written(current, loaded, new) == IF new # loaded THEN new ELSE current
=============================================================================
