----------------------------- MODULE TunnelApi ------------------------------
(***************************************************************************)
(* The bookkeeping API (src/api): one table of tunnels, and the handlers   *)
(* that change it.                                                         *)
(*                                                                         *)
(* FastAPI runs the handlers in a pool of threads, and Cloud Run may run   *)
(* several instances of the service on the same database.  A handler that  *)
(* changes a tunnel is a transaction in two steps: get_tunnel() SELECTs    *)
(* the row without locking it, the handler checks what it loaded and       *)
(* assigns attributes; commit() then UPDATEs the attributes that differ    *)
(* from the loaded ones.  Any other handler may run between the two steps. *)
(* Every client retries a call that timed out or failed, so each request   *)
(* may also be served more than once.                                      *)
(***************************************************************************)
EXTENDS TunnelModels

CONSTANTS
    Tunnels,        \* tunnel ids
    Launches,       \* launches of a tunnel server, each with fresh keys
    SupportUsers,   \* names of support users on devices
    Workers,        \* threads that serve requests
    None            \* the NULL of a column

ASSUME NoneIsNull == None \notin Launches \cup SupportUsers

VARIABLES
    table,          \* the rows of the table, by tunnel id
    expired,        \* tunnels past their expiry time
    txn             \* open transactions, by the worker that runs them

vars == <<table, expired, txn>>

(* A row.  Of a launch the model keeps its identity: in ts_wg_public_key,  *)
(* the server's key, it stands for the columns that say how to reach the   *)
(* server; in support_secret_box, for the box sealed with that key.        *)
Row == [state : TunnelState,
        support_user : SupportUsers \cup {None},
        ts_wg_public_key : Launches \cup {None},
        support_secret_box : Launches \cup {None},
        stopped_at : BOOLEAN]

Transaction == [tunnel_id : Tunnels, loaded : Row, new : Row]

TypeOK ==
    /\ DOMAIN table \subseteq Tunnels
    /\ table \in [DOMAIN table -> Row]
    /\ expired \subseteq DOMAIN table
    /\ DOMAIN txn \subseteq Workers
    /\ txn \in [DOMAIN txn -> Transaction]
    /\ \A w \in DOMAIN txn : txn[w].tunnel_id \in DOMAIN table

-----------------------------------------------------------------------------
NewRowWithoutDefault ==
    [state |-> None, support_user |-> None, ts_wg_public_key |-> None,
     support_secret_box |-> None, stopped_at |-> FALSE]

(* The row request_tunnel() inserts: the defaults of api.models.Tunnel.    *)
NewRow ==
    [state |-> pending, support_user |-> None, ts_wg_public_key |-> None,
     support_secret_box |-> None, stopped_at |-> FALSE]

(* What each handler asserts of the row it loaded, and the row it assigns. *)
AcceptsDetailsUnlessCompleted(row) == row.state # completed

AcceptsDetails(row) == row.state # completed /\ row.state # timedout

WithDetailsButNoBox(row, l) ==
    [row EXCEPT !.state = started, !.ts_wg_public_key = l]

WithDetails(row, l) ==
    [row EXCEPT !.state = started, !.ts_wg_public_key = l,
                !.support_secret_box = l]

AcceptsConnectionUnlessClosed(row) == row.state \notin Closed

AcceptsConnection(row) == row.state = started

WithConnectionButStarted(row, u) == [row EXCEPT !.support_user = u]

WithConnection(row, u) == [row EXCEPT !.state = running, !.support_user = u]

StoppedByAdminSwapped(row, isExpired) ==
    [row EXCEPT !.state = IF isExpired THEN completed ELSE timedout]

StoppedByAdmin(row, isExpired) ==
    [row EXCEPT !.state = IF isExpired THEN timedout ELSE completed]

StoppedByDeviceButOpen(row) == [row EXCEPT !.stopped_at = TRUE]

StoppedByDevice(row) == [row EXCEPT !.state = completed, !.stopped_at = TRUE]

(* The row after the UPDATE of a transaction x.                            *)
Flushed(row, x) ==
    [state |-> Written(row.state, x.loaded.state, x.new.state),
     support_user |-> Written(row.support_user, x.loaded.support_user,
                              x.new.support_user),
     ts_wg_public_key |-> Written(row.ts_wg_public_key,
                                  x.loaded.ts_wg_public_key,
                                  x.new.ts_wg_public_key),
     support_secret_box |-> Written(row.support_secret_box,
                                    x.loaded.support_secret_box,
                                    x.new.support_secret_box),
     stopped_at |-> Written(row.stopped_at, x.loaded.stopped_at,
                            x.new.stopped_at)]

-----------------------------------------------------------------------------
Init ==
    /\ table = [t \in {} |-> NewRow]
    /\ expired = {}
    /\ txn = [w \in {} |-> [tunnel_id |-> None, loaded |-> NewRow,
                            new |-> NewRow]]

(* POST device/tunnel/request: insert a row under a fresh tunnel id.       *)
request_tunnel(t) ==
    /\ t \in Tunnels \ DOMAIN table
    /\ table' = [u \in DOMAIN table \cup {t} |->
                    IF u = t THEN NewRow ELSE table[u]]
    /\ UNCHANGED <<expired, txn>>

(* Worker w has loaded the row of t and assigned its attributes; nothing   *)
(* is written yet.                                                         *)
Begin(w, t, new) ==
    /\ w \in Workers \ DOMAIN txn
    /\ txn' = [v \in DOMAIN txn \cup {w} |->
                  IF v = w
                  THEN [tunnel_id |-> t, loaded |-> table[t], new |-> new]
                  ELSE txn[v]]
    /\ UNCHANGED <<table, expired>>

(* A device authenticates with a JWT that is refused once it has expired.  *)
Authorized(t) == t \in DOMAIN table \ expired

(* POST admin/tunnel/details: a tunnel server has been launched.           *)
post_tunnel_details(w, t, l) ==
    /\ t \in DOMAIN table
    /\ AcceptsDetails(table[t])
    /\ Begin(w, t, WithDetails(table[t], l))

(* DELETE admin/tunnel/{tunnel_id}.                                        *)
admin_stop_tunnel(w, t) ==
    /\ t \in DOMAIN table
    /\ Begin(w, t, StoppedByAdmin(table[t], t \in expired))

(* POST device/tunnel/details: the device has connected.                   *)
set_tunnel_details_from_device(w, t, u) ==
    /\ Authorized(t)
    /\ AcceptsConnection(table[t])
    /\ Begin(w, t, WithConnection(table[t], u))

(* DELETE device/tunnel/delete.                                            *)
device_stop_tunnel(w, t) ==
    /\ Authorized(t)
    /\ Begin(w, t, StoppedByDevice(table[t]))

(* The open transactions without that of worker w.                         *)
Without(w) == [v \in DOMAIN txn \ {w} |-> txn[v]]

(* The commit of a handler: the UPDATE by primary key, which neither looks *)
(* at nor locks out what others committed since the row was loaded.        *)
Commit(w) ==
    /\ w \in DOMAIN txn
    /\ table' = [table EXCEPT ![txn[w].tunnel_id] = Flushed(@, txn[w])]
    /\ txn' = Without(w)
    /\ UNCHANGED expired

(* The instance stops or loses its connection: the session rolls back.     *)
Rollback(w) ==
    /\ w \in DOMAIN txn
    /\ txn' = Without(w)
    /\ UNCHANGED <<table, expired>>

(* The expiry time of t passes: the one its row and its JWT carry.         *)
Expire(t) ==
    /\ t \in DOMAIN table \ expired
    /\ expired' = expired \cup {t}
    /\ UNCHANGED <<table, txn>>

Handle(w, t) ==
    \/ \E l \in Launches : post_tunnel_details(w, t, l)
    \/ admin_stop_tunnel(w, t)
    \/ \E u \in SupportUsers : set_tunnel_details_from_device(w, t, u)
    \/ device_stop_tunnel(w, t)

Next ==
    \/ \E t \in Tunnels : request_tunnel(t) \/ Expire(t)
    \/ \E w \in Workers : \/ \E t \in Tunnels : Handle(w, t)
                          \/ Commit(w)
                          \/ Rollback(w)

Spec == Init /\ [][Next]_vars

-----------------------------------------------------------------------------
(* The box a device is handed was sealed with the key it is handed: every  *)
(* row holds the details of one launch, though two launches may be posted  *)
(* at the same time and a commit writes only the columns that differ.  The *)
(* device opens the box with that key (common/crypto.py), so a mixed row   *)
(* would make every later connect fail.                                    *)
DetailsFromOneLaunch ==
    \A t \in DOMAIN table :
        table[t].support_secret_box = table[t].ts_wg_public_key

(* A tunnel that is started has the details its device asserts it gets     *)
(* (device/cli.py:223), and one that is running has the support user that  *)
(* `fab connect` logs in as, whatever order the commits came in.           *)
OpenTunnelsAreUsable ==
    \A t \in DOMAIN table :
        /\ table[t].state \in Usable => table[t].ts_wg_public_key # None
        /\ table[t].state = running => table[t].support_user # None

(* Only a tunnel past its lifetime is ever recorded as timed out, even if  *)
(* the request that stopped it was long in flight.                         *)
TimedOutOnlyPastExpiry ==
    \A t \in DOMAIN table : table[t].state = timedout => t \in expired

(* A transaction that will reopen tunnel t if it commits.                  *)
Reopens(x, t) ==
    /\ x.tunnel_id = t
    /\ x.new.state # x.loaded.state
    /\ x.new.state \notin Closed

(* Tunnels with a request in flight that was let in while they were open.  *)
Admitted == {t \in Tunnels : \E w \in DOMAIN txn : Reopens(txn[w], t)}

(* A step that keeps a closed tunnel closed once it is sealed: no request  *)
(* that could reopen it is left, and none is let in.                       *)
SealedStep ==
    \A t \in DOMAIN table :
        table[t].state \in Closed /\ t \notin Admitted
            => table'[t].state \in Closed /\ t \notin Admitted'

(* A closed tunnel can be reopened only by a request that loaded the row   *)
(* before it was closed: once none of these is left, it stays closed for   *)
(* good, whatever the clients send.                                        *)
SealedStaysClosed == [][SealedStep]_vars

(* The refinement mapping to the abstract life of a tunnel.                *)
PhaseOf(state) ==
    IF state \in Closed THEN "closed"
    ELSE IF state = pending THEN "waiting" ELSE "open"

Phase == [t \in Tunnels |->
            IF t \in DOMAIN table THEN PhaseOf(table[t].state) ELSE "unknown"]

Lifecycle == INSTANCE TunnelLifecycle WITH phase <- Phase,
                                           admitted <- Admitted

(* The API keeps the promise of TunnelLifecycle: with any number of        *)
(* concurrent and repeated requests, a tunnel is opened only by a request  *)
(* admitted before it was closed and never waits for approval again.       *)
KeepsLifecycle == Lifecycle!Spec

(* What the comment at api/admin.py:63 says of new details: they are taken *)
(* only while "the tunnel is not explicitly closed".  A commit may come    *)
(* after the check, and reopen a tunnel closed in between.                 *)
DetailsOnlyForOpenTunnels ==
    [][\A t \in DOMAIN table :
          table[t].state \in Closed => table'[t].state # started]_vars
=============================================================================
