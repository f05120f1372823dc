-------------------------- MODULE TunnelApi_proofs --------------------------
(***************************************************************************)
(* Proofs about the bookkeeping API, for any number of tunnels, launches,  *)
(* users and workers.                                                      *)
(*                                                                         *)
(* The invariants of the table are not inductive: a commit writes what a   *)
(* handler computed from a row that may have changed since.  IInv adds     *)
(* what is known of every open transaction, however stale: how the row it  *)
(* assigned relates to the row it loaded (Assigned), and what of the row   *)
(* it loaded still holds of the current one (NotLost).                     *)
(***************************************************************************)
EXTENDS TunnelApi, TLAPS

(* A handler that loaded the row of t assigned it the row new.             *)
Assigned(t, loaded, new) ==
    /\ new.support_secret_box = new.ts_wg_public_key
    /\ new.ts_wg_public_key # loaded.ts_wg_public_key
          => new.ts_wg_public_key # None
    /\ new.support_user # loaded.support_user => new.support_user # None
    /\ new.state \in Usable => new.ts_wg_public_key # None
    /\ new.state = running => new.support_user # None
    /\ new.state = timedout => t \in expired
    /\ new.state # loaded.state => new.state # pending
    /\ loaded.state \in Closed /\ new.state # loaded.state
          => new.state \in Closed

(* What a loaded row knows of the current one: values are never set back   *)
(* to NULL.                                                                *)
NotLost(loaded, row) ==
    /\ loaded.ts_wg_public_key # None => row.ts_wg_public_key # None
    /\ loaded.support_user # None => row.support_user # None

TransactionOK(x) ==
    /\ x.loaded.support_secret_box = x.loaded.ts_wg_public_key
    /\ Assigned(x.tunnel_id, x.loaded, x.new)
    /\ NotLost(x.loaded, table[x.tunnel_id])

RowOK(t, row) ==
    /\ row.support_secret_box = row.ts_wg_public_key
    /\ row.state \in Usable => row.ts_wg_public_key # None
    /\ row.state = running => row.support_user # None
    /\ row.state = timedout => t \in expired

IInv ==
    /\ TypeOK
    /\ \A t \in DOMAIN table : RowOK(t, table[t])
    /\ \A w \in DOMAIN txn : TransactionOK(txn[w])

-----------------------------------------------------------------------------
(* Every handler that changes a row opens a transaction on an existing     *)
(* tunnel, and assigns it a row that Assigned describes.                   *)
LEMMA HandlersAssign ==
    ASSUME TypeOK, NEW w \in Workers, NEW t \in Tunnels, Handle(w, t),
           \A s \in DOMAIN table : RowOK(s, table[s])
    PROVE  /\ t \in DOMAIN table
           /\ \E new \in Row : /\ Begin(w, t, new)
                               /\ Assigned(t, table[t], new)
<1> USE DEF pending, started, running, connected, completed, timedout,
            TunnelState, Closed, Usable
<1>1. ASSUME NEW l \in Launches, post_tunnel_details(w, t, l)
      PROVE  /\ t \in DOMAIN table
             /\ \E new \in Row : /\ Begin(w, t, new)
                                 /\ Assigned(t, table[t], new)
  <2>1. t \in DOMAIN table /\ table[t] \in Row /\ AcceptsDetails(table[t])
    BY <1>1 DEF post_tunnel_details, TypeOK
  <2>2. WithDetails(table[t], l) \in Row
    BY <2>1 DEF WithDetails, Row
  <2>3. Assigned(t, table[t], WithDetails(table[t], l))
    BY <2>1, NoneIsNull DEF Assigned, WithDetails, Row, AcceptsDetails
  <2>4. QED
    BY <1>1, <2>1, <2>2, <2>3 DEF post_tunnel_details
<1>2. ASSUME admin_stop_tunnel(w, t)
      PROVE  /\ t \in DOMAIN table
             /\ \E new \in Row : /\ Begin(w, t, new)
                                 /\ Assigned(t, table[t], new)
  <2> DEFINE new == StoppedByAdmin(table[t], t \in expired)
  <2>1. t \in DOMAIN table /\ table[t] \in Row /\ RowOK(t, table[t])
    BY <1>2 DEF admin_stop_tunnel, TypeOK
  <2>2. new \in Row
    BY <2>1 DEF StoppedByAdmin, Row
  <2>3. Assigned(t, table[t], new)
    BY <2>1 DEF Assigned, StoppedByAdmin, Row, RowOK
  <2>4. QED
    BY <1>2, <2>1, <2>2, <2>3 DEF admin_stop_tunnel
<1>3. ASSUME NEW u \in SupportUsers, set_tunnel_details_from_device(w, t, u)
      PROVE  /\ t \in DOMAIN table
             /\ \E new \in Row : /\ Begin(w, t, new)
                                 /\ Assigned(t, table[t], new)
  <2>1. /\ t \in DOMAIN table
        /\ table[t] \in Row
        /\ RowOK(t, table[t])
        /\ AcceptsConnection(table[t])
    BY <1>3 DEF set_tunnel_details_from_device, Authorized, TypeOK
  <2>2. WithConnection(table[t], u) \in Row
    BY <2>1 DEF WithConnection, Row
  <2>3. Assigned(t, table[t], WithConnection(table[t], u))
    BY <2>1, NoneIsNull
    DEF Assigned, WithConnection, Row, RowOK, AcceptsConnection
  <2>4. QED
    BY <1>3, <2>1, <2>2, <2>3 DEF set_tunnel_details_from_device
<1>4. ASSUME device_stop_tunnel(w, t)
      PROVE  /\ t \in DOMAIN table
             /\ \E new \in Row : /\ Begin(w, t, new)
                                 /\ Assigned(t, table[t], new)
  <2>1. t \in DOMAIN table /\ table[t] \in Row /\ RowOK(t, table[t])
    BY <1>4 DEF device_stop_tunnel, Authorized, TypeOK
  <2>2. StoppedByDevice(table[t]) \in Row
    BY <2>1 DEF StoppedByDevice, Row
  <2>3. Assigned(t, table[t], StoppedByDevice(table[t]))
    BY <2>1 DEF Assigned, StoppedByDevice, Row, RowOK
  <2>4. QED
    BY <1>4, <2>1, <2>2, <2>3 DEF device_stop_tunnel
<1>5. QED
  BY <1>1, <1>2, <1>3, <1>4 DEF Handle

(* The UPDATE of a transaction whose loaded row is stale still leaves a    *)
(* sound row, and takes no value back to NULL.                             *)
LEMMA FlushKeepsRow ==
    ASSUME NEW t \in Tunnels, NEW row \in Row, NEW x \in Transaction,
           x.tunnel_id = t, RowOK(t, row), Assigned(t, x.loaded, x.new),
           x.loaded.support_secret_box = x.loaded.ts_wg_public_key,
           NotLost(x.loaded, row)
    PROVE  /\ Flushed(row, x) \in Row
           /\ RowOK(t, Flushed(row, x))
           /\ NotLost(row, Flushed(row, x))
<1> DEFINE f == Flushed(row, x)
<1>1. f.state \in TunnelState /\ f.state \in {row.state, x.new.state}
  BY DEF Flushed, Written, Row, Transaction
<1>2. f \in Row
  BY <1>1 DEF Flushed, Written, Row, Transaction
<1>3. NotLost(row, f)
  BY DEF Flushed, Written, NotLost, Assigned, Transaction, Row
<1>4. f.support_secret_box = f.ts_wg_public_key
  BY DEF Flushed, Written, RowOK, Assigned
<1>5. CASE x.new.state # x.loaded.state
  <2>1. f.state = x.new.state
    BY <1>5 DEF Flushed, Written
  <2>2. f.state \in Usable => f.ts_wg_public_key # None
    BY <2>1 DEF Flushed, Written, Assigned, NotLost
  <2>3. f.state = running => f.support_user # None
    BY <2>1 DEF Flushed, Written, Assigned, NotLost
  <2>4. QED
    BY <1>2, <1>3, <1>4, <2>1, <2>2, <2>3 DEF RowOK, Assigned
<1>6. CASE x.new.state = x.loaded.state
  <2>1. f.state = row.state
    BY <1>6 DEF Flushed, Written
  <2>2. QED
    BY <1>2, <1>3, <1>4, <2>1 DEF RowOK, NotLost
<1>7. QED
  BY <1>5, <1>6

-----------------------------------------------------------------------------
LEMMA InitIInv == Init => IInv
BY DEF Init, IInv, TypeOK

LEMMA RequestIInv ==
    ASSUME IInv, NEW t \in Tunnels, request_tunnel(t)
    PROVE  IInv'
<1> USE DEF pending, started, running, connected, completed, timedout,
            TunnelState, Closed, Usable
<1>1. NewRow \in Row /\ RowOK(t, NewRow)'
  BY DEF NewRow, Row, RowOK
<1>2. /\ t \notin DOMAIN table
      /\ DOMAIN table' = DOMAIN table \cup {t}
      /\ table'[t] = NewRow
      /\ \A s \in DOMAIN table : table'[s] = table[s]
      /\ UNCHANGED <<expired, txn>>
  BY DEF request_tunnel
<1>3. TypeOK'
  <2>1. table' \in [DOMAIN table' -> Row]
    BY <1>1 DEF request_tunnel, IInv, TypeOK
  <2>2. QED
    BY <1>2, <2>1 DEF IInv, TypeOK
<1>4. (\A s \in DOMAIN table : RowOK(s, table[s]))'
  BY <1>1, <1>2 DEF IInv, RowOK
<1>5. (\A w \in DOMAIN txn : TransactionOK(txn[w]))'
  BY <1>2 DEF IInv, TypeOK, TransactionOK, Assigned, NotLost
<1>6. QED
  BY <1>3, <1>4, <1>5 DEF IInv

LEMMA BeginIInv ==
    ASSUME IInv, NEW w \in Workers, NEW t \in DOMAIN table, NEW new \in Row,
           Begin(w, t, new), Assigned(t, table[t], new)
    PROVE  IInv'
<1>1. /\ w \notin DOMAIN txn
      /\ DOMAIN txn' = DOMAIN txn \cup {w}
      /\ txn'[w] = [tunnel_id |-> t, loaded |-> table[t], new |-> new]
      /\ \A v \in DOMAIN txn : txn'[v] = txn[v]
      /\ UNCHANGED <<table, expired>>
  BY DEF Begin
<1>2. txn'[w] \in Transaction
  BY <1>1 DEF Transaction, IInv, TypeOK
<1>3. TypeOK'
  <2>1. txn' \in [DOMAIN txn' -> Transaction]
    BY <1>1, <1>2 DEF Begin, IInv, TypeOK
  <2>2. QED
    BY <1>1, <2>1 DEF IInv, TypeOK
<1>4. TransactionOK(txn[w])'
  BY <1>1 DEF IInv, RowOK, TransactionOK, Assigned, NotLost
<1>5. (\A v \in DOMAIN txn : TransactionOK(txn[v]))'
  <2>1. ASSUME NEW v \in DOMAIN txn PROVE TransactionOK(txn[v])'
    BY <1>1 DEF IInv, TransactionOK, Assigned, NotLost
  <2>2. QED
    BY <1>1, <1>4, <2>1
<1>6. (\A s \in DOMAIN table : RowOK(s, table[s]))'
  BY <1>1 DEF IInv, RowOK
<1>7. QED
  BY <1>1, <1>3, <1>4, <1>5, <1>6 DEF IInv

(* What is left of the open transactions when w has ended its own.         *)
LEMMA WithoutTxn ==
    ASSUME IInv, NEW w \in DOMAIN txn, txn' = Without(w)
    PROVE  /\ DOMAIN txn' = DOMAIN txn \ {w}
           /\ txn' \in [DOMAIN txn' -> Transaction]
           /\ \A v \in DOMAIN txn' : v \in DOMAIN txn /\ txn'[v] = txn[v]
BY DEF Without, IInv, TypeOK

LEMMA CommitIInv ==
    ASSUME IInv, NEW w \in Workers, Commit(w)
    PROVE  IInv'
<1> DEFINE x == txn[w]
           t == txn[w].tunnel_id
<1>1. /\ w \in DOMAIN txn
      /\ x \in Transaction
      /\ t \in DOMAIN table
      /\ t \in Tunnels
      /\ table[t] \in Row
      /\ RowOK(t, table[t])
      /\ TransactionOK(x)
  BY DEF Commit, IInv, TypeOK
<1>2. /\ Flushed(table[t], x) \in Row
      /\ RowOK(t, Flushed(table[t], x))
      /\ NotLost(table[t], Flushed(table[t], x))
  BY <1>1, FlushKeepsRow DEF TransactionOK
<1>3. /\ DOMAIN table' = DOMAIN table
      /\ table'[t] = Flushed(table[t], x)
      /\ \A s \in DOMAIN table : s # t => table'[s] = table[s]
      /\ expired' = expired
  BY <1>1 DEF Commit, IInv, TypeOK
<1>4. /\ DOMAIN txn' = DOMAIN txn \ {w}
      /\ txn' \in [DOMAIN txn' -> Transaction]
      /\ \A v \in DOMAIN txn' : v \in DOMAIN txn /\ txn'[v] = txn[v]
  BY <1>1, WithoutTxn DEF Commit
<1>5. TypeOK'
  <2>1. table' \in [DOMAIN table' -> Row]
    BY <1>1, <1>2, <1>3 DEF Commit, IInv, TypeOK
  <2>2. QED
    BY <1>3, <1>4, <2>1 DEF IInv, TypeOK
<1>6. (\A s \in DOMAIN table : RowOK(s, table[s]))'
  BY <1>2, <1>3 DEF IInv, RowOK
<1>7. (\A v \in DOMAIN txn : TransactionOK(txn[v]))'
  <2> SUFFICES ASSUME NEW v \in DOMAIN txn' PROVE TransactionOK(txn[v])'
    OBVIOUS
  <2>1. v \in DOMAIN txn /\ txn'[v] = txn[v] /\ TransactionOK(txn[v])
    BY <1>4 DEF IInv
  <2>2. NotLost(txn[v].loaded, table'[txn[v].tunnel_id])
    <3>1. txn[v].tunnel_id \in DOMAIN table
      BY <2>1 DEF IInv, TypeOK
    <3>2. CASE txn[v].tunnel_id = t
      BY <1>2, <1>3, <2>1, <3>2 DEF TransactionOK, NotLost
    <3>3. CASE txn[v].tunnel_id # t
      BY <1>3, <2>1, <3>1, <3>3 DEF TransactionOK
    <3>4. QED
      BY <3>2, <3>3
  <2>3. QED
    BY <1>3, <2>1, <2>2 DEF TransactionOK, Assigned, NotLost
<1>8. QED
  BY <1>5, <1>6, <1>7 DEF IInv

LEMMA RollbackIInv ==
    ASSUME IInv, NEW w \in Workers, Rollback(w)
    PROVE  IInv'
<1>1. /\ DOMAIN txn' = DOMAIN txn \ {w}
      /\ txn' \in [DOMAIN txn' -> Transaction]
      /\ \A v \in DOMAIN txn' : v \in DOMAIN txn /\ txn'[v] = txn[v]
      /\ UNCHANGED <<table, expired>>
  BY WithoutTxn DEF Rollback
<1>2. TypeOK'
  BY <1>1 DEF IInv, TypeOK
<1>3. (\A s \in DOMAIN table : RowOK(s, table[s]))'
  BY <1>1 DEF IInv, RowOK
<1>4. (\A v \in DOMAIN txn : TransactionOK(txn[v]))'
  BY <1>1 DEF IInv, TransactionOK, Assigned, NotLost
<1>5. QED
  BY <1>2, <1>3, <1>4 DEF IInv

LEMMA ExpireIInv ==
    ASSUME IInv, NEW t \in Tunnels, Expire(t)
    PROVE  IInv'
<1>1. expired' = expired \cup {t} /\ UNCHANGED <<table, txn>>
  BY DEF Expire
<1>2. TypeOK'
  BY <1>1 DEF Expire, IInv, TypeOK
<1>3. (\A s \in DOMAIN table : RowOK(s, table[s]))'
  BY <1>1 DEF IInv, RowOK
<1>4. (\A v \in DOMAIN txn : TransactionOK(txn[v]))'
  BY <1>1 DEF IInv, TransactionOK, Assigned, NotLost
<1>5. QED
  BY <1>2, <1>3, <1>4 DEF IInv

LEMMA NextIInv == IInv /\ [Next]_vars => IInv'
<1> SUFFICES ASSUME IInv, [Next]_vars PROVE IInv'
  OBVIOUS
<1>1. ASSUME NEW t \in Tunnels, request_tunnel(t) PROVE IInv'
  BY <1>1, RequestIInv
<1>2. ASSUME NEW t \in Tunnels, Expire(t) PROVE IInv'
  BY <1>2, ExpireIInv
<1>3. ASSUME NEW w \in Workers, NEW t \in Tunnels, Handle(w, t) PROVE IInv'
  <2>1. /\ t \in DOMAIN table
        /\ \E new \in Row : Begin(w, t, new) /\ Assigned(t, table[t], new)
    BY <1>3, HandlersAssign DEF IInv
  <2>2. QED
    BY <2>1, BeginIInv
<1>4. ASSUME NEW w \in Workers, Commit(w) PROVE IInv'
  BY <1>4, CommitIInv
<1>5. ASSUME NEW w \in Workers, Rollback(w) PROVE IInv'
  BY <1>5, RollbackIInv
<1>6. CASE UNCHANGED vars
  BY <1>6 DEF vars, IInv, TypeOK, RowOK, TransactionOK, Assigned, NotLost
<1>7. QED
  BY <1>1, <1>2, <1>3, <1>4, <1>5, <1>6 DEF Next

LEMMA InductiveInvariant == Spec => []IInv
BY InitIInv, NextIInv, PTL DEF Spec

-----------------------------------------------------------------------------
(* Type correctness of the table and of the open transactions.             *)
THEOREM TypeCorrect == Spec => []TypeOK
<1>1. IInv => TypeOK
  BY DEF IInv
<1>2. QED
  BY <1>1, InductiveInvariant, PTL

(* Any two concurrent posts of launch details leave the key and the box of *)
(* one launch in the row (post_tunnel_details, api/admin.py:56).           *)
THEOREM DetailsAgree == Spec => []DetailsFromOneLaunch
<1>1. IInv => DetailsFromOneLaunch
  BY DEF IInv, RowOK, DetailsFromOneLaunch
<1>2. QED
  BY <1>1, InductiveInvariant, PTL

(* A started or running tunnel has the server details its device asserts,  *)
(* and a running one its support user (device/cli.py:223).                 *)
THEOREM OpenTunnelsUsable == Spec => []OpenTunnelsAreUsable
<1>1. IInv => OpenTunnelsAreUsable
  BY DEF IInv, RowOK, OpenTunnelsAreUsable
<1>2. QED
  BY <1>1, InductiveInvariant, PTL

(* No request, however late it commits, records a tunnel as timed out      *)
(* before its expiry (stop_tunnel, api/admin.py:80).                       *)
THEOREM TimedOutExpired == Spec => []TimedOutOnlyPastExpiry
<1>1. IInv => TimedOutOnlyPastExpiry
  BY DEF IInv, RowOK, TimedOutOnlyPastExpiry
<1>2. QED
  BY <1>1, InductiveInvariant, PTL

-----------------------------------------------------------------------------
(* No step of a request that loads a closed row can reopen it later, and   *)
(* the commit of one that cannot reopen a tunnel leaves it closed.         *)
LEMMA SealedStepHolds == IInv /\ Next => SealedStep
<1> SUFFICES ASSUME IInv, Next, NEW t \in DOMAIN table,
                    table[t].state \in Closed, t \notin Admitted
             PROVE  table'[t].state \in Closed /\ t \notin Admitted'
  BY DEF SealedStep
<1>1. ASSUME NEW s \in Tunnels, request_tunnel(s)
      PROVE  table'[t].state \in Closed /\ t \notin Admitted'
  BY <1>1 DEF request_tunnel, Admitted, Reopens
<1>2. ASSUME NEW s \in Tunnels, Expire(s)
      PROVE  table'[t].state \in Closed /\ t \notin Admitted'
  BY <1>2 DEF Expire, Admitted, Reopens
<1>3. ASSUME NEW w \in Workers, NEW s \in Tunnels, Handle(w, s)
      PROVE  table'[t].state \in Closed /\ t \notin Admitted'
  <2>1. PICK new \in Row : Begin(w, s, new) /\ Assigned(s, table[s], new)
    BY <1>3, HandlersAssign DEF IInv
  <2>2. /\ table' = table
        /\ DOMAIN txn' = DOMAIN txn \cup {w}
        /\ txn'[w] = [tunnel_id |-> s, loaded |-> table[s], new |-> new]
        /\ \A v \in DOMAIN txn : txn'[v] = txn[v]
    BY <2>1 DEF Begin
  <2>3. ~ Reopens(txn'[w], t)
    BY <2>1, <2>2 DEF Reopens, Assigned
  <2>4. \A v \in DOMAIN txn' : ~ Reopens(txn'[v], t)
    BY <2>2, <2>3 DEF Admitted, IInv, TypeOK
  <2>5. QED
    BY <2>2, <2>4 DEF Admitted
<1>4. ASSUME NEW w \in Workers, Commit(w)
      PROVE  table'[t].state \in Closed /\ t \notin Admitted'
  <2>1. \A v \in DOMAIN txn' : v \in DOMAIN txn /\ txn'[v] = txn[v]
    BY <1>4, WithoutTxn DEF Commit
  <2>2. t \notin Admitted'
    BY <2>1 DEF Admitted
  <2>3. CASE txn[w].tunnel_id = t
    <3>1. ~ Reopens(txn[w], t)
      BY <1>4 DEF Commit, Admitted, IInv, TypeOK
    <3>2. table'[t] = Flushed(table[t], txn[w])
      BY <1>4, <2>3 DEF Commit, IInv, TypeOK
    <3>3. table'[t].state \in Closed
      BY <2>3, <3>1, <3>2 DEF Reopens, Flushed, Written
    <3>4. QED
      BY <2>2, <3>3
  <2>4. CASE txn[w].tunnel_id # t
    BY <1>4, <2>2, <2>4 DEF Commit, IInv, TypeOK
  <2>5. QED
    BY <2>3, <2>4
<1>5. ASSUME NEW w \in Workers, Rollback(w)
      PROVE  table'[t].state \in Closed /\ t \notin Admitted'
  BY <1>5, WithoutTxn DEF Rollback, Admitted
<1>6. QED
  BY <1>1, <1>2, <1>3, <1>4, <1>5 DEF Next

(* Once no request admitted earlier is in flight, a closed tunnel is never *)
(* opened again (api/admin.py:63, "not explicitly closed").                *)
THEOREM SealedForGood == Spec => SealedStaysClosed
<1>1. IInv /\ [Next]_vars => [SealedStep]_vars
  BY SealedStepHolds
<1>2. QED
  BY <1>1, InductiveInvariant, PTL DEF Spec, SealedStaysClosed

-----------------------------------------------------------------------------
(* The API implements TunnelLifecycle: every step of the API maps to a     *)
(* step of the abstract tunnel or leaves it alone.                         *)

(* The requests that may reopen a tunnel once worker w has ended its own:  *)
(* only the tunnel of w can be missing, and it is if w could not reopen    *)
(* it in the first place.                                                  *)
LEMMA WithoutAdmitted ==
    ASSUME IInv, NEW w \in DOMAIN txn, txn' = Without(w)
    PROVE  /\ Admitted' \in {Admitted, Admitted \ {txn[w].tunnel_id}}
           /\ ~ Reopens(txn[w], txn[w].tunnel_id) => Admitted' = Admitted
<1>1. /\ DOMAIN txn' = DOMAIN txn \ {w}
      /\ \A v \in DOMAIN txn' : txn'[v] = txn[v]
  BY WithoutTxn
<1>2. \A s \in Tunnels : s \in Admitted' => s \in Admitted
  BY <1>1 DEF Admitted
<1>3. \A s \in Tunnels :
         s \in Admitted /\ ~ Reopens(txn[w], s) => s \in Admitted'
  BY <1>1 DEF Admitted
<1>4. \A s \in Tunnels : Reopens(txn[w], s) => s = txn[w].tunnel_id
  BY DEF Reopens
<1>5. Admitted \subseteq Tunnels /\ Admitted' \subseteq Tunnels
  BY DEF Admitted
<1>6. QED
  BY <1>2, <1>3, <1>4, <1>5

LEMMA InitLifecycle == Init => Lifecycle!Init
BY DEF Init, Lifecycle!Init, Phase, Admitted

(* POST device/tunnel/request starts the wait for approval.                *)
LEMMA RequestLifecycle ==
    ASSUME NEW t \in Tunnels, request_tunnel(t)
    PROVE  Lifecycle!Request(t)
<1>1. Admitted' = Admitted
  BY DEF request_tunnel, Admitted
<1>2. Phase[t] = "unknown"
  BY DEF request_tunnel, Phase
<1>3. \A s \in Tunnels :
         Phase'[s] = IF s = t THEN "waiting" ELSE Phase[s]
  BY DEF request_tunnel, Phase, PhaseOf, NewRow, Closed, pending, completed,
         timedout
<1>4. Phase' = [Phase EXCEPT ![t] = "waiting"]
  BY <1>3 DEF Phase
<1>5. QED
  BY <1>1, <1>2, <1>4 DEF Lifecycle!Request

(* A handler that has loaded its row admits a request or changes nothing.  *)
LEMMA HandleLifecycle ==
    ASSUME IInv, NEW w \in Workers, NEW t \in Tunnels, Handle(w, t)
    PROVE  Lifecycle!Admit(t) \/ UNCHANGED <<Phase, Admitted>>
<1>1. PICK new \in Row : /\ t \in DOMAIN table
                        /\ Begin(w, t, new)
                        /\ Assigned(t, table[t], new)
  BY HandlersAssign DEF IInv
<1>2. /\ table' = table
      /\ w \notin DOMAIN txn
      /\ DOMAIN txn' = DOMAIN txn \cup {w}
      /\ txn'[w] = [tunnel_id |-> t, loaded |-> table[t], new |-> new]
      /\ \A v \in DOMAIN txn : txn'[v] = txn[v]
  BY <1>1 DEF Begin
<1>3. Phase' = Phase
  BY <1>2 DEF Phase
<1>4. \A s \in Tunnels :
         s \in Admitted' <=> s \in Admitted \/ Reopens(txn'[w], s)
  BY <1>2 DEF Admitted
<1>5. CASE Reopens(txn'[w], t)
  <2>1. table[t].state \notin Closed
    BY <1>1, <1>2, <1>5 DEF Reopens, Assigned
  <2>2. Phase[t] \in {"waiting", "open"}
    BY <1>1, <2>1 DEF Phase, PhaseOf
  <2>3. Admitted' = Admitted \cup {t}
    BY <1>2, <1>4, <1>5 DEF Admitted, Reopens
  <2>4. QED
    BY <1>3, <2>2, <2>3 DEF Lifecycle!Admit
<1>6. CASE ~ Reopens(txn'[w], t)
  <2>1. Admitted' = Admitted
    BY <1>2, <1>4, <1>6 DEF Admitted, Reopens
  <2>2. QED
    BY <1>3, <2>1
<1>7. QED
  BY <1>5, <1>6

(* A commit opens an admitted tunnel, closes one, or changes no phase.     *)
LEMMA CommitLifecycle ==
    ASSUME IInv, NEW w \in Workers, Commit(w)
    PROVE  \/ \E t \in Tunnels : Lifecycle!Open(t) \/ Lifecycle!Close(t)
           \/ UNCHANGED <<Phase, Admitted>>
<1> DEFINE x == txn[w]
           t == txn[w].tunnel_id
<1>1. /\ w \in DOMAIN txn
      /\ txn' = Without(w)
      /\ x \in Transaction
      /\ t \in DOMAIN table
      /\ t \in Tunnels
      /\ Assigned(t, x.loaded, x.new)
  BY DEF Commit, IInv, TypeOK, TransactionOK
<1>2. /\ DOMAIN table' = DOMAIN table
      /\ table'[t] = Flushed(table[t], x)
      /\ \A s \in DOMAIN table : s # t => table'[s] = table[s]
  BY <1>1 DEF Commit, IInv, TypeOK
<1>3. /\ Admitted' \in {Admitted, Admitted \ {t}}
      /\ ~ Reopens(x, t) => Admitted' = Admitted
  BY <1>1, WithoutAdmitted
<1>4. Phase' = [Phase EXCEPT ![t] = PhaseOf(table'[t].state)]
  <2>1. \A s \in Tunnels :
           Phase'[s] = IF s = t THEN PhaseOf(table'[t].state) ELSE Phase[s]
    BY <1>1, <1>2 DEF Phase
  <2>2. QED
    BY <2>1 DEF Phase
<1>5. CASE Reopens(x, t)
  <2>1. table'[t].state = x.new.state /\ x.new.state \notin Closed \cup {pending}
    BY <1>1, <1>2, <1>5 DEF Reopens, Flushed, Written, Assigned
  <2>2. PhaseOf(table'[t].state) = "open"
    BY <2>1 DEF PhaseOf
  <2>3. t \in Admitted
    BY <1>1, <1>5 DEF Admitted
  <2>4. QED
    BY <1>1, <1>3, <1>4, <2>2, <2>3 DEF Lifecycle!Open
<1>6. CASE ~ Reopens(x, t) /\ x.new.state # x.loaded.state
  <2>1. table'[t].state = x.new.state /\ x.new.state \in Closed
    BY <1>2, <1>6 DEF Reopens, Flushed, Written
  <2>2. PhaseOf(table'[t].state) = "closed"
    BY <2>1 DEF PhaseOf
  <2>3. Phase[t] # "unknown"
    BY <1>1 DEF Phase, PhaseOf
  <2>4. QED
    BY <1>1, <1>3, <1>4, <1>6, <2>2, <2>3 DEF Lifecycle!Close
<1>7. CASE x.new.state = x.loaded.state
  <2>1. table'[t].state = table[t].state
    BY <1>2, <1>7 DEF Flushed, Written
  <2>2. Phase' = Phase
    BY <1>1, <1>4, <2>1 DEF Phase
  <2>3. QED
    BY <1>3, <1>7, <2>2 DEF Reopens
<1>8. QED
  BY <1>5, <1>6, <1>7

LEMMA NextLifecycle ==
    IInv /\ [Next]_vars => [Lifecycle!Next]_(Lifecycle!vars)
<1> SUFFICES ASSUME IInv, [Next]_vars
             PROVE  Lifecycle!Next \/ UNCHANGED <<Phase, Admitted>>
  BY DEF Lifecycle!vars
<1>1. ASSUME NEW t \in Tunnels, request_tunnel(t)
      PROVE  Lifecycle!Next
  BY <1>1, RequestLifecycle DEF Lifecycle!Next
<1>2. ASSUME NEW t \in Tunnels, Expire(t)
      PROVE  UNCHANGED <<Phase, Admitted>>
  BY <1>2 DEF Expire, Phase, Admitted
<1>3. ASSUME NEW w \in Workers, NEW t \in Tunnels, Handle(w, t)
      PROVE  Lifecycle!Next \/ UNCHANGED <<Phase, Admitted>>
  BY <1>3, HandleLifecycle DEF Lifecycle!Next
<1>4. ASSUME NEW w \in Workers, Commit(w)
      PROVE  Lifecycle!Next \/ UNCHANGED <<Phase, Admitted>>
  BY <1>4, CommitLifecycle DEF Lifecycle!Next
<1>5. ASSUME NEW w \in Workers, Rollback(w)
      PROVE  Lifecycle!Next \/ UNCHANGED <<Phase, Admitted>>
  <2>1. /\ w \in DOMAIN txn
        /\ txn' = Without(w)
        /\ txn[w].tunnel_id \in Tunnels
    BY <1>5 DEF Rollback, IInv, TypeOK
  <2>2. Admitted' \in {Admitted, Admitted \ {txn[w].tunnel_id}}
    BY <2>1, WithoutAdmitted
  <2>3. Phase' = Phase
    BY <1>5 DEF Rollback, Phase
  <2>4. QED
    BY <2>1, <2>2, <2>3 DEF Lifecycle!Next, Lifecycle!Withdraw
<1>6. CASE UNCHANGED vars
  BY <1>6 DEF vars, Phase, Admitted
<1>7. QED
  BY <1>1, <1>2, <1>3, <1>4, <1>5, <1>6 DEF Next

(* The rows, handlers and transactions of the API keep the promise of      *)
(* TunnelLifecycle: only a request admitted while a tunnel was not closed  *)
(* can open it, and no tunnel waits for approval twice.                    *)
THEOREM ApiKeepsLifecycle == Spec => KeepsLifecycle
<1>1. Init => Lifecycle!Init
  BY InitLifecycle
<1>2. IInv /\ [Next]_vars => [Lifecycle!Next]_(Lifecycle!vars)
  BY NextLifecycle
<1>3. QED
  BY <1>1, <1>2, InductiveInvariant, PTL
  DEF Spec, KeepsLifecycle, Lifecycle!Spec
=============================================================================
