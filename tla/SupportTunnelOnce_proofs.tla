---------------------- MODULE SupportTunnelOnce_proofs ----------------------
(***************************************************************************)
(* Proofs about tunnels that go through their life once, OnceSpec, for any *)
(* number of tunnels, launches, users, workers and processes.              *)
(*                                                                         *)
(* RunningCanBeConnected speaks of both programs at rest.  While they work *)
(* it holds of a tunnel that is not doomed, which is one that is not       *)
(* expired, closed or being stopped: everything on the device, in the      *)
(* API's row, in the requests it serves and in its answers on the way is   *)
(* of the one launch whose key the row holds, and every user any of them   *)
(* names is on the device, no other tunnel's, and lets that key in or is   *)
(* about to.  What is doomed stays so: a stop ends in the API's row being  *)
(* closed, as long as no request fails.                                    *)
(***************************************************************************)
EXTENDS SupportTunnel_proofs

Calm == lost' = lost /\ faults' = faults

-----------------------------------------------------------------------------
(* Steps.                                                                  *)

(* Once an answer was lost or a command has failed, it stays so.           *)
LEMMA CalmStep ==
    ASSUME SInv, Next, ~ Disturbed'
    PROVE  Calm /\ ~ Disturbed
<1>1. lost \in Nat /\ faults \in Nat
  BY LossIsBounded, FaultsAreBounded DEF SInv, D!DInv, D!HostOK
<1>2. lost' \in {lost, lost + 1}
  BY DEF Next, post_request, Command, cron, gc, Local, Step, save_request,
         get_tunnel_details, use_tunnel_details, get_tunnel_details_fails,
         commit_running, HostStep, post_report, delete_tunnel, Call, Answered,
         Refused, GoesOn, Fails, request_lost, GivesUp, Retries, CommandFails,
         Reboot, CommitUnattended, RequestDies, Expire, AdminStops, AdminPosts,
         Loss
<1>3. faults' \in {faults, faults + 1}
  <2>1. CASE UNCHANGED D!vars
    BY <2>1 DEF D!vars
  <2>2. CASE D!Next
    BY <2>2
    DEF D!Next, D!Command, D!connect_approved_tunnels, D!request, D!connect,
        D!stop, D!gc, D!Step, D!Take, D!ConnectStep, D!StopStep,
        D!request_tunnel_server_details, D!cannot_request_details,
        D!create_user, D!record_user, D!add_authorized_key, D!load_row,
        D!write_wireguard_config, D!enable_wireguard_tunnel,
        D!start_wireguard_tunnel, D!undo_start, D!undo_enable,
        D!commit_running,
        D!send_connected_status_to_api, D!load_stopped_row, D!delete_user,
        D!stop_unit, D!disable_unit, D!remove_config, D!commit_closed,
        D!notify_stopped, D!ConnectFails, D!CommandSkipped, D!Aborts,
        D!Reboot, D!Fault, D!Expire
  <2>3. QED
    BY <2>1, <2>2, StepsOfBoth
<1>4. ~ (lost' + faults' > 0)
  BY DEF Disturbed
<1>5. ASSUME NEW a \in Nat, NEW b \in Nat, NEW c \in {a, a + 1},
             NEW d \in {b, b + 1}, ~ (c + d > 0)
      PROVE  c = a /\ d = b /\ ~ (a + b > 0)
  BY <1>5
<1>6. QED
  BY <1>1, <1>2, <1>3, <1>4, <1>5 DEF Disturbed, Calm

(* A process is moved by a step of its own.                                *)
LEMMA WhoMoves ==
    ASSUME SInv, Next, Calm, NEW p \in Processes, proc'[p] # proc[p]
    PROVE  \/ p \in Shells /\ (Command(p) \/ cron(p))
           \/ p \in Collectors /\ gc(p)
           \/ save_request(p)
           \/ use_tunnel_details(p)
           \/ get_tunnel_details_fails(p)
           \/ commit_running(p)
           \/ HostStep(p)
           \/ Answered(p)
           \/ Refused(p)
<1>1. ~ Loss /\ ~ Device!Fault
  BY LossIsBounded, FaultsAreBounded
     DEF Calm, Loss, Device!Fault, SInv, D!DInv, D!HostOK
<1>2. ASSUME NEW q \in Processes, q # p,
             \/ q \in Shells /\ (Command(q) \/ cron(q))
             \/ q \in Collectors /\ gc(q)
             \/ save_request(q)
             \/ use_tunnel_details(q)
             \/ get_tunnel_details_fails(q)
             \/ commit_running(q)
             \/ HostStep(q)
             \/ GoesOn(q)
      PROVE  FALSE
  BY <1>2, CommandMoves, SaveMoves, DetailsMoves, CommitMoves, HostMoves,
     GoesOnMoves DEF Moves
<1>3. ~ UNCHANGED proc
  OBVIOUS
<1>4. QED
  BY <1>1, <1>2, <1>3
     DEF Next, post_request, Step, get_tunnel_details, post_report,
         delete_tunnel, Call, Answered, Refused, Fails, request_lost, GivesUp,
         Retries, CommandFails, Device!ConnectFails, Device!CommandSkipped,
         Device!Aborts, Reboot, Device!Reboot, AdminStops, AdminPosts,
         CommitUnattended, RequestDies, Expire, device, Processes

(* The details a process uses are those it was told.                       *)
LEMMA DetailsUsed ==
    ASSUME SInv, Next, NEW p \in Processes, At(p, "details"), Calm,
           proc'[p].pc = "user"
    PROVE  reply[p] # None /\ db'[Tunnel(p)].server = reply[p]
<1>1. reply[p] # None
  BY LetInByReply
<1>2. proc'[p] # proc[p]
  BY DEF At
<1>3. use_tunnel_details(p)
  <2>1. ~ (Command(p) \/ cron(p) \/ gc(p) \/ save_request(p))
    BY DEF Command, cron, gc, save_request, Device!connect, Device!stop,
           Device!gc, Device!connect_approved_tunnels, Device!Start, At
  <2>2. ~ get_tunnel_details_fails(p)
    BY <1>1 DEF get_tunnel_details_fails
  <2>3. ~ commit_running(p) /\ ~ Answered(p) /\ ~ Refused(p)
    BY DEF commit_running, Device!commit_running, Answered, Refused, GoesOn,
       Device!send_connected_status_to_api, Device!notify_stopped, Device!At,
       At
  <2>4. ~ HostStep(p)
    BY <1>1 DEF HostStep, Local
  <2>5. QED
    BY <1>2, <2>1, <2>2, <2>3, <2>4, WhoMoves
<1>4. D!request_tunnel_server_details(p, reply[p])
  <2>1. ~ D!cannot_request_details(p)
    <3>1. proc \in [Processes -> D!Process]
      BY ProcTyped
    <3>2. D!Done(p) => proc'[p].pc # "user"
      BY <3>1 DEF D!Done, D!Rest, D!Idle, D!Working
    <3>3. QED
      BY <3>2 DEF D!cannot_request_details
  <2>2. QED
    BY <1>3, <2>1, SameConnect DEF use_tunnel_details
<1>5. Tunnel(p) \in DOMAIN db /\ db[Tunnel(p)] \in D!Row
  BY ProcTyped DEF SInv, D!DInv, D!TableOK, D!ProcessOK, At, Tunnel
<1>6. QED
  BY <1>1, <1>4, <1>5
     DEF D!request_tunnel_server_details, D!Tunnel, Tunnel, D!Row

(* A process that reports, or has stopped its tunnel, goes on when it is   *)
(* answered.                                                               *)
LEMMA WaitsForAnswer ==
    ASSUME SInv, Next, Calm, NEW p \in Processes,
           At(p, "report") \/ At(p, "notify"), proc'[p] # proc[p]
    PROVE  Answered(p) \/ Refused(p)
<1>1. ~ (Command(p) \/ cron(p) \/ gc(p) \/ save_request(p))
  BY DEF Command, cron, gc, save_request, Device!connect, Device!stop,
         Device!gc, Device!connect_approved_tunnels, Device!Start, At
<1>2. ~ use_tunnel_details(p) /\ ~ get_tunnel_details_fails(p)
  BY DEF use_tunnel_details, get_tunnel_details_fails, Device!At, At,
         Device!request_tunnel_server_details, Device!cannot_request_details
<1>3. ~ commit_running(p)
  BY DEF commit_running, Device!commit_running, Device!At, At
<1>4. ~ HostStep(p)
  BY DEF HostStep, At, Device!At, Device!Take, Device!create_user,
         Device!record_user, Device!add_authorized_key, Device!load_row,
         Device!write_wireguard_config, Device!enable_wireguard_tunnel,
         Device!start_wireguard_tunnel, Device!undo_start, Device!undo_enable,
         Device!load_stopped_row, Device!delete_user, Device!stop_unit,
         Device!disable_unit, Device!remove_config, Device!commit_closed
<1>5. QED
  BY <1>1, <1>2, <1>3, <1>4, WhoMoves

(* How the rows of the API change, and the requests it serves.             *)
LEMMA RowsMove ==
    ASSUME SInv, Next
    PROVE  /\ expired \subseteq expired'
           /\ \A t \in DOMAIN table' :
                 \/ t \in DOMAIN table /\ table'[t] = table[t]
                 \/ t \notin DOMAIN table /\ table'[t] = Api!NewRow
                 \/ /\ t \in DOMAIN table
                    /\ \E w \in DOMAIN txn :
                          /\ txn[w].tunnel_id = t
                          /\ w \notin DOMAIN txn'
                          /\ table'[t] = Api!Flushed(table[t], txn[w])
<1>1. [Api!Next]_api
  BY StepsOfBoth
<1>2. CASE \E w \in Workers : Api!Commit(w)
  BY <1>2 DEF Api!Commit, Api!Without
<1>3. CASE \E t \in Tunnels : Api!request_tunnel(t)
  BY <1>3 DEF Api!request_tunnel
<1>4. CASE UNCHANGED table /\ expired \subseteq expired'
  BY <1>4
<1>5. QED
  BY <1>1, <1>2, <1>3, <1>4
     DEF api, Api!Next, Api!Handle, Api!post_tunnel_details,
         Api!admin_stop_tunnel, Api!set_tunnel_details_from_device,
         Api!device_stop_tunnel, Api!Begin, Api!Rollback, Api!Expire

LEMMA RequestsMove ==
    ASSUME SInv, Next, NEW w \in DOMAIN txn'
    PROVE  \/ w \in DOMAIN txn /\ txn'[w] = txn[w]
           \/ /\ w \in Workers \ DOMAIN txn
              /\ \/ \E p \in Processes :
                       post_report(p, w) \/ delete_tunnel(p, w)
                 \/ \E t \in Tunnels :
                       \/ AdminStops(w, t)
                       \/ \E l \in Launches : AdminPosts(w, t, l)
<1>1. CASE UNCHANGED txn
  BY <1>1
<1>2. CASE \E v : Api!Commit(v) \/ Api!Rollback(v)
  BY <1>2 DEF Api!Commit, Api!Rollback, Api!Without
<1>3. ASSUME NEW v \in Workers,
             \/ \E p \in Processes : post_report(p, v) \/ delete_tunnel(p, v)
             \/ \E t \in Tunnels : \/ AdminStops(v, t)
                                  \/ \E l \in Launches : AdminPosts(v, t, l)
      PROVE  IF w = v THEN w \notin DOMAIN txn
             ELSE w \in DOMAIN txn /\ txn'[w] = txn[w]
  <2>1. /\ v \notin DOMAIN txn /\ DOMAIN txn' = DOMAIN txn \cup {v}
        /\ \A u \in DOMAIN txn : txn'[u] = txn[u]
    <3>1. CASE \E p \in Processes : post_report(p, v) \/ delete_tunnel(p, v)
      BY <3>1, CallMoves
    <3>2. CASE \E t \in Tunnels : \/ AdminStops(v, t)
                                \/ \E l \in Launches : AdminPosts(v, t, l)
      BY <3>2, AdminMoves
    <3>3. QED
      BY <1>3, <3>1, <3>2
  <2>2. QED
    BY <2>1
<1>4. QED
  BY <1>1, <1>2, <1>3
     DEF Next, post_request, Api!request_tunnel, Command, cron, gc, Local,
         Step, save_request, get_tunnel_details, use_tunnel_details,
         get_tunnel_details_fails, commit_running, HostStep, Answered,
         Refused, Fails, request_lost, GivesUp, Retries, CommandFails,
         Reboot, CommitUnattended, RequestDies, Expire, Api!Expire, api

(* A request that has just begun.                                          *)
LEMMA RequestBegins ==
    ASSUME SInv, Next, NEW w \in DOMAIN txn', w \notin DOMAIN txn
    PROVE  /\ txn'[w].tunnel_id \in DOMAIN table
           /\ txn'[w].loaded = table[txn'[w].tunnel_id]
           /\ UNCHANGED table
           /\ \/ /\ txn'[w].new.support_user
                       = table[txn'[w].tunnel_id].support_user
                 /\ txn'[w].new.state # running
              \/ \E p \in Processes :
                    /\ At(p, "report")
                    /\ txn'[w].tunnel_id = Tunnel(p)
                    /\ txn'[w].new.support_user = reply[p]
<1>1. ASSUME NEW t, NEW new, t \in DOMAIN table, Api!Begin(w, t, new)
      PROVE  /\ txn'[w] = [tunnel_id |-> t, loaded |-> table[t], new |-> new]
             /\ UNCHANGED table
             /\ table[t] \in Api!Row
  BY <1>1 DEF Api!Begin, SInv, Api!TypeOK
<1>2. ASSUME NEW p \in Processes, post_report(p, w)
      PROVE  /\ At(p, "report") /\ Tunnel(p) \in DOMAIN table
             /\ Api!Begin(w, Tunnel(p),
                          Api!WithConnection(table[Tunnel(p)], reply[p]))
  BY <1>2 DEF post_report, Api!set_tunnel_details_from_device, Api!Authorized
<1>3. ASSUME NEW row \in Api!Row, NEW u
      PROVE  Api!WithConnection(row, u).support_user = u
  BY DEF Api!WithConnection, Api!Row
<1>4. ASSUME NEW p \in Processes, delete_tunnel(p, w)
      PROVE  /\ Tunnel(p) \in DOMAIN table
             /\ Api!Begin(w, Tunnel(p), Api!StoppedByDevice(table[Tunnel(p)]))
  BY <1>4 DEF delete_tunnel, Api!device_stop_tunnel, Api!Authorized
<1>5. ASSUME NEW t \in Tunnels, AdminStops(w, t)
      PROVE  /\ t \in DOMAIN table
             /\ Api!Begin(w, t, Api!StoppedByAdmin(table[t], t \in expired))
  BY <1>5 DEF AdminStops, Api!admin_stop_tunnel
<1>6. ASSUME NEW t \in Tunnels, NEW l \in Launches, AdminPosts(w, t, l)
      PROVE  /\ t \in DOMAIN table
             /\ Api!Begin(w, t, Api!WithDetails(table[t], l))
  BY <1>6 DEF AdminPosts, Api!post_tunnel_details
<1>7. ASSUME NEW row \in Api!Row
      PROVE  /\ Api!StoppedByDevice(row).support_user = row.support_user
             /\ Api!StoppedByDevice(row).state # running
             /\ \A e : /\ Api!StoppedByAdmin(row, e).support_user
                              = row.support_user
                       /\ Api!StoppedByAdmin(row, e).state # running
             /\ \A l : /\ Api!WithDetails(row, l).support_user
                              = row.support_user
                       /\ Api!WithDetails(row, l).state # running
  BY DEF Api!StoppedByDevice, Api!StoppedByAdmin, Api!WithDetails, Api!Row,
         running, Api!started, Api!completed, Api!timedout
<1>8. QED
  <2>1. CASE \E p \in Processes : post_report(p, w)
    BY <1>1, <1>2, <1>3, <2>1
  <2>2. CASE \E p \in Processes : delete_tunnel(p, w)
    BY <1>1, <1>4, <1>7, <2>2
  <2>3. CASE \E t \in Tunnels : AdminStops(w, t)
    BY <1>1, <1>5, <1>7, <2>3
  <2>4. CASE \E t \in Tunnels, l \in Launches : AdminPosts(w, t, l)
    BY <1>1, <1>6, <1>7, <2>4
  <2>5. QED
    BY <2>1, <2>2, <2>3, <2>4, RequestsMove

(* Who begins to wait, and for what.                                       *)
LEMMA WaitBegins ==
    ASSUME SInv, Next, NEW p \in Processes, awaited'[p] # None
    PROVE  \/ awaited'[p] = awaited[p]
           \/ /\ post_report(p, awaited'[p]) \/ delete_tunnel(p, awaited'[p])
              /\ awaited'[p] \in Workers
<1>1. awaited \in [Processes -> DOMAIN txn \cup {None}]
  BY DEF SInv, CallsOK
<1>2. CASE UNCHANGED awaited
  BY <1>2
<1>3. CASE \E q \in Processes : awaited' = [awaited EXCEPT ![q] = None]
  BY <1>1, <1>3
<1>4. ASSUME NEW q \in Processes, NEW w \in Workers,
             post_report(q, w) \/ delete_tunnel(q, w)
      PROVE  IF q = p THEN awaited'[p] = w ELSE awaited'[p] = awaited[p]
  BY <1>1, <1>4 DEF post_report, delete_tunnel, Call
<1>5. QED
  BY <1>1, <1>2, <1>3, <1>4
     DEF Next, post_request, Command, cron, gc, Local, Step, save_request,
         get_tunnel_details, use_tunnel_details, get_tunnel_details_fails,
         commit_running, HostStep, Answered, Refused, GoesOn, Fails,
         request_lost, GivesUp, Retries, CommandFails, Reboot, AdminStops,
         AdminPosts, CommitUnattended, RequestDies, Expire, calls

-----------------------------------------------------------------------------
(* The inductive invariant.                                                *)

Key(t) == IF t \in DOMAIN table THEN table[t].ts_wg_public_key ELSE None

Doomed(t) ==
    \/ t \in expired
    \/ t \in DOMAIN table /\ table[t].state \in Closed
    \/ D!Stopping(t)

(* What process p has been told of t.                                      *)
Hears(p, t) ==
    /\ At(p, "details") => reply[p] \in {None, Key(t)}
    /\ At(p, "report") => D!Admits(reply[p], t, Key(t))

(* What a row of the API, stored or about to be, says of t.                *)
Says(row, t) ==
    /\ row.support_user # None => D!Admits(row.support_user, t, Key(t))
    /\ row.state = running => t \in active

Stored(t) ==
    /\ t \in DOMAIN table => Says(table[t], t)
    /\ \A w \in DOMAIN txn : txn[w].tunnel_id = t => Says(txn[w].new, t)

Steady(t) ==
    /\ D!Connected(t, Key(t))
    /\ \A p \in Processes : Tunnel(p) = t => Hears(p, t)
    /\ Stored(t)

(* A process waits for its report or for the DELETE of the tunnel it has   *)
(* stopped; a request that has loaded a closed row finds it closed.        *)
WaitsRightly(p) ==
    awaited[p] # None =>
        \/ At(p, "report")
        \/ /\ At(p, "notify")
           /\ txn[awaited[p]].tunnel_id = Tunnel(p)
           /\ txn[awaited[p]].new.state = completed

LoadedClosed ==
    \A w \in DOMAIN txn :
        txn[w].loaded.state \in Closed
            => table[txn[w].tunnel_id].state \in Closed

Undisturbed ==
    /\ \A p \in Processes : WaitsRightly(p)
    /\ LoadedClosed
    /\ \A t \in Tunnels : Doomed(t) \/ Steady(t)

BInv == SInv /\ (Disturbed \/ Undisturbed)

LEMMA InitBInv == Init => BInv
<1> SUFFICES ASSUME Init PROVE BInv
  OBVIOUS
<1>1. SInv
  BY SInitially
<1>2. DOMAIN table = {} /\ DOMAIN txn = {}
  BY DEF Init, Api!Init
<1>3. \A p \in Processes : At(p, "idle") /\ awaited[p] = None
  BY DEF Init, Device!Init, Device!Idle, Device!Processes, Processes, At
<1>4. ASSUME NEW t \in Tunnels PROVE Steady(t)
  <2>1. D!Connected(t, Key(t))
    BY SameDeviceInit, D!InitConnected, NoneIsNothing, FaultsAreBounded,
       OwnProcesses DEF Init
  <2>2. QED
    BY <1>2, <1>3, <2>1 DEF Steady, Hears, Stored, At
<1>5. QED
  BY <1>1, <1>2, <1>3, <1>4 DEF BInv, Undisturbed, WaitsRightly, LoadedClosed

-----------------------------------------------------------------------------
(* The requests.                                                           *)

LEMMA LoadedClosedKept ==
    ASSUME SInv, Next, ClosedForGood, LoadedClosed
    PROVE  LoadedClosed'
<1>1. ASSUME NEW w \in DOMAIN txn', txn'[w].loaded.state \in Closed
      PROVE  table'[txn'[w].tunnel_id].state \in Closed
  <2>1. CASE w \in DOMAIN txn /\ txn'[w] = txn[w]
    <3>1. txn[w].tunnel_id \in DOMAIN table
      BY <2>1 DEF SInv, Api!TypeOK
    <3>2. QED
      BY <1>1, <2>1, <3>1 DEF LoadedClosed, ClosedForGood
  <2>2. CASE w \notin DOMAIN txn
    BY <1>1, <2>2, RequestBegins
  <2>3. QED
    BY <2>1, <2>2, RequestsMove
<1>2. QED
  BY <1>1 DEF LoadedClosed

LEMMA WaitsKept ==
    ASSUME SInv, SInv', Next, Calm, NEW p \in Processes, WaitsRightly(p)
    PROVE  WaitsRightly(p)'
<1>1. SUFFICES ASSUME awaited'[p] # None PROVE WaitsRightly(p)'
  BY DEF WaitsRightly
<1>2. PICK w \in DOMAIN txn' : w = awaited'[p]
  BY <1>1 DEF SInv, CallsOK
<1>3. CASE awaited'[p] = awaited[p]
  <2>1. w \in DOMAIN txn
    BY <1>1, <1>2, <1>3 DEF SInv, CallsOK
  <2>2. txn'[w] = txn[w]
    BY <1>2, <2>1, RequestsMove
  <2>3. proc'[p] = proc[p]
    <3>1. ~ Answered(p) /\ ~ Refused(p)
      BY <1>1 DEF Answered, Refused, GoesOn, SInv, CallsOK
    <3>2. QED
      BY <1>1, <1>3, <3>1, WaitsForAnswer DEF WaitsRightly
  <2>4. QED
    BY <1>1, <1>2, <1>3, <2>2, <2>3 DEF WaitsRightly, At, Tunnel
<1>4. CASE w \in Workers /\ post_report(p, w)
  BY <1>4 DEF post_report, Call, device, WaitsRightly, At
<1>5. CASE w \in Workers /\ delete_tunnel(p, w)
  <2>1. At(p, "notify") /\ UNCHANGED proc
    BY <1>5 DEF delete_tunnel, Call, device
  <2>2. /\ txn'[w].tunnel_id = Tunnel(p)
        /\ txn'[w].new = Api!StoppedByDevice(table[Tunnel(p)])
    BY <1>5 DEF delete_tunnel, Api!device_stop_tunnel, Api!Begin
  <2>3. table[Tunnel(p)] \in Api!Row
    BY <1>5 DEF delete_tunnel, Api!device_stop_tunnel, Api!Authorized, SInv,
       Api!TypeOK
  <2>4. txn'[w].new.state = completed
    BY <2>2, <2>3 DEF Api!StoppedByDevice, Api!Row, Api!completed, completed
  <2>5. QED
    BY <1>2, <2>1, <2>2, <2>4 DEF WaitsRightly, At, Tunnel
<1>6. QED
  BY <1>1, <1>2, <1>3, <1>4, <1>5, WaitBegins

(* Doom is final: a stop ends in the tunnel being closed.                  *)
LEMMA DoomStays ==
    ASSUME SInv, Next, Calm, ClosedForGood, LoadedClosed,
           \A p \in Processes : WaitsRightly(p),
           NEW t \in Tunnels, Doomed(t)
    PROVE  Doomed(t)'
<1>1. CASE t \in expired
  BY <1>1, RowsMove DEF Doomed
<1>2. DOMAIN table \subseteq DOMAIN table'
  BY StepsOfBoth, BothStep
<1>3. CASE t \in DOMAIN table /\ table[t].state \in Closed
  BY <1>2, <1>3 DEF Doomed, ClosedForGood
<1>4. ASSUME NEW p \in Processes, Tunnel(p) = t, proc[p].pc \in D!StopSteps
      PROVE  Doomed(t)'
  <2>1. \/ proc'[p].pc \in D!StopSteps /\ proc'[p].tunnel = t
        \/ At(p, "notify")
        \/ t \in expired
    BY <1>4, StepsOfBoth, D!StopGoesOn, NoneIsNothing, FaultsAreBounded,
       OwnProcesses, ProcTyped DEF SInv, Calm, D!Tunnel, Tunnel, D!At, At
  <2>2. CASE proc'[p].pc \in D!StopSteps /\ proc'[p].tunnel = t
    BY <2>2, ProcTyped DEF Doomed, D!Stopping, D!Tunnel
  <2>3. CASE At(p, "notify") /\ proc'[p] = proc[p]
    BY <1>4, <2>2, <2>3 DEF Tunnel
  <2>4. CASE At(p, "notify") /\ Answered(p)
    <3>1. PICK w : w = awaited[p] /\ w # None
      BY <2>4 DEF Answered
    <3>2. /\ w \in DOMAIN txn /\ txn[w].tunnel_id = t
          /\ txn[w].new.state = completed
      BY <1>4, <2>4, <3>1 DEF WaitsRightly, SInv, CallsOK, At
    <3>3. t \in DOMAIN table
      BY <3>2 DEF SInv, Api!TypeOK
    <3>4. table'[t] = Api!Flushed(table[t], txn[w])
      BY <2>4, <3>1, <3>2, <3>3 DEF Answered, Api!Commit
    <3>5. table'[t].state = IF completed # txn[w].loaded.state THEN completed
                            ELSE table[t].state
      BY <3>2, <3>4 DEF Api!Flushed, Api!Written
    <3>6. table'[t].state \in Closed
      BY <3>2, <3>5 DEF LoadedClosed, Closed
    <3>7. QED
      BY <1>2, <3>3, <3>6 DEF Doomed
  <2>5. CASE At(p, "notify") /\ Refused(p)
    <3>1. ~ Api!Authorized(t)
      BY <1>4, <2>5 DEF Refused, At
    <3>2. t \in DOMAIN table
      BY <1>4, ProcTyped
      DEF SInv, D!DInv, D!ProcessOK, D!StopSteps, Tunnel
    <3>3. QED
      BY <1>1, <3>1, <3>2 DEF Api!Authorized
  <2>6. QED
    BY <1>1, <2>1, <2>2, <2>3, <2>4, <2>5, WaitsForAnswer
<1>5. QED
  BY <1>1, <1>3, <1>4, ProcTyped DEF Doomed, D!Stopping, D!Tunnel, Tunnel

-----------------------------------------------------------------------------
(* A tunnel that is not doomed stays steady.                               *)

(* What is on the device stays, of the launch the row has been given.      *)
LEMMA ConnectionStays ==
    ASSUME SInv, Next, Calm, LaunchedOnce,
           NEW t \in Tunnels, Steady(t), ~ Doomed(t)
    PROVE  /\ Key(t) # None => Key(t)' = Key(t)
           /\ D!Connected(t, Key(t))'
           /\ \A u : D!Admits(u, t, Key(t)) => D!Admits(u, t, Key(t))'
           /\ t \in active => t \in active'
<1>1. PICK k : k = Key(t)
  OBVIOUS
<1>2. PICK k2 : k2 = Key(t)'
  OBVIOUS
<1>3. k # None => k2 = k
  <2>1. DOMAIN table \subseteq DOMAIN table'
    BY StepsOfBoth, BothStep
  <2>2. QED
    BY <1>1, <1>2, <2>1 DEF Key, LaunchedOnce
<1>4. D!Connected(t, k) /\ ~ D!Stopping(t)
  BY <1>1 DEF Steady, Doomed
<1>5. ASSUME NEW p \in Processes PROVE D!GivenOnly(p, t, k)
  <2>1. SUFFICES ASSUME Tunnel(p) = t, At(p, "details"),
                        proc'[p].pc = "user"
                 PROVE  k # None /\ db'[t].server = k
    BY DEF D!GivenOnly, D!Tunnel, D!At, Tunnel, At
  <2>2. reply[p] # None /\ db'[t].server = reply[p]
    BY <2>1, DetailsUsed
  <2>3. reply[p] = k
    BY <1>1, <2>1, <2>2 DEF Steady, Hears
  <2>4. QED
    BY <2>2, <2>3
<1>6. /\ D!Connected(t, k)'
      /\ \A u : D!Admits(u, t, k) => D!Admits(u, t, k)'
      /\ t \in active => t \in active'
  BY <1>4, <1>5, StepsOfBoth, D!ConnectedStays, NoneIsNothing,
     FaultsAreBounded, OwnProcesses, ProcTyped DEF SInv, Calm
<1>7. D!Connected(t, k2)'
  BY <1>3, <1>6, D!ConnectedAnew, NoneIsNothing, FaultsAreBounded,
     OwnProcesses
<1>8. \A u : D!Admits(u, t, k) => k # None
  BY DEF D!Admits
<1>9. QED
  BY <1>1, <1>2, <1>3, <1>6, <1>7, <1>8

LEMMA SaysStays ==
    ASSUME SInv, Next, Calm, LaunchedOnce,
           NEW t \in Tunnels, Steady(t), ~ Doomed(t), NEW row, Says(row, t)
    PROVE  Says(row, t)'
<1>1. row.support_user # None => D!Admits(row.support_user, t, Key(t))'
  BY ConnectionStays DEF Says
<1>2. row.state = running => t \in active'
  BY ConnectionStays DEF Says
<1>3. QED
  BY <1>1, <1>2 DEF Says

LEMMA HearsStays ==
    ASSUME SInv, SInv', Next, Calm, LaunchedOnce,
           NEW t \in Tunnels, Steady(t), ~ Doomed(t),
           NEW p \in Processes, proc'[p].tunnel = t
    PROVE  Hears(p, t)'
<1>1. ASSUME proc'[p].pc = "details", reply'[p] # None
      PROVE  reply'[p] = Key(t)'
  <2>1. CASE reply'[p] = reply[p] /\ proc'[p] = proc[p]
    <3>1. reply[p] = Key(t)
      BY <1>1, <2>1 DEF Steady, Hears, At, Tunnel
    <3>2. QED
      BY <1>1, <2>1, <3>1, ConnectionStays
  <2>2. CASE get_tunnel_details(p)
    <3>1. /\ Tunnel(p) = t /\ t \in DOMAIN table
          /\ reply'[p] = table[t].ts_wg_public_key
          /\ UNCHANGED table
      BY <2>2 DEF get_tunnel_details, Told, device, api, Tunnel,
         Api!Authorized, SInv, RepliesOK
    <3>2. QED
      BY <3>1 DEF Key
  <2>3. CASE commit_running(p)
    BY <1>1, <2>3, CommitMoves
  <2>4. QED
    BY <1>1, <2>1, <2>2, <2>3, RepliesWait
<1>2. ASSUME proc'[p].pc = "report"
      PROVE  D!Admits(reply[p], t, Key(t))'
  <2>1. PICK u : u = reply'[p]
    OBVIOUS
  <2>2. u \in SupportUsers /\ u # None
    BY <1>2, <2>1, NoneIsNothing DEF SInv, RepliesOK, ReplyOK, At
  <2>3. D!Admits(u, t, Key(t))
    <3>1. CASE reply'[p] = reply[p] /\ proc'[p] = proc[p]
      BY <1>2, <2>1, <3>1 DEF Steady, Hears, At, Tunnel
    <3>2. CASE get_tunnel_details(p)
      BY <1>2, <3>2 DEF get_tunnel_details, device, At
    <3>3. CASE commit_running(p)
      <4>1. D!commit_running(p)
        BY <3>3, SameConnect DEF commit_running
      <4>2. Tunnel(p) = t /\ proc[p].pc = "commit"
        BY <4>1, ProcTyped DEF D!commit_running, D!At, Tunnel
      <4>3. t \in DOMAIN db /\ db[t].support_user # None
        BY <4>2, ProcTyped
        DEF SInv, D!DInv, D!ProcessOK, D!Recorded, D!ConnectSteps, Tunnel
      <4>4. u = db[t].support_user
        BY <2>1, <3>3, <4>2
        DEF commit_running, Told, SInv, RepliesOK
      <4>5. QED
        BY <4>3, <4>4 DEF Steady, D!Connected, D!Wired
    <3>4. QED
      BY <1>2, <2>1, <2>2, <3>1, <3>2, <3>3, RepliesWait
  <2>4. D!Admits(u, t, Key(t))'
    BY <2>3, ConnectionStays
  <2>5. QED
    BY <2>1, <2>4
<1>3. QED
  BY <1>1, <1>2 DEF Hears, At

LEMMA StoredStays ==
    ASSUME SInv, SInv', Next, Calm, LaunchedOnce,
           NEW t \in Tunnels, Steady(t), ~ Doomed(t)
    PROVE  Stored(t)'
<1>1. ASSUME t \in DOMAIN table'
      PROVE  Says(table[t], t)'
  <2>1. PICK row : row = table'[t]
    OBVIOUS
  <2>2. CASE t \in DOMAIN table /\ row = table[t]
    <3>1. Says(row, t)
      BY <2>2 DEF Steady, Stored
    <3>2. Says(row, t)'
      BY <3>1, SaysStays
    <3>3. QED
      BY <2>1, <3>2
  <2>3. CASE row = Api!NewRow
    <3>1. row.support_user = None /\ row.state # running
      BY <2>3 DEF Api!NewRow, Api!pending, running
    <3>2. QED
      BY <2>1, <3>1 DEF Says
  <2>4. ASSUME t \in DOMAIN table, NEW w \in DOMAIN txn,
               txn[w].tunnel_id = t,
               row = Api!Flushed(table[t], txn[w])
        PROVE  Says(table[t], t)'
    <3>1. PICK old : old = table[t]
      OBVIOUS
    <3>2. PICK new : new = txn[w].new
      OBVIOUS
    <3>3. /\ row.support_user \in {old.support_user, new.support_user}
          /\ row.state \in {old.state, new.state}
      BY <2>4, <3>1, <3>2 DEF Api!Flushed, Api!Written
    <3>4. Says(old, t) /\ Says(new, t)
      BY <2>4, <3>1, <3>2 DEF Steady, Stored
    <3>5. Says(row, t)
      BY <3>3, <3>4 DEF Says
    <3>6. Says(row, t)'
      BY <3>5, SaysStays
    <3>7. QED
      BY <2>1, <3>6
  <2>5. QED
    BY <1>1, <2>1, <2>2, <2>3, <2>4, RowsMove
<1>2. ASSUME NEW w \in DOMAIN txn', txn'[w].tunnel_id = t
      PROVE  Says(txn[w].new, t)'
  <2>1. PICK row : row = txn'[w].new
    OBVIOUS
  <2>2. Says(row, t)'
    <3>1. CASE w \in DOMAIN txn /\ txn'[w] = txn[w]
      <4>1. Says(row, t)
        BY <1>2, <2>1, <3>1 DEF Steady, Stored
      <4>2. QED
        BY <4>1, SaysStays
    <3>2. CASE /\ w \notin DOMAIN txn /\ t \in DOMAIN table
               /\ row.support_user = table[t].support_user
               /\ row.state # running
      <4>1. Says(row, t)
        BY <3>2 DEF Steady, Stored, Says
      <4>2. QED
        BY <4>1, SaysStays
    <3>3. ASSUME NEW p \in Processes, At(p, "report"), Tunnel(p) = t,
                 row.support_user = reply[p]
          PROVE  Says(row, t)'
      <4>1. D!Admits(reply[p], t, Key(t))
        BY <3>3 DEF Steady, Hears
      <4>2. t \in active
        BY <3>3, ProcTyped
        DEF Steady, D!Connected, D!Serves, D!Tunnel, D!At, Tunnel, At
      <4>3. Says(row, t)
        BY <3>3, <4>1, <4>2 DEF Says
      <4>4. QED
        BY <4>3, SaysStays
    <3>4. QED
      BY <1>2, <2>1, <3>1, <3>2, <3>3, RequestsMove, RequestBegins
  <2>3. QED
    BY <2>1, <2>2
<1>3. QED
  BY <1>1, <1>2 DEF Stored

LEMMA SteadyStays ==
    ASSUME SInv, SInv', Next, Calm, LaunchedOnce,
           NEW t \in Tunnels, Steady(t), ~ Doomed(t)
    PROVE  Steady(t)'
<1>1. D!Connected(t, Key(t))'
  BY ConnectionStays
<1>2. ASSUME NEW p \in Processes, proc'[p].tunnel = t
      PROVE  Hears(p, t)'
  BY <1>2, HearsStays
<1>3. Stored(t)'
  BY StoredStays
<1>4. QED
  BY <1>1, <1>2, <1>3 DEF Steady, Tunnel

-----------------------------------------------------------------------------
(* The theorem.                                                            *)

LEMMA NextBInv ==
    ASSUME BInv, [Next /\ ClosedForGood /\ LaunchedOnce]_vars
    PROVE  BInv'
<1>1. SInv'
  BY SNextInv DEF BInv
<1>2. CASE UNCHANGED vars
  <2>1. /\ UNCHANGED <<table, expired, txn, db, accounts, conf, enabled,
                       active, link, proc, faults, awaited, reply, lost>>
    BY <1>2 DEF vars, api, device, calls
  <2>2. Disturbed => Disturbed'
    BY <2>1 DEF Disturbed
  <2>3. LoadedClosed /\ (\A p \in Processes : WaitsRightly(p))
           => LoadedClosed' /\ (\A p \in Processes : WaitsRightly(p)')
    BY <2>1 DEF LoadedClosed, WaitsRightly, At, Tunnel
  <2>4. ASSUME NEW t \in Tunnels
        PROVE  /\ Doomed(t) => Doomed(t)'
               /\ Steady(t) => Steady(t)'
    <3>1. Doomed(t) => Doomed(t)'
      BY <2>1 DEF Doomed, D!Stopping, D!Tunnel
    <3>2. Steady(t) => Steady(t)'
      BY <2>1 DEF Steady, Hears, Stored, Says, Key, D!Connected, D!Wired,
         D!Serves, D!Admits, D!Own, D!Tunnel, D!At, Tunnel, At
    <3>3. QED
      BY <3>1, <3>2
  <2>5. QED
    BY <1>1, <2>2, <2>3, <2>4 DEF BInv, Undisturbed
<1>3. CASE Next /\ ClosedForGood /\ LaunchedOnce /\ ~ Disturbed'
  <2>1. Calm /\ ~ Disturbed
    BY <1>3, CalmStep DEF BInv
  <2>2. Undisturbed
    BY <2>1 DEF BInv
  <2>3. LoadedClosed'
    BY <1>3, <2>2, LoadedClosedKept DEF BInv, Undisturbed
  <2>4. ASSUME NEW p \in Processes PROVE WaitsRightly(p)'
    BY <1>1, <1>3, <2>1, <2>2, WaitsKept DEF BInv, Undisturbed
  <2>5. ASSUME NEW t \in Tunnels PROVE Doomed(t)' \/ Steady(t)'
    <3>1. CASE Doomed(t)
      BY <1>3, <2>1, <2>2, <3>1, DoomStays DEF BInv, Undisturbed
    <3>2. CASE ~ Doomed(t) /\ Steady(t)
      BY <1>1, <1>3, <2>1, <3>2, SteadyStays DEF BInv
    <3>3. QED
      BY <2>2, <3>1, <3>2 DEF Undisturbed
  <2>6. Undisturbed'
    BY <2>3, <2>4, <2>5 DEF Undisturbed
  <2>7. QED
    BY <1>1, <2>6 DEF BInv
<1>4. QED
  BY <1>1, <1>2, <1>3 DEF BInv

LEMMA SteadyCanBeConnected == BInv => RunningCanBeConnected
<1>1. SUFFICES ASSUME BInv, AtRest, ~ Disturbed,
                      NEW t \in DOMAIN table \ expired,
                      table[t].state = running
               PROVE  CanConnect(t)
  BY DEF RunningCanBeConnected
<1>2. t \in Tunnels /\ table[t] \in Api!Row
  BY <1>1 DEF BInv, SInv, Api!TypeOK
<1>3. \A p \in Processes :
         proc[p].pc \notin D!StopSteps /\ ~ D!At(p, "authorize")
  BY <1>1 DEF AtRest, At, D!StopSteps, D!At
<1>4. ~ Doomed(t)
  <2>1. running \notin Closed
    BY DEF running, Closed, completed, timedout
  <2>2. QED
    BY <1>1, <1>3, <2>1, ProcTyped DEF Doomed, D!Stopping, BInv
<1>5. Steady(t)
  BY <1>1, <1>2, <1>4 DEF BInv, Undisturbed
<1>6. table[t].support_user # None
  <2>1. P!RowOK(t, table[t])
    BY <1>1 DEF BInv, SInv, P!IInv
  <2>2. QED
    BY <1>1, <2>1 DEF P!RowOK, P!running, running
<1>7. Key(t) = table[t].ts_wg_public_key
  BY DEF Key
<1>8. D!Admits(table[t].support_user, t, Key(t)) /\ t \in active
  BY <1>1, <1>5, <1>6 DEF Steady, Stored, Says
<1>9. /\ table[t].support_user \in DOMAIN accounts
      /\ accounts[table[t].support_user] = Key(t)
  BY <1>1, <1>3, <1>8, ProcTyped DEF D!Admits, D!Own, BInv
<1>10. link[t] = Key(t)
  BY <1>5, <1>8 DEF Steady, D!Connected, D!Wired
<1>11. QED
  BY <1>1, <1>7, <1>9, <1>10 DEF CanConnect

(* However commands, cron jobs, requests and answers overlap, once all is  *)
(* at rest and nothing was lost or has failed, a tunnel the API says is    *)
(* running can be logged in through: its user is on the device, lets in    *)
(* the key of its server and no other tunnel took it, and the device is    *)
(* connected to that server.  What is assumed, of every tunnel, is only    *)
(* what the runs show to be needed: it is not reopened once it was closed, *)
(* nor launched a second time.                                             *)
THEOREM RunningConnectable == OnceSpec => []RunningCanBeConnected
<1>1. Init => BInv
  BY InitBInv
<1>2. BInv /\ [Next /\ ClosedForGood /\ LaunchedOnce]_vars => BInv'
  BY NextBInv
<1>3. BInv => RunningCanBeConnected
  BY SteadyCanBeConnected
<1>4. QED
  BY <1>1, <1>2, <1>3, PTL DEF OnceSpec

-----------------------------------------------------------------------------
(* One worker and one launch.                                              *)

OneOfEach ==
    /\ \A v, w \in Workers : v = w
    /\ \A k, l \in Launches : k = l

(* A request that is served alone works on the row as it is.               *)
UpToDate ==
    \A w \in DOMAIN txn : txn[w].loaded = table[txn[w].tunnel_id]

LEMMA UpToDateStays ==
    ASSUME OneOfEach, SInv, SInv', Next, UpToDate
    PROVE  UpToDate'
<1>1. ASSUME NEW w \in DOMAIN txn', w \in DOMAIN txn, txn'[w] = txn[w]
      PROVE  table'[txn[w].tunnel_id] = table[txn[w].tunnel_id]
  <2>1. txn[w].tunnel_id \in DOMAIN table
    BY <1>1 DEF SInv, Api!TypeOK
  <2>2. txn[w].tunnel_id \in DOMAIN table'
    BY <2>1, StepsOfBoth, BothStep
  <2>3. DOMAIN txn \subseteq Workers
    BY DEF SInv, Api!TypeOK
  <2>4. \A v \in DOMAIN txn : v = w
    BY <1>1, <2>3 DEF OneOfEach
  <2>5. QED
    BY <1>1, <2>1, <2>2, <2>4, RowsMove
<1>2. ASSUME NEW w \in DOMAIN txn'
      PROVE  txn'[w].loaded = table'[txn'[w].tunnel_id]
  BY <1>1, <1>2, RequestsMove, RequestBegins DEF UpToDate
<1>3. QED
  BY <1>2 DEF UpToDate

(* So it never reopens a closed tunnel.                                    *)
LEMMA NothingReopens ==
    ASSUME SInv, [Next]_vars, UpToDate
    PROVE  ClosedForGood
<1>1. ASSUME NEW t \in DOMAIN table, table[t].state \in Closed
      PROVE  t \notin Api!Admitted
  <2>1. ASSUME NEW w \in DOMAIN txn, Api!Reopens(txn[w], t) PROVE FALSE
    <3>1. P!TransactionOK(txn[w])
      BY DEF SInv, P!IInv
    <3>2. txn[w].loaded.state \in Closed
      BY <1>1, <2>1 DEF UpToDate, Api!Reopens
    <3>3. QED
      BY <2>1, <3>1, <3>2, SameStates
      DEF P!TransactionOK, P!Assigned, Api!Reopens
  <2>2. QED
    BY <2>1 DEF Api!Admitted
<1>2. QED
  BY <1>1, ApiStep, StepsOfBoth DEF SInv, ClosedForGood

(* A row that was given details keeps some.                                *)
LEMMA DetailsStay ==
    ASSUME SInv, Next, NEW t \in DOMAIN table,
           table[t].ts_wg_public_key # None
    PROVE  t \in DOMAIN table' /\ table'[t].ts_wg_public_key # None
<1>1. t \in DOMAIN table'
  BY StepsOfBoth, BothStep
<1>2. ASSUME NEW w \in DOMAIN txn, txn[w].tunnel_id = t,
             table'[t] = Api!Flushed(table[t], txn[w])
      PROVE  table'[t].ts_wg_public_key # None
  <2>1. txn[w].new.ts_wg_public_key # txn[w].loaded.ts_wg_public_key
           => txn[w].new.ts_wg_public_key # None
    BY DEF SInv, P!IInv, P!TransactionOK, P!Assigned
  <2>2. QED
    BY <1>2, <2>1 DEF Api!Flushed, Api!Written
<1>3. QED
  BY <1>1, <1>2, RowsMove

LEMMA OneLaunchOnly ==
    ASSUME OneOfEach, SInv, SInv', Next
    PROVE  LaunchedOnce
<1>1. ASSUME NEW t \in DOMAIN table, table[t].ts_wg_public_key # None
      PROVE  table'[t].ts_wg_public_key = table[t].ts_wg_public_key
  <2>1. table[t].ts_wg_public_key \in Launches
    BY <1>1 DEF SInv, Api!TypeOK, Api!Row
  <2>2. t \in DOMAIN table' /\ table'[t].ts_wg_public_key # None
    BY <1>1, DetailsStay
  <2>3. table'[t].ts_wg_public_key \in Launches
    BY <2>2 DEF SInv, Api!TypeOK, Api!Row
  <2>4. QED
    BY <2>1, <2>3 DEF OneOfEach
<1>2. QED
  BY <1>1 DEF LaunchedOnce

LEMMA OneOfEachStep ==
    ASSUME OneOfEach, BInv, UpToDate, [Next]_vars
    PROVE  BInv' /\ UpToDate'
<1>1. SInv /\ SInv'
  BY SNextInv DEF BInv
<1>2. CASE Next
  BY <1>1, <1>2, UpToDateStays, NothingReopens, OneLaunchOnly, NextBInv
<1>3. CASE UNCHANGED vars
  <2>1. UpToDate'
    BY <1>3 DEF vars, api, UpToDate
  <2>2. QED
    BY <1>3, <2>1, NextBInv
<1>4. QED
  BY <1>2, <1>3

(* With one worker and one launch nothing need be assumed of the steps:    *)
(* requests are served one after the other, so none finds the row changed  *)
(* when it commits, and RunningCanBeConnected holds of any number of       *)
(* tunnels, users and overlapping processes of the device.                 *)
THEOREM RunningConnectableInTurn ==
    OneOfEach /\ Spec => []RunningCanBeConnected
<1>1. Init => BInv /\ UpToDate
  BY InitBInv DEF Init, Api!Init, UpToDate
<1>2. OneOfEach /\ (BInv /\ UpToDate) /\ [Next]_vars => (BInv /\ UpToDate)'
  BY OneOfEachStep
<1>3. BInv => RunningCanBeConnected
  BY SteadyCanBeConnected
<1>4. OneOfEach => OneOfEach'
  BY DEF OneOfEach
<1>5. QED
  BY <1>1, <1>2, <1>3, <1>4, PTL DEF Spec
=============================================================================
