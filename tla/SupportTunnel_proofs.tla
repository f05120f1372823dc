------------------------ MODULE SupportTunnel_proofs -------------------------
(***************************************************************************)
(* Proofs about the device and the API together, for any number of         *)
(* tunnels, launches, users, workers and processes, faults and losses.     *)
(*                                                                         *)
(* Each step of SupportTunnel is a step of TunnelApi or leaves the API     *)
(* alone, and a step of DeviceCli or leaves the device alone, so what is   *)
(* proved of each alone holds for both.  The instances P and D of those    *)
(* proofs and the instances Api and Device of SupportTunnel define the     *)
(* same things under two names; the first lemmas say so.                   *)
(***************************************************************************)
EXTENDS SupportTunnel, TLAPS

P == INSTANCE TunnelApi_proofs

D == INSTANCE DeviceCli_proofs WITH expired <- expired \cap DOMAIN db

-----------------------------------------------------------------------------
(* The API.                                                                *)

LEMMA SameStates ==
    /\ Api!pending = P!pending
    /\ Api!started = P!started
    /\ Api!running = P!running
    /\ Api!completed = P!completed
    /\ Api!timedout = P!timedout
    /\ Api!Closed = P!Closed
    /\ Closed = P!Closed
    /\ completed = P!completed
    /\ timedout = P!timedout
BY DEF Api!pending, P!pending, Api!started, P!started, Api!running, P!running,
       Api!completed, P!completed, Api!timedout, P!timedout,
       Api!Closed, P!Closed, Closed, completed, timedout

LEMMA SameRows ==
    /\ Api!NewRow = P!NewRow
    /\ \A row :
          /\ Api!AcceptsDetails(row) <=> P!AcceptsDetails(row)
          /\ Api!AcceptsConnection(row) <=> P!AcceptsConnection(row)
          /\ Api!StoppedByDevice(row) = P!StoppedByDevice(row)
    /\ \A row, v :
          /\ Api!WithDetails(row, v) = P!WithDetails(row, v)
          /\ Api!WithConnection(row, v) = P!WithConnection(row, v)
          /\ Api!StoppedByAdmin(row, v) = P!StoppedByAdmin(row, v)
          /\ Api!Flushed(row, v) = P!Flushed(row, v)
BY SameStates, Zenon
   DEF Api!NewRow, P!NewRow, Api!AcceptsDetails, P!AcceptsDetails,
       Api!AcceptsConnection, P!AcceptsConnection,
       Api!StoppedByDevice, P!StoppedByDevice,
       Api!WithDetails, P!WithDetails, Api!WithConnection, P!WithConnection,
       Api!StoppedByAdmin, P!StoppedByAdmin, Api!Flushed, P!Flushed,
       Api!Written, P!Written

LEMMA SameHandlers ==
    ASSUME NEW w, NEW t
    PROVE  /\ \A l : Api!post_tunnel_details(w, t, l)
                        <=> P!post_tunnel_details(w, t, l)
           /\ Api!admin_stop_tunnel(w, t) <=> P!admin_stop_tunnel(w, t)
           /\ \A u : Api!set_tunnel_details_from_device(w, t, u)
                        <=> P!set_tunnel_details_from_device(w, t, u)
           /\ Api!device_stop_tunnel(w, t) <=> P!device_stop_tunnel(w, t)
<1>1. \A new : Api!Begin(w, t, new) <=> P!Begin(w, t, new)
  BY DEF Api!Begin, P!Begin
<1>2. Api!Authorized(t) <=> P!Authorized(t)
  BY DEF Api!Authorized, P!Authorized
<1>3. \A l : Api!post_tunnel_details(w, t, l) <=> P!post_tunnel_details(w, t, l)
  BY <1>1, SameRows DEF Api!post_tunnel_details, P!post_tunnel_details
<1>4. Api!admin_stop_tunnel(w, t) <=> P!admin_stop_tunnel(w, t)
  BY <1>1, SameRows DEF Api!admin_stop_tunnel, P!admin_stop_tunnel
<1>5. \A u : Api!set_tunnel_details_from_device(w, t, u)
                <=> P!set_tunnel_details_from_device(w, t, u)
  BY <1>1, <1>2, SameRows
     DEF Api!set_tunnel_details_from_device, P!set_tunnel_details_from_device
<1>6. Api!device_stop_tunnel(w, t) <=> P!device_stop_tunnel(w, t)
  BY <1>1, <1>2, SameRows DEF Api!device_stop_tunnel, P!device_stop_tunnel
<1>7. QED
  BY <1>3, <1>4, <1>5, <1>6

LEMMA SameNext == Api!Next <=> P!Next
<1>1. \A t : Api!request_tunnel(t) <=> P!request_tunnel(t)
  BY SameRows DEF Api!request_tunnel, P!request_tunnel
<1>2. \A t : Api!Expire(t) <=> P!Expire(t)
  BY DEF Api!Expire, P!Expire
<1>3. \A w, t : Api!Handle(w, t) <=> P!Handle(w, t)
  BY SameHandlers DEF Api!Handle, P!Handle
<1>4. \A w : Api!Commit(w) <=> P!Commit(w)
  BY SameRows DEF Api!Commit, P!Commit, Api!Without, P!Without
<1>5. \A w : Api!Rollback(w) <=> P!Rollback(w)
  BY DEF Api!Rollback, P!Rollback, Api!Without, P!Without
<1>6. QED
  BY <1>1, <1>2, <1>3, <1>4, <1>5 DEF Api!Next, P!Next

LEMMA SameInit == Api!Init <=> P!Init
BY SameRows DEF Api!Init, P!Init

LEMMA SameRowType == Api!Row = P!Row
BY DEF Api!Row, P!Row, Api!TunnelState, P!TunnelState,
       Api!pending, P!pending, Api!started, P!started, Api!running, P!running,
       Api!connected, P!connected, Api!completed, P!completed,
       Api!timedout, P!timedout

LEMMA SameTypeOK == Api!TypeOK <=> P!TypeOK
BY SameRowType DEF Api!TypeOK, P!TypeOK, Api!Transaction, P!Transaction

LEMMA SameAdmitted == Api!Admitted = P!Admitted
BY SameStates DEF Api!Admitted, P!Admitted, Api!Reopens, P!Reopens

(* What TunnelApi_proofs proves of one step of the API.                    *)
LEMMA ApiStep ==
    ASSUME P!IInv, [Api!Next]_api
    PROVE  /\ P!IInv'
           /\ Api!TypeOK'
           /\ \A t \in DOMAIN table :
                 table[t].state \in Closed /\ t \notin Api!Admitted
                     => /\ table'[t].state \in Closed
                        /\ t \notin Api!Admitted'
<1>1. P!IInv'
  BY P!NextIInv, NoneIsNothing, SameNext DEF api, P!vars
<1>2. Api!TypeOK'
  <2>1. P!TypeOK'
    BY <1>1 DEF P!IInv
  <2>2. QED
    BY <2>1, SameRowType
       DEF Api!TypeOK, P!TypeOK, Api!Transaction, P!Transaction
<1>3. CASE Api!Next
  <2>1. P!SealedStep
    BY <1>3, P!SealedStepHolds, NoneIsNothing, SameNext
  <2>2. Api!Admitted' = P!Admitted'
    BY SameStates DEF Api!Admitted, P!Admitted, Api!Reopens, P!Reopens
  <2>3. QED
    BY <1>1, <1>2, <2>1, <2>2, SameAdmitted, SameStates DEF P!SealedStep
<1>4. CASE UNCHANGED api
  BY <1>1, <1>2, <1>4 DEF api, Api!Admitted, Api!Reopens
<1>5. QED
  BY <1>3, <1>4

-----------------------------------------------------------------------------
(* The device.                                                             *)
LEMMA SameDeviceStates ==
    /\ Device!pending = D!pending
    /\ Device!running = D!running
    /\ Device!completed = D!completed
    /\ Device!timedout = D!timedout
    /\ Device!Closed = D!Closed
    /\ Device!TunnelState = D!TunnelState
    /\ Device!Processes = D!Processes
    /\ Device!host = D!host
    /\ Device!vars = D!vars
    /\ pending = D!pending
    /\ Device!ConnectSteps = D!ConnectSteps
    /\ Device!UndoSteps = D!UndoSteps
    /\ Device!Idle = D!Idle
    /\ Device!NewTunnel = D!NewTunnel
BY DEF Device!pending, D!pending, Device!started, D!started,
       Device!running, D!running, Device!connected, D!connected,
       Device!completed, D!completed, Device!timedout, D!timedout,
       Device!Closed, D!Closed, Device!TunnelState, D!TunnelState,
       Device!Processes, D!Processes, Device!host, D!host,
       Device!vars, D!vars, Device!ConnectSteps, D!ConnectSteps,
       Device!UndoSteps, D!UndoSteps, pending, Device!Idle, D!Idle,
       Device!NewTunnel, D!NewTunnel

LEMMA SameDeviceParts ==
    ASSUME NEW p
    PROVE  /\ Device!Tunnel(p) = D!Tunnel(p)
           /\ Device!Done(p) <=> D!Done(p)
           /\ \A pc : /\ Device!At(p, pc) <=> D!At(p, pc)
                      /\ Device!Goto(p, pc) <=> D!Goto(p, pc)
           /\ \A todo, c : Device!Start(p, todo, c) <=> D!Start(p, todo, c)
           /\ Device!StopUnit(p) <=> D!StopUnit(p)
           /\ Device!Rest(p) = D!Rest(p)
<1>1. Device!Tunnel(p) = D!Tunnel(p)
  BY DEF Device!Tunnel, D!Tunnel
<1>2. \A todo, c : Device!Working(todo, c) = D!Working(todo, c)
  BY SameDeviceStates DEF Device!Working, D!Working
<1>3. Device!Rest(p) = D!Rest(p)
  BY <1>2, SameDeviceStates DEF Device!Rest, D!Rest
<1>4. Device!Done(p) <=> D!Done(p)
  BY <1>3 DEF Device!Done, D!Done
<1>5. \A pc : /\ Device!At(p, pc) <=> D!At(p, pc)
              /\ Device!Goto(p, pc) <=> D!Goto(p, pc)
  BY DEF Device!At, D!At, Device!Goto, D!Goto
<1>6. \A todo, c : Device!Start(p, todo, c) <=> D!Start(p, todo, c)
  BY <1>2 DEF Device!Start, D!Start
<1>7. \A t : Device!StopUnit(t) <=> D!StopUnit(t)
  BY DEF Device!StopUnit, D!StopUnit
<1>8. QED
  BY <1>1, <1>3, <1>4, <1>5, <1>6, <1>7

LEMMA SameCommands ==
    ASSUME NEW p
    PROVE  /\ \A t : /\ Device!request(p, t) <=> D!request(p, t)
                     /\ Device!connect(p, t) <=> D!connect(p, t)
                     /\ Device!stop(p, t) <=> D!stop(p, t)
           /\ Device!connect_approved_tunnels(p)
                 <=> D!connect_approved_tunnels(p)
           /\ Device!gc(p) <=> D!gc(p)
           /\ Device!Take(p) <=> D!Take(p)
<1>1. \A t : Device!request(p, t) <=> D!request(p, t)
  BY SameDeviceStates, SameDeviceParts
     DEF Device!host, D!host, Device!request, D!request
<1>2. \A t : /\ Device!connect(p, t) <=> D!connect(p, t)
             /\ Device!stop(p, t) <=> D!stop(p, t)
  BY SameDeviceStates, SameDeviceParts
     DEF Device!host, D!host, Device!connect, D!connect, Device!stop, D!stop
<1>3. Device!connect_approved_tunnels(p) <=> D!connect_approved_tunnels(p)
  BY SameDeviceStates, SameDeviceParts
     DEF Device!host, D!host, Device!connect_approved_tunnels,
         D!connect_approved_tunnels
<1>4. Device!gc(p) <=> D!gc(p)
  BY SameDeviceStates, SameDeviceParts
     DEF Device!host, D!host, Device!gc, D!gc, Device!ToCollect, D!ToCollect
<1>5. Device!Take(p) <=> D!Take(p)
  BY SameDeviceStates, SameDeviceParts
     DEF Device!host, D!host, Device!Take, D!Take
<1>6. QED
  BY <1>1, <1>2, <1>3, <1>4, <1>5

LEMMA SameConnect ==
    ASSUME NEW p
    PROVE  /\ \A l : Device!request_tunnel_server_details(p, l)
                   <=> D!request_tunnel_server_details(p, l)
           /\ Device!cannot_request_details(p) <=> D!cannot_request_details(p)
           /\ Device!create_user(p) <=> D!create_user(p)
           /\ Device!record_user(p) <=> D!record_user(p)
           /\ Device!add_authorized_key(p) <=> D!add_authorized_key(p)
           /\ Device!load_row(p) <=> D!load_row(p)
           /\ Device!write_wireguard_config(p) <=> D!write_wireguard_config(p)
           /\ Device!enable_wireguard_tunnel(p) <=> D!enable_wireguard_tunnel(p)
           /\ Device!start_wireguard_tunnel(p) <=> D!start_wireguard_tunnel(p)
           /\ Device!undo_start(p) <=> D!undo_start(p)
           /\ Device!undo_enable(p) <=> D!undo_enable(p)
           /\ Device!commit_running(p) <=> D!commit_running(p)
           /\ Device!send_connected_status_to_api(p)
                 <=> D!send_connected_status_to_api(p)
<1>1. \A l : Device!request_tunnel_server_details(p, l)
                   <=> D!request_tunnel_server_details(p, l)
  BY SameDeviceStates, SameDeviceParts
     DEF Device!host, D!host, Device!request_tunnel_server_details,
         D!request_tunnel_server_details, Device!MayConnect, D!MayConnect
<1>2. Device!cannot_request_details(p) <=> D!cannot_request_details(p)
  BY SameDeviceStates, SameDeviceParts
     DEF Device!host, D!host, Device!cannot_request_details,
         D!cannot_request_details
<1>3. Device!create_user(p) <=> D!create_user(p)
  BY SameDeviceStates, SameDeviceParts
     DEF Device!host, D!host, Device!create_user, D!create_user, Device!Fresh,
         D!Fresh
<1>4. Device!record_user(p) <=> D!record_user(p)
  BY SameDeviceStates, SameDeviceParts
     DEF Device!host, D!host, Device!record_user, D!record_user
<1>5. Device!add_authorized_key(p) <=> D!add_authorized_key(p)
  BY SameDeviceStates, SameDeviceParts
     DEF Device!host, D!host, Device!add_authorized_key, D!add_authorized_key
<1>6. Device!load_row(p) <=> D!load_row(p)
  BY SameDeviceStates, SameDeviceParts
     DEF Device!host, D!host, Device!load_row, D!load_row
<1>7. Device!write_wireguard_config(p) <=> D!write_wireguard_config(p)
  BY SameDeviceStates, SameDeviceParts
     DEF Device!host, D!host, Device!write_wireguard_config,
         D!write_wireguard_config
<1>8. Device!enable_wireguard_tunnel(p) <=> D!enable_wireguard_tunnel(p)
  BY SameDeviceStates, SameDeviceParts
     DEF Device!host, D!host, Device!enable_wireguard_tunnel,
         D!enable_wireguard_tunnel
<1>9. Device!start_wireguard_tunnel(p) <=> D!start_wireguard_tunnel(p)
  BY SameDeviceStates, SameDeviceParts
     DEF Device!host, D!host, Device!start_wireguard_tunnel,
         D!start_wireguard_tunnel
<1>10. Device!commit_running(p) <=> D!commit_running(p)
  BY SameDeviceStates, SameDeviceParts
     DEF Device!host, D!host, Device!commit_running, D!commit_running,
         Device!Written, D!Written
<1>11. Device!send_connected_status_to_api(p)
   <=> D!send_connected_status_to_api(p)
  BY SameDeviceStates, SameDeviceParts
     DEF Device!host, D!host, Device!send_connected_status_to_api,
         D!send_connected_status_to_api
<1>12. Device!undo_start(p) <=> D!undo_start(p)
  <2>1. \A t : Device!StopUnit(t) <=> D!StopUnit(t)
    BY SameDeviceParts
  <2>2. QED
    BY <2>1, SameDeviceParts DEF Device!undo_start, D!undo_start
<1>13. Device!undo_enable(p) <=> D!undo_enable(p)
  BY SameDeviceParts DEF Device!undo_enable, D!undo_enable
<1>14. QED
  BY <1>1, <1>2, <1>3, <1>4, <1>5, <1>6, <1>7, <1>8, <1>9, <1>10, <1>11,
     <1>12, <1>13

LEMMA SameStop ==
    ASSUME NEW p
    PROVE  /\ Device!load_stopped_row(p) <=> D!load_stopped_row(p)
           /\ Device!delete_user(p) <=> D!delete_user(p)
           /\ Device!stop_unit(p) <=> D!stop_unit(p)
           /\ Device!disable_unit(p) <=> D!disable_unit(p)
           /\ Device!remove_config(p) <=> D!remove_config(p)
           /\ Device!commit_closed(p) <=> D!commit_closed(p)
           /\ Device!notify_stopped(p) <=> D!notify_stopped(p)
<1>1. Device!load_stopped_row(p) <=> D!load_stopped_row(p)
  BY SameDeviceStates, SameDeviceParts
     DEF Device!host, D!host, Device!load_stopped_row, D!load_stopped_row
<1>2. Device!delete_user(p) <=> D!delete_user(p)
  BY SameDeviceStates, SameDeviceParts
     DEF Device!host, D!host, Device!delete_user, D!delete_user,
         Device!PastUser, D!PastUser, Device!OnlyState, D!OnlyState
<1>3. Device!stop_unit(p) <=> D!stop_unit(p)
  BY SameDeviceStates, SameDeviceParts
     DEF Device!host, D!host, Device!stop_unit, D!stop_unit
<1>4. Device!disable_unit(p) <=> D!disable_unit(p)
  BY SameDeviceStates, SameDeviceParts
     DEF Device!host, D!host, Device!disable_unit, D!disable_unit
<1>5. Device!remove_config(p) <=> D!remove_config(p)
  BY SameDeviceStates, SameDeviceParts
     DEF Device!host, D!host, Device!remove_config, D!remove_config
<1>6. Device!commit_closed(p) <=> D!commit_closed(p)
  BY SameDeviceStates, SameDeviceParts
     DEF Device!host, D!host, Device!commit_closed, D!commit_closed,
         Device!ClosedRow, D!ClosedRow, Device!Written, D!Written
<1>7. Device!notify_stopped(p) <=> D!notify_stopped(p)
  BY SameDeviceStates, SameDeviceParts
     DEF Device!host, D!host, Device!notify_stopped, D!notify_stopped
<1>8. QED
  BY <1>1, <1>2, <1>3, <1>4, <1>5, <1>6, <1>7

LEMMA SameFaults ==
    ASSUME NEW p
    PROVE  /\ Device!ConnectFails(p) <=> D!ConnectFails(p)
           /\ Device!CommandSkipped(p) <=> D!CommandSkipped(p)
           /\ Device!Aborts(p) <=> D!Aborts(p)
<1>1. Device!ConnectFails(p) <=> D!ConnectFails(p)
  BY SameDeviceStates, SameDeviceParts
     DEF Device!host, D!host, Device!ConnectFails, D!ConnectFails, Device!Fault,
         D!Fault
<1>2. Device!Aborts(p) <=> D!Aborts(p)
  BY SameDeviceStates, SameDeviceParts
     DEF Device!host, D!host, Device!Aborts, D!Aborts, Device!Fault, D!Fault,
         Device!Busy, D!Busy
<1>3. Device!CommandSkipped(p) <=> D!CommandSkipped(p)
  <2>1. Device!AfterSkipped = D!AfterSkipped
    BY DEF Device!AfterSkipped, D!AfterSkipped
  <2>2. QED
    BY <2>1, SameDeviceStates, SameDeviceParts
       DEF Device!host, D!host, Device!CommandSkipped, D!CommandSkipped,
           Device!Fault, D!Fault, Device!PastUser, D!PastUser,
           Device!OnlyState, D!OnlyState
<1>4. QED
  BY <1>1, <1>2, <1>3

LEMMA SameDeviceNext == Device!Next <=> D!Next
<1>1. \A p : /\ Device!Command(p) <=> D!Command(p)
             /\ Device!gc(p) <=> D!gc(p)
  BY SameCommands DEF Device!Command, D!Command
<1>2. \A p : Device!Step(p) <=> D!Step(p)
  <2>1. \A p : Device!ConnectStep(p) <=> D!ConnectStep(p)
    BY SameConnect DEF Device!ConnectStep, D!ConnectStep
  <2>2. \A p : Device!StopStep(p) <=> D!StopStep(p)
    BY SameStop DEF Device!StopStep, D!StopStep
  <2>3. QED
    BY <2>1, <2>2, SameCommands DEF Device!Step, D!Step
<1>3. \A t : Device!Expire(t) <=> D!Expire(t)
  BY SameDeviceStates DEF Device!host, D!host, Device!Expire, D!Expire
<1>4. Device!Reboot <=> D!Reboot
  BY SameDeviceStates
     DEF Device!host, D!host, Device!Reboot, D!Reboot, Device!Fault, D!Fault
<1>5. QED
  BY <1>1, <1>2, <1>3, <1>4, SameFaults, SameDeviceStates
     DEF Device!Next, D!Next

LEMMA SameDeviceInit == Device!Init <=> D!Init
BY SameDeviceStates DEF Device!Init, D!Init

-----------------------------------------------------------------------------
(* The inductive invariant: those of the API and of the device, and what   *)
(* holds between them.  No two processes wait for the same request; what   *)
(* a process has been told, and not used yet, is what its next step takes; *)
(* and what the API knows or is about to store of a support user is on     *)
(* record on the device.                                                   *)
CallsOK ==
    /\ awaited \in [Processes -> DOMAIN txn \cup {None}]
    /\ \A p, q \in Processes :
          p # q /\ awaited[p] = awaited[q] => awaited[p] = None

ReplyOK(p) ==
    /\ At(p, "idle") /\ reply[p] # None
          => p \in Shells /\ reply[p] \in DOMAIN table
    /\ At(p, "details") /\ reply[p] # None => reply[p] \in Launches
    /\ At(p, "report") => reply[p] \in SupportUsers

RepliesOK ==
    /\ reply \in [Processes -> Tunnels \cup Launches \cup SupportUsers
                                   \cup {None}]
    /\ \A p \in Processes : ReplyOK(p)

OnRecord(t) ==
    /\ t \in DOMAIN db
    /\ db[t].support_user # None
    /\ db[t].server # None
    /\ db[t].state # pending

ReportsOK ==
    /\ \A t \in DOMAIN table : table[t].support_user # None => OnRecord(t)
    /\ \A w \in DOMAIN txn :
          txn[w].new.support_user # None => OnRecord(txn[w].tunnel_id)

SInv ==
    /\ P!IInv
    /\ Api!TypeOK
    /\ D!DInv
    /\ DOMAIN db \subseteq DOMAIN table
    /\ CallsOK
    /\ RepliesOK
    /\ ReportsOK
    /\ posted \subseteq Launches
    /\ lost \in 0 .. MaxLost

LEMMA SInitially == Init => SInv
<1> SUFFICES ASSUME Init PROVE SInv
  OBVIOUS
<1>1. P!IInv /\ Api!TypeOK
  BY SameInit, P!InitIInv, NoneIsNothing, SameTypeOK DEF Init, P!IInv
<1>2. D!DInv
  BY SameDeviceInit, D!InitDInv, NoneIsNothing, FaultsAreBounded, OwnProcesses
     DEF Init
<1>3. CallsOK /\ ReportsOK
  BY DEF Init, CallsOK, ReportsOK, Api!Init
<1>4. RepliesOK
  BY DEF Init, RepliesOK, ReplyOK, At, Device!Init, Device!Idle,
         Device!Processes, Processes
<1>5. QED
  BY <1>1, <1>2, <1>3, <1>4, LossIsBounded DEF Init, SInv, Device!Init

LEMMA TypeFromSInv == SInv => TypeOK
<1> SUFFICES ASSUME SInv PROVE TypeOK
  OBVIOUS
<1>1. Device!TypeOK
  <2>1. D!TypeOK
    BY DEF SInv, D!DInv, D!TableOK, D!HostOK, D!TypeOK
  <2>2. QED
    BY <2>1, SameDeviceStates
       DEF Device!TypeOK, D!TypeOK, Device!Process, D!Process, Device!Row,
           D!Row,
           Device!StopSteps, D!StopSteps
<1>2. QED
  BY <1>1 DEF SInv, TypeOK, CallsOK, RepliesOK

(* A step of both keeps their invariants, and what is on record.           *)
LEMMA BothStep ==
    ASSUME SInv, [Api!Next]_api, [D!Next]_(D!vars)
    PROVE  /\ P!IInv' /\ Api!TypeOK' /\ D!DInv'
           /\ DOMAIN table \subseteq DOMAIN table'
           /\ DOMAIN db \subseteq DOMAIN db'
           /\ \A t : OnRecord(t) => OnRecord(t)'
<1>1. P!IInv' /\ Api!TypeOK'
  BY ApiStep DEF SInv
<1>2. D!DInv'
  BY D!NextDInv, NoneIsNothing, FaultsAreBounded, OwnProcesses DEF SInv
<1>3. D!KeepsRows
  BY D!RowsKept, NoneIsNothing, FaultsAreBounded, OwnProcesses DEF SInv
<1>4. DOMAIN table \subseteq DOMAIN table'
  BY DEF api, SInv, Api!TypeOK, Api!Next, Api!request_tunnel, Api!Expire,
         Api!Handle, Api!post_tunnel_details, Api!admin_stop_tunnel,
         Api!set_tunnel_details_from_device, Api!device_stop_tunnel, Api!Begin,
         Api!Commit, Api!Rollback
<1>5. QED
  BY <1>1, <1>2, <1>3, <1>4, SameDeviceStates DEF D!KeepsRows, OnRecord

-----------------------------------------------------------------------------
(* Every step is one of the device, of the API, of both or of neither.     *)

(* A step of the device that moves process p, and not to its report.       *)
Moves(p) ==
    /\ D!Next
    /\ \A q \in Processes \ {p} : proc'[q] = proc[q]
    /\ proc'[p].pc # "report"

LEMMA ProcTyped ==
    SInv => Processes = D!Processes /\ proc \in [Processes -> D!Process]
BY DEF SInv, D!DInv, Processes, D!Processes

(* How processes move.                                                     *)
LEMMA MovesHow ==
    ASSUME SInv, NEW p \in Processes, D!Next,
           \/ D!Done(p)
           \/ \E todo, c : D!Start(p, todo, c)
           \/ \E pc : pc # "report" /\ D!Goto(p, pc)
           \/ proc[p].pc # "report" /\ UNCHANGED proc
    PROVE  Moves(p)
<1>1. proc \in [Processes -> D!Process]
  BY ProcTyped
<1>2. CASE D!Done(p)
  BY <1>1, <1>2 DEF D!Done, D!Rest, D!Idle, D!Working, Moves
<1>3. CASE \E todo, c : D!Start(p, todo, c)
  BY <1>1, <1>3 DEF D!Start, D!Idle, D!Working, Moves
<1>4. CASE \E pc : pc # "report" /\ D!Goto(p, pc)
  BY <1>1, <1>4 DEF D!Goto, D!Process, Moves
<1>5. CASE proc[p].pc # "report" /\ UNCHANGED proc
  BY <1>5 DEF Moves
<1>6. QED
  BY <1>2, <1>3, <1>4, <1>5

LEMMA CommandMoves ==
    ASSUME SInv, NEW p \in Processes,
           \/ p \in Shells /\ (Command(p) \/ cron(p))
           \/ p \in Collectors /\ gc(p)
    PROVE  /\ Moves(p)
           /\ UNCHANGED <<db, api, awaited, reply, posted, lost>>
           /\ reply[p] = None
<1>1. /\ UNCHANGED <<db, api, awaited, reply, posted, lost>>
      /\ reply[p] = None
  BY DEF Command, cron, gc, Local, Device!connect_approved_tunnels, Device!gc,
         Device!connect, Device!stop
<1>2. CASE p \in Shells /\ (Command(p) \/ cron(p))
  <2>1. \/ D!connect_approved_tunnels(p)
        \/ \E t \in Tunnels : D!connect(p, t) \/ D!stop(p, t)
    BY <1>2, SameCommands DEF Command, cron
  <2>2. D!Next
    BY <1>2, <2>1 DEF D!Next, D!Command
  <2>3. \E todo, c : D!Start(p, todo, c)
    BY <2>1 DEF D!connect_approved_tunnels, D!connect, D!stop
  <2>4. QED
    BY <1>1, <2>2, <2>3, MovesHow
<1>3. CASE p \in Collectors /\ gc(p)
  <2>1. D!gc(p)
    BY <1>3, SameCommands DEF gc
  <2>2. D!Next
    BY <1>3, <2>1 DEF D!Next
  <2>3. \E todo, c : D!Start(p, todo, c)
    BY <2>1 DEF D!gc
  <2>4. QED
    BY <1>1, <2>2, <2>3, MovesHow
<1>4. QED
  BY <1>2, <1>3

LEMMA SaveMoves ==
    ASSUME SInv, NEW p \in Processes, save_request(p)
    PROVE  /\ Moves(p)
           /\ reply[p] \in DOMAIN table
           /\ DOMAIN db' = DOMAIN db \cup {reply[p]}
<1>1. D!request(p, reply[p]) /\ reply[p] \in Tunnels /\ At(p, "idle")
  BY SameCommands DEF save_request, D!request
<1>2. p \in Shells /\ reply[p] \in DOMAIN table
  BY <1>1, NoneIsNothing DEF SInv, RepliesOK, ReplyOK
<1>3. D!Next
  BY <1>1, <1>2 DEF D!Next, D!Command
<1>4. Moves(p)
  BY <1>1, <1>3, MovesHow DEF D!request, At
<1>5. QED
  BY <1>1, <1>2, <1>4 DEF D!request

LEMMA DetailsMoves ==
    ASSUME SInv, NEW p \in Processes,
           use_tunnel_details(p) \/ get_tunnel_details_fails(p)
    PROVE  Moves(p) /\ DOMAIN db' = DOMAIN db
<1>1. \/ D!cannot_request_details(p)
      \/ \E l \in Launches : D!request_tunnel_server_details(p, l)
  <2>1. CASE use_tunnel_details(p)
    <3>1. \/ D!cannot_request_details(p)
          \/ D!request_tunnel_server_details(p, reply[p])
      BY <2>1, SameConnect DEF use_tunnel_details
    <3>2. reply[p] \in Launches
      <4>1. At(p, "details") /\ reply[p] # None
        BY <2>1, <3>1 DEF use_tunnel_details, At, D!cannot_request_details,
           D!request_tunnel_server_details, D!At
      <4>2. QED
        BY <4>1 DEF SInv, RepliesOK, ReplyOK
    <3>3. QED
      BY <3>1, <3>2
  <2>2. CASE get_tunnel_details_fails(p)
    BY <2>2, SameConnect DEF get_tunnel_details_fails
  <2>3. QED
    BY <2>1, <2>2
<1>2. D!Next
  BY <1>1, ProcTyped DEF D!Next, D!Step, D!ConnectStep
<1>3. QED
  BY <1>1, <1>2, MovesHow
     DEF D!cannot_request_details, D!request_tunnel_server_details

LEMMA CommitMoves ==
    ASSUME SInv, NEW p \in Processes, commit_running(p)
    PROVE  /\ D!Next
           /\ \A q \in Processes \ {p} : proc'[q] = proc[q]
           /\ proc'[p].pc = "report"
           /\ reply'[p] \in SupportUsers
           /\ \A q \in Processes \ {p} : reply'[q] = reply[q]
           /\ DOMAIN db' = DOMAIN db
<1>1. D!commit_running(p)
  BY SameConnect DEF commit_running
<1>2. D!Next
  BY <1>1, ProcTyped DEF D!Next, D!Step, D!ConnectStep
<1>3. /\ \A q \in Processes \ {p} : proc'[q] = proc[q]
      /\ proc'[p].pc = "report"
  BY <1>1, ProcTyped DEF D!commit_running, D!Process
<1>4. db[Tunnel(p)].support_user \in SupportUsers
  <2>1. proc[p].pc = "commit" /\ D!ProcessOK(proc[p])
    BY <1>1, ProcTyped DEF D!commit_running, D!At, SInv, D!DInv
  <2>2. Tunnel(p) \in DOMAIN db /\ db[Tunnel(p)].support_user # None
    BY <2>1 DEF D!ProcessOK, D!Recorded, D!ConnectSteps, Tunnel
  <2>3. db[Tunnel(p)] \in D!Row
    BY <2>2 DEF SInv, D!DInv, D!TableOK
  <2>4. QED
    BY <2>2, <2>3 DEF D!Row
<1>5. /\ reply'[p] = db[Tunnel(p)].support_user
      /\ \A q \in Processes \ {p} : reply'[q] = reply[q]
  BY DEF commit_running, Told, SInv, RepliesOK
<1>6. QED
  BY <1>1, <1>2, <1>3, <1>4, <1>5 DEF D!commit_running

LEMMA GoesOnMoves ==
    ASSUME SInv, NEW p \in Processes, GoesOn(p)
    PROVE  Moves(p) /\ UNCHANGED db
<1>1. D!send_connected_status_to_api(p) \/ D!notify_stopped(p)
  BY SameConnect, SameStop DEF GoesOn
<1>2. D!Next
  BY <1>1, ProcTyped DEF D!Next, D!Step, D!ConnectStep, D!StopStep
<1>3. QED
  BY <1>1, <1>2, MovesHow DEF D!send_connected_status_to_api, D!notify_stopped

LEMMA HostMoves ==
    ASSUME SInv, NEW p \in Processes, HostStep(p)
    PROVE  Moves(p) /\ DOMAIN db' = DOMAIN db
<1>1. \/ D!Take(p) \/ D!create_user(p) \/ D!record_user(p)
      \/ D!add_authorized_key(p) \/ D!load_row(p)
      \/ D!write_wireguard_config(p) \/ D!enable_wireguard_tunnel(p)
      \/ D!start_wireguard_tunnel(p) \/ D!undo_start(p)
      \/ D!undo_enable(p) \/ D!load_stopped_row(p)
      \/ D!delete_user(p) \/ D!stop_unit(p) \/ D!disable_unit(p)
      \/ D!remove_config(p) \/ D!commit_closed(p)
  BY SameCommands, SameConnect, SameStop DEF HostStep
<1>2. D!Next
  BY <1>1, ProcTyped DEF D!Next, D!Step, D!ConnectStep, D!StopStep
<1>3. DOMAIN db' = DOMAIN db
  BY <1>1 DEF D!Take, D!create_user, D!record_user, D!add_authorized_key,
       D!load_row, D!write_wireguard_config, D!enable_wireguard_tunnel,
       D!start_wireguard_tunnel, D!undo_start, D!undo_enable,
       D!load_stopped_row, D!delete_user, D!stop_unit, D!disable_unit,
       D!remove_config, D!commit_closed
<1>4. CASE D!Done(p) \/ \E pc : pc # "report" /\ D!Goto(p, pc)
  BY <1>2, <1>3, <1>4, MovesHow
<1>5. CASE D!Take(p) \/ D!create_user(p) \/ D!add_authorized_key(p)
           \/ D!load_row(p) \/ D!load_stopped_row(p) \/ D!delete_user(p)
           \/ D!commit_closed(p)
  <2>1. proc \in [Processes -> D!Process]
    BY ProcTyped
  <2>2. CASE D!Done(p)
    BY <1>4, <2>2
  <2>3. CASE D!Take(p)
    <3>1. PICK s \in proc[p].todo :
             proc' = [proc EXCEPT
                         ![p].pc = IF proc[p].closing = None
                                   THEN "details" ELSE "snapshot",
                         ![p].todo = @ \ {s},
                         ![p].tunnel = s]
      BY <2>3 DEF D!Take
    <3>2. proc'[p].pc \in {"details", "snapshot"}
      BY <2>1, <3>1 DEF D!Process
    <3>3. QED
      BY <1>2, <1>3, <2>1, <3>1, <3>2 DEF Moves
  <2>4. CASE D!create_user(p)
    <3>1. D!Done(p) \/ \E u : proc' = [proc EXCEPT ![p].pc = "record",
                                                   ![p].user = u]
      BY <2>4 DEF D!create_user
    <3>2. QED
      BY <1>2, <1>3, <2>1, <2>2, <3>1 DEF Moves, D!Process
  <2>5. CASE D!add_authorized_key(p)
    BY <1>2, <1>3, <2>1, <2>2, <2>5 DEF D!add_authorized_key, Moves, D!Process
  <2>6. CASE D!load_row(p)
    BY <1>2, <1>3, <2>1, <2>6 DEF D!load_row, Moves, D!Process
  <2>7. CASE D!load_stopped_row(p)
    BY <1>2, <1>3, <2>1, <2>7 DEF D!load_stopped_row, Moves, D!Process
  <2>8. CASE D!commit_closed(p)
    <3>1. \/ D!Done(p)
          \/ proc' = [proc EXCEPT ![p].pc = "notify", ![p].loaded = None]
      BY <2>8 DEF D!commit_closed, D!Done
    <3>2. QED
      BY <1>2, <1>3, <2>1, <2>2, <3>1 DEF Moves, D!Process
  <2>9. CASE D!delete_user(p)
    BY <1>2, <1>3, <2>1, <2>9
       DEF D!delete_user, D!PastUser, Moves, D!Process
  <2>10. QED
    BY <1>5, <2>3, <2>4, <2>5, <2>6, <2>7, <2>8, <2>9
<1>6. QED
  BY <1>1, <1>4, <1>5
     DEF D!record_user, D!write_wireguard_config, D!enable_wireguard_tunnel,
         D!start_wireguard_tunnel, D!undo_start, D!undo_enable,
         D!stop_unit, D!disable_unit, D!remove_config

LEMMA FailureMoves ==
    ASSUME SInv, NEW p \in Processes, CommandFails(p)
    PROVE  Moves(p) /\ UNCHANGED db
<1>1. D!ConnectFails(p) \/ D!CommandSkipped(p) \/ D!Aborts(p)
  BY SameFaults DEF CommandFails
<1>2. D!Next
  BY <1>1, ProcTyped DEF D!Next
<1>3. CASE D!ConnectFails(p)
  BY <1>2, <1>3, MovesHow DEF D!ConnectFails
<1>4. CASE D!Aborts(p)
  BY <1>2, <1>4, ProcTyped DEF D!Aborts, D!Idle, Moves
<1>5. CASE D!CommandSkipped(p)
  <2>1. CASE D!Done(p) \/ \E pc : pc # "report" /\ D!Goto(p, pc)
    BY <1>2, <1>5, <2>1, MovesHow DEF D!CommandSkipped
  <2>2. CASE D!PastUser(p)
    BY <1>2, <1>5, <2>2, ProcTyped
       DEF D!CommandSkipped, D!PastUser, D!Process, Moves
  <2>3. QED
    BY <1>5, <2>1, <2>2 DEF D!CommandSkipped, D!AfterSkipped
<1>6. QED
  BY <1>1, <1>3, <1>4, <1>5 DEF D!ConnectFails, D!Aborts

(* What the steps of the API do to it: nothing is taken from the requests  *)
(* that are served but by their end.                                       *)
LEMMA CallMoves ==
    ASSUME SInv, NEW p \in Processes, NEW w \in Workers,
           post_report(p, w) \/ delete_tunnel(p, w)
    PROVE  /\ Api!Next
           /\ w \notin DOMAIN txn
           /\ DOMAIN txn' = DOMAIN txn \cup {w}
           /\ txn'[w].tunnel_id = Tunnel(p)
           /\ \A v \in DOMAIN txn : txn'[v] = txn[v]
           /\ UNCHANGED <<table, expired>>
           /\ At(p, "report")
              \/ txn'[w].new.support_user = table[Tunnel(p)].support_user
<1>1. Tunnel(p) \in DOMAIN table /\ Tunnel(p) \in Tunnels
  BY DEF post_report, delete_tunnel, Api!set_tunnel_details_from_device,
         Api!device_stop_tunnel, Api!Authorized, SInv, Api!TypeOK
<1>2. Api!Next
  BY <1>1 DEF post_report, delete_tunnel, SInv, RepliesOK, ReplyOK, Api!Next,
              Api!Handle
<1>3. table[Tunnel(p)] \in Api!Row
  BY <1>1 DEF SInv, Api!TypeOK
<1>4. CASE post_report(p, w)
  BY <1>2, <1>4 DEF post_report, Api!set_tunnel_details_from_device, Api!Begin
<1>5. CASE delete_tunnel(p, w)
  <2>1. Api!Begin(w, Tunnel(p), Api!StoppedByDevice(table[Tunnel(p)]))
    BY <1>5 DEF delete_tunnel, Api!device_stop_tunnel
  <2>2. Api!StoppedByDevice(table[Tunnel(p)]).support_user
           = table[Tunnel(p)].support_user
    BY <1>3 DEF Api!StoppedByDevice, Api!Row
  <2>3. QED
    BY <1>2, <2>1, <2>2 DEF Api!Begin
<1>6. QED
  BY <1>4, <1>5

LEMMA AdminMoves ==
    ASSUME SInv, NEW w \in Workers, NEW t \in Tunnels,
           AdminStops(w, t) \/ \E l \in Launches : AdminPosts(w, t, l)
    PROVE  /\ Api!Next
           /\ w \notin DOMAIN txn
           /\ DOMAIN txn' = DOMAIN txn \cup {w}
           /\ txn'[w].tunnel_id = t
           /\ t \in DOMAIN table
           /\ txn'[w].new.support_user = table[t].support_user
           /\ \A v \in DOMAIN txn : txn'[v] = txn[v]
           /\ UNCHANGED <<table, expired, device, calls>>
           /\ posted' \subseteq Launches /\ lost' \in 0 .. MaxLost
<1>1. Api!Next
  BY DEF AdminStops, AdminPosts, Api!Next, Api!Handle
<1>2. t \in DOMAIN table /\ table[t] \in Api!Row
  BY DEF AdminStops, AdminPosts, Api!admin_stop_tunnel,
         Api!post_tunnel_details, SInv, Api!TypeOK
<1>3. /\ UNCHANGED <<device, calls>>
      /\ posted' \subseteq Launches /\ lost' \in 0 .. MaxLost
  BY LossIsBounded DEF AdminStops, AdminPosts, Loss, SInv
<1>4. CASE AdminStops(w, t)
  <2>1. PICK new :
           /\ Api!Begin(w, t, new)
           /\ new = Api!StoppedByAdmin(table[t], t \in expired)
    BY <1>4 DEF AdminStops, Api!admin_stop_tunnel
  <2>2. new.support_user = table[t].support_user
    BY <1>2, <2>1 DEF Api!StoppedByAdmin, Api!Row
  <2>3. QED
    BY <1>1, <1>2, <1>3, <2>1, <2>2 DEF Api!Begin
<1>5. ASSUME NEW l \in Launches, AdminPosts(w, t, l)
      PROVE  /\ w \notin DOMAIN txn
             /\ DOMAIN txn' = DOMAIN txn \cup {w}
             /\ txn'[w].tunnel_id = t
             /\ txn'[w].new.support_user = table[t].support_user
             /\ \A v \in DOMAIN txn : txn'[v] = txn[v]
             /\ UNCHANGED <<table, expired>>
  <2>1. PICK new :
           Api!Begin(w, t, new) /\ new = Api!WithDetails(table[t], l)
    BY <1>5 DEF AdminPosts, Api!post_tunnel_details
  <2>2. new.support_user = table[t].support_user
    BY <1>2, <2>1 DEF Api!WithDetails, Api!Row
  <2>3. QED
    BY <2>1, <2>2 DEF Api!Begin
<1>6. QED
  BY <1>1, <1>2, <1>3, <1>4, <1>5

(* The end of a request.                                                   *)
LEMMA EndMoves ==
    ASSUME SInv, NEW w, Api!Commit(w) \/ Api!Rollback(w)
    PROVE  /\ Api!Next
           /\ w \in DOMAIN txn
           /\ DOMAIN txn' = DOMAIN txn \ {w}
           /\ \A v \in DOMAIN txn' : txn'[v] = txn[v]
           /\ UNCHANGED expired
           /\ DOMAIN table' = DOMAIN table
           /\ \A t \in DOMAIN table :
                 \/ table'[t].support_user = table[t].support_user
                 \/ /\ t = txn[w].tunnel_id
                    /\ table'[t].support_user = txn[w].new.support_user
<1>1. w \in DOMAIN txn /\ w \in Workers
  BY DEF Api!Commit, Api!Rollback, SInv, Api!TypeOK
<1>2. Api!Next
  BY <1>1 DEF Api!Next
<1>3. /\ DOMAIN txn' = DOMAIN txn \ {w}
      /\ \A v \in DOMAIN txn' : txn'[v] = txn[v]
      /\ UNCHANGED expired
      /\ DOMAIN table' = DOMAIN table
  BY DEF Api!Commit, Api!Rollback, Api!Without
<1>4. ASSUME NEW t \in DOMAIN table
      PROVE  \/ table'[t].support_user = table[t].support_user
             \/ /\ t = txn[w].tunnel_id
                /\ table'[t].support_user = txn[w].new.support_user
  <2>1. CASE UNCHANGED table
    BY <2>1
  <2>2. CASE table' = [table EXCEPT ![txn[w].tunnel_id]
                                       = Api!Flushed(@, txn[w])]
    <3>1. \A row : Api!Flushed(row, txn[w]).support_user
                      \in {row.support_user, txn[w].new.support_user}
      BY DEF Api!Flushed, Api!Written
    <3>2. CASE t = txn[w].tunnel_id
      BY <2>2, <3>1, <3>2
    <3>3. CASE t # txn[w].tunnel_id
      BY <2>2, <3>3
    <3>4. QED
      BY <3>2, <3>3
  <2>3. QED
    BY <2>1, <2>2 DEF Api!Commit, Api!Rollback
<1>5. QED
  BY <1>1, <1>2, <1>3, <1>4

LEMMA StepsOfBoth ==
    SInv /\ [Next]_vars => [Api!Next]_api /\ [D!Next]_(D!vars)
<1> SUFFICES ASSUME SInv, Next PROVE [Api!Next]_api /\ [D!Next]_(D!vars)
  BY DEF vars, api, D!vars
<1>1. UNCHANGED <<device, expired>> => UNCHANGED D!vars
  BY DEF device, D!vars
<1>2. CASE \E p \in Shells : Command(p) \/ cron(p)
  BY <1>2, CommandMoves DEF Moves, Processes
<1>3. CASE \E p \in Shells, t \in Tunnels : post_request(p, t)
  BY <1>1, <1>3 DEF post_request, Api!request_tunnel, Api!Next
<1>4. CASE \E p \in Collectors : gc(p)
  BY <1>4, CommandMoves DEF Moves, Processes
<1>5. ASSUME NEW p \in Processes, GoesOn(p), UNCHANGED api
      PROVE  [Api!Next]_api /\ [D!Next]_(D!vars)
  BY <1>5, GoesOnMoves DEF Moves
<1>6. ASSUME NEW p \in Processes, Step(p)
      PROVE  [Api!Next]_api /\ [D!Next]_(D!vars)
  <2>1. CASE save_request(p)
    BY <2>1, SaveMoves DEF Moves, save_request
  <2>2. CASE get_tunnel_details(p)
    BY <1>1, <2>2 DEF get_tunnel_details, api
  <2>3. CASE use_tunnel_details(p) \/ get_tunnel_details_fails(p)
    BY <2>3, DetailsMoves
       DEF Moves, use_tunnel_details, get_tunnel_details_fails
  <2>4. CASE commit_running(p)
    BY <2>4, CommitMoves DEF commit_running
  <2>5. CASE HostStep(p)
    BY <2>5, HostMoves DEF Moves, HostStep, Local
  <2>6. CASE \E w \in Workers : post_report(p, w) \/ delete_tunnel(p, w)
    BY <1>1, <2>6, CallMoves DEF post_report, delete_tunnel, Call
  <2>7. CASE Answered(p)
    BY <2>7, EndMoves, GoesOnMoves DEF Answered, Moves
  <2>8. CASE Refused(p)
    BY <1>5, <2>8 DEF Refused
  <2>9. QED
    BY <1>6, <2>1, <2>2, <2>3, <2>4, <2>5, <2>6, <2>7, <2>8 DEF Step
<1>7. ASSUME NEW p \in Processes, Fails(p)
      PROVE  [Api!Next]_api /\ [D!Next]_(D!vars)
  <2>1. CASE request_lost(p) \/ Retries(p)
    BY <1>1, <2>1 DEF request_lost, Retries, api
  <2>2. CASE get_tunnel_details_fails(p)
    BY <2>2, DetailsMoves DEF Moves, get_tunnel_details_fails
  <2>3. CASE GivesUp(p)
    BY <1>5, <2>3 DEF GivesUp
  <2>4. CASE CommandFails(p)
    BY <2>4, FailureMoves DEF Moves, CommandFails
  <2>5. QED
    BY <1>7, <2>1, <2>2, <2>3, <2>4 DEF Fails
<1>8. CASE Reboot
  BY <1>8, SameDeviceNext DEF Reboot, Device!Next
<1>9. CASE \E w \in Workers, t \in Tunnels :
              AdminStops(w, t) \/ \E l \in Launches : AdminPosts(w, t, l)
  BY <1>1, <1>9, AdminMoves
<1>10. CASE \E w \in Workers : CommitUnattended(w) \/ RequestDies(w)
  BY <1>1, <1>10, EndMoves DEF CommitUnattended, RequestDies
<1>11. ASSUME NEW t \in Tunnels, Expire(t)
       PROVE  [Api!Next]_api /\ [D!Next]_(D!vars)
  <2>1. Api!Next /\ UNCHANGED device
    BY <1>11 DEF Expire, Api!Next
  <2>2. expired' = expired \cup {t} /\ t \notin expired
    BY <1>11 DEF Expire, Api!Expire
  <2>3. CASE t \in DOMAIN db
    BY <2>1, <2>2, <2>3 DEF D!Next, D!Expire, D!host, device
  <2>4. CASE t \notin DOMAIN db
    BY <2>1, <2>2, <2>4 DEF D!vars, device
  <2>5. QED
    BY <2>1, <2>3, <2>4
<1>12. QED
  BY <1>2, <1>3, <1>4, <1>6, <1>7, <1>8, <1>9, <1>10, <1>11 DEF Next
-----------------------------------------------------------------------------
(* The invariant is kept.                                                  *)

(* Processes stop waiting, or go on waiting for what is being served.      *)
LEMMA CallsKept ==
    ASSUME SInv, awaited' \in [Processes -> DOMAIN txn' \cup {None}],
           \A p \in Processes : awaited'[p] \in {None, awaited[p]}
    PROVE  CallsOK'
BY DEF SInv, CallsOK

(* Nothing changes but what process p has been told, and where it is.      *)
LEMMA RepliesKept ==
    ASSUME SInv, NEW p \in Processes,
           \A q \in Processes \ {p} : proc'[q] = proc[q] /\ reply'[q] = reply[q],
           reply' \in [Processes -> Tunnels \cup Launches \cup SupportUsers
                                       \cup {None}],
           DOMAIN table \subseteq DOMAIN table', ReplyOK(p)'
    PROVE  RepliesOK'
<1>1. ASSUME NEW q \in Processes \ {p} PROVE ReplyOK(q)'
  BY DEF SInv, RepliesOK, ReplyOK, At
<1>2. QED
  BY <1>1 DEF RepliesOK

(* What the API stores comes from its rows, from the requests it serves,   *)
(* or from the record of the device.                                       *)
LEMMA ReportsKept ==
    ASSUME SInv, \A t : OnRecord(t) => OnRecord(t)',
           \A t \in DOMAIN table' :
              \/ table'[t].support_user = None
              \/ /\ t \in DOMAIN table
                 /\ table'[t].support_user = table[t].support_user
              \/ \E w \in DOMAIN txn :
                    /\ t = txn[w].tunnel_id
                    /\ table'[t].support_user = txn[w].new.support_user,
           \A w \in DOMAIN txn' :
              \/ w \in DOMAIN txn /\ txn'[w] = txn[w]
              \/ /\ txn'[w].tunnel_id \in DOMAIN table
                 /\ txn'[w].new.support_user
                       = table[txn'[w].tunnel_id].support_user
              \/ OnRecord(txn'[w].tunnel_id)
    PROVE  ReportsOK'
<1>1. (\A t \in DOMAIN table : table[t].support_user # None => OnRecord(t))'
  BY DEF SInv, ReportsOK
<1>2. ASSUME NEW w \in DOMAIN txn'
      PROVE  (txn[w].new.support_user # None => OnRecord(txn[w].tunnel_id))'
  <2>1. PICK t : t = txn'[w].tunnel_id
    OBVIOUS
  <2>2. txn'[w].new.support_user # None => OnRecord(t)
    BY <2>1 DEF SInv, ReportsOK
  <2>3. OnRecord(t) => OnRecord(t)'
    OBVIOUS
  <2>4. OnRecord(t)' => OnRecord(txn[w].tunnel_id)'
    BY <2>1 DEF OnRecord
  <2>5. QED
    BY <2>2, <2>3, <2>4
<1>3. QED
  BY <1>1, <1>2 DEF ReportsOK

LEMMA CountersKept ==
    SInv /\ Next => posted' \subseteq Launches /\ lost' \in 0 .. MaxLost
<1> SUFFICES ASSUME SInv, Next
             PROVE  posted' \subseteq Launches /\ lost' \in 0 .. MaxLost
  OBVIOUS
<1>1. (Loss \/ UNCHANGED lost) => lost' \in 0 .. MaxLost
  BY LossIsBounded DEF Loss, SInv
<1>2. CASE UNCHANGED posted /\ (Loss \/ UNCHANGED lost)
  BY <1>1, <1>2 DEF SInv
<1>3. CASE \E w \in Workers, t \in Tunnels :
              AdminStops(w, t) \/ \E l \in Launches : AdminPosts(w, t, l)
  BY <1>3, AdminMoves
<1>4. QED
  BY <1>2, <1>3
     DEF Next, post_request, Command, cron, gc, Local, Step, save_request,
         get_tunnel_details, use_tunnel_details, get_tunnel_details_fails,
         commit_running, HostStep, post_report, delete_tunnel, Call, Answered,
         Refused, GoesOn, Fails, request_lost, GivesUp, Retries, CommandFails,
         Reboot, CommitUnattended, RequestDies, Expire

(* The parts put together.                                                 *)
LEMMA Together ==
    ASSUME SInv, Next, DOMAIN db' \subseteq DOMAIN table,
           CallsOK', RepliesOK', ReportsOK'
    PROVE  SInv'
BY StepsOfBoth, BothStep, CountersKept DEF SInv

(* A step of process p of the device that leaves it nothing to use.        *)
LEMMA MoveInv ==
    ASSUME SInv, Next, NEW p \in Processes, Moves(p), UNCHANGED <<table, txn>>,
           DOMAIN db' \subseteq DOMAIN table,
           \/ reply' = [reply EXCEPT ![p] = None]
           \/ UNCHANGED reply /\ reply[p] = None,
           UNCHANGED awaited \/ awaited' = [awaited EXCEPT ![p] = None]
    PROVE  SInv'
<1>1. \A t : OnRecord(t) => OnRecord(t)'
  BY StepsOfBoth, BothStep
<1>2. CallsOK'
  BY CallsKept DEF SInv, CallsOK
<1>3. RepliesOK'
  <2>1. /\ \A q \in Processes \ {p} : reply'[q] = reply[q]
        /\ reply' \in [Processes -> Tunnels \cup Launches \cup SupportUsers
                                       \cup {None}]
        /\ reply'[p] = None
    BY DEF SInv, RepliesOK
  <2>2. ReplyOK(p)'
    BY <2>1 DEF ReplyOK, At, Moves
  <2>3. QED
    BY <2>1, <2>2, RepliesKept DEF Moves
<1>4. ReportsOK'
  BY <1>1, ReportsKept
<1>5. QED
  BY <1>2, <1>3, <1>4, Together

LEMMA DeviceInv ==
    ASSUME SInv, Next, NEW p \in Processes,
           \/ p \in Shells /\ (Command(p) \/ cron(p))
           \/ p \in Collectors /\ gc(p)
           \/ save_request(p)
           \/ use_tunnel_details(p)
           \/ get_tunnel_details_fails(p)
           \/ HostStep(p)
           \/ GoesOn(p) /\ UNCHANGED api
           \/ CommandFails(p)
    PROVE  SInv'
<1>1. DOMAIN db \subseteq DOMAIN table
  BY DEF SInv
<1>2. CASE \/ p \in Shells /\ (Command(p) \/ cron(p))
           \/ p \in Collectors /\ gc(p)
  BY <1>1, <1>2, CommandMoves, MoveInv DEF api
<1>3. CASE save_request(p)
  BY <1>1, <1>3, SaveMoves, MoveInv DEF save_request, Told, api
<1>4. CASE use_tunnel_details(p) \/ get_tunnel_details_fails(p)
  BY <1>1, <1>4, DetailsMoves, MoveInv
     DEF use_tunnel_details, get_tunnel_details_fails, Told, api, calls
<1>5. CASE HostStep(p)
  BY <1>1, <1>5, HostMoves, MoveInv DEF HostStep, Local, api
<1>6. CASE GoesOn(p) /\ UNCHANGED api
  BY <1>1, <1>6, GoesOnMoves, MoveInv DEF GoesOn, Told, api
<1>7. CASE CommandFails(p)
  BY <1>1, <1>7, FailureMoves, MoveInv DEF CommandFails, Told, api
<1>8. QED
  BY <1>2, <1>3, <1>4, <1>5, <1>6, <1>7

(* What process p has been told by the API or by its own table.            *)
LEMMA TellInv ==
    ASSUME SInv, Next, NEW p \in Processes,
           \/ p \in Shells /\ \E t \in Tunnels : post_request(p, t)
           \/ request_lost(p)
           \/ get_tunnel_details(p)
           \/ commit_running(p)
    PROVE  SInv'
<1>1. /\ \A t : OnRecord(t) => OnRecord(t)'
      /\ DOMAIN table \subseteq DOMAIN table'
  BY StepsOfBoth, BothStep
<1>2. UNCHANGED <<txn, awaited>>
  BY DEF post_request, Api!request_tunnel, request_lost, get_tunnel_details,
         commit_running, api
<1>3. CallsOK'
  BY <1>2, CallsKept DEF SInv, CallsOK
<1>4. CASE p \in Shells /\ \E t \in Tunnels : post_request(p, t)
  <2>1. PICK t \in Tunnels :
           /\ Api!request_tunnel(t) /\ Told(p, t) /\ UNCHANGED device
           /\ At(p, "idle")
    BY <1>4 DEF post_request
  <2>2. /\ DOMAIN table' = DOMAIN table \cup {t}
        /\ \A s \in DOMAIN table : s # t => table'[s] = table[s]
        /\ table'[t].support_user = None
        /\ t \notin DOMAIN table
    BY <2>1 DEF Api!request_tunnel, Api!NewRow
  <2>3. RepliesOK'
    <3>1. /\ \A q \in Processes \ {p} : reply'[q] = reply[q]
          /\ reply' \in [Processes -> Tunnels \cup Launches \cup SupportUsers
                                         \cup {None}]
          /\ reply'[p] = t
      BY <2>1 DEF Told, SInv, RepliesOK
    <3>2. ReplyOK(p)'
      BY <1>4, <2>1, <2>2, <3>1 DEF ReplyOK, At, device
    <3>3. QED
      BY <1>1, <2>1, <3>1, <3>2, RepliesKept DEF device
  <2>4. ReportsOK'
    BY <1>1, <1>2, <2>2, ReportsKept
  <2>5. DOMAIN db' \subseteq DOMAIN table
    BY <2>1 DEF device, SInv
  <2>6. QED
    BY <1>3, <2>3, <2>4, <2>5, Together
<1>5. CASE request_lost(p) \/ get_tunnel_details(p) \/ commit_running(p)
  <2>1. UNCHANGED table
    BY <1>5 DEF request_lost, get_tunnel_details, commit_running, api
  <2>2. ReportsOK'
    BY <1>1, <1>2, <2>1, ReportsKept
  <2>3. CASE request_lost(p)
    <3>1. /\ \A q \in Processes \ {p} : reply'[q] = reply[q]
          /\ reply' \in [Processes -> Tunnels \cup Launches \cup SupportUsers
                                         \cup {None}]
          /\ reply'[p] = None
          /\ UNCHANGED device
          /\ At(p, "idle")
      BY <2>3 DEF request_lost, Told, SInv, RepliesOK
    <3>2. ReplyOK(p)'
      BY <3>1 DEF ReplyOK, At, device
    <3>3. RepliesOK'
      BY <1>1, <3>1, <3>2, RepliesKept DEF device
    <3>4. QED
      BY <1>3, <2>2, <3>1, <3>3, Together DEF device, SInv
  <2>4. CASE get_tunnel_details(p)
    <3>1. /\ Tunnel(p) \in DOMAIN table
          /\ table[Tunnel(p)].state \in Usable
      BY <2>4 DEF get_tunnel_details, Api!Authorized, Ready
    <3>2. table[Tunnel(p)].ts_wg_public_key \in Launches
      <4>1. table[Tunnel(p)] \in Api!Row
        BY <3>1 DEF SInv, Api!TypeOK
      <4>2. P!RowOK(Tunnel(p), table[Tunnel(p)])
        BY <3>1 DEF SInv, P!IInv
      <4>3. QED
        BY <3>1, <4>1, <4>2
           DEF P!RowOK, Api!Row, Usable, P!Usable, started, running, connected,
               P!started, P!running, P!connected
    <3>3. /\ \A q \in Processes \ {p} : reply'[q] = reply[q]
          /\ reply' \in [Processes -> Tunnels \cup Launches \cup SupportUsers
                                         \cup {None}]
          /\ reply'[p] \in Launches
          /\ UNCHANGED device
          /\ At(p, "details")
      BY <2>4, <3>2 DEF get_tunnel_details, Told, SInv, RepliesOK
    <3>4. ReplyOK(p)'
      BY <3>3 DEF ReplyOK, At, device
    <3>5. RepliesOK'
      BY <1>1, <3>3, <3>4, RepliesKept DEF device
    <3>6. QED
      BY <1>3, <2>2, <3>3, <3>5, Together DEF device, SInv
  <2>5. CASE commit_running(p)
    <3>1. /\ \A q \in Processes \ {p} : proc'[q] = proc[q]
          /\ \A q \in Processes \ {p} : reply'[q] = reply[q]
          /\ proc'[p].pc = "report"
          /\ reply'[p] \in SupportUsers
          /\ DOMAIN db' = DOMAIN db
      BY <2>5, CommitMoves
    <3>2. reply' \in [Processes -> Tunnels \cup Launches \cup SupportUsers
                                      \cup {None}]
      BY <2>5, <3>1 DEF commit_running, Told, SInv, RepliesOK
    <3>3. ReplyOK(p)'
      BY <3>1 DEF ReplyOK, At
    <3>4. RepliesOK'
      BY <1>1, <3>1, <3>2, <3>3, RepliesKept
    <3>5. QED
      BY <1>3, <2>2, <3>1, <3>4, Together DEF SInv
  <2>6. QED
    BY <1>5, <2>3, <2>4, <2>5
<1>6. QED
  BY <1>4, <1>5

(* Steps in which no process moves or is told anything.                    *)
LEMMA StillInv ==
    ASSUME SInv, Next, UNCHANGED <<db, proc, reply>>,
           CallsOK', ReportsOK'
    PROVE  SInv'
<1>1. DOMAIN table \subseteq DOMAIN table'
  BY StepsOfBoth, BothStep
<1>2. RepliesOK'
  BY <1>1 DEF SInv, RepliesOK, ReplyOK, At
<1>3. QED
  BY <1>2, Together DEF SInv

LEMMA CallInv ==
    ASSUME SInv, Next, NEW p \in Processes, NEW w \in Workers,
           post_report(p, w) \/ delete_tunnel(p, w)
    PROVE  SInv'
<1>1. \A t : OnRecord(t) => OnRecord(t)'
  BY StepsOfBoth, BothStep
<1>2. Call(p, w) /\ UNCHANGED <<db, proc, reply, table>>
  BY CallMoves DEF post_report, delete_tunnel, Call, device
<1>3. w # None /\ w \notin DOMAIN txn /\ DOMAIN txn' = DOMAIN txn \cup {w}
  BY CallMoves, NoneIsNothing
<1>4. CallsOK'
  BY <1>2, <1>3 DEF Call, SInv, CallsOK
<1>5. \/ txn'[w].new.support_user = table[Tunnel(p)].support_user
      \/ OnRecord(Tunnel(p))
  <2>1. CASE At(p, "report")
    <3>1. D!ProcessOK(proc[p])
      BY ProcTyped DEF SInv, D!DInv
    <3>2. QED
      BY <2>1, <3>1, SameDeviceStates
         DEF D!ProcessOK, D!Recorded, D!ConnectSteps, At, Tunnel, OnRecord
  <2>2. QED
    BY <2>1, CallMoves
<1>6. Tunnel(p) \in DOMAIN table
  BY DEF post_report, delete_tunnel, Api!set_tunnel_details_from_device,
         Api!device_stop_tunnel, Api!Authorized
<1>7. ReportsOK'
  BY <1>1, <1>2, <1>3, <1>5, <1>6, CallMoves, ReportsKept
<1>8. QED
  BY <1>2, <1>4, <1>7, StillInv

LEMMA AdminInv ==
    ASSUME SInv, Next, NEW w \in Workers, NEW t \in Tunnels,
           AdminStops(w, t) \/ \E l \in Launches : AdminPosts(w, t, l)
    PROVE  SInv'
<1>1. \A s : OnRecord(s) => OnRecord(s)'
  BY StepsOfBoth, BothStep
<1>2. UNCHANGED <<db, proc, reply, awaited, table>>
  BY AdminMoves DEF device, calls
<1>3. CallsOK'
  BY <1>2, AdminMoves, CallsKept DEF SInv, CallsOK
<1>4. ReportsOK'
  BY <1>1, <1>2, AdminMoves, ReportsKept
<1>5. QED
  BY <1>2, <1>3, <1>4, StillInv

(* A request ends, and whoever waited for it waits no more.                *)
LEMMA EndReports ==
    ASSUME SInv, Next, NEW w, Api!Commit(w) \/ Api!Rollback(w)
    PROVE  ReportsOK'
<1>1. \A t : OnRecord(t) => OnRecord(t)'
  BY StepsOfBoth, BothStep
<1>2. QED
  BY <1>1, EndMoves, ReportsKept

LEMMA AnsweredInv ==
    ASSUME SInv, Next, NEW p \in Processes, Answered(p)
    PROVE  SInv'
<1>1. /\ awaited[p] # None
      /\ awaited' = [awaited EXCEPT ![p] = None]
      /\ DOMAIN txn' = DOMAIN txn \ {awaited[p]}
      /\ GoesOn(p)
  BY EndMoves DEF Answered, GoesOn
<1>2. CallsOK'
  BY <1>1, CallsKept DEF SInv, CallsOK
<1>3. ReportsOK'
  BY EndReports DEF Answered
<1>4. /\ Moves(p) /\ UNCHANGED db
      /\ \A q \in Processes \ {p} : reply'[q] = reply[q]
      /\ reply' \in [Processes -> Tunnels \cup Launches \cup SupportUsers
                                     \cup {None}]
      /\ reply'[p] = None
  BY <1>1, GoesOnMoves DEF GoesOn, Told, SInv, RepliesOK
<1>5. ReplyOK(p)'
  BY <1>4 DEF ReplyOK, At, Moves
<1>6. DOMAIN table \subseteq DOMAIN table'
  BY StepsOfBoth, BothStep
<1>7. RepliesOK'
  BY <1>4, <1>5, <1>6, RepliesKept DEF Moves
<1>8. QED
  BY <1>2, <1>3, <1>4, <1>7, Together DEF SInv

LEMMA ServiceInv ==
    ASSUME SInv, Next,
           \/ \E p \in Processes : Retries(p)
           \/ \E w \in Workers : CommitUnattended(w) \/ RequestDies(w)
           \/ \E t \in Tunnels : Expire(t)
           \/ Reboot
    PROVE  SInv'
<1>1. \A t : OnRecord(t) => OnRecord(t)'
  BY StepsOfBoth, BothStep
<1>2. ASSUME NEW p \in Processes, Retries(p) PROVE SInv'
  <2>1. /\ UNCHANGED <<db, proc, reply, table, txn>>
        /\ awaited' = [awaited EXCEPT ![p] = None]
    BY <1>2 DEF Retries, device, api
  <2>2. CallsOK'
    BY <2>1, CallsKept DEF SInv, CallsOK
  <2>3. QED
    BY <1>1, <2>1, <2>2, ReportsKept, StillInv
<1>3. ASSUME NEW w \in Workers, CommitUnattended(w) PROVE SInv'
  <2>1. /\ UNCHANGED <<db, proc, reply, awaited>>
        /\ DOMAIN txn' = DOMAIN txn \ {w}
        /\ \A p \in Processes : awaited[p] # w
    BY <1>3, EndMoves DEF CommitUnattended, Unattended, device, calls
  <2>2. CallsOK'
    BY <2>1, CallsKept DEF SInv, CallsOK
  <2>3. QED
    BY <1>3, <2>1, <2>2, EndReports, StillInv DEF CommitUnattended
<1>4. ASSUME NEW w \in Workers, RequestDies(w) PROVE SInv'
  <2>1. /\ UNCHANGED <<db, proc, reply>>
        /\ DOMAIN txn' = DOMAIN txn \ {w}
        /\ awaited' = [p \in Processes |->
                          IF awaited[p] = w THEN None ELSE awaited[p]]
    BY <1>4, EndMoves DEF RequestDies, device
  <2>2. CallsOK'
    BY <2>1, CallsKept DEF SInv, CallsOK
  <2>3. QED
    BY <1>4, <2>1, <2>2, EndReports, StillInv DEF RequestDies
<1>5. ASSUME NEW t \in Tunnels, Expire(t) PROVE SInv'
  <2>1. UNCHANGED <<db, proc, reply, awaited, table, txn>>
    BY <1>5 DEF Expire, Api!Expire, device, calls
  <2>2. CallsOK'
    BY <2>1, CallsKept DEF SInv, CallsOK
  <2>3. QED
    BY <1>1, <2>1, <2>2, ReportsKept, StillInv
<1>6. CASE Reboot
  <2>1. /\ UNCHANGED <<db, table, txn>>
        /\ awaited' = [p \in Processes |-> None]
        /\ reply' = [p \in Processes |-> None]
        /\ \A p \in Processes : proc'[p].pc = "idle"
    BY <1>6 DEF Reboot, Device!Reboot, Device!Idle, Device!Processes, Processes,
                api
  <2>2. CallsOK'
    BY <2>1 DEF CallsOK
  <2>3. RepliesOK'
    BY <2>1 DEF RepliesOK, ReplyOK, At
  <2>4. ReportsOK'
    BY <1>1, <2>1, ReportsKept
  <2>5. QED
    BY <2>1, <2>2, <2>3, <2>4, Together DEF SInv
<1>7. QED
  BY <1>2, <1>3, <1>4, <1>5, <1>6

LEMMA SNextInv == SInv /\ [Next]_vars => SInv'
<1> SUFFICES ASSUME SInv, [Next]_vars PROVE SInv'
  OBVIOUS
<1>1. CASE Next
  <2>1. ASSUME NEW p \in Shells, NEW t \in Tunnels, post_request(p, t)
        PROVE  SInv'
    BY <1>1, <2>1, TellInv DEF Processes
  <2>2. ASSUME NEW p \in Processes,
               \/ p \in Shells /\ (Command(p) \/ cron(p))
               \/ p \in Collectors /\ gc(p)
        PROVE  SInv'
    BY <1>1, <2>2, DeviceInv
  <2>3. ASSUME NEW p \in Processes, Step(p) PROVE SInv'
    BY <1>1, <2>3, DeviceInv, TellInv, CallInv, AnsweredInv DEF Step, Refused
  <2>4. ASSUME NEW p \in Processes, Fails(p) PROVE SInv'
    BY <1>1, <2>4, DeviceInv, TellInv, ServiceInv DEF Fails, GivesUp
  <2>5. QED
    BY <1>1, <2>1, <2>2, <2>3, <2>4, AdminInv, ServiceInv DEF Next, Processes
<1>2. CASE UNCHANGED vars
  <2>1. \A t : OnRecord(t) => OnRecord(t)'
    BY StepsOfBoth, BothStep
  <2>2. P!IInv' /\ Api!TypeOK' /\ D!DInv'
    BY StepsOfBoth, BothStep
  <2>3. QED
    BY <1>2, <2>2
       DEF vars, SInv, CallsOK, RepliesOK, ReplyOK, At, ReportsOK, OnRecord
<1>3. QED
  BY <1>1, <1>2

LEMMA SystemInvariant == Spec => []SInv
BY SInitially, SNextInv, PTL DEF Spec

-----------------------------------------------------------------------------
(* Every variable keeps its type, across both programs: every process      *)
(* waits only for a request that is in flight, the API has a row of each   *)
(* tunnel the device knows, and what a process was told is used up.        *)
THEOREM SupportTypeCorrect == Spec => []TypeOK
BY SystemInvariant, TypeFromSInv, PTL

(* A tunnel of which the API has a user is, on the device, past its first  *)
(* connect for good, with a user and a server in its row, however late or  *)
(* often its report is committed.                                          *)
THEOREM ReportedRecorded == Spec => []ReportedIsRecorded
<1>1. SInv => ReportedIsRecorded
  BY DEF SInv, ReportsOK, OnRecord, ReportedIsRecorded
<1>2. QED
  BY <1>1, SystemInvariant, PTL

(* The API composed with this device is the API of TunnelApi.              *)
THEOREM SupportKeepsApi == Spec => Api!Spec
<1>1. Init => Api!Init
  BY DEF Init
<1>2. SInv /\ [Next]_vars => [Api!Next]_(Api!vars)
  BY StepsOfBoth DEF api, Api!vars
<1>3. QED
  BY <1>1, <1>2, SystemInvariant, PTL DEF Spec, Api!Spec

(* The device composed with the API is the device of DeviceCli, which is   *)
(* specified to take any answer: what the API answers, lost, late or       *)
(* stale, is an answer of that kind, so what is proved of the device alone *)
(* holds in the composition.                                               *)
THEOREM SupportKeepsDevice == Spec => KeepsDevice
<1>1. Init => Device!Init
  BY DEF Init
<1>2. SInv /\ [Next]_vars => [Device!Next]_(Device!vars)
  <2> SUFFICES ASSUME SInv, [Next]_vars PROVE [Device!Next]_(Device!vars)
    OBVIOUS
  <2>1. [D!Next]_(D!vars)
    BY StepsOfBoth
  <2>2. QED
    BY <2>1, SameDeviceNext DEF Device!vars, D!vars
<1>3. QED
  BY <1>1, <1>2, SystemInvariant, PTL DEF Spec, KeepsDevice, Device!Spec

-----------------------------------------------------------------------------
(* What is down stays down.                                                *)

(* A process is let in to connect only by what it has been told.           *)
LEMMA LetInByReply ==
    ASSUME SInv, Next, NEW p \in Processes, At(p, "details"),
           proc'[p].pc = "user"
    PROVE  reply[p] # None
<1>1. proc \in [Processes -> D!Process]
  BY ProcTyped
<1>2. ~ UNCHANGED proc /\ \A q \in Processes : proc'[q] # proc[q] \/ q # p
  BY DEF At
<1>3. ASSUME NEW q \in Processes, q # p, proc'[p] = proc[p] PROVE FALSE
  BY <1>3 DEF At
<1>4. ASSUME NEW q \in Processes, q # p,
             \/ Moves(q)
             \/ \A r \in Processes \ {q} : proc'[r] = proc[r]
      PROVE  FALSE
  BY <1>4 DEF Moves, At
<1>5. CASE \E q \in Processes :
              \/ q \in Shells /\ (Command(q) \/ cron(q))
              \/ q \in Collectors /\ gc(q)
  <2>1. PICK q \in Processes :
           \/ q \in Shells /\ (Command(q) \/ cron(q))
           \/ q \in Collectors /\ gc(q)
    BY <1>5
  <2>2. q = p
    BY <1>4, <2>1, CommandMoves
  <2>3. At(p, "idle")
    BY <2>1, <2>2 DEF Command, cron, gc, Device!connect, Device!stop, Device!gc,
       Device!connect_approved_tunnels, Device!Start, At
  <2>4. QED
    BY <2>3 DEF At
<1>6. CASE \E q \in Processes : save_request(q)
  <2>1. PICK q \in Processes : save_request(q)
    BY <1>6
  <2>2. q = p
    BY <1>4, <2>1, SaveMoves
  <2>3. QED
    BY <2>1, <2>2 DEF save_request, At
<1>7. CASE \E q \in Processes : use_tunnel_details(q)
  BY <1>4, <1>7, DetailsMoves DEF use_tunnel_details
<1>8. CASE \E q \in Processes : get_tunnel_details_fails(q)
  <2>1. PICK q \in Processes : get_tunnel_details_fails(q)
    BY <1>8
  <2>2. q = p
    BY <1>4, <2>1, DetailsMoves
  <2>3. D!Done(p)
    BY <2>1, <2>2, SameConnect
       DEF get_tunnel_details_fails, D!cannot_request_details
  <2>4. QED
    BY <1>1, <2>3 DEF D!Done, D!Rest, D!Idle, D!Working
<1>9. CASE \E q \in Processes : commit_running(q)
  BY <1>4, <1>9, CommitMoves
<1>10. CASE \E q \in Processes : HostStep(q)
  <2>1. PICK q \in Processes : HostStep(q)
    BY <1>10
  <2>2. q = p
    BY <1>4, <2>1, HostMoves
  <2>3. ~ At(p, "details")
    BY <2>1, <2>2
       DEF HostStep, At, Device!At, Device!Take, Device!create_user,
           Device!record_user, Device!add_authorized_key, Device!load_row,
           Device!write_wireguard_config, Device!enable_wireguard_tunnel,
           Device!start_wireguard_tunnel, Device!undo_start,
           Device!undo_enable, Device!load_stopped_row, Device!delete_user,
           Device!stop_unit, Device!disable_unit, Device!remove_config,
           Device!commit_closed
  <2>4. QED
    BY <2>3
<1>11. CASE \E q \in Processes : GoesOn(q)
  <2>1. PICK q \in Processes : GoesOn(q)
    BY <1>11
  <2>2. q = p
    BY <1>4, <2>1, GoesOnMoves
  <2>3. QED
    BY <2>1, <2>2 DEF GoesOn, Device!send_connected_status_to_api,
       Device!notify_stopped, Device!At, At
<1>12. CASE \E q \in Processes : CommandFails(q)
  <2>1. PICK q \in Processes : CommandFails(q)
    BY <1>12
  <2>2. q = p
    BY <1>4, <2>1, FailureMoves
  <2>3. Device!Aborts(p)
    BY <2>1, <2>2
       DEF CommandFails, Device!ConnectFails, Device!ConnectSteps,
           Device!CommandSkipped, Device!AfterSkipped, Device!At, At
  <2>4. QED
    BY <1>1, <2>3 DEF Device!Aborts, Device!Idle
<1>13. CASE Reboot
  BY <1>13 DEF Reboot, Device!Reboot, Device!Idle, Device!Processes, Processes
<1>14. CASE UNCHANGED proc
  BY <1>2, <1>14
<1>15. QED
  BY <1>5, <1>6, <1>7, <1>8, <1>9, <1>10, <1>11, <1>12, <1>13, <1>14
     DEF Next, post_request, Step, get_tunnel_details, post_report,
         delete_tunnel, Call, Answered, Refused, Fails, request_lost, GivesUp,
         Retries, AdminStops, AdminPosts, CommitUnattended, RequestDies, Expire,
         device, Processes

(* What a process has been told waits with it until it is used.            *)
LEMMA RepliesWait ==
    ASSUME SInv, Next, NEW p \in Processes, reply'[p] # None
    PROVE  \/ reply'[p] = reply[p] /\ proc'[p] = proc[p]
           \/ get_tunnel_details(p)
           \/ commit_running(p)
           \/ proc'[p].pc = "idle"
<1>1. reply \in [Processes -> Tunnels \cup Launches \cup SupportUsers
                                 \cup {None}]
  BY DEF SInv, RepliesOK
<1>2. ASSUME NEW q \in Processes, Moves(q),
             \/ reply' = [reply EXCEPT ![q] = None]
             \/ UNCHANGED reply /\ reply[q] = None
      PROVE  reply'[p] = reply[p] /\ proc'[p] = proc[p]
  BY <1>1, <1>2 DEF Moves
<1>3. CASE \E q \in Processes :
              \/ q \in Shells /\ (Command(q) \/ cron(q))
              \/ q \in Collectors /\ gc(q)
  BY <1>2, <1>3, CommandMoves
<1>4. CASE \E q \in Processes : save_request(q)
  BY <1>2, <1>4, SaveMoves DEF save_request, Told
<1>5. CASE \E q \in Processes :
              use_tunnel_details(q) \/ get_tunnel_details_fails(q)
  BY <1>2, <1>5, DetailsMoves
     DEF use_tunnel_details, get_tunnel_details_fails, Told, calls
<1>6. CASE \E q \in Processes : commit_running(q)
  BY <1>6, CommitMoves
<1>7. CASE \E q \in Processes : HostStep(q)
  BY <1>2, <1>7, HostMoves DEF HostStep, Local
<1>8. CASE \E q \in Processes : GoesOn(q)
  BY <1>2, <1>8, GoesOnMoves DEF GoesOn, Told
<1>9. CASE \E q \in Processes : CommandFails(q)
  BY <1>2, <1>9, FailureMoves DEF CommandFails, Told
<1>10. CASE Reboot
  BY <1>10 DEF Reboot
<1>11. CASE \E q \in Processes, t \in Tunnels : post_request(q, t)
  BY <1>1, <1>11 DEF post_request, Told, At, device
<1>12. CASE \E q \in Processes : request_lost(q) \/ get_tunnel_details(q)
  BY <1>1, <1>12 DEF request_lost, get_tunnel_details, Told, device
<1>13. CASE UNCHANGED <<proc, reply>>
  BY <1>13
<1>14. QED
  BY <1>3, <1>4, <1>5, <1>6, <1>7, <1>8, <1>9, <1>10, <1>11, <1>12, <1>13
     DEF Next, Step, post_report, delete_tunnel, Call, Answered, Refused, Fails,
         GivesUp, Retries, AdminStops, AdminPosts, CommitUnattended,
         RequestDies, Expire, device, calls, Processes

LEMMA DownStays == SInv /\ [Next]_vars => DownStep
<1> SUFFICES ASSUME SInv, [Next]_vars, NEW t \in DOMAIN db, Down(t)
             PROVE  Down(t)'
  BY DEF DownStep
<1>1. table'[t].state \in Closed /\ t \notin Api!Admitted'
  <2>1. t \in DOMAIN table
    BY DEF SInv
  <2>2. QED
    BY <2>1, StepsOfBoth, ApiStep DEF SInv, Down
<1>2. D!Absent(t) /\ D!NoneInFlight(t)
  BY SameDeviceStates
     DEF Down, D!Absent, D!NoneInFlight, Device!CleanedUp, D!CleanedUp,
         Device!InFlight, D!InFlight, Device!Tunnel, D!Tunnel, Processes,
         D!Processes
<1>3. CASE Next
  <2>1. ASSUME NEW p \in Processes PROVE ~ D!LetIn(p, t)
    <3>1. SUFFICES ASSUME D!LetIn(p, t) PROVE FALSE
      OBVIOUS
    <3>2. Tunnel(p) = t /\ At(p, "details") /\ proc'[p].pc = "user"
      BY <3>1, ProcTyped
         DEF D!LetIn, D!request_tunnel_server_details, D!Tunnel, Tunnel, D!At,
             At,
             D!Goto, D!Process
    <3>3. QED
      BY <1>3, <3>2, LetInByReply DEF Down
  <2>2. D!Absent(t)' /\ D!NoneInFlight(t)'
    <3>1. CASE D!Next
      BY <1>2, <2>1, <3>1, D!AbsentStays, NoneIsNothing, FaultsAreBounded,
         OwnProcesses, ProcTyped DEF SInv
    <3>2. CASE UNCHANGED D!vars
      BY <1>2, <3>2
         DEF D!vars, D!Absent, D!NoneInFlight, D!CleanedUp, D!InFlight, D!Tunnel
    <3>3. QED
      BY <3>1, <3>2, StepsOfBoth
  <2>3. ASSUME NEW p \in Processes, At(p, "details")', Tunnel(p)' = t
        PROVE  reply'[p] = None
    <3>1. SUFFICES ASSUME reply'[p] # None PROVE FALSE
      OBVIOUS
    <3>2. proc'[p].pc = "details" /\ proc'[p].tunnel = t
      BY <2>3 DEF At, Tunnel
    <3>3. CASE reply'[p] = reply[p] /\ proc'[p] = proc[p]
      BY <3>1, <3>2, <3>3 DEF Down, At, Tunnel
    <3>4. CASE get_tunnel_details(p)
      <4>1. Tunnel(p) = t
        BY <3>2, <3>4 DEF get_tunnel_details, device, Tunnel
      <4>2. QED
        BY <3>4, <4>1 DEF get_tunnel_details, Ready, Down, Usable, Closed,
           started, running, connected, completed, timedout
    <3>5. ~ commit_running(p)
      BY <3>2, CommitMoves
    <3>6. QED
      BY <1>3, <3>1, <3>2, <3>3, <3>4, <3>5, RepliesWait
  <2>4. /\ Device!CleanedUp(t)'
        /\ link'[t] = None
        /\ \A p \in Processes : ~ Device!InFlight(p, t)'
    BY <2>2
       DEF D!Absent, D!NoneInFlight, Device!CleanedUp, D!CleanedUp,
           Device!InFlight, D!InFlight, Device!Tunnel, D!Tunnel, Processes,
           D!Processes, Device!ConnectSteps, D!ConnectSteps
  <2>5. QED
    BY <1>1, <2>3, <2>4 DEF Down
<1>4. CASE UNCHANGED vars
  BY <1>1, <1>4
     DEF vars, Down, Device!CleanedUp, Device!InFlight, Device!Tunnel, At,
         Tunnel
<1>5. QED
  BY <1>3, <1>4

(* A tunnel that is closed, sealed and taken down is never set up again,   *)
(* whatever is run, lost, repeated or answered late, expired or not.       *)
THEOREM DownForGood == Spec => DownStaysDown
<1>1. Spec => [][DownStep]_vars
  BY SystemInvariant, DownStays, PTL DEF Spec
<1>2. QED
  BY <1>1 DEF DownStaysDown
=============================================================================
