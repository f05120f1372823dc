---------------------------- MODULE SupportTunnel ---------------------------
(***************************************************************************)
(* A device and the bookkeeping API: DeviceCli and TunnelApi composed over *)
(* the requests the device makes, with an administrator who posts details  *)
(* of tunnel servers and stops tunnels when he likes.                      *)
(*                                                                         *)
(* A request takes effect when a worker of the API commits it; the device  *)
(* goes on when it is answered.  In between the answer may be lost, the    *)
(* request repeated, or the caller killed.  Nothing is ever sent from the  *)
(* API to the device: what it answered may be stale when the device uses   *)
(* it.                                                                     *)
(***************************************************************************)
EXTENDS TunnelModels, FiniteSets

CONSTANTS
    Tunnels,        \* tunnel ids
    Launches,       \* launches of a tunnel server
    SupportUsers,   \* names of support users
    Workers,        \* threads that serve requests to the API
    Shells,         \* processes of the device for commands and cron's connect
    Collectors,     \* processes of the device for gc
    MaxFaults,      \* bound on failed commands and reboots of the device
    MaxLost,        \* bound on lost answers and repeated requests
    None

ASSUME NoneIsNothing ==
    None \notin Launches \cup SupportUsers \cup Workers \cup Tunnels
ASSUME FaultsAreBounded == MaxFaults \in Nat
ASSUME LossIsBounded == MaxLost \in Nat
ASSUME OwnProcesses == Shells \cap Collectors = {}

VARIABLES
    table, expired, txn,                                    \* TunnelApi
    db, accounts, conf, enabled, active, link, proc, faults,    \* DeviceCli
    awaited,        \* the worker each process waits for
    reply,          \* what each process has been told and not used yet
    posted,         \* launches whose details have been posted
    lost            \* answers lost and requests repeated so far

api == <<table, expired, txn>>
device == <<db, accounts, conf, enabled, active, link, proc, faults>>
calls == <<awaited, reply>>
vars == <<table, expired, txn, db, accounts, conf, enabled, active, link, proc,
          faults, awaited, reply, posted, lost>>

Api == INSTANCE TunnelApi

(* The device knows of its own tunnels only.                               *)
Device == INSTANCE DeviceCli WITH expired <- expired \cap DOMAIN db

Processes == Shells \cup Collectors

TypeOK ==
    /\ Api!TypeOK
    /\ Device!TypeOK
    /\ DOMAIN db \subseteq DOMAIN table
    /\ awaited \in [Processes -> DOMAIN txn \cup {None}]
    /\ reply \in [Processes -> Tunnels \cup Launches \cup SupportUsers
                                   \cup {None}]
    /\ posted \subseteq Launches
    /\ lost \in 0 .. MaxLost

-----------------------------------------------------------------------------
Init ==
    /\ Api!Init
    /\ Device!Init
    /\ awaited = [p \in Processes |-> None]
    /\ reply = [p \in Processes |-> None]
    /\ posted = {}
    /\ lost = 0

At(p, pc) == proc[p].pc = pc

Tunnel(p) == proc[p].tunnel

Loss == lost < MaxLost /\ lost' = lost + 1

Told(p, v) == reply' = [reply EXCEPT ![p] = v]

(* A step of process p that no request is part of.                         *)
Local(p) ==
    /\ UNCHANGED <<api, awaited, posted, lost>>
    /\ reply[p] = None
    /\ UNCHANGED reply

-----------------------------------------------------------------------------
(* request(): the API inserts a row, then the device saves its own.        *)
post_request(p, t) ==
    /\ Api!request_tunnel(t)
    /\ At(p, "idle")
    /\ reply[p] = None
    /\ Told(p, t)
    /\ UNCHANGED <<device, awaited, posted, lost>>

save_request(p) ==
    /\ At(p, "idle")
    /\ UNCHANGED <<api, awaited, posted, lost>>
    /\ Device!request(p, reply[p])
    /\ Told(p, None)

(* The answer is lost, or the device fails to save it: the API has a row   *)
(* of a tunnel no device knows.                                            *)
request_lost(p) ==
    /\ Loss
    /\ At(p, "idle")
    /\ reply[p] # None
    /\ Told(p, None)
    /\ UNCHANGED <<api, device, awaited, posted>>

ReadyUnlessPending(row) == row.state # pending

ReadyOnceRunning(row) == row.state \in Usable \ {started}

Ready(row) == row.state \in Usable

(* GET device/tunnel/details, which a token that has expired does not get, *)
(* and what connect does with the answer.                                  *)
get_tunnel_details(p) ==
    /\ At(p, "details")
    /\ Api!Authorized(Tunnel(p))
    /\ Ready(table[Tunnel(p)])
    /\ reply[p] = None
    /\ Told(p, table[Tunnel(p)].ts_wg_public_key)
    /\ UNCHANGED <<api, device, awaited, posted, lost>>

use_tunnel_details(p) ==
    /\ UNCHANGED <<api, awaited, posted, lost>>
    /\ reply[p] # None
    /\ \/ Device!request_tunnel_server_details(p, reply[p])
       \/ Tunnel(p) \in expired /\ Device!cannot_request_details(p)
    /\ Told(p, None)

(* Nothing to use: the request is refused or the server is not ready, or   *)
(* there is no answer.                                                     *)
get_tunnel_details_fails(p) ==
    /\ At(p, "details")
    /\ UNCHANGED <<api, calls, posted>>
    /\ reply[p] = None
    /\ \/ /\ Api!Authorized(Tunnel(p)) => ~ Ready(table[Tunnel(p)])
          /\ UNCHANGED lost
       \/ Loss
    /\ Device!cannot_request_details(p)

(* The commit of the running tunnel reads the row again for the report.    *)
commit_running(p) ==
    /\ UNCHANGED <<api, awaited, posted, lost>>
    /\ Device!commit_running(p)
    /\ Told(p, db[Tunnel(p)].support_user)

-----------------------------------------------------------------------------
(* The report of a running tunnel, and the DELETE of a stopped one.        *)
Call(p, w) ==
    /\ awaited[p] = None
    /\ awaited' = [awaited EXCEPT ![p] = w]
    /\ UNCHANGED <<device, reply, posted, lost>>

post_report(p, w) ==
    /\ At(p, "report")
    /\ Api!set_tunnel_details_from_device(w, Tunnel(p), reply[p])
    /\ Call(p, w)

delete_tunnel(p, w) ==
    /\ At(p, "notify")
    /\ Api!device_stop_tunnel(w, Tunnel(p))
    /\ Call(p, w)

(* The command goes on, or ends, after its request.                        *)
GoesOn(p) ==
    /\ Device!send_connected_status_to_api(p) \/ Device!notify_stopped(p)
    /\ awaited' = [awaited EXCEPT ![p] = None]
    /\ Told(p, None)
    /\ UNCHANGED posted

Answered(p) ==
    /\ awaited[p] # None
    /\ Api!Commit(awaited[p])
    /\ GoesOn(p)
    /\ UNCHANGED lost

(* The API refuses the request every time it is sent.                      *)
Refused(p) ==
    /\ awaited[p] = None
    /\ ~ Api!Authorized(Tunnel(p)) \/ /\ At(p, "report")
                                      /\ ~ Api!AcceptsConnection(
                                                table[Tunnel(p)])
    /\ UNCHANGED api
    /\ GoesOn(p)
    /\ UNCHANGED lost

(* The device has no answer and gives up; a request that is being served   *)
(* takes effect all the same.                                              *)
GivesUp(p) ==
    /\ Loss
    /\ UNCHANGED api
    /\ GoesOn(p)

(* The device has no answer and sends the request again.                   *)
Retries(p) ==
    /\ Loss
    /\ awaited[p] # None
    /\ awaited' = [awaited EXCEPT ![p] = None]
    /\ UNCHANGED <<api, device, reply, posted>>

-----------------------------------------------------------------------------
(* The other steps of the device, the administrator and the API.           *)

cron(p) ==
    /\ Local(p)
    /\ Device!connect_approved_tunnels(p)

gc(p) ==
    /\ Local(p)
    /\ Device!gc(p)

Command(p) ==
    /\ Local(p)
    /\ \E t \in Tunnels : Device!connect(p, t) \/ Device!stop(p, t)

HostStep(p) ==
    /\ Local(p)
    /\ \/ Device!Take(p)
       \/ Device!create_user(p)
       \/ Device!record_user(p)
       \/ Device!add_authorized_key(p)
       \/ Device!load_row(p)
       \/ Device!write_wireguard_config(p)
       \/ Device!enable_wireguard_tunnel(p)
       \/ Device!start_wireguard_tunnel(p)
       \/ Device!undo_start(p)
       \/ Device!undo_enable(p)
       \/ Device!load_stopped_row(p)
       \/ Device!delete_user(p)
       \/ Device!stop_unit(p)
       \/ Device!disable_unit(p)
       \/ Device!remove_config(p)
       \/ Device!commit_closed(p)

(* A command fails or is killed: nobody waits for its answer any more.     *)
CommandFails(p) ==
    /\ UNCHANGED <<api, posted, lost>>
    /\ Device!ConnectFails(p) \/ Device!CommandSkipped(p) \/ Device!Aborts(p)
    /\ awaited' = [awaited EXCEPT ![p] = None]
    /\ Told(p, None)

Reboot ==
    /\ UNCHANGED <<api, posted, lost>>
    /\ Device!Reboot
    /\ awaited' = [p \in Processes |-> None]
    /\ reply' = [p \in Processes |-> None]

(* Details of a launch are posted once, unless the answer is lost.         *)
AdminPosts(w, t, l) ==
    /\ Api!post_tunnel_details(w, t, l)
    /\ posted' = posted \cup {l}
    /\ IF l \in posted THEN Loss ELSE UNCHANGED lost
    /\ UNCHANGED <<device, calls>>

AdminStops(w, t) ==
    /\ Api!admin_stop_tunnel(w, t)
    /\ UNCHANGED <<device, calls, posted, lost>>

Unattended(w) == \A p \in Processes : awaited[p] # w

CommitUnattended(w) ==
    /\ Unattended(w)
    /\ Api!Commit(w)
    /\ UNCHANGED <<device, calls, posted, lost>>

RequestDiesUnnoticed(w) ==
    /\ Loss
    /\ Api!Rollback(w)
    /\ UNCHANGED <<device, calls, posted>>

(* The instance of the API stops; the session sends the request again.     *)
RequestDies(w) ==
    /\ Loss
    /\ Api!Rollback(w)
    /\ awaited' = [p \in Processes |->
                      IF awaited[p] = w THEN None ELSE awaited[p]]
    /\ UNCHANGED <<device, reply, posted>>

(* The token of a tunnel whose request is not saved yet does not expire.   *)
Expire(t) ==
    /\ \A p \in Processes : reply[p] # t
    /\ Api!Expire(t)
    /\ UNCHANGED <<device, calls, posted, lost>>

-----------------------------------------------------------------------------
Step(p) ==
    \/ save_request(p)
    \/ get_tunnel_details(p)
    \/ use_tunnel_details(p)
    \/ get_tunnel_details_fails(p) /\ UNCHANGED lost
    \/ commit_running(p)
    \/ HostStep(p)
    \/ \E w \in Workers : post_report(p, w) \/ delete_tunnel(p, w)
    \/ Answered(p)
    \/ Refused(p)

Fails(p) ==
    \/ request_lost(p)
    \/ get_tunnel_details_fails(p)
    \/ GivesUp(p)
    \/ Retries(p)
    \/ CommandFails(p)

Next ==
    \/ \E p \in Shells : \/ \E t \in Tunnels : post_request(p, t)
                         \/ Command(p)
                         \/ cron(p)
    \/ \E p \in Collectors : gc(p)
    \/ \E p \in Processes : Step(p) \/ Fails(p)
    \/ Reboot
    \/ \E w \in Workers : \/ \E t \in Tunnels : \/ AdminStops(w, t)
                                                \/ \E l \in Launches :
                                                      AdminPosts(w, t, l)
                          \/ CommitUnattended(w)
                          \/ RequestDies(w)
    \/ \E t \in Tunnels : Expire(t)

Spec == Init /\ [][Next]_vars

(* Cron starts its two jobs again and again, whatever other commands run,  *)
(* and processes and workers go on unless something fails or is lost.      *)
(* Nobody has to run a command, post or stop anything, and no tunnel has   *)
(* to expire.                                                              *)
Fairness ==
    /\ \A p \in Processes : WF_vars(Step(p))
    /\ \A p \in Shells : SF_vars(cron(p))
    /\ \A p \in Collectors : WF_vars(gc(p))
    /\ \A w \in Workers : WF_vars(CommitUnattended(w))

FairSpec == Spec /\ Fairness

(* Every tunnel goes through its life once: no request that was let in     *)
(* before a tunnel was closed reopens it, and its row is given the details *)
(* of one launch.  Two workers can break the first, an administrator who   *)
(* launches again the second.                                              *)
ClosedForGood ==
    \A t \in DOMAIN table :
        table[t].state \in Closed => table'[t].state \in Closed

LaunchedOnce ==
    \A t \in DOMAIN table :
        table[t].ts_wg_public_key # None
            => table'[t].ts_wg_public_key = table[t].ts_wg_public_key

OnceSpec == Init /\ [][Next /\ ClosedForGood /\ LaunchedOnce]_vars

-----------------------------------------------------------------------------
(* The state of t in the API's table, and in that of the device.           *)
ApiState(t) == IF t \in DOMAIN table THEN table[t].state ELSE None

DeviceState(t) == IF t \in DOMAIN db THEN db[t].state ELSE None

(* What the API really answers is what DeviceCli takes it to answer, even  *)
(* when it is stale, so all that is said of the device there holds here:   *)
(* it is only ever given details of a launch, and always some.             *)
KeepsDevice == Device!Spec

(* `fab connect`: the state is looked up, the server's ssh key is used to  *)
(* log in as the support user, through the server's tunnel to the device.  *)
(* That the server exists is AdminCli's matter (StartedHasServer); here it *)
(* is what the device and the API have to agree on.                        *)
CanConnect(t) ==
    /\ table[t].state = running
    /\ table[t].support_user \in DOMAIN accounts
    /\ accounts[table[t].support_user] = table[t].ts_wg_public_key
    /\ link[t] = table[t].ts_wg_public_key

AtRest ==
    /\ txn = << >>
    /\ \A p \in Processes : At(p, "idle")

(* An answer has been lost, or a command of the device has failed.         *)
Disturbed == lost + faults > 0

(* "device has started a tunnel, created a user and posted these details"  *)
(* (common/models.py:20): a tunnel the API says is running can be logged   *)
(* in through.  While nothing is lost or fails, and the API serves one     *)
(* request at a time, the user and server in its row are those on the      *)
(* device until the tunnel expires, whatever commands and cron jobs        *)
(* overlapped.  It fails when a tunnel is launched again while its device  *)
(* connects: a report does not say of which launch it is.                  *)
RunningCanBeConnected ==
    AtRest /\ ~ Disturbed =>
        \A t \in DOMAIN table \ expired :
            table[t].state = running => CanConnect(t)

(* A tunnel of which a device has reported is, on that device, past its    *)
(* first connect for good: its row has a user and a server, and is not     *)
(* pending, so that cron will not connect it again and report another      *)
(* user, and a stop or gc has a user to delete.  The report may take       *)
(* effect after the tunnel was stopped, or after another connect; the user *)
(* on record need not be the one reported then.                            *)
ReportedIsRecorded ==
    \A t \in DOMAIN table :
        table[t].support_user # None
            => /\ t \in DOMAIN db
               /\ db[t].state # pending
               /\ db[t].support_user # None
               /\ db[t].server # None

(* A tunnel is down for good, long before it expires: closed and sealed in *)
(* the API, nothing left of it on the device, and no command under way     *)
(* that was told to connect it while it was open.                          *)
Down(t) ==
    /\ table[t].state \in Closed
    /\ t \notin Api!Admitted
    /\ Device!CleanedUp(t)
    /\ link[t] = None
    /\ \A p \in Processes :
          /\ ~ Device!InFlight(p, t)
          /\ At(p, "details") /\ Tunnel(p) = t => reply[p] = None

DownStep == \A t \in DOMAIN db : Down(t) => Down(t)'

(* Closing a tunnel is final on both sides: whatever commands are run on   *)
(* the device, whatever is sent again or answered late, and after any      *)
(* failure or reboot, a tunnel that is down is never set up again, though  *)
(* its row and its token stay on the device.                               *)
DownStaysDown == [][DownStep]_vars

(* A tunnel of the device that has been approved.                          *)
Approved(t) == t \in DOMAIN db /\ ApiState(t) = started

(* Cron gets every approved tunnel up on the device, unless it is stopped  *)
(* or expires: answers that are lost, failed connects, killed processes    *)
(* and reboots only make it try again.                                     *)
ApprovedIsConnected ==
    \A t \in Tunnels :
        Approved(t) ~> \/ t \in expired
                       \/ ApiState(t) \in Closed
                       \/ DeviceState(t) # pending

(* "when it does you can run the following command to log into it"         *)
(* (admin/cli.py:184): an approved tunnel that its device has not           *)
(* connected yet is reported as running in the end, or it is stopped or    *)
(* expires, however often it is launched again meanwhile.  Only a fault or *)
(* a lost answer is in the way, as the report is made once.  Once the      *)
(* tunnel runs on the device there is no such promise: a launch posted     *)
(* then takes the API's state back to started, and cron connects and       *)
(* reports pending rows only.                                              *)
ApprovedIsReported ==
    \A t \in Tunnels :
        Approved(t) /\ DeviceState(t) = pending
            ~> t \in expired \/ ApiState(t) # started \/ Disturbed

(* "Let upstream know" (device/cli.py:342): what is stopped on the device  *)
(* is closed in the API in the end, though the device commits its own      *)
(* state first and asks the API once.  Again a fault or a lost answer is   *)
(* all that is in the way.                                                 *)
StopIsReported ==
    \A t \in Tunnels :
        DeviceState(t) = completed
            ~> t \in expired \/ ApiState(t) \in Closed \/ Disturbed
=============================================================================
