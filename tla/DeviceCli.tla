----------------------------- MODULE DeviceCli ------------------------------
(***************************************************************************)
(* The device's command line (src/device): its SQLite table of tunnels and *)
(* what its commands do to the host, the support users, the WireGuard      *)
(* configurations and the wg-quick units.                                  *)
(*                                                                         *)
(* Commands run by hand, from the product's user interface and from cron,  *)
(* as processes of their own, with no lock between them.  Each of their    *)
(* shell commands, SQL statements and requests to the API is a step here;  *)
(* a step may raise or be the last before its process is killed, and the   *)
(* device may reboot.  What the API answers is any answer it could give.   *)
(***************************************************************************)
EXTENDS TunnelModels, FiniteSets

CONSTANTS
    Tunnels,        \* tunnel ids
    Launches,       \* launches of a tunnel server, each with fresh keys
    SupportUsers,   \* names of support users; their number bounds the model
    Shells,         \* processes for the commands other than gc
    Collectors,     \* processes for the gc cron job
    MaxFaults,      \* bound on failed commands and reboots
    None

ASSUME NoneIsNoValue == None \notin Launches \cup SupportUsers \cup Tunnels
ASSUME FaultsAreBounded == MaxFaults \in Nat
ASSUME OwnProcesses == Shells \cap Collectors = {}

VARIABLES
    db,             \* the rows of the table, by tunnel id
    expired,        \* tunnels past their expiry time
    accounts,       \* support users on the host, and the key that lets in
    conf,           \* /etc/wireguard/<interface>.conf, by tunnel
    enabled,        \* tunnels whose wg-quick unit is started at boot
    active,         \* tunnels whose wg-quick unit systemd holds active
    link,           \* the server each WireGuard interface talks to
    proc,           \* the processes
    faults          \* commands failed and reboots so far

host == <<accounts, conf, enabled, active, link>>
vars == <<db, expired, accounts, conf, enabled, active, link, proc, faults>>

Processes == Shells \cup Collectors

(* A row.  server is the launch whose key, address and box are stored.     *)
Row == [state : TunnelState,
        support_user : SupportUsers \cup {None},
        server : Launches \cup {None}]

ConnectSteps == {"user", "record", "authorize", "load", "config", "enable",
                 "start", "commit", "report"}

StopSteps == {"snapshot", "deluser", "down", "disable", "remove", "close",
              "notify"}

(* What start_wireguard_tunnel does of a unit that did not start.          *)
UndoSteps == {"unstart", "unenable"}

(* A process: the tunnels its command has yet to go through, and of the    *)
(* one it works on the step that comes next, the user it has created and   *)
(* the row it has loaded.  closing is the state in which stop leaves the   *)
(* tunnels, None in a process that connects.                               *)
Process == [pc : {"idle", "loop", "details"}
                     \cup ConnectSteps \cup UndoSteps \cup StopSteps,
            todo : SUBSET Tunnels,
            tunnel : Tunnels \cup {None},
            user : SupportUsers \cup {None},
            loaded : Row \cup {None},
            closing : Closed \cup {None}]

TypeOK ==
    /\ DOMAIN db \subseteq Tunnels
    /\ db \in [DOMAIN db -> Row]
    /\ expired \subseteq DOMAIN db
    /\ DOMAIN accounts \subseteq SupportUsers
    /\ accounts \in [DOMAIN accounts -> Launches \cup {None}]
    /\ conf \in [Tunnels -> Launches \cup {None}]
    /\ enabled \subseteq Tunnels
    /\ active \subseteq Tunnels
    /\ link \in [Tunnels -> Launches \cup {None}]
    /\ proc \in [Processes -> Process]
    /\ faults \in 0 .. MaxFaults

-----------------------------------------------------------------------------
NewTunnelWithoutDefault ==
    [state |-> None, support_user |-> None, server |-> None]

(* The row request() saves: the defaults of DeviceTunnel.                  *)
NewTunnel == [state |-> pending, support_user |-> None, server |-> None]

Idle == [pc |-> "idle", todo |-> {}, tunnel |-> None, user |-> None,
         loaded |-> None, closing |-> None]

Init ==
    /\ db = [t \in {} |-> NewTunnel]
    /\ expired = {}
    /\ accounts = [u \in {} |-> None]
    /\ conf = [t \in Tunnels |-> None]
    /\ enabled = {}
    /\ active = {}
    /\ link = [t \in Tunnels |-> None]
    /\ proc = [p \in Processes |-> Idle]
    /\ faults = 0

(* Process p is about to go through the tunnels of todo.                   *)
Working(todo, closing) ==
    [Idle EXCEPT !.pc = "loop", !.todo = todo, !.closing = closing]

Start(p, todo, closing) ==
    /\ proc[p].pc = "idle"
    /\ todo # {}
    /\ proc' = [proc EXCEPT ![p] = Working(todo, closing)]

(* Process p is done with its tunnel, or has given up on it.               *)
Rest(p) ==
    IF proc[p].todo = {} THEN Idle ELSE Working(proc[p].todo, proc[p].closing)

Done(p) == proc' = [proc EXCEPT ![p] = Rest(p)]

At(p, pc) == proc[p].pc = pc

Goto(p, pc) == proc' = [proc EXCEPT ![p].pc = pc]

Tunnel(p) == proc[p].tunnel

-----------------------------------------------------------------------------
(* The commands.                                                           *)

(* Save the row of a tunnel the API has granted an id.  request ends here; *)
(* request_and_connect goes on and tries to connect once.                  *)
request(p, t) ==
    /\ At(p, "idle")
    /\ t \in Tunnels \ DOMAIN db
    /\ db' = [s \in DOMAIN db \cup {t} |-> IF s = t THEN NewTunnel ELSE db[s]]
    /\ UNCHANGED proc \/ Start(p, {t}, None)
    /\ UNCHANGED <<expired, host, faults>>

connect(p, t) ==
    /\ t \in DOMAIN db
    /\ Start(p, {t}, None)
    /\ UNCHANGED <<db, expired, host, faults>>

(* Cron: connect what was pending and not expired when the list was read.  *)
connect_approved_tunnels(p) ==
    /\ Start(p, {t \in DOMAIN db \ expired : db[t].state = pending}, None)
    /\ UNCHANGED <<db, expired, host, faults>>

stop(p, t) ==
    /\ t \in DOMAIN db
    /\ Start(p, {t}, completed)
    /\ UNCHANGED <<db, expired, host, faults>>

(* Cron: stop every tunnel that has expired, whatever its state.           *)
ToCollectIfOpen == {t \in expired : db[t].state \notin Closed}

ToCollect == expired

gc(p) ==
    /\ Start(p, ToCollect, timedout)
    /\ UNCHANGED <<db, expired, host, faults>>

(* The next tunnel of the command's list.                                  *)
Take(p) ==
    /\ At(p, "loop")
    /\ \E t \in proc[p].todo :
          proc' = [proc EXCEPT
                      ![p].pc = IF proc[p].closing = None
                                THEN "details" ELSE "snapshot",
                      ![p].todo = @ \ {t},
                      ![p].tunnel = t]
    /\ UNCHANGED <<db, expired, host, faults>>

-----------------------------------------------------------------------------
(* connect().                                                              *)

LetsExpiredConnect(t) == TRUE

MayConnect(t) == t \notin expired

(* The API answers with the details of launch l, the latest one or an      *)
(* earlier one; they are stored unless the tunnel has expired meanwhile.   *)
request_tunnel_server_details(p, l) ==
    /\ At(p, "details")
    /\ MayConnect(Tunnel(p))
    /\ db' = [db EXCEPT ![Tunnel(p)].server = l]
    /\ Goto(p, "user")
    /\ UNCHANGED <<expired, host, faults>>

(* The tunnel has expired, its server is not ready or the API gives no     *)
(* answer: connect returns.                                                *)
cannot_request_details(p) ==
    /\ At(p, "details")
    /\ Done(p)
    /\ UNCHANGED <<db, expired, host, faults>>

(* A user name is random: it is none that the host, the table or a process *)
(* that creates or deletes a user has to do with.                          *)
Fresh ==
    SupportUsers \ (DOMAIN accounts
                      \cup {db[t].support_user : t \in DOMAIN db}
                      \cup {proc[p].user : p \in Processes}
                      \cup {proc[p].loaded.support_user :
                               p \in {r \in Processes : At(r, "deluser")}})

(* useradd; without a fresh name left, it fails.                           *)
create_user(p) ==
    /\ At(p, "user")
    /\ \/ \E u \in Fresh :
             /\ accounts' = [v \in DOMAIN accounts \cup {u} |->
                                 IF v = u THEN None ELSE accounts[v]]
             /\ proc' = [proc EXCEPT ![p].pc = "record", ![p].user = u]
       \/ Fresh = {} /\ Done(p) /\ UNCHANGED accounts
    /\ UNCHANGED <<db, expired, conf, enabled, active, link, faults>>

(* The first session: the user is recorded for a later clean up.           *)
record_user(p) ==
    /\ At(p, "record")
    /\ db' = [db EXCEPT ![Tunnel(p)].support_user = proc[p].user]
    /\ Goto(p, "authorize")
    /\ UNCHANGED <<expired, host, faults>>

(* The row is read again for the box.  Without the account, the commands   *)
(* that hand the key file over to it fail.                                 *)
add_authorized_key(p) ==
    /\ At(p, "authorize")
    /\ IF proc[p].user \in DOMAIN accounts
       THEN /\ accounts' = [accounts EXCEPT
                               ![proc[p].user] = db[Tunnel(p)].server]
            /\ proc' = [proc EXCEPT ![p].pc = "load", ![p].user = None]
       ELSE Done(p) /\ UNCHANGED accounts
    /\ UNCHANGED <<db, expired, conf, enabled, active, link, faults>>

(* The second session loads the row; a pre-up script may take two minutes  *)
(* before the row is used.                                                 *)
load_row(p) ==
    /\ At(p, "load")
    /\ proc' = [proc EXCEPT ![p].pc = "config", ![p].loaded = db[Tunnel(p)]]
    /\ UNCHANGED <<db, expired, host, faults>>

write_wireguard_config(p) ==
    /\ At(p, "config")
    /\ conf' = [conf EXCEPT ![Tunnel(p)] = proc[p].loaded.server]
    /\ Goto(p, "enable")
    /\ UNCHANGED <<db, expired, accounts, enabled, active, link, faults>>

enable_wireguard_tunnel(p) ==
    /\ At(p, "enable")
    /\ enabled' = enabled \cup {Tunnel(p)}
    /\ Goto(p, "start")
    /\ UNCHANGED <<db, expired, accounts, conf, active, link, faults>>

(* What `systemctl stop` does: of an active unit it runs `wg-quick down`,  *)
(* which finds the interface by its configuration and fails without it.    *)
StopUnit(t) ==
    /\ active' = active \ {t}
    /\ link' = [link EXCEPT
                   ![t] = IF t \in active /\ conf[t] # None THEN None ELSE @]

(* `systemctl start`: nothing if the unit is active, else `wg-quick up`,   *)
(* which needs the configuration and that there is no such interface yet.  *)
start_wireguard_tunnel(p) ==
    /\ At(p, "start")
    /\ LET t == Tunnel(p) IN
       \/ /\ t \in active
          /\ Goto(p, "commit")
          /\ UNCHANGED <<active, link>>
       \/ /\ t \notin active /\ conf[t] # None /\ link[t] = None
          /\ active' = active \cup {t}
          /\ link' = [link EXCEPT ![t] = conf[t]]
          /\ Goto(p, "commit")
       \/ /\ t \notin active /\ (conf[t] = None \/ link[t] # None)
          /\ Goto(p, "unstart")
          /\ UNCHANGED <<active, link>>
    /\ UNCHANGED <<db, expired, accounts, conf, enabled, faults>>

(* The clean up of a unit that was not enabled or did not start, after     *)
(* which the exception is raised again.                                    *)
undo_start(p) ==
    /\ At(p, "unstart")
    /\ StopUnit(Tunnel(p))
    /\ Goto(p, "unenable")
    /\ UNCHANGED <<db, expired, accounts, conf, enabled, faults>>

undo_enable(p) ==
    /\ At(p, "unenable")
    /\ enabled' = enabled \ {Tunnel(p)}
    /\ Done(p)
    /\ UNCHANGED <<db, expired, accounts, conf, active, link, faults>>

(* The state is written only if it differs from the one loaded before.     *)
commit_running(p) ==
    /\ At(p, "commit")
    /\ db' = [db EXCEPT
                 ![Tunnel(p)].state =
                     Written(@, proc[p].loaded.state, running)]
    /\ proc' = [proc EXCEPT ![p].pc = "report", ![p].loaded = None]
    /\ UNCHANGED <<expired, host, faults>>

(* The POST to the API; whatever the answer, nothing is undone.            *)
send_connected_status_to_api(p) ==
    /\ At(p, "report")
    /\ Done(p)
    /\ UNCHANGED <<db, expired, host, faults>>

-----------------------------------------------------------------------------
(* stop().                                                                 *)

(* The row is loaded once; a pre-down script may run before it is used.    *)
load_stopped_row(p) ==
    /\ At(p, "snapshot")
    /\ proc' = [proc EXCEPT ![p].pc = "deluser", ![p].loaded = db[Tunnel(p)]]
    /\ UNCHANGED <<db, expired, host, faults>>

(* The user of the loaded row is not needed again; its server never was.   *)
OnlyState(row) == [row EXCEPT !.support_user = None, !.server = None]

PastUser(p) ==
    proc' = [proc EXCEPT ![p].pc = "down", ![p].loaded = OnlyState(@)]

delete_user(p) ==
    /\ At(p, "deluser")
    /\ accounts' = [u \in DOMAIN accounts \ {proc[p].loaded.support_user} |->
                        accounts[u]]
    /\ PastUser(p)
    /\ UNCHANGED <<db, expired, conf, enabled, active, link, faults>>

stop_unit_without_config(p) ==
    /\ At(p, "down")
    /\ conf' = [conf EXCEPT ![Tunnel(p)] = None]
    /\ active' = active \ {Tunnel(p)}
    /\ Goto(p, "disable")
    /\ UNCHANGED <<db, expired, accounts, enabled, link, faults>>

stop_unit(p) ==
    /\ At(p, "down")
    /\ StopUnit(Tunnel(p))
    /\ Goto(p, "disable")
    /\ UNCHANGED <<db, expired, accounts, conf, enabled, faults>>

disable_unit(p) ==
    /\ At(p, "disable")
    /\ enabled' = enabled \ {Tunnel(p)}
    /\ Goto(p, "remove")
    /\ UNCHANGED <<db, expired, accounts, conf, active, link, faults>>

remove_config(p) ==
    /\ At(p, "remove")
    /\ conf' = [conf EXCEPT ![Tunnel(p)] = None]
    /\ Goto(p, "close")
    /\ UNCHANGED <<db, expired, accounts, enabled, active, link, faults>>

(* The columns the commit of stop leaves in the row.                       *)
ClosedRowForgotten(row, loaded, closing) ==
    [row EXCEPT !.state = Written(@, loaded.state, closing),
                !.support_user = None]

ClosedRow(row, loaded, closing) ==
    [row EXCEPT !.state = Written(@, loaded.state, closing)]

commit_closed(p) ==
    /\ At(p, "close")
    /\ db' = [db EXCEPT
                 ![Tunnel(p)] =
                     ClosedRow(@, proc[p].loaded, proc[p].closing)]
    /\ proc' = IF Tunnel(p) \in expired THEN [proc EXCEPT ![p] = Rest(p)]
               ELSE [proc EXCEPT ![p].pc = "notify", ![p].loaded = None]
    /\ UNCHANGED <<expired, host, faults>>

(* The DELETE to the API; whatever the answer, the row stays closed.       *)
notify_stopped(p) ==
    /\ At(p, "notify")
    /\ Done(p)
    /\ UNCHANGED <<db, expired, host, faults>>

-----------------------------------------------------------------------------
(* Faults.                                                                 *)

Fault == faults < MaxFaults /\ faults' = faults + 1

Busy(p) == proc[p].pc # "idle"

(* A step of connect raises: connect_approved_tunnels catches the          *)
(* exception and goes on with its next tunnel.                             *)
ConnectFails(p) ==
    /\ Fault
    /\ proc[p].pc \in ConnectSteps
    /\ IF proc[p].pc \in {"enable", "start"}
       THEN Goto(p, "unstart") ELSE Done(p)
    /\ UNCHANGED <<db, expired, host>>

(* The commands that clean up run with warn=True: one that fails is logged *)
(* and the next one is run.                                                *)
AfterSkipped == [down |-> "disable", disable |-> "remove", remove |-> "close",
                 unstart |-> "unenable"]

CommandSkipped(p) ==
    /\ Fault
    /\ \/ At(p, "deluser") /\ PastUser(p)
       \/ /\ proc[p].pc \in DOMAIN AfterSkipped
          /\ Goto(p, AfterSkipped[proc[p].pc])
       \/ At(p, "unenable") /\ Done(p)
    /\ UNCHANGED <<db, expired, host>>

(* A step of stop raises, or the process is killed.                        *)
Aborts(p) ==
    /\ Fault
    /\ Busy(p)
    /\ proc' = [proc EXCEPT ![p] = Idle]
    /\ UNCHANGED <<db, expired, host>>

(* All processes and interfaces are gone; systemd starts what is enabled.  *)
Reboot ==
    /\ Fault
    /\ proc' = [p \in Processes |-> Idle]
    /\ active' = {t \in enabled : conf[t] # None}
    /\ link' = [t \in Tunnels |-> IF t \in enabled THEN conf[t] ELSE None]
    /\ UNCHANGED <<db, expired, accounts, conf, enabled>>

Expire(t) ==
    /\ t \in DOMAIN db \ expired
    /\ expired' = expired \cup {t}
    /\ UNCHANGED <<db, host, proc, faults>>

-----------------------------------------------------------------------------
ConnectStep(p) ==
    \/ \E l \in Launches : request_tunnel_server_details(p, l)
    \/ cannot_request_details(p)
    \/ create_user(p)
    \/ record_user(p)
    \/ add_authorized_key(p)
    \/ load_row(p)
    \/ write_wireguard_config(p)
    \/ enable_wireguard_tunnel(p)
    \/ start_wireguard_tunnel(p)
    \/ undo_start(p)
    \/ undo_enable(p)
    \/ commit_running(p)
    \/ send_connected_status_to_api(p)

StopStep(p) ==
    \/ load_stopped_row(p)
    \/ delete_user(p)
    \/ stop_unit(p)
    \/ disable_unit(p)
    \/ remove_config(p)
    \/ commit_closed(p)
    \/ notify_stopped(p)

Command(p) ==
    \/ connect_approved_tunnels(p)
    \/ \E t \in Tunnels : request(p, t) \/ connect(p, t) \/ stop(p, t)

Step(p) == Take(p) \/ ConnectStep(p) \/ StopStep(p)

Next ==
    \/ \E p \in Shells : Command(p)
    \/ \E p \in Collectors : gc(p)
    \/ \E p \in Processes :
          Step(p) \/ ConnectFails(p) \/ CommandSkipped(p) \/ Aborts(p)
    \/ \E t \in Tunnels : Expire(t)
    \/ Reboot

Spec == Init /\ [][Next]_vars

(* Cron starts gc again and again, and a gc that is not killed goes on.    *)
(* Nobody has to run a command, no command has to go on, and nothing has   *)
(* to fail.                                                                *)
Fairness == \A p \in Collectors : WF_vars(Step(p)) /\ WF_vars(gc(p))

FairSpec == Spec /\ Fairness

(* The device in good order: commands run one at a time, whoever starts    *)
(* them, none of them fails or is killed, the device is rebooted only      *)
(* while none is at work, and nobody connects a tunnel that is running:    *)
(* connect would replace its row and its user and leave its interface.     *)
OneAtATime == \A p, q \in Processes : Busy(p) /\ Busy(q) => p = q

ConnectsNoneTwice ==
    \A p \in Processes :
        At(p, "loop") /\ proc[p].closing = None
            => \A t \in proc[p].todo : db[t].state # running

Orderly ==
    /\ OneAtATime'
    /\ ConnectsNoneTwice'
    /\ faults' # faults => \A p \in Processes : ~ Busy(p)

OrderlySpec == Init /\ [][Next /\ Orderly]_vars

-----------------------------------------------------------------------------
(* A running tunnel has a recorded support user and a server, even when    *)
(* other connects and stops of it were under way: what gc must delete, and *)
(* what DeviceTunnelLaunchDetails reports, is never missing.               *)
RunningIsRecorded ==
    \A t \in DOMAIN db :
        db[t].state = running => /\ db[t].support_user # None
                                 /\ db[t].server # None

(* A process that has been let in to connect t.                            *)
InFlight(p, t) == Tunnel(p) = t /\ proc[p].pc \in ConnectSteps

(* Nothing is left of t that a later command or a reboot would revive.     *)
CleanedUp(t) ==
    /\ db[t].support_user \notin DOMAIN accounts
    /\ conf[t] = None
    /\ t \notin enabled
    /\ t \notin active

Gone(t) ==
    /\ t \in expired
    /\ CleanedUp(t)
    /\ link[t] = None
    /\ \A p \in Processes : ~ InFlight(p, t)

(* Once an expired tunnel is gone, it is gone for good: no command that is *)
(* run or was under way, and no reboot, brings its interface, its unit,    *)
(* its configuration or its user back.                                     *)
GoneStep == \A t \in DOMAIN db : Gone(t) => Gone(t)'

GoneStaysGone == [][GoneStep]_vars

(* Garbage collection gets there: in the end nothing is left of an expired *)
(* tunnel for systemd to start, and its recorded user is gone, whatever    *)
(* commands overlapped, failed or were killed before.                      *)
ExpiredAreCleanedUp ==
    \A t \in Tunnels : <>[](t \in expired => CleanedUp(t))

(* The interface of t talks to the server on record, and would again after *)
(* a reboot, and the user on record is let in with the key of that server. *)
Reachable(t) ==
    /\ db[t].server # None
    /\ conf[t] = db[t].server
    /\ link[t] = db[t].server
    /\ t \in enabled \cap active
    /\ db[t].support_user \in DOMAIN accounts
    /\ accounts[db[t].support_user] = db[t].server

(* The host is what the table says it is: a running tunnel can be reached  *)
(* through the server on record, of any other nothing is left, and every   *)
(* support user is that of a running tunnel, so that its stop will find    *)
(* it.  This is what connect, stop, gc and reboots in any order add up to  *)
(* while no two commands overlap, none fails, and no tunnel that is        *)
(* running is connected again.                                             *)
HostMatchesTable ==
    (\A p \in Processes : ~ Busy(p)) =>
        /\ \A t \in DOMAIN db :
              IF db[t].state = running THEN Reachable(t)
              ELSE CleanedUp(t) /\ link[t] = None
        /\ \A u \in DOMAIN accounts :
              \E t \in DOMAIN db :
                  db[t].state = running /\ db[t].support_user = u

-----------------------------------------------------------------------------
(* What the docs say of the device and the code does not keep.             *)

(* connect() records its user in a session of its own "in case we end up   *)
(* bailing halfway through, and need to clean up user accounts later"      *)
(* (device/cli.py:253).  The next connect creates another user and records *)
(* it in the place of the first, which nothing then deletes.               *)
RecordedUserStep ==
    \A t \in DOMAIN db :
        db[t].support_user \in DOMAIN accounts'
            => db'[t].support_user = db[t].support_user

RecordedUsersStay == [][RecordedUserStep]_vars

(* "When tunnels are explicitly stopped or they expire past this time,     *)
(* regular garbage collection of resources will stop tunnels"              *)
(* (docs/overview.md:44).  If connect starts the interface between the     *)
(* `systemctl stop` and the `rm` of a stop, no later stop can take down an *)
(* interface whose configuration is gone.                                  *)
ExpiredGoDown ==
    \A t \in Tunnels : <>[](t \in expired => link[t] = None)
=============================================================================
