------------------------------ MODULE AdminCli ------------------------------
(***************************************************************************)
(* The administrator's command line (src/admin) and the tunnel servers it  *)
(* starts and destroys in the cloud, working against the bookkeeping API.  *)
(*                                                                         *)
(* Commands are processes on the machines of several administrators; gc    *)
(* may also run from cron.  create looks at a tunnel once and then works   *)
(* for minutes; gc works through two lists that grow old meanwhile.  A     *)
(* request to the API is served by a worker of TunnelApi: its caller waits *)
(* for the commit, but may also time out, try again or give up while the   *)
(* request still takes effect.  Devices send any requests they like.       *)
(***************************************************************************)
EXTENDS TunnelModels, FiniteSets

CONSTANTS
    Tunnels,        \* tunnel ids
    Launches,       \* launches of a tunnel server; their number is a bound
    SupportUsers,   \* names of support users on devices
    Workers,        \* threads that serve requests to the API
    Admins,         \* processes for the commands create and stop
    Collectors,     \* processes for gc
    MaxFaults,      \* bound on lost answers, failures and kills
    None

ASSUME NoneIsNothing ==
    None \notin Launches \cup SupportUsers \cup Workers \cup Tunnels
ASSUME FaultsAreBounded == MaxFaults \in Nat
ASSUME OwnProcesses == Admins \cap Collectors = {}

VARIABLES
    table, expired, txn,    \* the API's table, as in TunnelApi
    overdue,        \* tunnels past expiry by the administrators' local clock
    servers,        \* tunnels with an instance of their name in the cloud
    inserting,      \* inserts that create has given up and the cloud has not
    keys,           \* the launch whose keys are on the instance
    launched,       \* launches whose keys have been generated
    proc,           \* the processes
    faults          \* faults so far

api == <<table, expired, txn>>
cloud == <<servers, inserting, keys, launched>>
vars == <<table, expired, txn, overdue, servers, inserting, keys, launched,
          proc, faults>>

Api == INSTANCE TunnelApi

Processes == Admins \cup Collectors

(* A process: the tunnels of the list it goes through, the one it works    *)
(* on, the keys it has generated for it and the worker it waits for.       *)
Process == [pc : {"idle", "insert", "configure", "post", "destroy", "stop",
                  "list", "expire", "delete", "instances", "remove"},
            todo : SUBSET Tunnels,
            tunnel : Tunnels \cup {None},
            launch : Launches \cup {None},
            worker : Workers \cup {None}]

TypeOK ==
    /\ Api!TypeOK
    /\ overdue \subseteq DOMAIN table
    /\ servers \subseteq DOMAIN table
    /\ inserting \subseteq DOMAIN table
    /\ keys \in [Tunnels -> Launches \cup {None}]
    /\ launched \subseteq Launches
    /\ proc \in [Processes -> Process]
    /\ \A p \in Processes : proc[p].worker \in DOMAIN txn \cup {None}
    /\ faults \in 0 .. MaxFaults

-----------------------------------------------------------------------------
(* A process about to do the step pc, of tunnel t, with todo left to do.   *)
Doing(pc, todo, t) ==
    [pc |-> pc, todo |-> todo, tunnel |-> t, launch |-> None, worker |-> None]

Idle == Doing("idle", {}, None)

Init ==
    /\ Api!Init
    /\ overdue = {}
    /\ servers = {}
    /\ inserting = {}
    /\ keys = [t \in Tunnels |-> None]
    /\ launched = {}
    /\ proc = [p \in Processes |-> Idle]
    /\ faults = 0

At(p, pc) == proc[p].pc = pc

Tunnel(p) == proc[p].tunnel

Become(p, r) == proc' = [proc EXCEPT ![p] = r]

Goto(p, pc) == proc' = [proc EXCEPT ![p].pc = pc]

(* gc goes on with the next instance of its list, or is done.              *)
NextInstance(todo) == IF todo = {} THEN Idle ELSE Doing("instances", todo, None)

-----------------------------------------------------------------------------
(* create().                                                               *)

MayCreateUnlessCompleted(row) == row.state # completed

MayCreate(row) == row.state < completed

(* The state is read and checked once, before everything else.             *)
create(p, t) ==
    /\ At(p, "idle")
    /\ t \in DOMAIN table
    /\ MayCreate(table[t])
    /\ Become(p, Doing("insert", {}, t))
    /\ UNCHANGED <<api, overdue, cloud, faults>>

(* Instances are named after their tunnel: the insert fails if there is    *)
(* one of that name, or may fail if there is soon to be one, and create    *)
(* ends without destroying it.                                             *)
create_ts_instance(p) ==
    /\ At(p, "insert")
    /\ \/ /\ Tunnel(p) \in servers \cup inserting
          /\ Become(p, Idle)
          /\ UNCHANGED servers
       \/ /\ Tunnel(p) \notin servers
          /\ Goto(p, "configure")
          /\ servers' = servers \cup {Tunnel(p)}
    /\ UNCHANGED <<api, overdue, inserting, keys, launched, faults>>

(* create_sshkey: ssh-keygen does not replace a key that exists.           *)
CanCreateKeys(t) == keys[t] = None

(* Generate keys, find the instance by its name and set it up: the tunnel, *)
(* then an ssh key.  What fails is cleaned up.                             *)
configure_server(p) ==
    /\ At(p, "configure")
    /\ \/ \E l \in Launches \ launched :
             /\ launched' = launched \cup {l}
             /\ IF Tunnel(p) \in servers /\ CanCreateKeys(Tunnel(p))
                THEN /\ keys' = [keys EXCEPT ![Tunnel(p)] = l]
                     /\ proc' = [proc EXCEPT ![p].pc = "post",
                                             ![p].launch = l]
                ELSE Goto(p, "destroy") /\ UNCHANGED keys
       \/ /\ launched = Launches
          /\ Goto(p, "destroy")
          /\ UNCHANGED <<keys, launched>>
    /\ UNCHANGED <<api, overdue, servers, inserting, faults>>

(* Process p sends a request that worker w begins to serve.                *)
Call(p, w) ==
    /\ proc[p].worker = None
    /\ proc' = [proc EXCEPT ![p].worker = w]
    /\ UNCHANGED <<overdue, cloud, faults>>

post_details(p, w) ==
    /\ At(p, "post")
    /\ Api!post_tunnel_details(w, Tunnel(p), proc[p].launch)
    /\ Call(p, w)

(* The API refuses the details: its assertion fails every time.            *)
post_refused(p) ==
    /\ At(p, "post")
    /\ proc[p].worker = None
    /\ ~ Api!AcceptsDetails(table[Tunnel(p)])
    /\ Goto(p, "destroy")
    /\ UNCHANGED <<api, overdue, cloud, faults>>

(* Delete the instance of that name, whoever started it.                   *)
DestroyServer(t) ==
    /\ servers' = servers \ {t}
    /\ keys' = [keys EXCEPT ![t] = None]
    /\ UNCHANGED <<inserting, launched>>

destroy_ts_resources(p) ==
    /\ \/ At(p, "destroy") /\ Become(p, Idle)
       \/ At(p, "remove") /\ Become(p, NextInstance(proc[p].todo))
    /\ DestroyServer(Tunnel(p))
    /\ UNCHANGED <<api, overdue, faults>>

-----------------------------------------------------------------------------
(* gc() and stop().                                                        *)

(* The list of tunnels: those that are not over may have to be stopped.    *)
list_tunnels(p) ==
    /\ Become(p, Doing("expire",
                       {t \in DOMAIN table : table[t].state \notin Closed},
                       None))
    /\ UNCHANGED <<api, overdue, cloud, faults>>

gc(p) == At(p, "idle") /\ list_tunnels(p)

stop(p, t) ==
    /\ At(p, "idle")
    /\ t \in DOMAIN table
    /\ Become(p, Doing("stop", {}, t))
    /\ UNCHANGED <<api, overdue, cloud, faults>>

(* A tunnel of the list that has expired by the local clock is stopped.    *)
stop_if_expired(p) ==
    /\ At(p, "expire")
    /\ \E t \in proc[p].todo :
          Become(p, Doing(IF t \in overdue THEN "delete" ELSE "expire",
                          proc[p].todo \ {t}, t))
    /\ UNCHANGED <<api, overdue, cloud, faults>>

delete_tunnel(p, w) ==
    /\ At(p, "delete") \/ At(p, "stop")
    /\ Api!admin_stop_tunnel(w, Tunnel(p))
    /\ Call(p, w)

list_ts_instances(p) ==
    /\ At(p, "expire")
    /\ proc[p].todo = {}
    /\ Become(p, NextInstance(servers))
    /\ UNCHANGED <<api, overdue, cloud, faults>>

ToRemoveIfCompleted(row) == row.state = completed

ToRemove(row) == row.state \in Closed

(* Each instance's tunnel is fetched, and the instance destroyed in a step *)
(* of its own if the tunnel is over.                                       *)
get_tunnel(p) ==
    /\ At(p, "instances")
    /\ \E t \in proc[p].todo :
          LET rest == proc[p].todo \ {t} IN
          Become(p, IF ToRemove(table[t])
                    THEN Doing("remove", rest, t)
                    ELSE NextInstance(rest))
    /\ UNCHANGED <<api, overdue, cloud, faults>>

-----------------------------------------------------------------------------
(* The answers of the API, and what may be lost.                           *)

(* What p does once its request has been answered.                         *)
AfterCall(p) ==
    CASE At(p, "post") -> Idle
      [] At(p, "delete") -> Doing("expire", proc[p].todo, None)
      [] At(p, "stop") -> Doing("list", {}, None)

Answered(p) ==
    /\ proc[p].worker # None
    /\ Api!Commit(proc[p].worker)
    /\ Become(p, AfterCall(p))
    /\ UNCHANGED <<overdue, cloud, faults>>

(* A request whose caller waits no more takes effect all the same.         *)
Unattended(w) == \A p \in Processes : proc[p].worker # w

CommitUnattended(w) ==
    /\ Unattended(w)
    /\ Api!Commit(w)
    /\ UNCHANGED <<overdue, cloud, proc, faults>>

Fault == faults < MaxFaults /\ faults' = faults + 1

(* The answer is lost or late: the session sends the request again.        *)
Retries(p) ==
    /\ Fault
    /\ proc[p].worker # None
    /\ proc' = [proc EXCEPT ![p].worker = None]
    /\ UNCHANGED <<api, overdue, cloud>>

RequestDiesUnnoticed(w) ==
    /\ Fault
    /\ Api!Rollback(w)
    /\ UNCHANGED <<overdue, cloud, proc>>

(* The instance of the API stops; the session sends the request again.     *)
RequestDies(w) ==
    /\ Fault
    /\ Api!Rollback(w)
    /\ proc' = [p \in Processes |->
                   IF proc[p].worker = w THEN [proc[p] EXCEPT !.worker = None]
                   ELSE proc[p]]
    /\ UNCHANGED <<overdue, cloud>>

(* A step of create raises after the insert, for one because no try to     *)
(* post the details was answered: the instance is destroyed.               *)
CreateFails(p) ==
    /\ Fault
    /\ At(p, "configure") \/ At(p, "post")
    /\ proc' = [proc EXCEPT ![p].pc = "destroy", ![p].worker = None]
    /\ UNCHANGED <<api, overdue, cloud>>

(* create waits two minutes for its insert, or is interrupted while it     *)
(* waits, and ends without a clean up; the operation goes on in the cloud. *)
InsertTimesOut(p) ==
    /\ Fault
    /\ At(p, "insert")
    /\ inserting' = inserting \cup {Tunnel(p)}
    /\ Become(p, Idle)
    /\ UNCHANGED <<api, overdue, servers, keys, launched>>

(* At any time after, the operation succeeds, or fails: for one because    *)
(* there is an instance of that name by then.                              *)
LateInsert(t) ==
    /\ t \in inserting
    /\ inserting' = inserting \ {t}
    /\ servers' \in {servers, servers \cup {t}}
    /\ UNCHANGED <<api, overdue, keys, launched, proc, faults>>

(* Errors of a delete are only logged.                                     *)
DestroyFails(p) ==
    /\ Fault
    /\ \/ At(p, "destroy") /\ Become(p, Idle)
       \/ At(p, "remove") /\ Become(p, NextInstance(proc[p].todo))
    /\ UNCHANGED <<api, overdue, cloud>>

(* An answer of get_tunnel with status 4xx counts as "no such tunnel".     *)
LookupRefused(p) ==
    /\ Fault
    /\ At(p, "instances")
    /\ \E t \in proc[p].todo :
          Become(p, Doing("remove", proc[p].todo \ {t}, t))
    /\ UNCHANGED <<api, overdue, cloud>>

(* The process is interrupted, or an exception ends it.                    *)
Aborts(p) ==
    /\ Fault
    /\ ~ At(p, "idle")
    /\ Become(p, Idle)
    /\ UNCHANGED <<api, overdue, cloud>>

-----------------------------------------------------------------------------
(* Devices and time.                                                       *)

DeviceRequest ==
    /\ \E t \in Tunnels :
          \/ Api!request_tunnel(t)
          \/ \E w \in Workers :
                \/ \E u \in SupportUsers :
                      Api!set_tunnel_details_from_device(w, t, u)
                \/ Api!device_stop_tunnel(w, t)
    /\ UNCHANGED <<overdue, cloud, proc, faults>>

Expire(t) == Api!Expire(t) /\ UNCHANGED <<overdue, cloud, proc, faults>>

(* gc compares an expiry time in UTC with the local time, which may be     *)
(* hours ahead of UTC or behind: it passes before or after the real one.   *)
ExpireLocally(t) ==
    /\ t \in DOMAIN table \ overdue
    /\ overdue' = overdue \cup {t}
    /\ UNCHANGED <<api, cloud, proc, faults>>

-----------------------------------------------------------------------------
Step(p) ==
    \/ create_ts_instance(p)
    \/ configure_server(p)
    \/ post_refused(p)
    \/ destroy_ts_resources(p)
    \/ At(p, "list") /\ list_tunnels(p)
    \/ stop_if_expired(p)
    \/ list_ts_instances(p)
    \/ get_tunnel(p)
    \/ \E w \in Workers : post_details(p, w) \/ delete_tunnel(p, w)
    \/ Answered(p)

Fails(p) ==
    \/ Retries(p)
    \/ CreateFails(p)
    \/ InsertTimesOut(p)
    \/ DestroyFails(p)
    \/ LookupRefused(p)
    \/ Aborts(p)

Next ==
    \/ \E p \in Admins, t \in Tunnels : create(p, t) \/ stop(p, t)
    \/ \E p \in Collectors : gc(p)
    \/ \E p \in Processes : Step(p) \/ Fails(p)
    \/ \E w \in Workers : CommitUnattended(w) \/ RequestDies(w)
    \/ DeviceRequest
    \/ \E t \in Tunnels : LateInsert(t) \/ Expire(t) \/ ExpireLocally(t)

Spec == Init /\ [][Next]_vars

(* Cron starts gc again and again, gc and the API's workers go on unless   *)
(* something fails, and the local clock gets to each expiry time.  No      *)
(* administrator has to run a command or to let it go on, no tunnel has to *)
(* expire and no insert that was given up has to end.                      *)
Fairness ==
    /\ \A p \in Collectors : WF_vars(Step(p)) /\ WF_vars(gc(p))
    /\ \A p \in Admins : WF_vars(Answered(p))
    /\ \A w \in Workers : WF_vars(CommitUnattended(w))
    /\ \A t \in Tunnels : WF_vars(t \in expired /\ ExpireLocally(t))

FairSpec == Spec /\ Fairness

(* The commands when they are not misled: create and gc destroy only the   *)
(* server of a tunnel that is over, though create may take a lost answer   *)
(* for a refusal and gc a refused lookup for a missing tunnel, and no late *)
(* commit reopens a closed tunnel.                                         *)
Over(t) == t \in DOMAIN table /\ table[t].state \in Closed

DestroysWhatIsOver ==
    \A p \in Processes :
        /\ At(p, "post") /\ At(p, "destroy")' => Over(Tunnel(p)')
        /\ At(p, "instances") /\ At(p, "remove")' => Over(Tunnel(p)')

ClosedForGood == \A t \in Tunnels : Over(t) => Over(t)'

CarefulSpec == Init /\ [][Next /\ DestroysWhatIsOver /\ ClosedForGood]_vars

-----------------------------------------------------------------------------
(* Nothing that could start a server for t is left: it is closed, no       *)
(* request admitted before can reopen it, no create is past its check and  *)
(* before the end of its insert, and no insert that create has given up is *)
(* still under way in the cloud.                                           *)
WoundUp(t) ==
    /\ table[t].state \in Closed
    /\ t \notin Api!Admitted
    /\ t \notin servers
    /\ t \notin inserting
    /\ \A p \in Processes : ~ (At(p, "insert") /\ Tunnel(p) = t)

(* A tunnel that is wound up stays so: though create checks the state only *)
(* once, minutes before its work is done, and requests are repeated and    *)
(* answered late, nobody starts or pays for a server of that tunnel again. *)
WoundUpStep == \A t \in DOMAIN table : WoundUp(t) => WoundUp(t)'

ServersStayDestroyed == [][WoundUpStep]_vars

(* Whatever was killed, lost or done twice: once a tunnel has expired, gc  *)
(* closes it and destroys its server, and in the end there is none.        *)
ExpiredServersGoAway ==
    \A t \in Tunnels : <>[](t \in expired => t \notin servers)

-----------------------------------------------------------------------------
(* What the docs say of the commands and the code does not keep.           *)

(* "tunnel server has launched, waiting for device to connect": the state  *)
(* started (common/models.py:19) means that the instance the device is     *)
(* told of exists and holds the keys the device is told of.  When the      *)
(* answer to its post is lost, create takes details that were stored for   *)
(* details that were refused, and destroys the server.                     *)
StartedHasServer ==
    \A t \in DOMAIN table :
        table[t].state = started
            => t \in servers /\ keys[t] = table[t].ts_wg_public_key
=============================================================================
