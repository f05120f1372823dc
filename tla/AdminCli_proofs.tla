-------------------------- MODULE AdminCli_proofs ---------------------------
(***************************************************************************)
(* Proofs about the administrator's command line, for any number of        *)
(* tunnels, launches, workers and processes.                               *)
(*                                                                         *)
(* A step of AdminCli is a step of TunnelApi or leaves the API alone, so   *)
(* what TunnelApi_proofs proves of the API holds with this client.  The    *)
(* instance P of those proofs and the instance Api of AdminCli define the  *)
(* same things under two names; the first lemmas say so.                   *)
(***************************************************************************)
EXTENDS AdminCli, TLAPS

P == INSTANCE TunnelApi_proofs

LEMMA SameStates ==
    /\ Api!pending = P!pending
    /\ Api!started = P!started
    /\ Api!running = P!running
    /\ Api!completed = P!completed
    /\ Api!timedout = P!timedout
    /\ Api!Closed = P!Closed
    /\ Closed = P!Closed
    /\ completed = P!completed
    /\ timedout = P!timedout
BY DEF Api!pending, P!pending, Api!started, P!started, Api!running, P!running,
       Api!completed, P!completed, Api!timedout, P!timedout,
       Api!Closed, P!Closed, Closed, completed, timedout

LEMMA SameRows ==
    /\ Api!NewRow = P!NewRow
    /\ \A row :
          /\ Api!AcceptsDetails(row) <=> P!AcceptsDetails(row)
          /\ Api!AcceptsConnection(row) <=> P!AcceptsConnection(row)
          /\ Api!StoppedByDevice(row) = P!StoppedByDevice(row)
    /\ \A row, v :
          /\ Api!WithDetails(row, v) = P!WithDetails(row, v)
          /\ Api!WithConnection(row, v) = P!WithConnection(row, v)
          /\ Api!StoppedByAdmin(row, v) = P!StoppedByAdmin(row, v)
          /\ Api!Flushed(row, v) = P!Flushed(row, v)
BY SameStates, Zenon
   DEF Api!NewRow, P!NewRow, Api!AcceptsDetails, P!AcceptsDetails,
       Api!AcceptsConnection, P!AcceptsConnection,
       Api!StoppedByDevice, P!StoppedByDevice,
       Api!WithDetails, P!WithDetails, Api!WithConnection, P!WithConnection,
       Api!StoppedByAdmin, P!StoppedByAdmin, Api!Flushed, P!Flushed,
       Api!Written, P!Written

LEMMA SameHandlers ==
    ASSUME NEW w, NEW t
    PROVE  /\ \A l : Api!post_tunnel_details(w, t, l)
                        <=> P!post_tunnel_details(w, t, l)
           /\ Api!admin_stop_tunnel(w, t) <=> P!admin_stop_tunnel(w, t)
           /\ \A u : Api!set_tunnel_details_from_device(w, t, u)
                        <=> P!set_tunnel_details_from_device(w, t, u)
           /\ Api!device_stop_tunnel(w, t) <=> P!device_stop_tunnel(w, t)
<1>1. \A new : Api!Begin(w, t, new) <=> P!Begin(w, t, new)
  BY DEF Api!Begin, P!Begin
<1>2. Api!Authorized(t) <=> P!Authorized(t)
  BY DEF Api!Authorized, P!Authorized
<1>3. \A l : Api!post_tunnel_details(w, t, l) <=> P!post_tunnel_details(w, t, l)
  BY <1>1, SameRows DEF Api!post_tunnel_details, P!post_tunnel_details
<1>4. Api!admin_stop_tunnel(w, t) <=> P!admin_stop_tunnel(w, t)
  BY <1>1, SameRows DEF Api!admin_stop_tunnel, P!admin_stop_tunnel
<1>5. \A u : Api!set_tunnel_details_from_device(w, t, u)
                <=> P!set_tunnel_details_from_device(w, t, u)
  BY <1>1, <1>2, SameRows
     DEF Api!set_tunnel_details_from_device, P!set_tunnel_details_from_device
<1>6. Api!device_stop_tunnel(w, t) <=> P!device_stop_tunnel(w, t)
  BY <1>1, <1>2, SameRows DEF Api!device_stop_tunnel, P!device_stop_tunnel
<1>7. QED
  BY <1>3, <1>4, <1>5, <1>6

LEMMA SameNext == Api!Next <=> P!Next
<1>1. \A t : Api!request_tunnel(t) <=> P!request_tunnel(t)
  BY SameRows DEF Api!request_tunnel, P!request_tunnel
<1>2. \A t : Api!Expire(t) <=> P!Expire(t)
  BY DEF Api!Expire, P!Expire
<1>3. \A w, t : Api!Handle(w, t) <=> P!Handle(w, t)
  BY SameHandlers DEF Api!Handle, P!Handle
<1>4. \A w : Api!Commit(w) <=> P!Commit(w)
  BY SameRows DEF Api!Commit, P!Commit, Api!Without, P!Without
<1>5. \A w : Api!Rollback(w) <=> P!Rollback(w)
  BY DEF Api!Rollback, P!Rollback, Api!Without, P!Without
<1>6. QED
  BY <1>1, <1>2, <1>3, <1>4, <1>5 DEF Api!Next, P!Next

LEMMA SameInit == Api!Init <=> P!Init
BY SameRows DEF Api!Init, P!Init

LEMMA SameRowType == Api!Row = P!Row
BY DEF Api!Row, P!Row, Api!TunnelState, P!TunnelState,
       Api!pending, P!pending, Api!started, P!started, Api!running, P!running,
       Api!connected, P!connected, Api!completed, P!completed,
       Api!timedout, P!timedout

LEMMA SameTypeOK == Api!TypeOK <=> P!TypeOK
BY SameRowType DEF Api!TypeOK, P!TypeOK, Api!Transaction, P!Transaction

LEMMA SameAdmitted == Api!Admitted = P!Admitted
BY SameStates DEF Api!Admitted, P!Admitted, Api!Reopens, P!Reopens

(* What TunnelApi_proofs proves of one step of the API.                    *)
LEMMA ApiStep ==
    ASSUME P!IInv, [Api!Next]_api
    PROVE  /\ P!IInv'
           /\ Api!TypeOK'
           /\ \A t \in DOMAIN table :
                 table[t].state \in Closed /\ t \notin Api!Admitted
                     => /\ table'[t].state \in Closed
                        /\ t \notin Api!Admitted'
<1>1. P!IInv'
  BY P!NextIInv, NoneIsNothing, SameNext DEF api, P!vars
<1>2. Api!TypeOK'
  <2>1. P!TypeOK'
    BY <1>1 DEF P!IInv
  <2>2. QED
    BY <2>1, SameRowType
       DEF Api!TypeOK, P!TypeOK, Api!Transaction, P!Transaction
<1>3. CASE Api!Next
  <2>1. P!SealedStep
    BY <1>3, P!SealedStepHolds, NoneIsNothing, SameNext
  <2>2. Api!Admitted' = P!Admitted'
    BY SameStates DEF Api!Admitted, P!Admitted, Api!Reopens, P!Reopens
  <2>3. QED
    BY <1>1, <1>2, <2>1, <2>2, SameAdmitted, SameStates DEF P!SealedStep
<1>4. CASE UNCHANGED api
  BY <1>1, <1>2, <1>4 DEF api, Api!Admitted, Api!Reopens
<1>5. QED
  BY <1>3, <1>4

-----------------------------------------------------------------------------
(* The inductive invariant: that of the API, and what each process relies  *)
(* on from one step to the next.  A process waits only while a request of  *)
(* its own is being served, and no two wait for the same worker.           *)
ProcessOK(r) ==
    /\ r \in Process
    /\ r.worker \in DOMAIN txn \cup {None}
    /\ r.worker # None => r.pc \in {"post", "delete", "stop"}
    /\ r.pc = "post" => r.launch # None
    /\ r.pc = "insert" => r.tunnel \in DOMAIN table

ProcessesOK ==
    /\ proc \in [Processes -> Process]
    /\ \A p \in Processes : ProcessOK(proc[p])
    /\ \A p, q \in Processes :
          p # q /\ proc[p].worker = proc[q].worker => proc[p].worker = None

CloudOK ==
    /\ servers \subseteq DOMAIN table
    /\ inserting \subseteq DOMAIN table
    /\ keys \in [Tunnels -> Launches \cup {None}]
    /\ launched \subseteq Launches

AInv ==
    /\ P!IInv
    /\ Api!TypeOK
    /\ ProcessesOK
    /\ CloudOK
    /\ overdue \subseteq DOMAIN table
    /\ faults \in 0 .. MaxFaults

LEMMA TypeFromInv == AInv => TypeOK
BY DEF AInv, TypeOK, ProcessesOK, ProcessOK, CloudOK

LEMMA AInitially == Init => AInv
<1> SUFFICES ASSUME Init PROVE AInv
  OBVIOUS
<1>1. P!IInv /\ Api!TypeOK
  BY SameInit, P!InitIInv, NoneIsNothing, SameTypeOK DEF Init, P!IInv
<1>2. ProcessesOK
  BY DEF Init, ProcessesOK, ProcessOK, Process, Idle, Doing
<1>3. CloudOK
  BY DEF Init, CloudOK
<1>4. QED
  BY <1>1, <1>2, <1>3, FaultsAreBounded DEF Init, AInv

-----------------------------------------------------------------------------
(* Steps of one process without the API.                                   *)

(* Process p becomes r and may have given up waiting; the API is at rest.  *)
BecomesOK(p, r) ==
    /\ UNCHANGED api
    /\ proc' = [proc EXCEPT ![p] = r]
    /\ ProcessOK(r)
    /\ r.worker \in {None, proc[p].worker}

LEMMA LocalStep ==
    ASSUME AInv, NEW p \in Processes, NEW r, BecomesOK(p, r),
           CloudOK', overdue' \subseteq DOMAIN table, faults' \in 0 .. MaxFaults
    PROVE  AInv'
<1>1. P!IInv' /\ Api!TypeOK'
  BY ApiStep DEF AInv, BecomesOK
<1>2. ProcessesOK'
  <2>1. /\ proc'[p] = r
        /\ \A q \in Processes : q # p => proc'[q] = proc[q]
        /\ proc' \in [Processes -> Process]
    BY DEF AInv, ProcessesOK, BecomesOK, ProcessOK
  <2>2. \A q \in Processes : ProcessOK(proc[q])'
    BY <2>1 DEF AInv, ProcessesOK, BecomesOK, ProcessOK, api
  <2>3. QED
    BY <2>1, <2>2 DEF AInv, ProcessesOK, BecomesOK
<1>3. QED
  BY <1>1, <1>2 DEF AInv, BecomesOK, api

(* The records the commands give a process.                                *)
LEMMA DoingOK ==
    ASSUME NEW pc \in {"idle", "configure", "destroy", "stop", "list", "expire",
                       "delete", "instances", "remove"},
           NEW todo \in SUBSET Tunnels,
           NEW t \in Tunnels \cup {None}
    PROVE  ProcessOK(Doing(pc, todo, t)) /\ Doing(pc, todo, t).worker = None
BY DEF ProcessOK, Doing, Process

LEMMA IdleOK == ProcessOK(Idle) /\ Idle.worker = None
BY DEF ProcessOK, Idle, Doing, Process

LEMMA NextInstanceOK ==
    ASSUME NEW todo \in SUBSET Tunnels
    PROVE  ProcessOK(NextInstance(todo)) /\ NextInstance(todo).worker = None
BY IdleOK, DoingOK DEF NextInstance

(* A step that only makes process p one of these.                          *)
LEMMA QuietStep ==
    ASSUME AInv, NEW p \in Processes, NEW r, Become(p, r),
           ProcessOK(r), r.worker = None,
           UNCHANGED <<api, overdue, cloud, faults>>
    PROVE  AInv'
<1>1. BecomesOK(p, r)
  BY DEF BecomesOK, Become
<1>2. CloudOK' /\ overdue' \subseteq DOMAIN table /\ faults' \in 0 .. MaxFaults
  BY DEF AInv, CloudOK, cloud, api
<1>3. QED
  BY <1>1, <1>2, LocalStep

LEMMA CommandsInv ==
    ASSUME AInv, NEW p \in Processes, NEW t \in Tunnels,
           create(p, t) \/ stop(p, t)
    PROVE  AInv'
<1>1. CASE create(p, t)
  <2>1. t \in DOMAIN table
    BY <1>1 DEF create
  <2>2. /\ ProcessOK(Doing("insert", {}, t))
        /\ Doing("insert", {}, t).worker = None
    BY <2>1 DEF ProcessOK, Doing, Process
  <2>3. QED
    BY <1>1, <2>2, QuietStep DEF create
<1>2. CASE stop(p, t)
  BY <1>2, DoingOK, QuietStep DEF stop
<1>3. QED
  BY <1>1, <1>2

LEMMA GcInv ==
    ASSUME AInv, NEW p \in Processes,
           \/ list_tunnels(p)
           \/ stop_if_expired(p)
           \/ list_ts_instances(p)
           \/ get_tunnel(p)
    PROVE  AInv'
<1>1. /\ DOMAIN table \subseteq Tunnels
      /\ servers \subseteq Tunnels
      /\ proc[p].todo \subseteq Tunnels
  BY DEF AInv, CloudOK, ProcessesOK, Process, Api!TypeOK
<1>2. CASE list_tunnels(p)
  <2>1. {t \in DOMAIN table : table[t].state \notin Closed} \in SUBSET Tunnels
    BY <1>1
  <2>2. QED
    BY <1>2, <2>1, DoingOK, QuietStep DEF list_tunnels
<1>3. CASE list_ts_instances(p)
  BY <1>1, <1>3, NextInstanceOK, QuietStep DEF list_ts_instances
<1>4. CASE stop_if_expired(p)
  <2>1. PICK t \in proc[p].todo :
           Become(p, Doing(IF t \in overdue THEN "delete" ELSE "expire",
                           proc[p].todo \ {t}, t))
    BY <1>4 DEF stop_if_expired
  <2>2. proc[p].todo \ {t} \in SUBSET Tunnels /\ t \in Tunnels
    BY <1>1
  <2>3. CASE t \in overdue
    BY <1>4, <2>1, <2>2, <2>3, DoingOK, QuietStep DEF stop_if_expired
  <2>4. CASE t \notin overdue
    BY <1>4, <2>1, <2>2, <2>4, DoingOK, QuietStep DEF stop_if_expired
  <2>5. QED
    BY <2>3, <2>4
<1>5. CASE get_tunnel(p)
  <2>1. PICK t \in proc[p].todo :
           \/ Become(p, Doing("remove", proc[p].todo \ {t}, t))
           \/ Become(p, NextInstance(proc[p].todo \ {t}))
    BY <1>5 DEF get_tunnel
  <2>2. proc[p].todo \ {t} \in SUBSET Tunnels /\ t \in Tunnels
    BY <1>1
  <2>3. QED
    BY <1>5, <2>1, <2>2, DoingOK, NextInstanceOK, QuietStep DEF get_tunnel
<1>6. QED
  BY <1>2, <1>3, <1>4, <1>5

(* Steps of one process that touch the cloud or the faults, not the API.   *)
LEMMA CloudStep ==
    ASSUME AInv, NEW p \in Processes,
           \/ create_ts_instance(p)
           \/ configure_server(p)
           \/ post_refused(p)
           \/ destroy_ts_resources(p)
    PROVE  AInv'
<1>1. /\ ProcessOK(proc[p])
      /\ Tunnel(p) \in Tunnels \cup {None}
      /\ proc[p].todo \in SUBSET Tunnels
  BY DEF AInv, ProcessesOK, ProcessOK, Process, Tunnel
<1> DEFINE Now(pc) == [proc[p] EXCEPT !.pc = pc]
<1>2. ASSUME NEW pc \in {"configure", "destroy"}, proc[p].worker = None
      PROVE  ProcessOK(Now(pc)) /\ Now(pc).worker = None
  BY <1>1, <1>2 DEF ProcessOK, Process
<1>3. CASE create_ts_instance(p)
  <2>1. proc[p].worker = None /\ Tunnel(p) \in DOMAIN table
    BY <1>1, <1>3 DEF create_ts_instance, At, ProcessOK, Tunnel
  <2>2. CloudOK' /\ overdue' \subseteq DOMAIN table /\ faults' \in 0 .. MaxFaults
    BY <1>3, <2>1 DEF create_ts_instance, AInv, CloudOK, api
  <2>3. \/ BecomesOK(p, Idle)
        \/ BecomesOK(p, Now("configure"))
    BY <1>2, <1>3, <2>1, IdleOK DEF create_ts_instance, Become, Goto, BecomesOK
  <2>4. QED
    BY <2>2, <2>3, LocalStep
<1>4. CASE configure_server(p)
  <2>1. proc[p].worker = None
    BY <1>1, <1>4 DEF configure_server, At, ProcessOK
  <2>2. CloudOK' /\ overdue' \subseteq DOMAIN table /\ faults' \in 0 .. MaxFaults
    BY <1>4 DEF configure_server, AInv, CloudOK, api
  <2>3. CASE Goto(p, "destroy")
    <3>1. BecomesOK(p, Now("destroy"))
      BY <1>2, <1>4, <2>1, <2>3 DEF configure_server, Goto, BecomesOK
    <3>2. QED
      BY <2>2, <3>1, LocalStep
  <2>4. CASE \E l \in Launches \ launched :
                proc' = [proc EXCEPT ![p].pc = "post", ![p].launch = l]
    <3>1. PICK l \in Launches :
             proc' = [proc EXCEPT ![p].pc = "post", ![p].launch = l]
      BY <2>4
    <3> DEFINE r == [proc[p] EXCEPT !.pc = "post", !.launch = l]
    <3>2. l # None
      BY NoneIsNothing
    <3>3. ProcessOK(r) /\ r.worker = None
      BY <1>1, <2>1, <3>2 DEF ProcessOK, Process
    <3>4. BecomesOK(p, r)
      BY <1>4, <3>1, <3>3 DEF configure_server, BecomesOK
    <3>5. QED
      BY <2>2, <3>4, LocalStep
  <2>5. QED
    BY <1>4, <2>3, <2>4 DEF configure_server
<1>5. CASE post_refused(p)
  <2>1. CloudOK' /\ overdue' \subseteq DOMAIN table /\ faults' \in 0 .. MaxFaults
    BY <1>5 DEF post_refused, AInv, CloudOK, api, cloud
  <2>2. BecomesOK(p, Now("destroy"))
    BY <1>2, <1>5 DEF post_refused, Goto, BecomesOK
  <2>3. QED
    BY <2>1, <2>2, LocalStep
<1>6. CASE destroy_ts_resources(p)
  <2>1. CloudOK' /\ overdue' \subseteq DOMAIN table /\ faults' \in 0 .. MaxFaults
    BY <1>6 DEF destroy_ts_resources, DestroyServer, AInv, CloudOK, api
  <2>2. \/ BecomesOK(p, Idle)
        \/ BecomesOK(p, NextInstance(proc[p].todo))
    BY <1>1, <1>6, IdleOK, NextInstanceOK
       DEF destroy_ts_resources, Become, BecomesOK
  <2>3. QED
    BY <2>1, <2>2, LocalStep
<1>7. QED
  BY <1>3, <1>4, <1>5, <1>6

LEMMA FailsInv ==
    ASSUME AInv, NEW p \in Processes, Fails(p)
    PROVE  AInv'
<1>1. /\ ProcessOK(proc[p])
      /\ Tunnel(p) \in Tunnels \cup {None}
      /\ proc[p].todo \in SUBSET Tunnels
  BY DEF AInv, ProcessesOK, ProcessOK, Process, Tunnel
<1>2. faults' \in 0 .. MaxFaults /\ UNCHANGED <<api, overdue>>
  BY FaultsAreBounded
     DEF Fails, Retries, CreateFails, InsertTimesOut, DestroyFails,
         LookupRefused, Aborts, Fault, AInv
<1>3. CloudOK' /\ overdue' \subseteq DOMAIN table
  <2>1. CASE InsertTimesOut(p)
    <3>1. Tunnel(p) \in DOMAIN table
      BY <1>1, <2>1 DEF InsertTimesOut, At, ProcessOK, Tunnel
    <3>2. QED
      BY <1>2, <2>1, <3>1 DEF InsertTimesOut, AInv, CloudOK, api
  <2>2. CASE UNCHANGED cloud
    BY <1>2, <2>2 DEF AInv, CloudOK, api, cloud
  <2>3. QED
    BY <2>1, <2>2 DEF Fails, Retries, CreateFails, DestroyFails, LookupRefused,
                      Aborts
<1>4. CASE Retries(p)
  <2> DEFINE r == [proc[p] EXCEPT !.worker = None]
  <2>1. ProcessOK(r) /\ r.worker = None
    BY <1>1 DEF ProcessOK, Process
  <2>2. BecomesOK(p, r)
    BY <1>2, <1>4, <2>1 DEF Retries, BecomesOK
  <2>3. QED
    BY <1>2, <1>3, <2>2, LocalStep
<1>5. CASE CreateFails(p)
  <2> DEFINE r == [proc[p] EXCEPT !.pc = "destroy", !.worker = None]
  <2>1. ProcessOK(r) /\ r.worker = None
    BY <1>1 DEF ProcessOK, Process
  <2>2. BecomesOK(p, r)
    BY <1>2, <1>5, <2>1 DEF CreateFails, BecomesOK
  <2>3. QED
    BY <1>2, <1>3, <2>2, LocalStep
<1>6. CASE InsertTimesOut(p) \/ DestroyFails(p) \/ LookupRefused(p) \/ Aborts(p)
  <2>1. PICK r : proc' = [proc EXCEPT ![p] = r] /\ ProcessOK(r) /\ r.worker = None
    <3>1. CASE Become(p, Idle)
      BY <3>1, IdleOK DEF Become
    <3>2. CASE Become(p, NextInstance(proc[p].todo))
      BY <1>1, <3>2, NextInstanceOK DEF Become
    <3>3. CASE LookupRefused(p)
      <4>1. PICK t \in proc[p].todo :
               Become(p, Doing("remove", proc[p].todo \ {t}, t))
        BY <3>3 DEF LookupRefused
      <4>2. proc[p].todo \ {t} \in SUBSET Tunnels /\ t \in Tunnels
        BY <1>1
      <4>3. QED
        BY <4>1, <4>2, DoingOK DEF Become
    <3>4. QED
      BY <1>6, <3>1, <3>2, <3>3 DEF InsertTimesOut, DestroyFails, Aborts
  <2>2. BecomesOK(p, r)
    BY <1>2, <2>1 DEF BecomesOK
  <2>3. QED
    BY <1>2, <1>3, <2>2, LocalStep
<1>7. QED
  BY <1>4, <1>5, <1>6 DEF Fails

-----------------------------------------------------------------------------
(* Steps of the API.                                                       *)

(* Every change of the API's state is a step of TunnelApi.                 *)
LEMMA ApiActs ==
    ASSUME AInv
    PROVE  /\ \A p \in Processes, w \in Workers :
                 post_details(p, w) \/ delete_tunnel(p, w) => Api!Next
           /\ \A p \in Processes : Answered(p) => Api!Next
           /\ \A w \in Workers : CommitUnattended(w) \/ RequestDies(w) => Api!Next
           /\ DeviceRequest => Api!Next
           /\ \A t \in Tunnels : Expire(t) => Api!Next
<1>1. DOMAIN table \subseteq Tunnels /\ DOMAIN txn \subseteq Workers
  BY DEF AInv, Api!TypeOK
<1>2. ASSUME NEW p \in Processes, NEW w \in Workers, post_details(p, w)
      PROVE  Api!Next
  <2>1. proc[p].launch \in Launches
    BY <1>2 DEF post_details, At, AInv, ProcessesOK, ProcessOK, Process
  <2>2. Tunnel(p) \in Tunnels
    BY <1>1, <1>2 DEF post_details, Api!post_tunnel_details
  <2>3. QED
    BY <1>2, <2>1, <2>2 DEF post_details, Api!Next, Api!Handle
<1>3. ASSUME NEW p \in Processes, NEW w \in Workers, delete_tunnel(p, w)
      PROVE  Api!Next
  <2>1. Tunnel(p) \in Tunnels
    BY <1>1, <1>3 DEF delete_tunnel, Api!admin_stop_tunnel
  <2>2. QED
    BY <1>3, <2>1 DEF delete_tunnel, Api!Next, Api!Handle
<1>4. ASSUME NEW p \in Processes, Answered(p) PROVE Api!Next
  <2>1. proc[p].worker \in Workers
    BY <1>1, <1>4 DEF Answered, Api!Commit
  <2>2. QED
    BY <1>4, <2>1 DEF Answered, Api!Next
<1>5. ASSUME NEW w \in Workers, CommitUnattended(w) \/ RequestDies(w)
      PROVE  Api!Next
  BY <1>5 DEF CommitUnattended, RequestDies, Api!Next
<1>6. DeviceRequest => Api!Next
  BY DEF DeviceRequest, Api!Next, Api!Handle
<1>7. \A t \in Tunnels : Expire(t) => Api!Next
  BY DEF Expire, Api!Next
<1>8. QED
  BY <1>2, <1>3, <1>4, <1>5, <1>6, <1>7

(* The API forgets no tunnel.                                              *)
LEMMA TunnelsStay ==
    ASSUME AInv, Api!Next
    PROVE  DOMAIN table \subseteq DOMAIN table'
BY DEF AInv, Api!TypeOK, Api!Next, Api!request_tunnel, Api!Expire, Api!Handle,
       Api!post_tunnel_details, Api!admin_stop_tunnel,
       Api!set_tunnel_details_from_device, Api!device_stop_tunnel, Api!Begin,
       Api!Commit, Api!Rollback

(* A step of the API keeps the invariant if it leaves the processes right. *)
LEMMA ServedStep ==
    ASSUME AInv, Api!Next, ProcessesOK', UNCHANGED <<overdue, cloud>>,
           faults' \in 0 .. MaxFaults
    PROVE  AInv'
<1>1. P!IInv' /\ Api!TypeOK'
  BY ApiStep DEF AInv
<1>2. DOMAIN table \subseteq DOMAIN table'
  BY TunnelsStay
<1>3. QED
  BY <1>1, <1>2 DEF AInv, CloudOK, cloud

(* The processes stay right when requests begin and nobody waits for them. *)
LEMMA OthersStep ==
    ASSUME AInv, Api!Next, UNCHANGED proc, DOMAIN txn \subseteq DOMAIN txn'
    PROVE  ProcessesOK'
BY TunnelsStay DEF AInv, ProcessesOK, ProcessOK

LEMMA CallInv ==
    ASSUME AInv, NEW p \in Processes, NEW w \in Workers,
           post_details(p, w) \/ delete_tunnel(p, w)
    PROVE  AInv'
<1>1. Api!Next
  BY ApiActs
<1>2. /\ Call(p, w)
      /\ w \in Workers \ DOMAIN txn
      /\ DOMAIN txn' = DOMAIN txn \cup {w}
      /\ proc[p].pc \in {"post", "delete", "stop"}
  BY DEF post_details, delete_tunnel, At, Api!post_tunnel_details,
         Api!admin_stop_tunnel, Api!Begin
<1> DEFINE r == [proc[p] EXCEPT !.worker = w]
<1>3. ProcessOK(proc[p]) /\ r \in Process /\ DOMAIN table \subseteq DOMAIN table'
  BY <1>1, TunnelsStay DEF AInv, ProcessesOK, ProcessOK, Process
<1>4. /\ proc'[p] = r
      /\ \A q \in Processes : q # p => proc'[q] = proc[q]
      /\ proc' \in [Processes -> Process]
  BY <1>2, <1>3 DEF Call, AInv, ProcessesOK
<1>5. ASSUME NEW q \in Processes PROVE ProcessOK(proc[q])'
  <2>1. CASE q = p
    <3>1. /\ r.worker = w /\ r.pc = proc[p].pc
          /\ r.tunnel = proc[p].tunnel /\ r.launch = proc[p].launch
      BY <1>3 DEF ProcessOK, Process
    <3>2. QED
      BY <1>2, <1>3, <1>4, <2>1, <3>1 DEF ProcessOK
  <2>2. CASE q # p
    <3>1. ProcessOK(proc[q]) /\ proc'[q] = proc[q]
      BY <1>4, <2>2 DEF AInv, ProcessesOK
    <3>2. QED
      BY <1>2, <1>3, <3>1 DEF ProcessOK
  <2>3. QED
    BY <2>1, <2>2
<1>6. \A q \in Processes : q # p => proc'[q].worker # w
  BY <1>2, <1>4, NoneIsNothing DEF AInv, ProcessesOK, ProcessOK
<1>7. proc'[p].worker = w
  BY <1>4 DEF AInv, ProcessesOK, Process
<1>8. ProcessesOK'
  BY <1>4, <1>5, <1>6, <1>7 DEF AInv, ProcessesOK
<1>9. QED
  BY <1>1, <1>2, <1>8, ServedStep DEF Call, AInv

LEMMA AnsweredInv ==
    ASSUME AInv, NEW p \in Processes, Answered(p)
    PROVE  AInv'
<1>1. Api!Next
  BY ApiActs
<1>2. /\ proc[p].worker # None
      /\ DOMAIN txn' = DOMAIN txn \ {proc[p].worker}
      /\ UNCHANGED <<overdue, cloud, faults>>
      /\ ProcessOK(proc[p])
      /\ proc[p].todo \in SUBSET Tunnels
  BY DEF Answered, Api!Commit, Api!Without, AInv, ProcessesOK, ProcessOK, Process
<1>3. ProcessOK(AfterCall(p)) /\ AfterCall(p).worker = None
  BY <1>2, IdleOK, DoingOK DEF AfterCall, At, ProcessOK
<1>4. DOMAIN table \subseteq DOMAIN table'
  BY <1>1, TunnelsStay
<1>5. PICK r : r = AfterCall(p)
  OBVIOUS
<1>6. /\ proc'[p] = r
      /\ \A q \in Processes : q # p => proc'[q] = proc[q]
      /\ proc' \in [Processes -> Process]
  BY <1>3, <1>5 DEF Answered, Become, AInv, ProcessesOK, ProcessOK
<1>7. ASSUME NEW q \in Processes PROVE ProcessOK(proc[q])'
  <2>1. CASE q = p
    BY <1>3, <1>4, <1>5, <1>6, <2>1 DEF ProcessOK
  <2>2. CASE q # p
    <3>1. /\ ProcessOK(proc[q]) /\ proc'[q] = proc[q]
          /\ proc[q].worker # proc[p].worker
      BY <1>2, <1>6, <2>2 DEF AInv, ProcessesOK
    <3>2. QED
      BY <1>2, <1>4, <3>1 DEF ProcessOK
  <2>3. QED
    BY <2>1, <2>2
<1>8. ProcessesOK'
  BY <1>3, <1>5, <1>6, <1>7 DEF AInv, ProcessesOK
<1>9. QED
  BY <1>1, <1>2, <1>8, ServedStep DEF AInv

LEMMA WorkersInv ==
    ASSUME AInv, NEW w \in Workers, CommitUnattended(w) \/ RequestDies(w)
    PROVE  AInv'
<1>1. Api!Next
  BY ApiActs
<1>2. /\ DOMAIN txn' = DOMAIN txn \ {w}
      /\ UNCHANGED <<overdue, cloud>>
      /\ faults' \in 0 .. MaxFaults
  BY FaultsAreBounded
     DEF CommitUnattended, RequestDies, Api!Commit, Api!Rollback, Api!Without,
         Fault, AInv
<1>3. DOMAIN table \subseteq DOMAIN table'
  BY <1>1, TunnelsStay
<1>4. CASE CommitUnattended(w)
  <2>1. \A p \in Processes : ProcessOK(proc[p]) /\ proc[p].worker # w
    BY <1>4 DEF AInv, ProcessesOK, CommitUnattended, Unattended
  <2>2. \A p \in Processes : ProcessOK(proc[p])'
    BY <1>2, <1>3, <1>4, <2>1 DEF ProcessOK, CommitUnattended
  <2>3. ProcessesOK'
    BY <1>4, <2>2 DEF AInv, ProcessesOK, CommitUnattended
  <2>4. QED
    BY <1>1, <1>2, <2>3, ServedStep
<1>5. CASE RequestDies(w)
  <2>1. ASSUME NEW p \in Processes
        PROVE  /\ proc'[p] \in Process
               /\ ProcessOK(proc[p])'
               /\ proc'[p].worker \in {None, proc[p].worker}
    <3>1. ProcessOK(proc[p]) /\ proc[p] \in Process
      BY DEF AInv, ProcessesOK
    <3>2. CASE proc[p].worker = w
      <4> DEFINE r == [proc[p] EXCEPT !.worker = None]
      <4>1. r \in Process /\ r.worker = None /\ ProcessOK(r)
        BY <3>1 DEF ProcessOK, Process
      <4>2. proc'[p] = r
        BY <1>5, <3>2 DEF RequestDies
      <4> HIDE DEF r
      <4>3. QED
        BY <1>3, <4>1, <4>2 DEF ProcessOK
    <3>3. CASE proc[p].worker # w
      <4>1. proc'[p] = proc[p]
        BY <1>5, <3>3 DEF RequestDies
      <4>2. QED
        BY <1>2, <1>3, <3>1, <3>3, <4>1 DEF ProcessOK
    <3>4. QED
      BY <3>2, <3>3
  <2>2. proc' \in [Processes -> Process]
    BY <1>5, <2>1 DEF RequestDies
  <2>3. ProcessesOK'
    BY <2>1, <2>2 DEF AInv, ProcessesOK
  <2>4. QED
    BY <1>1, <1>2, <2>3, ServedStep
<1>6. QED
  BY <1>4, <1>5

LEMMA OutsideInv ==
    ASSUME AInv,
           \/ DeviceRequest
           \/ \E t \in Tunnels : LateInsert(t) \/ Expire(t) \/ ExpireLocally(t)
    PROVE  AInv'
<1>1. CASE DeviceRequest \/ \E t \in Tunnels : Expire(t)
  <2>1. Api!Next /\ UNCHANGED <<overdue, cloud, proc, faults>>
    BY <1>1, ApiActs DEF DeviceRequest, Expire
  <2>2. DOMAIN txn \subseteq DOMAIN txn'
    BY <1>1 DEF DeviceRequest, Expire, Api!Expire, Api!request_tunnel,
                Api!set_tunnel_details_from_device, Api!device_stop_tunnel,
                Api!Begin
  <2>3. QED
    BY <2>1, <2>2, OthersStep, ServedStep DEF AInv
<1>2. ASSUME NEW t \in Tunnels, ExpireLocally(t) PROVE AInv'
  <2>1. P!IInv' /\ Api!TypeOK'
    BY <1>2, ApiStep DEF AInv, ExpireLocally
  <2>2. QED
    BY <1>2, <2>1
       DEF ExpireLocally, AInv, ProcessesOK, ProcessOK, CloudOK, api, cloud
<1>3. ASSUME NEW t \in Tunnels, LateInsert(t) PROVE AInv'
  <2>1. P!IInv' /\ Api!TypeOK'
    BY <1>3, ApiStep DEF AInv, LateInsert
  <2>2. CloudOK'
    BY <1>3 DEF LateInsert, AInv, CloudOK, api
  <2>3. QED
    BY <1>3, <2>1, <2>2
       DEF LateInsert, AInv, ProcessesOK, ProcessOK, api
<1>4. QED
  BY <1>1, <1>2, <1>3

LEMMA ANextInv == AInv /\ [Next]_vars => AInv'
<1> SUFFICES ASSUME AInv, [Next]_vars PROVE AInv'
  OBVIOUS
<1>1. CASE \E p \in Admins, t \in Tunnels : create(p, t) \/ stop(p, t)
  BY <1>1, CommandsInv DEF Processes
<1>2. CASE \E p \in Collectors : gc(p)
  BY <1>2, GcInv DEF gc, Processes
<1>3. ASSUME NEW p \in Processes, Step(p) PROVE AInv'
  BY <1>3, CloudStep, GcInv, CallInv, AnsweredInv DEF Step
<1>4. CASE \E p \in Processes : Fails(p)
  BY <1>4, FailsInv
<1>5. CASE \E w \in Workers : CommitUnattended(w) \/ RequestDies(w)
  BY <1>5, WorkersInv
<1>6. CASE \/ DeviceRequest
           \/ \E t \in Tunnels : LateInsert(t) \/ Expire(t) \/ ExpireLocally(t)
  BY <1>6, OutsideInv
<1>7. CASE UNCHANGED vars
  <2>1. P!IInv' /\ Api!TypeOK'
    BY <1>7, ApiStep DEF AInv, vars, api
  <2>2. QED
    BY <1>7, <2>1 DEF vars, AInv, ProcessesOK, ProcessOK, CloudOK
<1>8. QED
  BY <1>1, <1>2, <1>3, <1>4, <1>5, <1>6, <1>7 DEF Next

(* The variables have their types, and a process waits only for a request  *)
(* that is in flight, though requests die, time out and are sent again.    *)
THEOREM AdminTypeCorrect == Spec => []TypeOK
<1>1. Spec => []AInv
  BY AInitially, ANextInv, PTL DEF Spec
<1>2. QED
  BY <1>1, TypeFromInv, PTL

-----------------------------------------------------------------------------
(* The API under these commands is the API of TunnelApi, so that all its   *)
(* theorems hold here: no command changes the table but by its handlers.   *)
LEMMA StepsOfApi == AInv /\ [Next]_vars => [Api!Next]_api
<1> SUFFICES ASSUME AInv, Next PROVE [Api!Next]_api
  BY DEF vars, api
<1>1. CASE \E p \in Admins, t \in Tunnels : create(p, t) \/ stop(p, t)
  BY <1>1 DEF create, stop
<1>2. CASE \E p \in Collectors : gc(p)
  BY <1>2 DEF gc, list_tunnels
<1>3. ASSUME NEW p \in Processes, Step(p) PROVE [Api!Next]_api
  <2>1. \/ UNCHANGED api
        \/ \E w \in Workers : post_details(p, w) \/ delete_tunnel(p, w)
        \/ Answered(p)
    BY <1>3 DEF Step, create_ts_instance, configure_server, post_refused,
                destroy_ts_resources, list_tunnels, stop_if_expired,
                list_ts_instances, get_tunnel
  <2>2. QED
    BY <2>1, ApiActs
<1>4. CASE \E p \in Processes : Fails(p)
  BY <1>4 DEF Fails, Retries, CreateFails, InsertTimesOut, DestroyFails,
              LookupRefused, Aborts
<1>5. CASE \/ \E w \in Workers : CommitUnattended(w) \/ RequestDies(w)
           \/ DeviceRequest
           \/ \E t \in Tunnels : Expire(t)
  BY <1>5, ApiActs
<1>6. CASE \E t \in Tunnels : LateInsert(t) \/ ExpireLocally(t)
  BY <1>6 DEF LateInsert, ExpireLocally
<1>7. QED
  BY <1>1, <1>2, <1>3, <1>4, <1>5, <1>6 DEF Next

THEOREM AdminKeepsApi == Spec => Api!Spec
<1>1. Init => Api!Init
  BY DEF Init
<1>2. Spec => []AInv
  BY AInitially, ANextInv, PTL DEF Spec
<1>3. AInv /\ [Next]_vars => [Api!Next]_(Api!vars)
  BY StepsOfApi DEF api, Api!vars
<1>4. QED
  BY <1>1, <1>2, <1>3, PTL DEF Spec, Api!Spec

-----------------------------------------------------------------------------
(* A server is started only by a create past its check, or by an insert    *)
(* that such a create has given up; and a process gets past that check     *)
(* only for a tunnel that is not closed.                                   *)
LEMMA ServersAppear ==
    ASSUME AInv, Next, NEW t \in DOMAIN table,
           t \notin servers \cup inserting, t \in servers' \cup inserting'
    PROVE  \E p \in Processes : At(p, "insert") /\ Tunnel(p) = t
<1>1. CASE \E p \in Processes : Step(p)
  BY <1>1 DEF Step, create_ts_instance, configure_server, post_refused,
              destroy_ts_resources, DestroyServer, list_tunnels,
              stop_if_expired, list_ts_instances, get_tunnel, post_details,
              delete_tunnel, Call, Answered, cloud
<1>2. CASE \E p \in Processes : Fails(p)
  BY <1>2 DEF Fails, Retries, CreateFails, InsertTimesOut, DestroyFails,
              LookupRefused, Aborts, cloud
<1>3. CASE UNCHANGED cloud
  BY <1>3 DEF cloud
<1>4. CASE \E u \in Tunnels : LateInsert(u)
  BY <1>4 DEF LateInsert
<1>5. QED
  BY <1>1, <1>2, <1>3, <1>4
     DEF Next, create, stop, gc, list_tunnels, CommitUnattended, RequestDies,
         DeviceRequest, Expire, ExpireLocally

LEMMA InsertsAppear ==
    ASSUME AInv, Next, NEW q \in Processes, NEW t \in DOMAIN table,
           table[t].state \in Closed,
           ~ (At(q, "insert") /\ Tunnel(q) = t)
    PROVE  ~ (At(q, "insert") /\ Tunnel(q) = t)'
<1> DEFINE R(r) == ~ (r.pc = "insert" /\ r.tunnel = t)
<1>1. R(proc[q]) /\ proc \in [Processes -> Process]
  BY DEF At, Tunnel, AInv, ProcessesOK
<1>2. SUFFICES R(proc'[q])
  BY DEF At, Tunnel
<1>3. \A pc, todo, u : pc # "insert" => R(Doing(pc, todo, u))
  BY DEF Doing
<1>4. R(Idle) /\ \A todo : R(NextInstance(todo))
  BY <1>3 DEF Idle, NextInstance
<1>5. ASSUME NEW p \in Processes, NEW pc \in {"configure", "post", "destroy"},
             \/ Goto(p, pc)
             \/ \E l \in Launches :
                   proc' = [proc EXCEPT ![p].pc = pc, ![p].launch = l]
             \/ proc' = [proc EXCEPT ![p].pc = pc, ![p].worker = None]
             \/ \E v \in Workers \cup {None} :
                   proc' = [proc EXCEPT ![p].worker = v]
      PROVE  R(proc'[q])
  <2>1. proc[p] \in Process /\ proc[q] \in Process
    BY <1>1
  <2>2. CASE Goto(p, pc)
    BY <1>1, <2>1, <2>2 DEF Process, Goto, R
  <2>3. CASE \E l \in Launches :
                proc' = [proc EXCEPT ![p].pc = pc, ![p].launch = l]
    BY <1>1, <2>1, <2>3 DEF Process, R
  <2>4. CASE proc' = [proc EXCEPT ![p].pc = pc, ![p].worker = None]
    BY <1>1, <2>1, <2>4 DEF Process, R
  <2>5. CASE \E v \in Workers \cup {None} :
                proc' = [proc EXCEPT ![p].worker = v]
    BY <1>1, <2>1, <2>5 DEF Process, R
  <2>6. QED
    BY <1>5, <2>2, <2>3, <2>4, <2>5
<1>6. ASSUME NEW p \in Processes, NEW r, Become(p, r), R(r)
      PROVE  R(proc'[q])
  BY <1>1, <1>6 DEF Become
<1>7. CASE \E p \in Admins, u \in Tunnels : create(p, u) \/ stop(p, u)
  <2>1. PICK p \in Admins, u \in Tunnels : create(p, u) \/ stop(p, u)
    BY <1>7
  <2>2. CASE stop(p, u)
    BY <1>3, <1>6, <2>2 DEF stop, Processes
  <2>3. CASE create(p, u)
    <3>1. table[u].state < completed
      BY <2>3 DEF create, MayCreate
    <3>2. u # t
      BY <3>1 DEF Closed, completed, timedout
    <3>3. R(Doing("insert", {}, u))
      BY <3>2 DEF R, Doing
    <3>4. QED
      BY <1>6, <2>3, <3>3 DEF create, Processes
  <2>4. QED
    BY <2>1, <2>2, <2>3
<1>8. ASSUME NEW p \in Processes, list_tunnels(p) PROVE R(proc'[q])
  BY <1>3, <1>6, <1>8 DEF list_tunnels
<1>9. ASSUME NEW p \in Processes, Step(p) PROVE R(proc'[q])
  <2>1. CASE create_ts_instance(p)
    BY <1>1, <1>4, <1>5, <1>6, <2>1 DEF create_ts_instance, Goto
  <2>2. CASE configure_server(p) \/ post_refused(p)
    BY <1>1, <1>5, <2>2 DEF configure_server, post_refused, Goto
  <2>3. CASE destroy_ts_resources(p)
    BY <1>4, <1>6, <2>3 DEF destroy_ts_resources
  <2>4. CASE stop_if_expired(p)
    <3>1. PICK u \in proc[p].todo :
             Become(p, Doing(IF u \in overdue THEN "delete" ELSE "expire",
                             proc[p].todo \ {u}, u))
      BY <2>4 DEF stop_if_expired
    <3>2. QED
      BY <1>3, <1>6, <3>1
  <2>5. CASE list_ts_instances(p)
    BY <1>4, <1>6, <2>5 DEF list_ts_instances
  <2>6. CASE get_tunnel(p)
    BY <1>3, <1>4, <1>6, <2>6 DEF get_tunnel
  <2>7. CASE \E w \in Workers : post_details(p, w) \/ delete_tunnel(p, w)
    BY <1>1, <1>5, <2>7 DEF post_details, delete_tunnel, Call
  <2>8. CASE Answered(p)
    <3>1. proc[p].pc \in {"post", "delete", "stop"}
      BY <2>8 DEF Answered, AInv, ProcessesOK, ProcessOK
    <3>2. R(AfterCall(p))
      BY <1>3, <1>4, <3>1 DEF AfterCall, At
    <3>3. QED
      BY <1>6, <2>8, <3>2 DEF Answered
  <2>9. QED
    BY <1>8, <1>9, <2>1, <2>2, <2>3, <2>4, <2>5, <2>6, <2>7, <2>8 DEF Step
<1>10. ASSUME NEW p \in Processes, Fails(p) PROVE R(proc'[q])
  <2>1. CASE Retries(p) \/ CreateFails(p)
    BY <1>1, <1>5, <2>1 DEF Retries, CreateFails
  <2>2. CASE InsertTimesOut(p) \/ DestroyFails(p) \/ Aborts(p)
    BY <1>4, <1>6, <2>2 DEF InsertTimesOut, DestroyFails, Aborts
  <2>3. CASE LookupRefused(p)
    BY <1>3, <1>6, <2>3 DEF LookupRefused
  <2>4. QED
    BY <1>10, <2>1, <2>2, <2>3 DEF Fails
<1>11. CASE \E w \in Workers : RequestDies(w)
  <2>1. PICK w : proc' = [p \in Processes |->
                             IF proc[p].worker = w
                             THEN [proc[p] EXCEPT !.worker = None]
                             ELSE proc[p]]
    BY <1>11 DEF RequestDies
  <2>2. proc'[q].pc = proc[q].pc /\ proc'[q].tunnel = proc[q].tunnel
    BY <1>1, <2>1 DEF Process
  <2>3. QED
    BY <1>1, <2>2 DEF R
<1>12. CASE UNCHANGED proc
  BY <1>1, <1>12
<1>13. QED
  BY <1>7, <1>8, <1>9, <1>10, <1>11, <1>12
     DEF Next, gc, CommitUnattended, DeviceRequest, LateInsert, Expire,
         ExpireLocally, Processes

LEMMA WoundUpStays == AInv /\ [Next]_vars => WoundUpStep
<1> SUFFICES ASSUME AInv, [Next]_vars, NEW t \in DOMAIN table, WoundUp(t)
             PROVE  WoundUp(t)'
  BY DEF WoundUpStep
<1>1. table'[t].state \in Closed /\ t \notin Api!Admitted'
  <2>1. [Api!Next]_api
    BY StepsOfApi
  <2>2. QED
    BY <2>1, ApiStep DEF AInv, WoundUp
<1>2. CASE Next
  <2>1. t \notin servers' \cup inserting'
    BY <1>2, ServersAppear DEF WoundUp
  <2>2. \A q \in Processes : ~ (At(q, "insert") /\ Tunnel(q) = t)'
    BY <1>2, InsertsAppear DEF WoundUp
  <2>3. QED
    BY <1>1, <2>1, <2>2 DEF WoundUp
<1>3. CASE UNCHANGED vars
  BY <1>1, <1>3 DEF vars, WoundUp, At, Tunnel
<1>4. QED
  BY <1>2, <1>3

(* A server that is destroyed, with its tunnel closed and no create,       *)
(* insert that was given up or request for it under way, is never started  *)
(* again: for any number of administrators, collectors and faults, however *)
(* late the cloud ends the inserts that create does not wait for.          *)
THEOREM ServersDestroyedForGood == Spec => ServersStayDestroyed
<1>1. Spec => []AInv
  BY AInitially, ANextInv, PTL DEF Spec
<1>2. Spec => [][WoundUpStep]_vars
  BY <1>1, WoundUpStays, PTL DEF Spec
<1>3. QED
  BY <1>2 DEF ServersStayDestroyed

-----------------------------------------------------------------------------
(* What StartedHasServer takes.  Of a tunnel that is not over, the server  *)
(* holds the keys that the API knows or is being told, and is in the hands *)
(* of one create at most, which would find the server it goes on with.     *)
Serves(t, l) == t \in servers /\ keys[t] = l

Knows(t, l) ==
    \/ t \in DOMAIN table /\ table[t].ts_wg_public_key = l
    \/ \E w \in DOMAIN txn : /\ txn[w].tunnel_id = t
                             /\ txn[w].new.ts_wg_public_key = l

Building(p, t) ==
    Tunnel(p) = t /\ proc[p].pc \in {"configure", "post", "destroy"}

BuildsWith(p, t, l) ==
    /\ Building(p, t)
    /\ l = IF At(p, "post") THEN proc[p].launch ELSE None

Removing(p, t) == At(p, "remove") /\ Tunnel(p) = t

Served(t) ==
    /\ \A l \in Launches : Knows(t, l) => Serves(t, l)
    /\ \A p \in Processes : \A l : BuildsWith(p, t, l) => Serves(t, l)
    /\ \A p, q \in Processes : Building(p, t) /\ Building(q, t) => p = q
    /\ \A p \in Processes : ~ Removing(p, t)

GInv ==
    /\ AInv
    /\ \A t \in Tunnels \ servers : keys[t] = None
    /\ \A t \in Tunnels : Over(t) \/ Served(t)

(* What process p does with t is what it did before, or nothing.           *)
Quiet(p, t) ==
    /\ ~ Removing(p, t)'
    /\ Building(p, t)' => Building(p, t)
    /\ \A l : BuildsWith(p, t, l)' => BuildsWith(p, t, l)

LEMMA ServedStays ==
    ASSUME NEW t, Served(t), servers' = servers, keys' = keys,
           \A p \in Processes : Quiet(p, t),
           \A l \in Launches : Knows(t, l)' => Serves(t, l)
    PROVE  Served(t)'
BY DEF Served, Serves, Quiet

(* A process p that takes no server in its hands, or that of another       *)
(* tunnel.                                                                 *)
LEMMA QuietStepOf ==
    ASSUME proc \in [Processes -> Process], NEW t, Served(t),
           NEW p \in Processes, NEW r, proc' = [proc EXCEPT ![p] = r],
           \/ r.pc \notin {"configure", "post", "destroy", "remove"}
           \/ \E w \in Workers \cup {None} : r = [proc[p] EXCEPT !.worker = w]
           \/ r.tunnel # t
    PROVE  \A q \in Processes : Quiet(q, t)
<1>1. ASSUME NEW q \in Processes, q # p PROVE Quiet(q, t)
  BY <1>1 DEF Quiet, Removing, Building, BuildsWith, At, Tunnel, Served
<1>2. Quiet(p, t)
  <2>1. proc'[p] = r
    OBVIOUS
  <2>2. CASE r.pc \notin {"configure", "post", "destroy", "remove"}
    BY <2>1, <2>2 DEF Quiet, Removing, Building, BuildsWith, At
  <2>3. CASE r.tunnel # t
    BY <2>1, <2>3 DEF Quiet, Removing, Building, BuildsWith, Tunnel
  <2>4. CASE \E w \in Workers \cup {None} : r = [proc[p] EXCEPT !.worker = w]
    <3>1. r.pc = proc[p].pc /\ r.tunnel = proc[p].tunnel
          /\ r.launch = proc[p].launch
      BY <2>4 DEF Process
    <3>2. QED
      BY <2>1, <3>1
         DEF Quiet, Removing, Building, BuildsWith, At, Tunnel, Served
  <2>5. QED
    BY <2>2, <2>3, <2>4
<1>3. QED
  BY <1>1, <1>2

(* What the API comes to know of a tunnel it has been told by a create.    *)
LEMMA BeginKnows ==
    ASSUME AInv, NEW w, NEW u \in DOMAIN table, NEW new, Api!Begin(w, u, new),
           NEW t, NEW l \in Launches, Knows(t, l)'
    PROVE  Knows(t, l) \/ (u = t /\ new.ts_wg_public_key = l)
BY DEF Api!Begin, Knows

LEMMA PostKnows ==
    ASSUME AInv, NEW w, NEW u, NEW k, Api!post_tunnel_details(w, u, k),
           NEW t, NEW l \in Launches, Knows(t, l)'
    PROVE  Knows(t, l) \/ (u = t /\ k = l)
<1>1. u \in DOMAIN table /\ table[u] \in Api!Row
  BY DEF Api!post_tunnel_details, AInv, Api!TypeOK
<1>2. PICK new : new = Api!WithDetails(table[u], k)
  OBVIOUS
<1>3. Api!Begin(w, u, new) /\ new.ts_wg_public_key = k
  BY <1>1, <1>2 DEF Api!post_tunnel_details, Api!WithDetails, Api!Row
<1>4. QED
  BY <1>1, <1>3, BeginKnows

LEMMA NoPostKnows ==
    ASSUME AInv,
           \/ \E w, u :
                 \/ Api!admin_stop_tunnel(w, u)
                 \/ \E x : Api!set_tunnel_details_from_device(w, u, x)
                 \/ Api!device_stop_tunnel(w, u)
           \/ \E w : Api!Commit(w) \/ Api!Rollback(w)
           \/ \E u : Api!request_tunnel(u) \/ Api!Expire(u)
           \/ UNCHANGED api,
           NEW t, NEW l \in Launches, Knows(t, l)'
    PROVE  Knows(t, l)
<1>1. /\ table \in [DOMAIN table -> Api!Row]
      /\ txn \in [DOMAIN txn -> Api!Transaction]
      /\ \A w \in DOMAIN txn : txn[w].tunnel_id \in DOMAIN table
  BY DEF AInv, Api!TypeOK
<1>2. CASE \/ \E u : Api!request_tunnel(u) \/ Api!Expire(u)
           \/ UNCHANGED api
  <2>1. CASE \E u : Api!request_tunnel(u)
    <3>1. /\ UNCHANGED txn
          /\ \A u \in DOMAIN table' : \/ table'[u].ts_wg_public_key = None
                                      \/ u \in DOMAIN table
                                            /\ table'[u] = table[u]
      BY <2>1 DEF Api!request_tunnel, Api!NewRow
    <3>2. QED
      BY <3>1, NoneIsNothing DEF Knows
  <2>2. CASE (\E u : Api!Expire(u)) \/ UNCHANGED api
    BY <2>2 DEF Api!Expire, Knows, api
  <2>3. QED
    BY <1>2, <2>1, <2>2
<1>3. ASSUME NEW w, Api!Commit(w)
      PROVE  Knows(t, l)
  <2>1. PICK x \in Api!Transaction : x = txn[w]
    BY <1>1, <1>3 DEF Api!Commit
  <2>2. /\ w \in DOMAIN txn
        /\ table' = [table EXCEPT ![x.tunnel_id] = Api!Flushed(@, x)]
        /\ txn' = [v \in DOMAIN txn \ {w} |-> txn[v]]
    BY <1>3, <2>1 DEF Api!Commit, Api!Without
  <2>3. \A row : Api!Flushed(row, x).ts_wg_public_key
                    \in {row.ts_wg_public_key, x.new.ts_wg_public_key}
    BY DEF Api!Flushed, Api!Written
  <2>4. CASE t \in DOMAIN table' /\ table'[t].ts_wg_public_key = l
    BY <2>1, <2>2, <2>3, <2>4 DEF Knows
  <2>5. CASE \E v \in DOMAIN txn' : /\ txn'[v].tunnel_id = t
                                    /\ txn'[v].new.ts_wg_public_key = l
    BY <2>2, <2>5 DEF Knows
  <2>6. QED
    BY <2>4, <2>5 DEF Knows
<1>4. CASE \E w : Api!Rollback(w)
  BY <1>4 DEF Api!Rollback, Api!Without, Knows
<1>5. ASSUME NEW w, NEW u \in DOMAIN table, NEW new, Api!Begin(w, u, new),
             new.ts_wg_public_key = table[u].ts_wg_public_key
      PROVE  Knows(t, l)
  BY <1>5, BeginKnows DEF Knows
<1>6. ASSUME NEW w, NEW u, Api!admin_stop_tunnel(w, u)
      PROVE  Knows(t, l)
  <2>1. u \in DOMAIN table /\ table[u] \in Api!Row
    BY <1>1, <1>6 DEF Api!admin_stop_tunnel
  <2>2. PICK new : new = Api!StoppedByAdmin(table[u], u \in expired)
    OBVIOUS
  <2>3. new.ts_wg_public_key = table[u].ts_wg_public_key
    BY <2>1, <2>2 DEF Api!StoppedByAdmin, Api!Row
  <2>4. QED
    BY <1>5, <1>6, <2>1, <2>2, <2>3 DEF Api!admin_stop_tunnel
<1>7. ASSUME NEW w, NEW u, NEW x, Api!set_tunnel_details_from_device(w, u, x)
      PROVE  Knows(t, l)
  <2>1. u \in DOMAIN table /\ table[u] \in Api!Row
    BY <1>1, <1>7 DEF Api!set_tunnel_details_from_device, Api!Authorized
  <2>2. PICK new : new = Api!WithConnection(table[u], x)
    OBVIOUS
  <2>3. new.ts_wg_public_key = table[u].ts_wg_public_key
    BY <2>1, <2>2 DEF Api!WithConnection, Api!Row
  <2>4. QED
    BY <1>5, <1>7, <2>1, <2>2, <2>3 DEF Api!set_tunnel_details_from_device
<1>8. ASSUME NEW w, NEW u, Api!device_stop_tunnel(w, u)
      PROVE  Knows(t, l)
  <2>1. u \in DOMAIN table /\ table[u] \in Api!Row
    BY <1>1, <1>8 DEF Api!device_stop_tunnel, Api!Authorized
  <2>2. PICK new : new = Api!StoppedByDevice(table[u])
    OBVIOUS
  <2>3. new.ts_wg_public_key = table[u].ts_wg_public_key
    BY <2>1, <2>2 DEF Api!StoppedByDevice, Api!Row
  <2>4. QED
    BY <1>5, <1>8, <2>1, <2>2, <2>3 DEF Api!device_stop_tunnel
<1>9. QED
  BY <1>2, <1>3, <1>4, <1>6, <1>7, <1>8

-----------------------------------------------------------------------------
(* The steps that leave the cloud alone and are quiet.                     *)
LEMMA QuietServed ==
    ASSUME AInv, NEW t, Served(t), UNCHANGED <<api, cloud>>,
           NEW p \in Processes, NEW r, Become(p, r),
           \/ r.pc \notin {"configure", "post", "destroy", "remove"}
           \/ r.tunnel # t
    PROVE  Served(t)'
<1>1. \A q \in Processes : Quiet(q, t)
  BY QuietStepOf DEF AInv, ProcessesOK, Become
<1>2. \A l \in Launches : Knows(t, l)' => Serves(t, l)
  BY NoPostKnows DEF Served
<1>3. QED
  BY <1>1, <1>2, ServedStays DEF cloud

LEMMA ListsServed ==
    ASSUME AInv, NEW t, Served(t), NEW p \in Processes,
           \/ \E u \in Tunnels : create(p, u) \/ stop(p, u)
           \/ list_tunnels(p)
           \/ stop_if_expired(p)
           \/ list_ts_instances(p)
    PROVE  Served(t)'
<1>1. \A pc, todo, u : Doing(pc, todo, u).pc = pc
  BY DEF Doing
<1>2. \A todo : NextInstance(todo).pc \in {"idle", "instances"}
  BY <1>1 DEF NextInstance, Idle
<1>3. PICK r : /\ Become(p, r)
               /\ r.pc \notin {"configure", "post", "destroy", "remove"}
  <2>1. CASE \E u \in Tunnels : create(p, u) \/ stop(p, u)
    BY <1>1, <2>1 DEF create, stop
  <2>2. CASE list_tunnels(p)
    <3>1. PICK todo : Become(p, Doing("expire", todo, None))
      BY <2>2 DEF list_tunnels
    <3>2. QED
      BY <1>1, <3>1
  <2>3. CASE stop_if_expired(p)
    <3>1. PICK pc, todo, u : /\ pc \in {"delete", "expire"}
                             /\ Become(p, Doing(pc, todo, u))
      BY <2>3 DEF stop_if_expired
    <3>2. QED
      BY <1>1, <3>1
  <2>4. CASE list_ts_instances(p)
    BY <1>2, <2>4 DEF list_ts_instances
  <2>5. QED
    BY <2>1, <2>2, <2>3, <2>4
<1>4. UNCHANGED <<api, cloud>>
  BY DEF create, stop, list_tunnels, stop_if_expired, list_ts_instances
<1>5. QED
  BY <1>3, <1>4, QuietServed

(* A request begins, is answered, lost, or taken up without its sender.    *)
LEMMA RequestsServed ==
    ASSUME AInv, NEW t, Served(t),
           \/ \E p \in Processes, w \in Workers :
                 post_details(p, w) \/ delete_tunnel(p, w)
           \/ \E p \in Processes : Answered(p) \/ Retries(p)
           \/ \E w \in Workers : CommitUnattended(w) \/ RequestDies(w)
           \/ DeviceRequest
           \/ \E u \in Tunnels : Expire(u) \/ ExpireLocally(u)
    PROVE  Served(t)'
<1>1. proc \in [Processes -> Process]
  BY DEF AInv, ProcessesOK
<1>2. UNCHANGED cloud
  BY DEF post_details, delete_tunnel, Call, Answered, Retries,
         CommitUnattended, RequestDies, DeviceRequest, Expire, ExpireLocally
<1>3. ASSUME NEW p \in Processes, NEW w \in Workers,
             post_details(p, w) \/ delete_tunnel(p, w)
      PROVE  \A q \in Processes : Quiet(q, t)
  <2>1. PICK r : r = [proc[p] EXCEPT !.worker = w]
    OBVIOUS
  <2>2. proc' = [proc EXCEPT ![p] = r]
    BY <1>1, <1>3, <2>1 DEF post_details, delete_tunnel, Call
  <2>3. QED
    BY <1>1, <2>1, <2>2, QuietStepOf
<1>4. ASSUME NEW p \in Processes, Answered(p)
      PROVE  \A q \in Processes : Quiet(q, t)
  <2>1. proc[p].pc \in {"post", "delete", "stop"}
    BY <1>4 DEF Answered, AInv, ProcessesOK, ProcessOK
  <2>2. AfterCall(p).pc \in {"idle", "expire", "list"}
    BY <2>1 DEF AfterCall, At, Idle, Doing
  <2>3. QED
    BY <1>1, <1>4, <2>2, QuietStepOf DEF Answered, Become
<1>5. ASSUME NEW p \in Processes, Retries(p)
      PROVE  \A q \in Processes : Quiet(q, t)
  <2>1. PICK r : r = [proc[p] EXCEPT !.worker = None]
    OBVIOUS
  <2>2. proc' = [proc EXCEPT ![p] = r]
    BY <1>1, <1>5, <2>1 DEF Retries
  <2>3. QED
    BY <1>1, <2>1, <2>2, QuietStepOf
<1>6. ASSUME NEW w \in Workers, RequestDies(w), NEW q \in Processes
      PROVE  Quiet(q, t)
  <2>1. proc'[q] = IF proc[q].worker = w THEN [proc[q] EXCEPT !.worker = None]
                   ELSE proc[q]
    BY <1>6 DEF RequestDies
  <2>2. /\ proc'[q].pc = proc[q].pc /\ proc'[q].tunnel = proc[q].tunnel
        /\ proc'[q].launch = proc[q].launch
    BY <1>1, <2>1 DEF Process
  <2>3. QED
    BY <2>2 DEF Quiet, Removing, Building, BuildsWith, At, Tunnel, Served
<1>7. ASSUME UNCHANGED proc, NEW q \in Processes
      PROVE  Quiet(q, t)
  <2>1. proc'[q] = proc[q]
    BY <1>7
  <2>2. QED
    BY <2>1 DEF Quiet, Removing, Building, BuildsWith, At, Tunnel, Served
<1>8. \A q \in Processes : Quiet(q, t)
  <2>1. CASE \/ \E w \in Workers : CommitUnattended(w)
             \/ DeviceRequest
             \/ \E u \in Tunnels : Expire(u) \/ ExpireLocally(u)
    BY <1>7, <2>1 DEF CommitUnattended, DeviceRequest, Expire, ExpireLocally
  <2>2. QED
    BY <1>3, <1>4, <1>5, <1>6, <2>1
<1>9. ASSUME NEW l \in Launches, Knows(t, l)' PROVE Serves(t, l)
  <2>1. ASSUME NEW p \in Processes, NEW w \in Workers, post_details(p, w)
        PROVE  Serves(t, l)
    <3>1. Knows(t, l) \/ (Tunnel(p) = t /\ proc[p].launch = l)
      BY <1>9, <2>1, PostKnows DEF post_details
    <3>2. At(p, "post")
      BY <2>1 DEF post_details
    <3>3. QED
      BY <3>1, <3>2 DEF Served, BuildsWith, Building, At
  <2>2. CASE Knows(t, l)
    BY <2>2 DEF Served
  <2>3. CASE \/ \E p \in Processes, w \in Workers : delete_tunnel(p, w)
             \/ \E p \in Processes : Answered(p) \/ Retries(p)
             \/ \E w \in Workers : CommitUnattended(w) \/ RequestDies(w)
             \/ DeviceRequest
             \/ \E u \in Tunnels : Expire(u) \/ ExpireLocally(u)
    BY <1>9, <2>2, <2>3, NoPostKnows
       DEF delete_tunnel, Answered, Retries, CommitUnattended, RequestDies,
           DeviceRequest, Expire, ExpireLocally
  <2>4. QED
    BY <2>1, <2>3
<1>10. QED
  BY <1>2, <1>8, <1>9, ServedStays DEF cloud

(* gc takes a server in its hands only when its tunnel is over.            *)
LEMMA RemoveServed ==
    ASSUME AInv, NEW t, Served(t), ~ Over(t), DestroysWhatIsOver,
           NEW p \in Processes, get_tunnel(p) \/ LookupRefused(p)
    PROVE  Served(t)'
<1>1. PICK u, todo :
         \/ Become(p, Doing("remove", todo, u))
         \/ Become(p, NextInstance(todo))
  BY DEF get_tunnel, LookupRefused
<1>2. proc \in [Processes -> Process] /\ UNCHANGED <<api, cloud>>
  BY DEF get_tunnel, LookupRefused, AInv, ProcessesOK
<1>3. CASE Become(p, Doing("remove", todo, u))
  <2>1. proc'[p].pc = "remove" /\ proc'[p].tunnel = u
    BY <1>2, <1>3 DEF Become, Doing
  <2>2. Over(u)
    BY <2>1 DEF DestroysWhatIsOver, At, Tunnel, get_tunnel, LookupRefused
  <2>3. Doing("remove", todo, u).tunnel # t
    BY <2>2 DEF Doing
  <2>4. QED
    BY <1>2, <1>3, <2>3, QuietServed
<1>4. CASE Become(p, NextInstance(todo))
  <2>1. NextInstance(todo).pc \in {"idle", "instances"}
    BY DEF NextInstance, Idle, Doing
  <2>2. QED
    BY <1>2, <1>4, <2>1, QuietServed
<1>5. QED
  BY <1>1, <1>3, <1>4

(* Commands that end, whatever they were doing.                            *)
LEMMA EndServed ==
    ASSUME AInv, NEW t, Served(t), NEW p \in Processes,
           DestroyFails(p) \/ Aborts(p)
    PROVE  Served(t)'
<1>1. \E r : Become(p, r) /\ r.pc \in {"idle", "instances"}
  BY DEF DestroyFails, Aborts, NextInstance, Idle, Doing
<1>2. UNCHANGED <<api, cloud>>
  BY DEF DestroyFails, Aborts
<1>3. QED
  BY <1>1, <1>2, QuietServed

(* A create inserts the instance, or finds that there is one.              *)
LEMMA InsertServed ==
    ASSUME AInv, NEW t \in Tunnels, Served(t), t \notin servers => keys[t] = None,
           NEW p \in Processes, create_ts_instance(p) \/ InsertTimesOut(p)
    PROVE  Served(t)'
<1>1. /\ proc \in [Processes -> Process]
      /\ UNCHANGED <<api, keys>>
      /\ proc[p].pc = "insert"
  BY DEF create_ts_instance, InsertTimesOut, At, AInv, ProcessesOK
<1>2. \A l \in Launches : Knows(t, l)' => Serves(t, l)
  BY <1>1, NoPostKnows DEF Served
<1>3. servers \subseteq servers'
  BY DEF create_ts_instance, InsertTimesOut
<1>4. \A l : Serves(t, l) => Serves(t, l)'
  BY <1>1, <1>3 DEF Serves
<1>5. CASE Become(p, Idle)
  <2>1. \A q \in Processes : Quiet(q, t)
    BY <1>1, <1>5, QuietStepOf DEF Become, Idle, Doing
  <2>2. QED
    BY <1>2, <1>4, <2>1 DEF Served, Quiet
<1>6. CASE Goto(p, "configure") /\ servers' = servers \cup {Tunnel(p)}
                                /\ Tunnel(p) \notin servers
  <2>1. PICK r : r = [proc[p] EXCEPT !.pc = "configure"]
    OBVIOUS
  <2>2. /\ proc' = [proc EXCEPT ![p] = r]
        /\ r.pc = "configure" /\ r.tunnel = Tunnel(p)
    BY <1>1, <1>6, <2>1 DEF Goto, Tunnel, Process
  <2>3. CASE Tunnel(p) # t
    <3>1. \A q \in Processes : Quiet(q, t)
      BY <1>1, <2>2, <2>3, QuietStepOf
    <3>2. QED
      BY <1>2, <1>4, <3>1 DEF Served, Quiet
  <2>4. CASE Tunnel(p) = t
    <3>1. t \notin servers /\ keys[t] = None
      BY <1>6, <2>4
    <3>2. \A q \in Processes : ~ Building(q, t)
      BY <3>1 DEF Served, BuildsWith, Serves
    <3>3. \A q \in Processes \ {p} : proc'[q] = proc[q]
      BY <2>2
    <3>4. proc'[p] = r
      BY <1>1, <2>2
    <3>5. \A q \in Processes \ {p} : ~ Building(q, t)'
      BY <3>2, <3>3 DEF Building, Tunnel
    <3>6. \A l : BuildsWith(p, t, l)' => l = None
      BY <2>2, <3>4 DEF BuildsWith, At
    <3>7. Serves(t, None)'
      BY <1>1, <1>6, <2>4, <3>1 DEF Serves
    <3>8. \A q \in Processes : ~ Removing(q, t)'
      BY <2>2, <3>3, <3>4 DEF Served, Removing, At, Tunnel
    <3>9. QED
      BY <1>2, <1>4, <3>5, <3>6, <3>7, <3>8 DEF Served, BuildsWith
  <2>5. QED
    BY <2>3, <2>4
<1>7. QED
  BY <1>5, <1>6 DEF create_ts_instance, InsertTimesOut

(* An insert that was given up adds a server without keys, or nothing.     *)
LEMMA LateServed ==
    ASSUME AInv, NEW t, Served(t), NEW u \in Tunnels, LateInsert(u)
    PROVE  Served(t)'
<1>1. UNCHANGED <<api, keys, proc>> /\ servers \subseteq servers'
  BY DEF LateInsert
<1>2. \A l : Serves(t, l) => Serves(t, l)'
  BY <1>1 DEF Serves
<1>3. QED
  BY <1>1, <1>2
     DEF Served, Knows, BuildsWith, Building, Removing, At, Tunnel, api

(* The other tunnels, when a process works on the server of its own.       *)
LEMMA OtherServed ==
    ASSUME AInv, NEW t, Served(t), UNCHANGED api, NEW p \in Processes, NEW r,
           proc' = [proc EXCEPT ![p] = r], r.tunnel # t,
           t \in servers => t \in servers', keys'[t] = keys[t]
    PROVE  Served(t)'
<1>1. \A q \in Processes : Quiet(q, t)
  BY QuietStepOf DEF AInv, ProcessesOK
<1>2. \A l \in Launches : Knows(t, l)' => Serves(t, l)
  BY NoPostKnows DEF Served
<1>3. \A l : Serves(t, l) => Serves(t, l)'
  BY DEF Serves
<1>4. QED
  BY <1>1, <1>2, <1>3 DEF Served, Quiet

(* create goes on with a server that has no keys yet: nobody knows any.    *)
LEMMA HandedOnServed ==
    ASSUME AInv, NEW t, Served(t), UNCHANGED <<api, servers>>,
           NEW p \in Processes, NEW r, proc' = [proc EXCEPT ![p] = r],
           BuildsWith(p, t, None),
           r.pc \in {"post", "destroy"}, r.tunnel = t,
           keys'[t] = IF r.pc = "post" THEN r.launch ELSE None
    PROVE  Served(t)'
<1>1. Serves(t, None)
  BY DEF Served
<1>2. ASSUME NEW l \in Launches PROVE ~ Knows(t, l)'
  BY <1>1, <1>2, NoneIsNothing, NoPostKnows DEF Served, Serves
<1>3. /\ proc'[p] = r
      /\ \A q \in Processes \ {p} : proc'[q] = proc[q]
  BY DEF AInv, ProcessesOK
<1>4. \A q \in Processes \ {p} : ~ Building(q, t)'
  BY <1>3 DEF Served, BuildsWith, Building, Tunnel
<1>5. \A l : BuildsWith(p, t, l)' => Serves(t, l)'
  BY <1>1, <1>3 DEF BuildsWith, Serves, At
<1>6. \A q \in Processes : ~ Removing(q, t)'
  BY <1>3 DEF Served, Removing, At, Tunnel
<1>7. QED
  BY <1>2, <1>4, <1>5, <1>6 DEF Served, BuildsWith

LEMMA ConfigureServed ==
    ASSUME AInv, NEW t \in Tunnels, Served(t),
           NEW p \in Processes, configure_server(p)
    PROVE  Served(t)'
<1>1. /\ proc \in [Processes -> Process] /\ keys \in [Tunnels -> Launches \cup {None}]
      /\ UNCHANGED <<api, servers>>
      /\ proc[p].pc = "configure"
  BY DEF configure_server, At, AInv, ProcessesOK, CloudOK
<1>2. Tunnel(p) = t => BuildsWith(p, t, None)
  BY <1>1 DEF BuildsWith, Building, At
<1>3. CASE Goto(p, "destroy") /\ UNCHANGED keys
  <2>1. PICK r : r = [proc[p] EXCEPT !.pc = "destroy"]
    OBVIOUS
  <2>2. /\ proc' = [proc EXCEPT ![p] = r]
        /\ r.pc = "destroy" /\ r.tunnel = Tunnel(p)
    BY <1>1, <1>3, <2>1 DEF Goto, Tunnel, Process
  <2>3. Tunnel(p) = t => keys'[t] = None
    BY <1>2, <1>3 DEF Served, Serves
  <2>4. QED
    BY <1>1, <1>2, <1>3, <2>2, <2>3, OtherServed, HandedOnServed
<1>4. ASSUME NEW l \in Launches, keys' = [keys EXCEPT ![Tunnel(p)] = l],
             proc' = [proc EXCEPT ![p].pc = "post", ![p].launch = l]
      PROVE  Served(t)'
  <2>1. PICK r : r = [proc[p] EXCEPT !.pc = "post", !.launch = l]
    OBVIOUS
  <2>2. proc' = [proc EXCEPT ![p] = r]
    BY <1>1, <1>4, <2>1
  <2>3. r.pc = "post" /\ r.tunnel = Tunnel(p) /\ r.launch = l
    BY <1>1, <2>1 DEF Tunnel, Process
  <2>4. keys'[t] = IF Tunnel(p) = t THEN l ELSE keys[t]
    BY <1>1, <1>4
  <2>5. QED
    BY <1>1, <1>2, <2>2, <2>3, <2>4, OtherServed, HandedOnServed
<1>5. QED
  BY <1>3, <1>4 DEF configure_server

(* create gives up: after its post, only if the tunnel is over.            *)
LEMMA GivesUpServed ==
    ASSUME AInv, NEW t \in Tunnels, Served(t), ~ Over(t), DestroysWhatIsOver,
           NEW p \in Processes, post_refused(p) \/ CreateFails(p)
    PROVE  Served(t)'
<1>1. /\ proc \in [Processes -> Process]
      /\ UNCHANGED <<api, servers, keys>>
      /\ proc[p].pc \in {"configure", "post"}
  BY DEF post_refused, CreateFails, At, AInv, ProcessesOK, cloud
<1>2. PICK r : /\ proc' = [proc EXCEPT ![p] = r]
               /\ r.pc = "destroy" /\ r.tunnel = Tunnel(p)
  <2>1. CASE post_refused(p)
    <3>1. PICK r : r = [proc[p] EXCEPT !.pc = "destroy"]
      OBVIOUS
    <3>2. proc' = [proc EXCEPT ![p] = r]
      BY <1>1, <2>1, <3>1 DEF post_refused, Goto
    <3>3. r.pc = "destroy" /\ r.tunnel = Tunnel(p)
      BY <1>1, <3>1 DEF Tunnel, Process
    <3>4. QED
      BY <3>2, <3>3
  <2>2. CASE CreateFails(p)
    <3>1. PICK r : r = [proc[p] EXCEPT !.pc = "destroy", !.worker = None]
      OBVIOUS
    <3>2. proc' = [proc EXCEPT ![p] = r]
      BY <1>1, <2>2, <3>1 DEF CreateFails
    <3>3. r.pc = "destroy" /\ r.tunnel = Tunnel(p)
      BY <1>1, <3>1 DEF Tunnel, Process
    <3>4. QED
      BY <3>2, <3>3
  <2>3. QED
    BY <2>1, <2>2
<1>3. proc'[p] = r
  BY <1>1, <1>2
<1>4. proc[p].pc = "post" => Tunnel(p) # t
  BY <1>2, <1>3 DEF DestroysWhatIsOver, At, Tunnel
<1>5. Tunnel(p) = t => BuildsWith(p, t, None) /\ keys'[t] = None
  BY <1>1, <1>4 DEF Served, BuildsWith, Building, Serves, At
<1>6. QED
  BY <1>1, <1>2, <1>5, OtherServed, HandedOnServed

(* A server of a tunnel that is not over is destroyed before it has keys.  *)
LEMMA DestroyServed ==
    ASSUME AInv, NEW t \in Tunnels, Served(t),
           NEW p \in Processes, destroy_ts_resources(p)
    PROVE  Served(t)'
<1>1. /\ proc \in [Processes -> Process] /\ keys \in [Tunnels -> Launches \cup {None}]
      /\ UNCHANGED api
      /\ servers' = servers \ {Tunnel(p)}
      /\ keys' = [keys EXCEPT ![Tunnel(p)] = None]
      /\ proc[p].pc \in {"destroy", "remove"}
  BY DEF destroy_ts_resources, DestroyServer, At, AInv, ProcessesOK, CloudOK
<1>2. PICK r : /\ proc' = [proc EXCEPT ![p] = r]
               /\ r.pc \in {"idle", "instances"} /\ r.tunnel = None
  <2>1. PICK r \in {Idle, NextInstance(proc[p].todo)} :
           proc' = [proc EXCEPT ![p] = r]
    BY DEF destroy_ts_resources, Become
  <2>2. r \in {Idle, Doing("instances", proc[p].todo, None)}
    BY <2>1 DEF NextInstance
  <2>3. r.pc \in {"idle", "instances"} /\ r.tunnel = None
    BY <2>2 DEF Idle, Doing
  <2>4. QED
    BY <2>1, <2>3
<1>3. CASE Tunnel(p) # t
  BY <1>1, <1>2, <1>3, NoneIsNothing, OtherServed
<1>4. CASE Tunnel(p) = t
  <2>1. BuildsWith(p, t, None)
    BY <1>1, <1>4 DEF Served, Removing, BuildsWith, Building, At
  <2>2. Serves(t, None)
    BY <2>1 DEF Served
  <2>3. ASSUME NEW l \in Launches PROVE ~ Knows(t, l)'
    BY <1>1, <2>2, <2>3, NoneIsNothing, NoPostKnows DEF Served, Serves
  <2>4. \A q \in Processes : ~ Building(q, t)'
    BY <1>1, <1>2, <2>1 DEF Served, BuildsWith, Building, Tunnel
  <2>5. \A q \in Processes : ~ Removing(q, t)'
    BY <1>1, <1>2 DEF Served, Removing, At, Tunnel
  <2>6. QED
    BY <2>3, <2>4, <2>5 DEF Served, BuildsWith
<1>5. QED
  BY <1>3, <1>4

-----------------------------------------------------------------------------
LEMMA NextServed ==
    ASSUME GInv, Next, DestroysWhatIsOver, NEW t \in Tunnels, Served(t),
           ~ Over(t)
    PROVE  Served(t)'
<1>1. AInv /\ (t \notin servers => keys[t] = None)
  BY DEF GInv
<1>2. CASE \E p \in Admins, u \in Tunnels : create(p, u) \/ stop(p, u)
  BY <1>1, <1>2, ListsServed DEF Processes
<1>3. CASE \E p \in Collectors : gc(p)
  BY <1>1, <1>3, ListsServed DEF Processes, gc
<1>4. ASSUME NEW p \in Processes, Step(p) PROVE Served(t)'
  BY <1>1, <1>4, ListsServed, RequestsServed, RemoveServed, InsertServed,
     ConfigureServed, GivesUpServed, DestroyServed
     DEF Step
<1>5. ASSUME NEW p \in Processes, Fails(p) PROVE Served(t)'
  BY <1>1, <1>5, RequestsServed, RemoveServed, InsertServed, GivesUpServed,
     EndServed
     DEF Fails
<1>6. CASE \/ \E w \in Workers : CommitUnattended(w) \/ RequestDies(w)
           \/ DeviceRequest
           \/ \E u \in Tunnels : Expire(u) \/ ExpireLocally(u)
  BY <1>1, <1>6, RequestsServed
<1>7. CASE \E u \in Tunnels : LateInsert(u)
  BY <1>1, <1>7, LateServed
<1>8. QED
  BY <1>2, <1>3, <1>4, <1>5, <1>6, <1>7 DEF Next

(* Keys are on instances, and go with them.                                *)
LEMMA KeysGo ==
    ASSUME GInv, Next
    PROVE  \A t \in Tunnels \ servers' : keys'[t] = None
<1>1. keys \in [Tunnels -> Launches \cup {None}]
  BY DEF GInv, AInv, CloudOK
<1>2. CASE UNCHANGED keys /\ servers \subseteq servers'
  BY <1>2 DEF GInv
<1>3. ASSUME NEW p \in Processes, configure_server(p)
      PROVE  \A t \in Tunnels \ servers' : keys'[t] = None
  BY <1>1, <1>3 DEF configure_server, GInv
<1>4. ASSUME NEW p \in Processes, destroy_ts_resources(p)
      PROVE  \A t \in Tunnels \ servers' : keys'[t] = None
  BY <1>1, <1>4 DEF destroy_ts_resources, DestroyServer, GInv
<1>5. ASSUME NEW p \in Processes, Step(p)
      PROVE  \/ UNCHANGED keys /\ servers \subseteq servers'
             \/ configure_server(p) \/ destroy_ts_resources(p)
  BY <1>5 DEF Step, create_ts_instance, post_refused, list_tunnels,
              stop_if_expired, list_ts_instances, get_tunnel, post_details,
              delete_tunnel, Call, Answered, cloud
<1>6. ASSUME NEW p \in Processes, Fails(p)
      PROVE  UNCHANGED keys /\ servers \subseteq servers'
  BY <1>6 DEF Fails, Retries, CreateFails, InsertTimesOut, DestroyFails,
              LookupRefused, Aborts, cloud
<1>7. QED
  BY <1>2, <1>3, <1>4, <1>5, <1>6
     DEF Next, create, stop, gc, list_tunnels, CommitUnattended, RequestDies,
         DeviceRequest, LateInsert, Expire, ExpireLocally, cloud

LEMMA InitGInv == Init => GInv
<1> SUFFICES ASSUME Init PROVE GInv
  OBVIOUS
<1>1. AInv
  BY AInitially
<1>2. ASSUME NEW t \in Tunnels PROVE Served(t)
  BY DEF Init, Api!Init, Served, Knows, BuildsWith, Building, Removing, At,
         Idle, Doing
<1>3. QED
  BY <1>1, <1>2 DEF Init, GInv

LEMMA NextGInv ==
    GInv /\ [Next /\ DestroysWhatIsOver /\ ClosedForGood]_vars => GInv'
<1> SUFFICES ASSUME GInv, [Next /\ DestroysWhatIsOver /\ ClosedForGood]_vars
             PROVE  GInv'
  OBVIOUS
<1>1. AInv'
  BY ANextInv DEF GInv
<1>2. CASE Next /\ DestroysWhatIsOver /\ ClosedForGood
  BY <1>1, <1>2, KeysGo, NextServed DEF GInv, ClosedForGood
<1>3. CASE UNCHANGED vars
  <2>1. ASSUME NEW t \in Tunnels PROVE (Over(t) \/ Served(t))'
    BY <1>3 DEF vars, GInv, Over, Served, Serves, Knows, BuildsWith, Building,
                Removing, At, Tunnel
  <2>2. QED
    BY <1>1, <1>3, <2>1 DEF vars, GInv
<1>4. QED
  BY <1>2, <1>3

(* A tunnel that is started has its server, with the keys the device is    *)
(* told of, for any number of administrators, collectors and faults: but   *)
(* for a server destroyed under a tunnel that is not over, because of a    *)
(* lost or misread answer, and a closed tunnel that a late commit reopens. *)
THEOREM StartedServed == CarefulSpec => []StartedHasServer
<1>1. GInv => StartedHasServer
  <2>1. SUFFICES ASSUME GInv, NEW t \in DOMAIN table,
                        table[t].state = started
                 PROVE  t \in servers /\ keys[t] = table[t].ts_wg_public_key
    BY DEF StartedHasServer
  <2>2. t \in Tunnels /\ table[t] \in Api!Row /\ Served(t)
    BY <2>1 DEF GInv, AInv, Api!TypeOK, Over, Closed, started, completed,
                timedout
  <2>3. table[t].ts_wg_public_key # None
    BY <2>1 DEF GInv, AInv, P!IInv, P!RowOK, P!Usable, P!started, started
  <2>4. QED
    BY <2>2, <2>3 DEF Api!Row, Served, Knows, Serves
<1>2. CarefulSpec => []GInv
  BY InitGInv, NextGInv, PTL DEF CarefulSpec
<1>3. QED
  BY <1>1, <1>2, PTL
=============================================================================
