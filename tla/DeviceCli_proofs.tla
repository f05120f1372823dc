-------------------------- MODULE DeviceCli_proofs --------------------------
(***************************************************************************)
(* Proofs about the device, for any number of tunnels, launches, users,    *)
(* processes and faults.                                                   *)
(*                                                                         *)
(* RunningIsRecorded is not inductive: commit_running writes the state     *)
(* long after the server and the user were stored.  DInv adds what each    *)
(* process relies on from one step to the next: that its tunnel has a row, *)
(* that the columns an earlier step stored are still not NULL, whatever    *)
(* the other processes did to the row meanwhile, and that it has loaded    *)
(* the row it is going to use.                                             *)
(***************************************************************************)
EXTENDS DeviceCli, TLAPS

RowOK(row) ==
    row.state = running => row.support_user # None /\ row.server # None

TableOK ==
    /\ DOMAIN db \subseteq Tunnels
    /\ db \in [DOMAIN db -> Row]
    /\ expired \subseteq DOMAIN db
    /\ \A t \in DOMAIN db : RowOK(db[t])

HostOK ==
    /\ DOMAIN accounts \subseteq SupportUsers
    /\ accounts \in [DOMAIN accounts -> Launches \cup {None}]
    /\ conf \in [Tunnels -> Launches \cup {None}]
    /\ enabled \subseteq Tunnels
    /\ active \subseteq Tunnels
    /\ link \in [Tunnels -> Launches \cup {None}]
    /\ faults \in 0 .. MaxFaults

(* The steps of connect after the user is recorded, and those that use the *)
(* row it has loaded.                                                      *)
Recorded == ConnectSteps \ {"user", "record"}

Loaded == {"config", "enable", "start", "commit"}

(* What a process, as the record q, relies on.                             *)
ProcessOK(q) ==
    /\ q.todo \subseteq DOMAIN db
    /\ q.pc \notin {"idle", "loop"} => q.tunnel \in DOMAIN db
    /\ q.pc \in StopSteps => q.closing \in Closed
    /\ q.pc = "record" => q.user # None
    /\ q.pc \in ConnectSteps => db[q.tunnel].server # None
    /\ q.pc \in Recorded => db[q.tunnel].support_user # None
    /\ q.pc \in Loaded \cup {"deluser"} => q.loaded \in Row
    /\ q.pc \in Loaded /\ q.loaded.state # pending
          => db[q.tunnel].state # pending
    /\ q.pc = "report" => db[q.tunnel].state # pending

DInv ==
    /\ TableOK
    /\ HostOK
    /\ proc \in [Processes -> Process]
    /\ \A p \in Processes : ProcessOK(proc[p])

(* A step that takes no row away, sets no column back to NULL and no state  *)
(* back to pending.                                                        *)
KeepsRows ==
    \A t \in DOMAIN db :
        /\ t \in DOMAIN db'
        /\ db[t].server # None => db'[t].server # None
        /\ db[t].support_user # None => db'[t].support_user # None
        /\ db[t].state # pending => db'[t].state # pending

-----------------------------------------------------------------------------
(* What a process relies on outlives the steps of the others.              *)
LEMMA ProcessKept ==
    ASSUME KeepsRows, NEW q \in Process, ProcessOK(q)
    PROVE  ProcessOK(q)'
BY DEF KeepsRows, ProcessOK, Process, ConnectSteps, StopSteps, Recorded, Loaded

(* A step of process p that leaves it as q.                                *)
LEMMA ProcessStep ==
    ASSUME DInv, KeepsRows, TableOK', HostOK', NEW p \in Processes,
           NEW q \in Process, ProcessOK(q)', proc' = [proc EXCEPT ![p] = q]
    PROVE  DInv'
<1>1. proc' \in [Processes -> Process]
  BY DEF DInv
<1>2. (\A r \in Processes : ProcessOK(proc[r]))'
  <2>1. ASSUME NEW r \in Processes PROVE ProcessOK(proc[r])'
    <3>1. CASE r = p
      <4>1. proc'[r] = q
        BY <3>1 DEF DInv
      <4>2. QED
        BY <4>1 DEF ProcessOK
    <3>2. CASE r # p
      <4>1. proc'[r] = proc[r] /\ proc[r] \in Process
        BY <3>2 DEF DInv
      <4>2. ProcessOK(proc[r])
        BY DEF DInv
      <4>3. ASSUME NEW s \in Process, s = proc[r] PROVE ProcessOK(s)'
        BY <4>2, <4>3, ProcessKept
      <4>4. QED
        BY <4>1, <4>3 DEF ProcessOK
    <3>3. QED
      BY <3>1, <3>2
  <2>2. QED
    BY <2>1
<1>3. QED
  BY <1>1, <1>2 DEF DInv

LEMMA IdleOK == Idle \in Process /\ ProcessOK(Idle) /\ ProcessOK(Idle)'
BY DEF Idle, Process, ProcessOK, ConnectSteps, StopSteps, Recorded, Loaded

LEMMA WorkingOK ==
    ASSUME NEW todo \in SUBSET Tunnels, NEW closing \in Closed \cup {None}
    PROVE  /\ Working(todo, closing) \in Process
           /\ todo \subseteq DOMAIN db' => ProcessOK(Working(todo, closing))'
BY DEF Working, Idle, Process, ProcessOK, ConnectSteps, StopSteps, Recorded,
       Loaded

(* Process p has ended its tunnel.                                         *)
LEMMA DoneStep ==
    ASSUME DInv, KeepsRows, TableOK', HostOK', NEW p \in Processes, Done(p)
    PROVE  DInv'
<1>1. PICK q \in Process : q = proc[p] /\ ProcessOK(q)
  BY DEF DInv
<1>2. q.todo \subseteq DOMAIN db'
  BY <1>1 DEF ProcessOK, KeepsRows
<1>3. CASE q.todo = {}
  <2>1. proc' = [proc EXCEPT ![p] = Idle]
    BY <1>1, <1>3 DEF Done, Rest
  <2>2. QED
    BY <2>1, IdleOK, ProcessStep
<1>4. CASE q.todo # {}
  <2> DEFINE work == Working(q.todo, q.closing)
  <2>1. proc' = [proc EXCEPT ![p] = work]
    BY <1>1, <1>4 DEF Done, Rest
  <2>2. q.todo \in SUBSET Tunnels /\ q.closing \in Closed \cup {None}
    BY DEF Process
  <2>3. work \in Process /\ ProcessOK(work)'
    BY <1>2, <2>2, WorkingOK
  <2> HIDE DEF work
  <2>4. QED
    BY <2>1, <2>3, ProcessStep
<1>5. QED
  BY <1>3, <1>4

(* A step that leaves the table alone.                                     *)
LEMMA TableKept ==
    ASSUME TableOK, UNCHANGED <<db, expired>>
    PROVE  TableOK' /\ KeepsRows
BY DEF TableOK, RowOK, KeepsRows

LEMMA HostKept ==
    ASSUME HostOK, UNCHANGED host, UNCHANGED faults
    PROVE  HostOK'
BY DEF HostOK, host

(* A step that changes the row of t, and how.                              *)
LEMMA RowStep ==
    ASSUME TableOK, NEW t \in DOMAIN db, NEW row \in Row, RowOK(row),
           db[t].server # None => row.server # None,
           db[t].support_user # None => row.support_user # None,
           db[t].state # pending => row.state # pending,
           db' = [db EXCEPT ![t] = row], expired' = expired
    PROVE  TableOK' /\ KeepsRows
<1>1. DOMAIN db' = DOMAIN db
  OBVIOUS
<1>2. db'[t] = row /\ \A s \in DOMAIN db : s # t => db'[s] = db[s]
  OBVIOUS
<1>3. db' \in [DOMAIN db' -> Row]
  BY DEF TableOK
<1>4. (\A s \in DOMAIN db : RowOK(db[s]))'
  BY <1>1, <1>2 DEF TableOK, RowOK
<1>5. QED
  BY <1>1, <1>2, <1>3, <1>4 DEF TableOK, KeepsRows

-----------------------------------------------------------------------------
(* The commands.                                                           *)
LEMMA StartStep ==
    ASSUME DInv, KeepsRows, TableOK', HostOK', NEW p \in Processes,
           NEW todo \in SUBSET Tunnels, todo \subseteq DOMAIN db',
           NEW closing \in Closed \cup {None}, Start(p, todo, closing)
    PROVE  DInv'
<1> DEFINE work == Working(todo, closing)
<1>1. work \in Process /\ ProcessOK(work)'
  BY WorkingOK
<1>2. proc' = [proc EXCEPT ![p] = work]
  BY DEF Start
<1> HIDE DEF work
<1>3. QED
  BY <1>1, <1>2, ProcessStep

LEMMA RequestInv ==
    ASSUME DInv, NEW p \in Processes, NEW t \in Tunnels, request(p, t)
    PROVE  DInv'
<1>1. /\ t \notin DOMAIN db
      /\ DOMAIN db' = DOMAIN db \cup {t}
      /\ db'[t] = NewTunnel
      /\ \A s \in DOMAIN db : db'[s] = db[s]
      /\ expired' = expired
      /\ UNCHANGED host /\ UNCHANGED faults
  BY DEF request
<1>2. NewTunnel \in Row /\ RowOK(NewTunnel)
  BY DEF NewTunnel, Row, RowOK, TunnelState, pending, running
<1>3. db' \in [DOMAIN db' -> Row]
  BY <1>2 DEF request, DInv, TableOK
<1>4. TableOK' /\ KeepsRows
  BY <1>1, <1>2, <1>3 DEF DInv, TableOK, KeepsRows, RowOK
<1>5. HostOK'
  BY <1>1, HostKept DEF DInv
<1>6. CASE UNCHANGED proc
  <2>1. ASSUME NEW r \in Processes PROVE ProcessOK(proc[r])'
    <3>1. PICK q \in Process : q = proc[r] /\ ProcessOK(q)
      BY DEF DInv
    <3>2. ProcessOK(q)'
      BY <1>4, <3>1, ProcessKept
    <3>3. QED
      BY <1>6, <3>1, <3>2 DEF ProcessOK
  <2>2. QED
    BY <1>4, <1>5, <1>6, <2>1 DEF DInv
<1>7. CASE Start(p, {t}, None)
  <2>1. {t} \in SUBSET Tunnels /\ {t} \subseteq DOMAIN db'
    BY <1>1
  <2>2. QED
    BY <1>4, <1>5, <1>7, <2>1, StartStep
<1>8. QED
  BY <1>6, <1>7 DEF request

(* The other commands start a process on tunnels that have a row.          *)
LEMMA CommandInv ==
    ASSUME DInv, NEW p \in Processes,
           Command(p) \/ gc(p)
    PROVE  DInv'
<1>1. ASSUME NEW todo \in SUBSET Tunnels, todo \subseteq DOMAIN db,
             NEW closing \in Closed \cup {None}, Start(p, todo, closing),
             UNCHANGED <<db, expired, host, faults>>
      PROVE  DInv'
  <2>1. TableOK' /\ KeepsRows /\ HostOK'
    BY <1>1, TableKept, HostKept DEF DInv
  <2>2. QED
    BY <1>1, <2>1, StartStep
<1>2. DOMAIN db \subseteq Tunnels /\ expired \subseteq DOMAIN db
  BY DEF DInv, TableOK
<1>3. CASE connect_approved_tunnels(p)
  <2>1. PICK todo \in SUBSET Tunnels :
           todo = {t \in DOMAIN db \ expired : db[t].state = pending}
    BY <1>2
  <2>2. QED
    BY <1>1, <1>3, <2>1 DEF connect_approved_tunnels
<1>4. CASE gc(p)
  <2>1. PICK todo \in SUBSET Tunnels : todo = expired
    BY <1>2
  <2>2. QED
    BY <1>1, <1>2, <1>4, <2>1 DEF gc, ToCollect, Closed
<1>5. ASSUME NEW t \in Tunnels, request(p, t) PROVE DInv'
  BY <1>5, RequestInv
<1>6. ASSUME NEW t \in Tunnels, connect(p, t) PROVE DInv'
  BY <1>1, <1>6 DEF connect
<1>7. ASSUME NEW t \in Tunnels, stop(p, t) PROVE DInv'
  BY <1>1, <1>7 DEF stop, Closed
<1>8. QED
  BY <1>3, <1>4, <1>5, <1>6, <1>7 DEF Command

LEMMA TakeInv ==
    ASSUME DInv, NEW p \in Processes, Take(p)
    PROVE  DInv'
<1>1. PICK q \in Process : q = proc[p] /\ ProcessOK(q)
  BY DEF DInv
<1>2. TableOK' /\ KeepsRows /\ HostOK'
  BY TableKept, HostKept DEF Take, DInv
<1>3. PICK t \in q.todo :
         proc' = [proc EXCEPT
                     ![p].pc = IF proc[p].closing = None
                               THEN "details" ELSE "snapshot",
                     ![p].todo = @ \ {t},
                     ![p].tunnel = t]
  BY <1>1 DEF Take
<1> DEFINE next == [q EXCEPT !.pc = IF q.closing = None
                                    THEN "details" ELSE "snapshot",
                             !.todo = q.todo \ {t},
                             !.tunnel = t]
<1>4. proc' = [proc EXCEPT ![p] = next]
  BY <1>1, <1>3 DEF DInv, Process
<1>5. next \in Process
  BY <1>1 DEF Process, StopSteps
<1>6. q.todo \subseteq DOMAIN db'
  BY <1>1, <1>2 DEF ProcessOK, KeepsRows
<1>7. ProcessOK(next)'
  BY <1>5, <1>6 DEF ProcessOK, Process, ConnectSteps, StopSteps, Recorded, Loaded
<1> HIDE DEF next
<1>8. QED
  BY <1>2, <1>4, <1>5, <1>7, ProcessStep

-----------------------------------------------------------------------------
(* The steps of connect and stop.                                          *)

(* Process p goes on to the step pc.                                       *)
LEMMA GotoStep ==
    ASSUME DInv, KeepsRows, TableOK', HostOK', NEW p \in Processes,
           NEW q \in Process, q = proc[p], ProcessOK(q),
           NEW pc \in ConnectSteps \cup UndoSteps \cup StopSteps, Goto(p, pc),
           pc \in StopSteps => q.pc \in StopSteps,
           q.pc \notin {"idle", "loop"},
           pc \notin {"record", "report", "deluser"},
           pc \in ConnectSteps => db'[q.tunnel].server # None,
           pc \in Recorded => db'[q.tunnel].support_user # None,
           pc \in Loaded => q.pc \in Loaded
    PROVE  DInv'
<1> DEFINE next == [q EXCEPT !.pc = pc]
<1>1. proc' = [proc EXCEPT ![p] = next]
  BY DEF Goto, DInv
<1>2. next \in Process
  BY DEF Process
<1>3. /\ q.todo \subseteq DOMAIN db' /\ q.tunnel \in DOMAIN db'
      /\ q.pc \in Loaded /\ q.loaded.state # pending
            => db'[q.tunnel].state # pending
  BY DEF ProcessOK, KeepsRows, Loaded
<1>4. ProcessOK(next)'
  BY <1>3
  DEF ProcessOK, Process, ConnectSteps, UndoSteps, StopSteps, Recorded, Loaded
<1> HIDE DEF next
<1>5. QED
  BY <1>1, <1>2, <1>4, ProcessStep

LEMMA DetailsInv ==
    ASSUME DInv, NEW p \in Processes, NEW l \in Launches,
           request_tunnel_server_details(p, l)
    PROVE  DInv'
<1>1. PICK q \in Process : q = proc[p] /\ ProcessOK(q)
  BY DEF DInv
<1>2. q.pc = "details" /\ q.tunnel \in DOMAIN db /\ db[q.tunnel] \in Row
  BY <1>1 DEF request_tunnel_server_details, At, ProcessOK, DInv, TableOK
<1>3. PICK row \in Row : row = [db[q.tunnel] EXCEPT !.server = l]
  BY <1>2 DEF Row
<1>4. /\ row.server # None /\ RowOK(row)
      /\ row.support_user = db[q.tunnel].support_user
      /\ row.state = db[q.tunnel].state
  BY <1>2, <1>3, NoneIsNoValue DEF RowOK, Row, DInv, TableOK
<1>5. db' = [db EXCEPT ![q.tunnel] = row] /\ expired' = expired
  BY <1>1, <1>3 DEF request_tunnel_server_details, Tunnel
<1>6. TableOK' /\ KeepsRows
  BY <1>2, <1>4, <1>5, RowStep DEF DInv
<1>7. HostOK'
  BY HostKept DEF request_tunnel_server_details, DInv
<1>8. db'[q.tunnel].server # None
  BY <1>2, <1>4, <1>5
<1>9. Goto(p, "user")
  BY DEF request_tunnel_server_details
<1>10. QED
  BY <1>1, <1>2, <1>6, <1>7, <1>8, <1>9, GotoStep
  DEF ConnectSteps, StopSteps, Recorded, Loaded

LEMMA CreateUserInv ==
    ASSUME DInv, NEW p \in Processes, create_user(p)
    PROVE  DInv'
<1>1. PICK q \in Process : q = proc[p] /\ ProcessOK(q)
  BY DEF DInv
<1>2. q.pc = "user" /\ TableOK' /\ KeepsRows
  BY <1>1, TableKept DEF create_user, At, DInv
<1>3. ASSUME NEW u \in Fresh,
             accounts' = [v \in DOMAIN accounts \cup {u} |->
                             IF v = u THEN None ELSE accounts[v]],
             proc' = [proc EXCEPT ![p].pc = "record", ![p].user = u]
      PROVE  DInv'
  <2> DEFINE next == [q EXCEPT !.pc = "record", !.user = u]
  <2>1. u \in SupportUsers /\ u # None
    BY NoneIsNoValue DEF Fresh
  <2>2. HostOK'
    <3>1. accounts' \in [DOMAIN accounts' -> Launches \cup {None}]
      BY <1>3 DEF DInv, HostOK
    <3>2. DOMAIN accounts' \subseteq SupportUsers
      BY <1>3, <2>1 DEF DInv, HostOK
    <3>3. UNCHANGED <<conf, enabled, active, link, faults>>
      BY DEF create_user
    <3>4. QED
      BY <3>1, <3>2, <3>3 DEF DInv, HostOK
  <2>3. proc' = [proc EXCEPT ![p] = next]
    BY <1>1, <1>3 DEF DInv, Process
  <2>4. next \in Process
    BY <2>1 DEF Process, ConnectSteps
  <2>5. q.todo \subseteq DOMAIN db' /\ q.tunnel \in DOMAIN db'
    BY <1>1, <1>2 DEF ProcessOK, KeepsRows
  <2>6. db'[q.tunnel].server # None
    BY <1>1, <1>2 DEF ProcessOK, KeepsRows, ConnectSteps
  <2>7. ProcessOK(next)'
    BY <2>1, <2>5, <2>6
    DEF ProcessOK, Process, ConnectSteps, StopSteps, Recorded, Loaded
  <2> HIDE DEF next
  <2>8. QED
    BY <1>2, <2>2, <2>3, <2>4, <2>7, ProcessStep
<1>4. ASSUME Done(p), UNCHANGED accounts
      PROVE  DInv'
  <2>1. HostOK'
    BY <1>4, HostKept DEF create_user, host, DInv
  <2>2. QED
    BY <1>2, <1>4, <2>1, DoneStep
<1>5. QED
  BY <1>3, <1>4 DEF create_user

LEMMA RecordUserInv ==
    ASSUME DInv, NEW p \in Processes, record_user(p)
    PROVE  DInv'
<1>1. PICK q \in Process : q = proc[p] /\ ProcessOK(q)
  BY DEF DInv
<1>2. /\ q.pc = "record" /\ q.user \in SupportUsers
      /\ q.tunnel \in DOMAIN db /\ db[q.tunnel] \in Row
      /\ db[q.tunnel].server # None
      /\ RowOK(db[q.tunnel])
  BY <1>1 DEF record_user, At, ProcessOK, Process, ConnectSteps, DInv, TableOK
<1>3. PICK row \in Row : row = [db[q.tunnel] EXCEPT !.support_user = q.user]
  BY <1>2 DEF Row
<1>4. /\ row.support_user # None
      /\ row.server = db[q.tunnel].server
      /\ row.state = db[q.tunnel].state
      /\ RowOK(row)
  BY <1>2, <1>3, NoneIsNoValue DEF RowOK, Row
<1>5. db' = [db EXCEPT ![q.tunnel] = row] /\ expired' = expired
  BY <1>1, <1>3 DEF record_user, Tunnel
<1>6. TableOK' /\ KeepsRows
  BY <1>2, <1>4, <1>5, RowStep DEF DInv
<1>7. HostOK'
  BY HostKept DEF record_user, DInv
<1>8. /\ db'[q.tunnel].server # None
      /\ db'[q.tunnel].support_user # None
  BY <1>2, <1>4, <1>5
<1>9. Goto(p, "authorize")
  BY DEF record_user
<1>10. QED
  BY <1>1, <1>2, <1>6, <1>7, <1>8, <1>9, GotoStep
  DEF ConnectSteps, StopSteps, Recorded, Loaded

LEMMA AuthorizeInv ==
    ASSUME DInv, NEW p \in Processes, add_authorized_key(p)
    PROVE  DInv'
<1>1. PICK q \in Process : q = proc[p] /\ ProcessOK(q)
  BY DEF DInv
<1>2. q.pc = "authorize" /\ TableOK' /\ KeepsRows
  BY <1>1, TableKept DEF add_authorized_key, At, DInv
<1>3. q.tunnel \in DOMAIN db /\ db[q.tunnel] \in Row
  BY <1>1, <1>2 DEF ProcessOK, DInv, TableOK
<1>4. CASE q.user \in DOMAIN accounts
  <2> DEFINE next == [q EXCEPT !.pc = "load", !.user = None]
  <2>1. /\ accounts' = [accounts EXCEPT ![q.user] = db[q.tunnel].server]
        /\ proc' = [proc EXCEPT ![p].pc = "load", ![p].user = None]
    BY <1>1, <1>4 DEF add_authorized_key, Tunnel
  <2>2. HostOK'
    BY <1>3, <2>1 DEF add_authorized_key, DInv, HostOK, Row
  <2>3. proc' = [proc EXCEPT ![p] = next]
    BY <1>1, <2>1 DEF DInv, Process
  <2>4. next \in Process
    BY DEF Process, ConnectSteps
  <2>5. /\ q.todo \subseteq DOMAIN db' /\ q.tunnel \in DOMAIN db'
        /\ db'[q.tunnel].server # None
        /\ db'[q.tunnel].support_user # None
    BY <1>1, <1>2 DEF ProcessOK, KeepsRows, ConnectSteps, Recorded
  <2>6. ProcessOK(next)'
    BY <2>5 DEF ProcessOK, Process, ConnectSteps, StopSteps, Recorded, Loaded
  <2> HIDE DEF next
  <2>7. QED
    BY <1>2, <2>2, <2>3, <2>4, <2>6, ProcessStep
<1>5. CASE q.user \notin DOMAIN accounts
  <2>1. Done(p) /\ UNCHANGED accounts
    BY <1>1, <1>5 DEF add_authorized_key
  <2>2. HostOK'
    BY <2>1, HostKept DEF add_authorized_key, host, DInv
  <2>3. QED
    BY <1>2, <2>1, <2>2, DoneStep
<1>6. QED
  BY <1>4, <1>5

(* Either command loads the row of its tunnel.                             *)
LEMMA LoadInv ==
    ASSUME DInv, NEW p \in Processes, load_row(p) \/ load_stopped_row(p)
    PROVE  DInv'
<1>1. PICK q \in Process : q = proc[p] /\ ProcessOK(q)
  BY DEF DInv
<1>2. /\ q.pc \in {"load", "snapshot"}
      /\ TableOK' /\ KeepsRows /\ HostOK'
  BY <1>1, TableKept, HostKept DEF load_row, load_stopped_row, At, DInv
<1>3. PICK row \in Row : row = db[q.tunnel]
  BY <1>1, <1>2 DEF ProcessOK, DInv, TableOK
<1> DEFINE next == [q EXCEPT !.pc = IF q.pc = "load" THEN "config"
                                    ELSE "deluser",
                             !.loaded = row]
<1>4. proc' = [proc EXCEPT ![p] = next]
  BY <1>1, <1>2, <1>3 DEF load_row, load_stopped_row, At, Tunnel, DInv, Process
<1>5. next \in Process
  BY <1>2 DEF Process, ConnectSteps, StopSteps
<1>6. /\ q.todo \subseteq DOMAIN db' /\ q.tunnel \in DOMAIN db'
      /\ q.pc = "load" => /\ db'[q.tunnel].server # None
                          /\ db'[q.tunnel].support_user # None
      /\ row.state # pending => db'[q.tunnel].state # pending
  BY <1>1, <1>2, <1>3 DEF ProcessOK, KeepsRows, ConnectSteps, Recorded
<1>7. ProcessOK(next)'
  BY <1>1, <1>2, <1>6
  DEF ProcessOK, Process, ConnectSteps, StopSteps, Recorded, Loaded
<1> HIDE DEF next
<1>8. QED
  BY <1>2, <1>4, <1>5, <1>7, ProcessStep

LEMMA ConfigInv ==
    ASSUME DInv, NEW p \in Processes,
           write_wireguard_config(p) \/ enable_wireguard_tunnel(p)
    PROVE  DInv'
<1>1. PICK q \in Process : q = proc[p] /\ ProcessOK(q)
  BY DEF DInv
<1>2. /\ q.pc \in {"config", "enable"}
      /\ TableOK' /\ KeepsRows
  BY <1>1, TableKept
  DEF write_wireguard_config, enable_wireguard_tunnel, At, DInv
<1>3. /\ q.tunnel \in Tunnels /\ q.loaded \in Row
      /\ db'[q.tunnel].server # None
      /\ db'[q.tunnel].support_user # None
  BY <1>1, <1>2
  DEF ProcessOK, KeepsRows, ConnectSteps, Recorded, Loaded, DInv, TableOK
<1>4. CASE write_wireguard_config(p)
  <2>1. conf' = [conf EXCEPT ![q.tunnel] = q.loaded.server]
    BY <1>1, <1>4 DEF write_wireguard_config, Tunnel
  <2>2. HostOK'
    BY <1>3, <1>4, <2>1 DEF write_wireguard_config, DInv, HostOK, Row
  <2>3. q.pc = "config" /\ Goto(p, "enable")
    BY <1>1, <1>4 DEF write_wireguard_config, At
  <2>4. QED
    BY <1>1, <1>2, <1>3, <2>2, <2>3, GotoStep
    DEF ConnectSteps, StopSteps, Recorded, Loaded
<1>5. CASE enable_wireguard_tunnel(p)
  <2>1. HostOK'
    BY <1>1, <1>3, <1>5 DEF enable_wireguard_tunnel, Tunnel, DInv, HostOK
  <2>2. q.pc = "enable" /\ Goto(p, "start")
    BY <1>1, <1>5 DEF enable_wireguard_tunnel, At
  <2>3. QED
    BY <1>1, <1>2, <1>3, <2>1, <2>2, GotoStep
    DEF ConnectSteps, StopSteps, Recorded, Loaded
<1>6. QED
  BY <1>4, <1>5

(* Stopping the unit of any tunnel leaves the host well formed.            *)
LEMMA StopUnitOK ==
    ASSUME HostOK, NEW t \in Tunnels, StopUnit(t)
    PROVE  /\ active' \subseteq Tunnels
           /\ link' \in [Tunnels -> Launches \cup {None}]
BY DEF StopUnit, HostOK

(* A process that cleans up after a unit it could not start.               *)
LEMMA UndoInv ==
    ASSUME DInv, NEW p \in Processes, undo_start(p) \/ undo_enable(p)
    PROVE  DInv'
<1>1. PICK q \in Process : q = proc[p] /\ ProcessOK(q)
  BY DEF DInv
<1>2. q.pc \in UndoSteps /\ TableOK' /\ KeepsRows
  BY <1>1, TableKept DEF undo_start, undo_enable, UndoSteps, At, DInv
<1>3. q.tunnel \in Tunnels
  BY <1>1, <1>2 DEF ProcessOK, UndoSteps, DInv, TableOK
<1>4. CASE undo_start(p)
  <2>1. HostOK'
    BY <1>1, <1>3, <1>4, StopUnitOK DEF undo_start, Tunnel, DInv, HostOK
  <2>2. Goto(p, "unenable")
    BY <1>4 DEF undo_start
  <2>3. QED
    BY <1>1, <1>2, <2>1, <2>2, GotoStep
    DEF ConnectSteps, UndoSteps, StopSteps, Recorded, Loaded
<1>5. CASE undo_enable(p)
  <2>1. HostOK' /\ Done(p)
    BY <1>5 DEF undo_enable, DInv, HostOK
  <2>2. QED
    BY <1>2, <2>1, DoneStep
<1>6. QED
  BY <1>4, <1>5

LEMMA StartUnitInv ==
    ASSUME DInv, NEW p \in Processes, start_wireguard_tunnel(p)
    PROVE  DInv'
<1>1. PICK q \in Process : q = proc[p] /\ ProcessOK(q)
  BY DEF DInv
<1>2. q.pc = "start" /\ TableOK' /\ KeepsRows
  BY <1>1, TableKept DEF start_wireguard_tunnel, At, DInv
<1>3. /\ q.tunnel \in Tunnels
      /\ db'[q.tunnel].server # None
      /\ db'[q.tunnel].support_user # None
  BY <1>1, <1>2 DEF ProcessOK, KeepsRows, ConnectSteps, Recorded, DInv, TableOK
<1>4. ASSUME HostOK', Goto(p, "commit") PROVE DInv'
  BY <1>1, <1>2, <1>3, <1>4, GotoStep
  DEF ConnectSteps, StopSteps, Recorded, Loaded
<1>5. UNCHANGED <<db, expired, accounts, conf, faults>>
  BY DEF start_wireguard_tunnel
<1>6. CASE Goto(p, "commit") /\ UNCHANGED <<enabled, active, link>>
  BY <1>4, <1>5, <1>6, HostKept DEF host, DInv
<1>7. CASE /\ active' = active \cup {q.tunnel}
           /\ link' = [link EXCEPT ![q.tunnel] = conf[q.tunnel]]
           /\ Goto(p, "commit")
           /\ UNCHANGED enabled
  <2>1. HostOK'
    BY <1>3, <1>5, <1>7 DEF DInv, HostOK
  <2>2. QED
    BY <1>4, <1>7, <2>1
<1>8. CASE Goto(p, "unstart") /\ UNCHANGED <<enabled, active, link>>
  <2>1. HostOK'
    BY <1>5, <1>8, HostKept DEF host, DInv
  <2>2. QED
    BY <1>1, <1>2, <1>8, <2>1, GotoStep
    DEF ConnectSteps, UndoSteps, StopSteps, Recorded, Loaded
<1>9. QED
  BY <1>1, <1>6, <1>7, <1>8 DEF start_wireguard_tunnel, Tunnel

LEMMA CommitRunningInv ==
    ASSUME DInv, NEW p \in Processes, commit_running(p)
    PROVE  DInv'
<1>1. PICK q \in Process : q = proc[p] /\ ProcessOK(q)
  BY DEF DInv
<1>2. /\ q.pc = "commit"
      /\ q.tunnel \in DOMAIN db /\ db[q.tunnel] \in Row
      /\ db[q.tunnel].server # None
      /\ db[q.tunnel].support_user # None
      /\ q.loaded.state # pending => db[q.tunnel].state # pending
  BY <1>1
  DEF commit_running, At, ProcessOK, ConnectSteps, Recorded, Loaded, DInv,
      TableOK
<1>3. PICK row \in Row :
         row = [db[q.tunnel] EXCEPT !.state = Written(@, q.loaded.state, running)]
  BY <1>2 DEF Row, Written, TunnelState
<1>4. /\ row.server = db[q.tunnel].server
      /\ row.support_user = db[q.tunnel].support_user
      /\ row.state # pending
      /\ RowOK(row)
  BY <1>2, <1>3 DEF RowOK, Row, Written, pending, running
<1>5. db' = [db EXCEPT ![q.tunnel] = row] /\ expired' = expired
  BY <1>1, <1>3 DEF commit_running, Tunnel
<1>6. TableOK' /\ KeepsRows
  BY <1>2, <1>4, <1>5, RowStep DEF DInv
<1>7. HostOK'
  BY HostKept DEF commit_running, DInv
<1> DEFINE next == [q EXCEPT !.pc = "report", !.loaded = None]
<1>8. proc' = [proc EXCEPT ![p] = next]
  BY <1>1 DEF commit_running, DInv, Process
<1>9. next \in Process
  BY DEF Process, ConnectSteps
<1>10. /\ q.todo \subseteq DOMAIN db' /\ q.tunnel \in DOMAIN db'
       /\ db'[q.tunnel].server # None
       /\ db'[q.tunnel].support_user # None
       /\ db'[q.tunnel].state # pending
  BY <1>1, <1>2, <1>4, <1>5, <1>6 DEF ProcessOK, KeepsRows
<1>11. ProcessOK(next)'
  BY <1>10 DEF ProcessOK, Process, ConnectSteps, StopSteps, Recorded, Loaded
<1> HIDE DEF next
<1>12. QED
  BY <1>6, <1>7, <1>8, <1>9, <1>11, ProcessStep

(* The steps that end a tunnel's turn with a request to the API.           *)
LEMMA LastStepInv ==
    ASSUME DInv, NEW p \in Processes,
           \/ cannot_request_details(p)
           \/ send_connected_status_to_api(p)
           \/ notify_stopped(p)
    PROVE  DInv'
<1>1. Done(p) /\ UNCHANGED <<db, expired, host, faults>>
  BY DEF cannot_request_details, send_connected_status_to_api, notify_stopped
<1>2. TableOK' /\ KeepsRows /\ HostOK'
  BY <1>1, TableKept, HostKept DEF DInv
<1>3. QED
  BY <1>1, <1>2, DoneStep

(* Process p is past the user of the tunnel it stops.                      *)
LEMMA PastUserStep ==
    ASSUME DInv, KeepsRows, TableOK', HostOK', NEW p \in Processes,
           At(p, "deluser"), PastUser(p)
    PROVE  DInv'
<1>1. PICK q \in Process : q = proc[p] /\ ProcessOK(q)
  BY DEF DInv
<1>2. PICK row : row = OnlyState(q.loaded)
  OBVIOUS
<1>3. PICK next : next = [q EXCEPT !.pc = "down", !.loaded = row]
  OBVIOUS
<1>4. proc' = [proc EXCEPT ![p] = next]
  BY <1>1, <1>2, <1>3 DEF PastUser, DInv, Process
<1>5. q.pc = "deluser" /\ q.loaded \in Row
  BY <1>1 DEF At, ProcessOK
<1>6. row \in Row
  BY <1>2, <1>5 DEF OnlyState, Row
<1>7. next \in Process
  BY <1>1, <1>3, <1>6 DEF Process, StopSteps
<1>8. q.todo \subseteq DOMAIN db' /\ q.tunnel \in DOMAIN db'
  BY <1>1, <1>5 DEF ProcessOK, KeepsRows
<1>9. ProcessOK(next)'
  BY <1>1, <1>3, <1>5, <1>8
  DEF ProcessOK, Process, ConnectSteps, StopSteps, Recorded, Loaded
<1>10. QED
  BY <1>4, <1>7, <1>9, ProcessStep

(* The steps of stop that take things off the host.                        *)
LEMMA TakeDownInv ==
    ASSUME DInv, NEW p \in Processes,
           delete_user(p) \/ stop_unit(p) \/ disable_unit(p) \/ remove_config(p)
    PROVE  DInv'
<1>1. PICK q \in Process : q = proc[p] /\ ProcessOK(q)
  BY DEF DInv
<1>2. /\ q.pc \in {"deluser", "down", "disable", "remove"}
      /\ TableOK' /\ KeepsRows
  BY <1>1, TableKept
  DEF delete_user, stop_unit, disable_unit, remove_config, At, DInv
<1>3. q.tunnel \in Tunnels
  BY <1>1, <1>2 DEF ProcessOK, DInv, TableOK
<1>4. HostOK'
  <2>1. CASE delete_user(p)
    <3>1. PICK u : u = proc[p].loaded.support_user
      OBVIOUS
    <3>2. accounts' = [v \in DOMAIN accounts \ {u} |-> accounts[v]]
      BY <2>1, <3>1 DEF delete_user
    <3>3. /\ DOMAIN accounts' \subseteq SupportUsers
          /\ accounts' \in [DOMAIN accounts' -> Launches \cup {None}]
      BY <3>2 DEF DInv, HostOK
    <3>4. QED
      BY <2>1, <3>3 DEF delete_user, DInv, HostOK
  <2>2. CASE stop_unit(p)
    BY <1>1, <1>3, <2>2, StopUnitOK DEF stop_unit, Tunnel, DInv, HostOK
  <2>3. CASE disable_unit(p)
    BY <2>3 DEF disable_unit, DInv, HostOK
  <2>4. CASE remove_config(p)
    BY <1>1, <1>3, <2>4 DEF remove_config, Tunnel, DInv, HostOK
  <2>5. QED
    BY <2>1, <2>2, <2>3, <2>4
<1>5. CASE delete_user(p)
  BY <1>2, <1>4, <1>5, PastUserStep DEF delete_user
<1>6. CASE \E pc \in {"disable", "remove", "close"} : Goto(p, pc)
  BY <1>1, <1>2, <1>4, <1>6, GotoStep
  DEF ConnectSteps, StopSteps, Recorded, Loaded
<1>7. QED
  BY <1>5, <1>6 DEF stop_unit, disable_unit, remove_config

LEMMA CommitClosedInv ==
    ASSUME DInv, NEW p \in Processes, commit_closed(p)
    PROVE  DInv'
<1>1. PICK q \in Process : q = proc[p] /\ ProcessOK(q)
  BY DEF DInv
<1>2. /\ q.pc = "close" /\ q.closing \in Closed
      /\ q.tunnel \in DOMAIN db /\ db[q.tunnel] \in Row
      /\ RowOK(db[q.tunnel])
  BY <1>1 DEF commit_closed, At, ProcessOK, StopSteps, DInv, TableOK
<1>3. PICK row \in Row : row = ClosedRow(db[q.tunnel], q.loaded, q.closing)
  BY <1>2 DEF ClosedRow, Row, Written, TunnelState, Closed
<1>4. /\ row.server = db[q.tunnel].server
      /\ row.support_user = db[q.tunnel].support_user
      /\ db[q.tunnel].state # pending => row.state # pending
      /\ RowOK(row)
  BY <1>2, <1>3
  DEF ClosedRow, Written, RowOK, Row, Closed, pending, running, completed,
      timedout
<1>5. db' = [db EXCEPT ![q.tunnel] = row] /\ expired' = expired
  BY <1>1, <1>3 DEF commit_closed, Tunnel
<1>6. TableOK' /\ KeepsRows
  BY <1>2, <1>4, <1>5, RowStep DEF DInv
<1>7. HostOK'
  BY HostKept DEF commit_closed, DInv
<1>8. CASE q.tunnel \in expired
  <2>1. Done(p)
    BY <1>1, <1>8 DEF commit_closed, Tunnel, Done
  <2>2. QED
    BY <1>6, <1>7, <2>1, DoneStep
<1>9. CASE q.tunnel \notin expired
  <2> DEFINE next == [q EXCEPT !.pc = "notify", !.loaded = None]
  <2>1. proc' = [proc EXCEPT ![p] = next]
    BY <1>1, <1>9 DEF commit_closed, Tunnel, DInv, Process
  <2>2. next \in Process
    BY DEF Process, StopSteps
  <2>3. q.todo \subseteq DOMAIN db' /\ q.tunnel \in DOMAIN db'
    BY <1>1, <1>2, <1>6 DEF ProcessOK, KeepsRows
  <2>4. ProcessOK(next)'
    BY <1>2, <2>3
    DEF ProcessOK, Process, ConnectSteps, StopSteps, Recorded, Loaded
  <2> HIDE DEF next
  <2>5. QED
    BY <1>6, <1>7, <2>1, <2>2, <2>4, ProcessStep
<1>10. QED
  BY <1>8, <1>9

-----------------------------------------------------------------------------
(* Faults and time.                                                        *)
LEMMA ConnectFailsInv ==
    ASSUME DInv, NEW p \in Processes, ConnectFails(p)
    PROVE  DInv'
<1>1. /\ UNCHANGED <<db, expired, host>>
      /\ TableOK' /\ KeepsRows
  BY TableKept DEF ConnectFails, DInv
<1>2. HostOK'
  BY <1>1, FaultsAreBounded DEF ConnectFails, Fault, host, DInv, HostOK
<1>3. CASE Done(p)
  BY <1>1, <1>2, <1>3, DoneStep
<1>4. CASE proc[p].pc \in {"enable", "start"} /\ Goto(p, "unstart")
  <2>1. PICK q \in Process : q = proc[p] /\ ProcessOK(q)
    BY DEF DInv
  <2>2. QED
    BY <1>1, <1>2, <1>4, <2>1, GotoStep
    DEF ConnectSteps, UndoSteps, StopSteps, Recorded, Loaded
<1>5. QED
  BY <1>3, <1>4 DEF ConnectFails

LEMMA CommandSkippedInv ==
    ASSUME DInv, NEW p \in Processes, CommandSkipped(p)
    PROVE  DInv'
<1>1. /\ UNCHANGED <<db, expired, host>>
      /\ TableOK' /\ KeepsRows
  BY TableKept DEF CommandSkipped, DInv
<1>2. HostOK'
  BY <1>1, FaultsAreBounded DEF CommandSkipped, Fault, host, DInv, HostOK
<1>3. CASE Done(p)
  BY <1>1, <1>2, <1>3, DoneStep
<1>4. ASSUME proc[p].pc \in DOMAIN AfterSkipped,
             Goto(p, AfterSkipped[proc[p].pc])
      PROVE  DInv'
  <2>1. PICK q \in Process : q = proc[p] /\ ProcessOK(q)
    BY DEF DInv
  <2>2. PICK pc : pc = AfterSkipped[q.pc]
    OBVIOUS
  <2>3. \/ q.pc \in StopSteps /\ pc \in {"disable", "remove", "close"}
        \/ q.pc = "unstart" /\ pc = "unenable"
    BY <1>4, <2>1, <2>2 DEF AfterSkipped, StopSteps
  <2>4. QED
    BY <1>1, <1>2, <1>4, <2>1, <2>2, <2>3, GotoStep
    DEF ConnectSteps, UndoSteps, StopSteps, Recorded, Loaded
<1>5. CASE At(p, "deluser") /\ PastUser(p)
  BY <1>1, <1>2, <1>5, PastUserStep
<1>6. QED
  BY <1>3, <1>4, <1>5 DEF CommandSkipped

LEMMA AbortsInv ==
    ASSUME DInv, NEW p \in Processes, Aborts(p)
    PROVE  DInv'
<1>1. TableOK' /\ KeepsRows
  BY TableKept DEF Aborts, DInv
<1>2. HostOK'
  BY FaultsAreBounded DEF Aborts, Fault, host, DInv, HostOK
<1>3. QED
  BY <1>1, <1>2, IdleOK, ProcessStep DEF Aborts

LEMMA RebootInv ==
    ASSUME DInv, Reboot
    PROVE  DInv'
<1>1. TableOK'
  BY TableKept DEF Reboot, DInv
<1>2. HostOK'
  BY FaultsAreBounded DEF Reboot, Fault, DInv, HostOK
<1>3. proc' = [p \in Processes |-> Idle]
  BY DEF Reboot
<1>4. ASSUME NEW p \in Processes PROVE ProcessOK(proc[p])'
  BY <1>3, IdleOK DEF ProcessOK
<1>5. QED
  BY <1>1, <1>2, <1>3, <1>4, IdleOK DEF DInv

LEMMA ExpireInv ==
    ASSUME DInv, NEW t \in Tunnels, Expire(t)
    PROVE  DInv'
<1>1. TableOK'
  BY DEF Expire, DInv, TableOK
<1>2. HostOK'
  BY HostKept DEF Expire, DInv
<1>3. QED
  BY <1>1, <1>2 DEF Expire, DInv, ProcessOK

-----------------------------------------------------------------------------
LEMMA InitDInv == Init => DInv
<1> SUFFICES ASSUME Init PROVE DInv
  OBVIOUS
<1>1. TableOK
  BY DEF Init, TableOK
<1>2. HostOK
  BY FaultsAreBounded DEF Init, HostOK
<1>3. QED
  BY <1>1, <1>2, IdleOK DEF Init, DInv

LEMMA NextDInv == DInv /\ [Next]_vars => DInv'
<1> SUFFICES ASSUME DInv, [Next]_vars PROVE DInv'
  OBVIOUS
<1>1. ASSUME NEW p \in Processes, Command(p) \/ gc(p) PROVE DInv'
  BY <1>1, CommandInv
<1>2. ASSUME NEW p \in Processes, Take(p) PROVE DInv'
  BY <1>2, TakeInv
<1>3. ASSUME NEW p \in Processes, ConnectStep(p) PROVE DInv'
  BY <1>3, DetailsInv, CreateUserInv, RecordUserInv, AuthorizeInv, LoadInv,
     ConfigInv, StartUnitInv, UndoInv, CommitRunningInv, LastStepInv
  DEF ConnectStep
<1>4. ASSUME NEW p \in Processes, StopStep(p) PROVE DInv'
  BY <1>4, LoadInv, TakeDownInv, CommitClosedInv, LastStepInv DEF StopStep
<1>5. ASSUME NEW p \in Processes,
             ConnectFails(p) \/ CommandSkipped(p) \/ Aborts(p)
      PROVE  DInv'
  BY <1>5, ConnectFailsInv, CommandSkippedInv, AbortsInv
<1>6. ASSUME NEW t \in Tunnels, Expire(t) PROVE DInv'
  BY <1>6, ExpireInv
<1>7. CASE Reboot
  BY <1>7, RebootInv
<1>8. CASE UNCHANGED vars
  <2>1. TableOK' /\ KeepsRows /\ HostOK'
    BY <1>8, TableKept, HostKept DEF vars, host, DInv
  <2>2. QED
    BY <1>8, <2>1 DEF vars, DInv, ProcessOK
<1>9. QED
  BY <1>1, <1>2, <1>3, <1>4, <1>5, <1>6, <1>7, <1>8 DEF Next, Step, Processes

(* No step takes a row away or forgets what is stored in it.               *)
LEMMA RowsKept == DInv /\ [Next]_vars => KeepsRows
<1> SUFFICES ASSUME DInv, [Next]_vars PROVE KeepsRows
  OBVIOUS
<1>1. \A t \in DOMAIN db : db[t] \in Row
  BY DEF DInv, TableOK
<1>2. CASE UNCHANGED db
  BY <1>2 DEF KeepsRows
<1>3. CASE \E p \in Processes, t \in Tunnels : request(p, t)
  BY <1>3 DEF request, KeepsRows
<1>4. ASSUME NEW p \in Processes, NEW l \in Launches,
             request_tunnel_server_details(p, l)
      PROVE  KeepsRows
  <2>1. db' = [db EXCEPT ![Tunnel(p)].server = l] /\ l # None
    BY <1>4, NoneIsNoValue DEF request_tunnel_server_details
  <2>2. QED
    BY <1>1, <2>1 DEF KeepsRows, Row
<1>5. ASSUME NEW p \in Processes, record_user(p) PROVE KeepsRows
  <2>1. PICK u \in SupportUsers : u = proc[p].user
    BY <1>5 DEF record_user, At, DInv, Process, ProcessOK
  <2>2. db' = [db EXCEPT ![Tunnel(p)].support_user = u] /\ u # None
    BY <1>5, <2>1, NoneIsNoValue DEF record_user
  <2>3. QED
    BY <1>1, <2>2 DEF KeepsRows, Row
<1>6. ASSUME NEW t, NEW state, db' = [db EXCEPT ![t].state = state],
             db[t].state # pending => state # pending
      PROVE  KeepsRows
  BY <1>1, <1>6 DEF KeepsRows, Row
<1>7. ASSUME NEW p \in Processes, commit_running(p) PROVE KeepsRows
  <2>1. PICK t, state :
           /\ t = Tunnel(p)
           /\ state = Written(db[t].state, proc[p].loaded.state, running)
    OBVIOUS
  <2>2. db' = [db EXCEPT ![t].state = state]
    BY <1>7, <2>1 DEF commit_running
  <2>3. db[t].state # pending => state # pending
    BY <2>1 DEF Written, pending, running
  <2>4. QED
    BY <1>6, <2>2, <2>3
<1>8. ASSUME NEW p \in Processes, commit_closed(p) PROVE KeepsRows
  <2>1. proc[p].closing \in Closed
    BY <1>8 DEF commit_closed, At, DInv, ProcessOK, StopSteps
  <2>2. PICK t, state :
           /\ t = Tunnel(p)
           /\ state = Written(db[t].state, proc[p].loaded.state,
                              proc[p].closing)
    OBVIOUS
  <2>3. db' = [db EXCEPT ![t].state = state]
    BY <1>8, <2>2 DEF commit_closed, ClosedRow
  <2>4. db[t].state # pending => state # pending
    BY <2>1, <2>2 DEF Written, Closed, pending, completed, timedout
  <2>5. QED
    BY <1>6, <2>3, <2>4
<1>9. QED
  BY <1>2, <1>3, <1>4, <1>5, <1>7, <1>8
     DEF Next, vars, Command, connect, connect_approved_tunnels, stop, gc, Step,
         Take, ConnectStep, cannot_request_details, create_user,
         add_authorized_key, load_row, write_wireguard_config,
         enable_wireguard_tunnel, start_wireguard_tunnel, undo_start,
         undo_enable, send_connected_status_to_api, StopStep, load_stopped_row,
         delete_user, stop_unit, disable_unit, remove_config, notify_stopped,
         ConnectFails, CommandSkipped, Aborts, Expire, Reboot, Processes

LEMMA DeviceInvariant == Spec => []DInv
BY InitDInv, NextDInv, PTL DEF Spec

(* Type correctness of the table, the host and the processes.              *)
THEOREM DeviceTypeCorrect == Spec => []TypeOK
<1>1. DInv => TypeOK
  BY DEF DInv, TableOK, HostOK, TypeOK
<1>2. QED
  BY <1>1, DeviceInvariant, PTL

(* However many connects and stops of a tunnel overlap, fail or are        *)
(* killed, a tunnel the device calls running has the support user that gc  *)
(* must delete and the server it was told of (device/cli.py:302).          *)
THEOREM RunningRecorded == Spec => []RunningIsRecorded
<1>1. DInv => RunningIsRecorded
  BY DEF DInv, TableOK, RowOK, RunningIsRecorded
<1>2. QED
  BY <1>1, DeviceInvariant, PTL

-----------------------------------------------------------------------------
(* What is gone stays gone.                                                *)

(* Nothing of tunnel t is on the host.                                     *)
Absent(t) == CleanedUp(t) /\ link[t] = None

(* No process has been let in to connect t.                                *)
NoneInFlight(t) == \A p \in Processes : ~ InFlight(p, t)

(* A step that lets process p in to connect t.                             *)
LetIn(p, t) ==
    Tunnel(p) = t /\ \E l \in Launches : request_tunnel_server_details(p, l)

(* A step of process p that keeps it from connecting t.                    *)
LEMMA StillNoneInFlight ==
    ASSUME proc \in [Processes -> Process], NEW t \in Tunnels,
           NoneInFlight(t), NEW p \in Processes,
           \A r \in Processes \ {p} : proc'[r] = proc[r],
           proc'[p].tunnel = t => proc'[p].pc \notin ConnectSteps
    PROVE  NoneInFlight(t)'
BY DEF NoneInFlight, InFlight, Tunnel

(* A command, and a process that turns to its next tunnel.                 *)
LEMMA CommandGone ==
    ASSUME DInv, NEW t \in DOMAIN db, Absent(t), NoneInFlight(t),
           NEW p \in Processes, Command(p) \/ gc(p) \/ Take(p)
    PROVE  Absent(t)' /\ NoneInFlight(t)'
<1>1. t \in Tunnels /\ proc \in [Processes -> Process]
  BY DEF DInv, TableOK
<1>2. /\ UNCHANGED <<expired, host, faults>>
      /\ db'[t] = db[t]
  BY DEF Command, request, connect, connect_approved_tunnels, stop, gc, Take
<1>3. Absent(t)'
  BY <1>2 DEF Absent, CleanedUp, host
<1>4. /\ \A r \in Processes \ {p} : proc'[r] = proc[r]
      /\ proc'[p].pc \notin ConnectSteps
  <2>1. CASE UNCHANGED proc /\ proc[p].pc = "idle"
    BY <2>1 DEF ConnectSteps
  <2>2. CASE \E todo, closing : Start(p, todo, closing)
    BY <1>1, <2>2 DEF Start, Working, Idle, ConnectSteps
  <2>3. CASE Take(p)
    <3>1. PICK s \in proc[p].todo :
             proc' = [proc EXCEPT
                         ![p].pc = IF proc[p].closing = None
                                   THEN "details" ELSE "snapshot",
                         ![p].todo = @ \ {s},
                         ![p].tunnel = s]
      BY <2>3 DEF Take
    <3>2. proc'[p].pc \in {"details", "snapshot"}
      BY <1>1, <3>1 DEF Process
    <3>3. QED
      BY <1>1, <3>1, <3>2 DEF ConnectSteps
  <2>4. QED
    BY <2>1, <2>2, <2>3
    DEF Command, request, connect, connect_approved_tunnels, stop, gc, At
<1>5. QED
  BY <1>1, <1>3, <1>4, StillNoneInFlight

(* A process that is done, or gives up, is no longer in flight.            *)
LEMMA DoneGone ==
    ASSUME DInv, NEW t \in DOMAIN db, NoneInFlight(t),
           NEW p \in Processes, Done(p)
    PROVE  NoneInFlight(t)'
<1>1. t \in Tunnels /\ proc \in [Processes -> Process]
  BY DEF DInv, TableOK
<1>2. /\ \A r \in Processes \ {p} : proc'[r] = proc[r]
      /\ proc'[p].pc \in {"idle", "loop"}
  BY <1>1 DEF Done, Rest, Working, Idle
<1>3. QED
  BY <1>1, <1>2, StillNoneInFlight DEF ConnectSteps

(* A process that goes on to a step that is none of connect.               *)
LEMMA LeavesGone ==
    ASSUME DInv, NEW t \in DOMAIN db, NoneInFlight(t),
           NEW p \in Processes, NEW pc, Goto(p, pc), pc \notin ConnectSteps
    PROVE  NoneInFlight(t)'
<1>1. t \in Tunnels /\ proc \in [Processes -> Process]
  BY DEF DInv, TableOK
<1>2. /\ \A r \in Processes \ {p} : proc'[r] = proc[r]
      /\ proc'[p].pc = pc
  BY <1>1 DEF Goto, Process
<1>3. QED
  BY <1>1, <1>2, StillNoneInFlight

(* Stopping the unit of any tunnel revives nothing.                        *)
LEMMA StopUnitGone ==
    ASSUME HostOK, NEW t \in Tunnels, NEW s \in Tunnels, StopUnit(s),
           t \notin active, link[t] = None
    PROVE  t \notin active' /\ link'[t] = None
BY DEF StopUnit, HostOK

(* connect: a process that is let in for another tunnel works on that one, *)
(* and on an account of its own.                                           *)
LEMMA ConnectGone ==
    ASSUME DInv, NEW t \in DOMAIN db, Absent(t), NoneInFlight(t),
           NEW p \in Processes, ConnectStep(p), ~ LetIn(p, t)
    PROVE  Absent(t)' /\ NoneInFlight(t)'
<1>1. /\ t \in Tunnels
      /\ proc \in [Processes -> Process]
      /\ proc[p].pc = "details" \/ proc[p].pc \in ConnectSteps \cup UndoSteps
  BY DEF DInv, TableOK, ConnectStep, request_tunnel_server_details,
         cannot_request_details, create_user, record_user,
         add_authorized_key, load_row, write_wireguard_config,
         enable_wireguard_tunnel, start_wireguard_tunnel, undo_start,
         undo_enable, commit_running, send_connected_status_to_api, At,
         ConnectSteps, UndoSteps
<1>2. PICK s \in Tunnels : s = Tunnel(p) /\ s \in DOMAIN db
  BY <1>1 DEF Tunnel, DInv, TableOK, ProcessOK, ConnectSteps, UndoSteps
<1>3. CASE cannot_request_details(p) \/ send_connected_status_to_api(p)
  <2>1. Done(p) /\ UNCHANGED <<db, expired, host>>
    BY <1>3 DEF cannot_request_details, send_connected_status_to_api
  <2>2. QED
    BY <2>1, DoneGone DEF Absent, CleanedUp, host
<1>4. ASSUME NEW l \in Launches, request_tunnel_server_details(p, l)
      PROVE  Absent(t)' /\ NoneInFlight(t)'
  <2>1. s # t
    BY <1>2, <1>4 DEF LetIn
  <2>2. db'[t] = db[t] /\ UNCHANGED <<expired, host>> /\ Goto(p, "user")
    BY <1>2, <1>4, <2>1 DEF request_tunnel_server_details
  <2>3. NoneInFlight(t)'
    BY <1>1, <1>2, <2>1, <2>2, StillNoneInFlight DEF Goto, Tunnel, Process
  <2>4. QED
    BY <2>2, <2>3 DEF Absent, CleanedUp, host
<1>5. CASE proc[p].pc \in ConnectSteps
  <2>1. s # t
    BY <1>2, <1>5 DEF NoneInFlight, InFlight
  <2>2. ASSUME \E pc : Goto(p, pc) PROVE NoneInFlight(t)'
    BY <1>1, <1>2, <2>1, <2>2, StillNoneInFlight DEF Goto, Tunnel, Process
  <2>3. CASE create_user(p)
    <3>1. UNCHANGED <<db, expired, conf, enabled, active, link>>
      BY <2>3 DEF create_user
    <3>2. ASSUME NEW u \in Fresh,
                 accounts' = [v \in DOMAIN accounts \cup {u} |->
                                 IF v = u THEN None ELSE accounts[v]],
                 proc' = [proc EXCEPT ![p].pc = "record", ![p].user = u]
          PROVE  Absent(t)' /\ NoneInFlight(t)'
      <4>1. u # db[t].support_user
        BY DEF Fresh
      <4>2. db[t].support_user \notin DOMAIN accounts'
        BY <3>2, <4>1 DEF Absent, CleanedUp
      <4>3. NoneInFlight(t)'
        BY <1>1, <1>2, <2>1, <3>2, StillNoneInFlight DEF Tunnel, Process
      <4>4. QED
        BY <3>1, <4>2, <4>3 DEF Absent, CleanedUp
    <3>3. CASE Done(p) /\ UNCHANGED accounts
      BY <3>1, <3>3, DoneGone DEF Absent, CleanedUp
    <3>4. QED
      BY <2>3, <3>2, <3>3 DEF create_user
  <2>4. CASE record_user(p)
    <3>1. db'[t] = db[t] /\ UNCHANGED <<expired, host>>
      BY <1>2, <2>1, <2>4 DEF record_user
    <3>2. QED
      BY <2>2, <2>4, <3>1 DEF record_user, Absent, CleanedUp, host
  <2>5. CASE add_authorized_key(p)
    <3>1. /\ UNCHANGED <<db, expired, conf, enabled, active, link>>
          /\ DOMAIN accounts' = DOMAIN accounts
      BY <2>5 DEF add_authorized_key
    <3>2. NoneInFlight(t)'
      <4>1. CASE Done(p)
        BY <4>1, DoneGone
      <4>2. CASE proc' = [proc EXCEPT ![p].pc = "load", ![p].user = None]
        BY <1>1, <1>2, <2>1, <4>2, StillNoneInFlight DEF Tunnel, Process
      <4>3. QED
        BY <2>5, <4>1, <4>2 DEF add_authorized_key
    <3>3. QED
      BY <3>1, <3>2 DEF Absent, CleanedUp
  <2>6. CASE load_row(p)
    <3>1. UNCHANGED <<db, expired, host>>
      BY <2>6 DEF load_row
    <3>2. NoneInFlight(t)'
      BY <1>1, <1>2, <2>1, <2>6, StillNoneInFlight DEF load_row, Tunnel, Process
    <3>3. QED
      BY <3>1, <3>2 DEF Absent, CleanedUp, host
  <2>7. CASE write_wireguard_config(p)
    <3>1. conf'[t] = conf[t]
      BY <1>2, <2>1, <2>7 DEF write_wireguard_config, DInv, HostOK
    <3>2. QED
      BY <2>2, <2>7, <3>1 DEF write_wireguard_config, Absent, CleanedUp
  <2>8. CASE enable_wireguard_tunnel(p)
    BY <1>2, <2>1, <2>2, <2>8 DEF enable_wireguard_tunnel, Absent, CleanedUp
  <2>9. CASE start_wireguard_tunnel(p)
    <3>1. UNCHANGED <<db, expired, accounts, conf>>
      BY <2>9 DEF start_wireguard_tunnel
    <3>2. CASE Goto(p, "commit") /\ UNCHANGED <<enabled, active, link>>
      BY <2>2, <3>1, <3>2 DEF Absent, CleanedUp
    <3>3. CASE /\ active' = active \cup {s}
               /\ link' = [link EXCEPT ![s] = conf[s]]
               /\ Goto(p, "commit")
               /\ UNCHANGED enabled
      BY <1>1, <2>1, <2>2, <3>1, <3>3 DEF Absent, CleanedUp, DInv, HostOK
    <3>4. CASE Goto(p, "unstart") /\ UNCHANGED <<enabled, active, link>>
      BY <2>2, <3>1, <3>4 DEF Absent, CleanedUp
    <3>5. QED
      BY <1>2, <2>9, <3>2, <3>3, <3>4 DEF start_wireguard_tunnel
  <2>10. CASE commit_running(p)
    <3>1. db'[t] = db[t] /\ UNCHANGED <<expired, host>>
      BY <1>2, <2>1, <2>10 DEF commit_running
    <3>2. NoneInFlight(t)'
      BY <1>1, <1>2, <2>1, <2>10, StillNoneInFlight
      DEF commit_running, Tunnel, Process
    <3>3. QED
      BY <3>1, <3>2 DEF Absent, CleanedUp, host
  <2>11. QED
    BY <1>3, <1>4, <1>5, <2>3, <2>4, <2>5, <2>6, <2>7, <2>8, <2>9, <2>10
    DEF ConnectStep, undo_start, undo_enable, At, ConnectSteps
<1>6. CASE undo_start(p)
  <2>1. t \notin active' /\ link'[t] = None
    BY <1>1, <1>2, <1>6, StopUnitGone DEF undo_start, Absent, CleanedUp, DInv
  <2>2. NoneInFlight(t)'
    BY <1>6, LeavesGone DEF undo_start, ConnectSteps
  <2>3. QED
    BY <1>6, <2>1, <2>2 DEF undo_start, Absent, CleanedUp
<1>7. CASE undo_enable(p)
  BY <1>7, DoneGone DEF undo_enable, Absent, CleanedUp
<1>8. QED
  BY <1>1, <1>3, <1>4, <1>5, <1>6, <1>7
  DEF ConnectStep, create_user, record_user, add_authorized_key, load_row,
      write_wireguard_config, enable_wireguard_tunnel,
      start_wireguard_tunnel, commit_running, At, ConnectSteps

(* stop only takes things off the host.                                    *)
LEMMA StopGone ==
    ASSUME DInv, NEW t \in DOMAIN db, Absent(t), NoneInFlight(t),
           NEW p \in Processes, StopStep(p)
    PROVE  Absent(t)' /\ NoneInFlight(t)'
<1>1. t \in Tunnels /\ proc \in [Processes -> Process]
  BY DEF DInv, TableOK
<1>2. NoneInFlight(t)'
  <2>1. CASE Done(p)
    BY <2>1, DoneGone
  <2>2. CASE /\ \A r \in Processes \ {p} : proc'[r] = proc[r]
             /\ proc'[p].pc \in StopSteps
    BY <1>1, <2>2, StillNoneInFlight DEF StopSteps, ConnectSteps
  <2>3. QED
    BY <1>1, <2>1, <2>2
    DEF StopStep, load_stopped_row, delete_user, PastUser, stop_unit,
        disable_unit, remove_config, commit_closed, notify_stopped, Goto, Done,
        StopSteps, Process
<1>3. PICK s \in Tunnels : s = Tunnel(p) /\ s \in DOMAIN db
  <2>1. proc[p].pc \in StopSteps
    BY DEF StopStep, load_stopped_row, delete_user, stop_unit, disable_unit,
           remove_config, commit_closed, notify_stopped, At, StopSteps
  <2>2. QED
    BY <2>1 DEF Tunnel, DInv, TableOK, ProcessOK, StopSteps
<1>4. CASE load_stopped_row(p) \/ notify_stopped(p)
  BY <1>2, <1>4 DEF load_stopped_row, notify_stopped, Absent, CleanedUp, host
<1>5. CASE delete_user(p)
  BY <1>2, <1>5 DEF delete_user, Absent, CleanedUp
<1>6. CASE stop_unit(p)
  <2>1. t \notin active' /\ link'[t] = None
    BY <1>1, <1>3, <1>6, StopUnitGone DEF stop_unit, Absent, CleanedUp, DInv
  <2>2. QED
    BY <1>2, <1>6, <2>1 DEF stop_unit, Absent, CleanedUp
<1>7. CASE disable_unit(p)
  BY <1>2, <1>7 DEF disable_unit, Absent, CleanedUp
<1>8. CASE remove_config(p)
  <2>1. conf'[t] = None
    BY <1>1, <1>8 DEF remove_config, Absent, CleanedUp, DInv, HostOK
  <2>2. QED
    BY <1>2, <1>8, <2>1 DEF remove_config, Absent, CleanedUp
<1>9. CASE commit_closed(p)
  <2>1. db'[t].support_user = db[t].support_user
    <3>1. db[t] \in Row
      BY DEF DInv, TableOK
    <3>2. CASE s = t
      BY <1>3, <1>9, <3>1, <3>2 DEF commit_closed, ClosedRow, Row
    <3>3. CASE s # t
      BY <1>3, <1>9, <3>3 DEF commit_closed
    <3>4. QED
      BY <3>2, <3>3
  <2>2. QED
    BY <1>2, <1>9, <2>1 DEF commit_closed, Absent, CleanedUp, host
<1>10. QED
  BY <1>4, <1>5, <1>6, <1>7, <1>8, <1>9 DEF StopStep

LEMMA FaultGone ==
    ASSUME DInv, NEW t \in DOMAIN db, Absent(t), NoneInFlight(t),
           \/ \E p \in Processes :
                 ConnectFails(p) \/ CommandSkipped(p) \/ Aborts(p)
           \/ \E s \in Tunnels : Expire(s)
           \/ Reboot
    PROVE  Absent(t)' /\ NoneInFlight(t)'
<1>1. t \in Tunnels /\ proc \in [Processes -> Process]
  BY DEF DInv, TableOK
<1>2. ASSUME NEW p \in Processes, ConnectFails(p) \/ CommandSkipped(p)
      PROVE  Absent(t)' /\ NoneInFlight(t)'
  <2>1. UNCHANGED <<db, expired, host>>
    BY <1>2 DEF ConnectFails, CommandSkipped
  <2>2. CASE Done(p) \/ \E pc : pc \notin ConnectSteps /\ Goto(p, pc)
    BY <2>1, <2>2, DoneGone, LeavesGone DEF Absent, CleanedUp, host
  <2>3. CASE PastUser(p)
    <3>1. /\ \A r \in Processes \ {p} : proc'[r] = proc[r]
          /\ proc'[p].pc = "down"
      BY <1>1, <2>3 DEF PastUser, Process
    <3>2. NoneInFlight(t)'
      BY <1>1, <3>1, StillNoneInFlight DEF ConnectSteps
    <3>3. QED
      BY <2>1, <3>2 DEF Absent, CleanedUp, host
  <2>4. QED
    BY <1>2, <2>2, <2>3
    DEF ConnectFails, CommandSkipped, AfterSkipped, ConnectSteps
<1>3. ASSUME NEW p \in Processes, Aborts(p)
      PROVE  Absent(t)' /\ NoneInFlight(t)'
  <2>1. NoneInFlight(t)'
    BY <1>1, <1>3, StillNoneInFlight DEF Aborts, Idle, ConnectSteps
  <2>2. QED
    BY <1>3, <2>1 DEF Aborts, Absent, CleanedUp, host
<1>4. ASSUME NEW s \in Tunnels, Expire(s)
      PROVE  Absent(t)' /\ NoneInFlight(t)'
  BY <1>4 DEF Expire, Absent, CleanedUp, host, NoneInFlight, InFlight, Tunnel
<1>5. CASE Reboot
  <2>1. NoneInFlight(t)'
    BY <1>5 DEF Reboot, NoneInFlight, InFlight, Tunnel, Idle, ConnectSteps
  <2>2. t \notin active' /\ link'[t] = None
    BY <1>1, <1>5 DEF Reboot, Absent, CleanedUp
  <2>3. QED
    BY <1>5, <2>1, <2>2 DEF Reboot, Absent, CleanedUp
<1>6. QED
  BY <1>2, <1>3, <1>4, <1>5

(* As long as no process is let in, nothing revives a tunnel.              *)
LEMMA AbsentStays ==
    ASSUME DInv, Next, NEW t \in DOMAIN db, Absent(t), NoneInFlight(t),
           \A p \in Processes : ~ LetIn(p, t)
    PROVE  Absent(t)' /\ NoneInFlight(t)'
BY CommandGone, ConnectGone, StopGone, FaultGone DEF Next, Step, Processes

LEMMA ExpiredStays == Next => expired \subseteq expired'
BY DEF Next, Command, request, connect, connect_approved_tunnels, stop, gc,
       Step, Take, ConnectStep, request_tunnel_server_details,
       cannot_request_details, create_user, record_user, add_authorized_key,
       load_row, write_wireguard_config, enable_wireguard_tunnel,
       start_wireguard_tunnel, undo_start, undo_enable, commit_running,
       send_connected_status_to_api, StopStep, load_stopped_row, delete_user,
       stop_unit, disable_unit, remove_config, commit_closed, notify_stopped,
       ConnectFails, CommandSkipped, Aborts, Expire, Reboot

(* No command, however late, and no reboot revives an expired tunnel that  *)
(* gc has cleaned up: the check at device/cli.py:215 is enough, because    *)
(* all that was let in before it is over.                                  *)
THEOREM GoneForGood == Spec => GoneStaysGone
<1>1. ASSUME DInv, Next, NEW t \in DOMAIN db, Gone(t)
      PROVE  Gone(t)'
  <2>1. Absent(t) /\ NoneInFlight(t) /\ t \in expired
    BY <1>1 DEF Gone, Absent, NoneInFlight
  <2>2. \A p \in Processes : ~ LetIn(p, t)
    BY <2>1 DEF LetIn, request_tunnel_server_details, MayConnect
  <2>3. Absent(t)' /\ NoneInFlight(t)'
    BY <1>1, <2>1, <2>2, AbsentStays
  <2>4. QED
    BY <1>1, <2>1, <2>3, ExpiredStays DEF Gone, Absent, NoneInFlight
<1>2. DInv /\ [Next]_vars => [GoneStep]_vars
  BY <1>1 DEF GoneStep
<1>3. QED
  BY <1>2, DeviceInvariant, PTL DEF Spec, GoneStaysGone
-----------------------------------------------------------------------------
(* While nothing fails, the connects of a tunnel that is not being stopped *)
(* agree with each other, however many run at a time, if the API gives all *)
(* of them the same server.  Each step of the device is that of a process  *)
(* p.                                                                      *)

(* What a step of process p does to the processes, to the users and to the *)
(* wires of the host, and what it reads for that.                          *)
Advances(p) ==
    /\ \A q \in Processes \ {p} : proc'[q] = proc[q]
    /\ proc'[p].pc \in ConnectSteps =>
          /\ proc'[p].tunnel = Tunnel(p)
          /\ \/ At(p, "details") /\ proc'[p].pc = "user"
             \/ At(p, "user") /\ proc'[p].pc = "record"
                /\ proc'[p].user \in Fresh \cap DOMAIN accounts'
             \/ At(p, "record") /\ proc'[p].pc = "authorize"
                /\ proc'[p].user = proc[p].user
             \/ At(p, "authorize") /\ proc'[p].pc = "load"
             \/ At(p, "load") /\ proc'[p].pc = "config"
                /\ proc'[p].loaded = db[Tunnel(p)]
             \/ At(p, "config") /\ proc'[p].pc = "enable"
             \/ At(p, "enable") /\ proc'[p].pc = "start"
             \/ At(p, "start") /\ proc'[p].pc = "commit"
                /\ Tunnel(p) \in active'
             \/ At(p, "commit") /\ proc'[p].pc = "report"
    /\ proc'[p].pc = "unstart" =>
          /\ At(p, "start")
          /\ proc'[p].tunnel = Tunnel(p)
          /\ Tunnel(p) \notin active
          /\ conf[Tunnel(p)] = None \/ link[Tunnel(p)] # None
    /\ proc'[p].pc = "deluser" =>
          /\ At(p, "snapshot")
          /\ proc'[p].tunnel = Tunnel(p)
          /\ proc'[p].loaded = db[Tunnel(p)]

NamesUsers(p) ==
    /\ \A u \in DOMAIN accounts :
          \/ At(p, "deluser") /\ proc[p].loaded.support_user = u
          \/ u \in DOMAIN accounts' /\ accounts'[u] = accounts[u]
          \/ /\ u \in DOMAIN accounts'
             /\ At(p, "authorize") /\ proc[p].user = u
             /\ accounts'[u] = db[Tunnel(p)].server
    /\ At(p, "authorize") /\ proc[p].user \in DOMAIN accounts
          => accounts'[proc[p].user] = db[Tunnel(p)].server
    /\ \A s \in DOMAIN db' :
          \/ db'[s].support_user = None
          \/ s \in DOMAIN db /\ db'[s].support_user = db[s].support_user
          \/ /\ At(p, "record") /\ Tunnel(p) = s
             /\ proc'[p].pc = "authorize"
             /\ db'[s].support_user = proc[p].user

Wires(p) ==
    /\ \A t \in Tunnels \ {Tunnel(p)} :
          /\ conf'[t] = conf[t] /\ link'[t] = link[t]
          /\ t \in active' <=> t \in active
    /\ proc[p].pc \notin StopSteps =>
          /\ IF At(p, "config") THEN conf'[Tunnel(p)] = proc[p].loaded.server
             ELSE UNCHANGED conf
          /\ \/ UNCHANGED <<link, active>>
             \/ /\ At(p, "start") /\ conf[Tunnel(p)] # None
                /\ Tunnel(p) \notin active /\ Tunnel(p) \in active'
                /\ link'[Tunnel(p)] = conf[Tunnel(p)]
             \/ At(p, "unstart")
    /\ DOMAIN db \subseteq DOMAIN db'
    /\ \A t \in DOMAIN db' :
          \/ t \in DOMAIN db /\ db'[t].server = db[t].server
          \/ t \notin DOMAIN db /\ db'[t] = NewTunnel
          \/ At(p, "details") /\ Tunnel(p) = t /\ proc'[p].pc = "user"

Acts(p) == Advances(p) /\ NamesUsers(p) /\ Wires(p)

LEMMA CommandActs ==
    ASSUME DInv, NEW p \in Processes, Command(p) \/ gc(p)
    PROVE  Acts(p)
<1>1. /\ proc \in [Processes -> Process]
      /\ db \in [DOMAIN db -> Row]
  BY DEF DInv, TableOK
<1>2. UNCHANGED host
  BY DEF Command, connect_approved_tunnels, request, connect, stop, gc
<1>3. /\ At(p, "idle")
      /\ UNCHANGED proc \/ \E todo, c : Start(p, todo, c)
  BY DEF Command, connect_approved_tunnels, request, connect, stop, gc, Start, At
<1>4. Advances(p)
  BY <1>1, <1>3
  DEF Advances, Start, Working, Idle, ConnectSteps, At
<1>5. /\ DOMAIN db \subseteq DOMAIN db'
      /\ \A s \in DOMAIN db' :
            \/ s \in DOMAIN db /\ db'[s] = db[s]
            \/ s \notin DOMAIN db /\ db'[s] = NewTunnel
  BY DEF Command, connect_approved_tunnels, request, connect, stop, gc
<1>6. NamesUsers(p)
  BY <1>2, <1>3, <1>5 DEF NamesUsers, host, At, NewTunnel
<1>7. Wires(p)
  BY <1>2, <1>3, <1>5 DEF Wires, host, At
<1>8. QED
  BY <1>4, <1>6, <1>7 DEF Acts

(* A step that leaves accounts, interfaces and the columns server and      *)
(* support_user alone.                                                     *)
LEMMA QuietActs ==
    ASSUME DInv, NEW p \in Processes, Advances(p),
           UNCHANGED <<accounts, conf, link, active>>,
           ~ At(p, "authorize"), ~ At(p, "config"),
           DOMAIN db' = DOMAIN db,
           \A t \in DOMAIN db :
              /\ db'[t].server = db[t].server
              /\ db'[t].support_user = db[t].support_user
    PROVE  Acts(p)
BY DEF Acts, NamesUsers, Wires

LEMMA DoneAdvances ==
    ASSUME DInv, NEW p \in Processes, Done(p)
    PROVE  Advances(p)
BY DEF DInv, Done, Rest, Working, Idle, Advances, ConnectSteps

LEMMA GotoAdvances ==
    ASSUME DInv, NEW p \in Processes, NEW pc, Goto(p, pc),
           pc # "deluser",
           pc = "unstart" =>
              /\ At(p, "start") /\ Tunnel(p) \notin active
              /\ conf[Tunnel(p)] = None \/ link[Tunnel(p)] # None,
           \/ pc \notin ConnectSteps
           \/ At(p, "details") /\ pc = "user"
           \/ At(p, "record") /\ pc = "authorize"
           \/ At(p, "config") /\ pc = "enable"
           \/ At(p, "enable") /\ pc = "start"
           \/ At(p, "start") /\ pc = "commit" /\ Tunnel(p) \in active'
    PROVE  Advances(p)
BY DEF DInv, Goto, Advances, At, Tunnel, Process

LEMMA TakeActs ==
    ASSUME DInv, NEW p \in Processes, Take(p)
    PROVE  Acts(p)
<1>1. PICK t \in proc[p].todo :
         proc' = [proc EXCEPT
                     ![p].pc = IF proc[p].closing = None
                               THEN "details" ELSE "snapshot",
                     ![p].todo = @ \ {t},
                     ![p].tunnel = t]
  BY DEF Take
<1>2. Advances(p)
  BY <1>1 DEF DInv, Process, Advances, ConnectSteps
<1>3. QED
  BY <1>2, QuietActs DEF Take, host, At

LEMMA DetailsActs ==
    ASSUME DInv, NEW p \in Processes, NEW l,
           request_tunnel_server_details(p, l)
    PROVE  Acts(p)
<1>1. Advances(p)
  BY GotoAdvances DEF request_tunnel_server_details
<1>2. At(p, "details") /\ Tunnel(p) \in DOMAIN db /\ proc'[p].pc = "user"
  BY DEF request_tunnel_server_details, DInv, ProcessOK, At, Tunnel, Goto,
         Process
<1>3. /\ DOMAIN db' = DOMAIN db
      /\ \A t \in DOMAIN db :
            /\ db'[t].support_user = db[t].support_user
            /\ t # Tunnel(p) => db'[t] = db[t]
  BY <1>2 DEF request_tunnel_server_details, DInv, TableOK, Row
<1>4. UNCHANGED host
  BY DEF request_tunnel_server_details
<1>5. NamesUsers(p)
  BY <1>2, <1>3, <1>4 DEF NamesUsers, host, At
<1>6. Wires(p)
  BY <1>2, <1>3, <1>4 DEF Wires, host, At
<1>7. QED
  BY <1>1, <1>5, <1>6 DEF Acts

LEMMA CreateUserActs ==
    ASSUME DInv, NEW p \in Processes, create_user(p)
    PROVE  Acts(p)
<1>1. CASE Done(p) /\ UNCHANGED accounts
  BY <1>1, DoneAdvances, QuietActs DEF create_user, At
<1>2. ASSUME NEW u \in Fresh,
             accounts' = [v \in DOMAIN accounts \cup {u} |->
                             IF v = u THEN None ELSE accounts[v]],
             proc' = [proc EXCEPT ![p].pc = "record", ![p].user = u]
      PROVE  Acts(p)
  <2>1. Advances(p)
    <3>1. u \in Fresh \cap DOMAIN accounts'
      BY <1>2
    <3>2. /\ proc'[p].pc = "record" /\ proc'[p].user = u
          /\ proc'[p].tunnel = proc[p].tunnel
          /\ \A q \in Processes \ {p} : proc'[q] = proc[q]
      BY <1>2 DEF DInv, Process
    <3>3. At(p, "user")
      BY DEF create_user
    <3>4. QED
      BY <3>1, <3>2, <3>3 DEF Advances, Tunnel
  <2>2. UNCHANGED <<db, conf, link, active>> /\ At(p, "user")
    BY DEF create_user
  <2>3. \A v \in DOMAIN accounts :
           v \in DOMAIN accounts' /\ accounts'[v] = accounts[v]
    BY <1>2 DEF Fresh
  <2>4. QED
    BY <2>1, <2>2, <2>3 DEF Acts, NamesUsers, Wires, At
<1>3. QED
  BY <1>1, <1>2 DEF create_user

LEMMA RecordUserActs ==
    ASSUME DInv, NEW p \in Processes, record_user(p)
    PROVE  Acts(p)
<1>1. Advances(p)
  BY GotoAdvances DEF record_user
<1>2. /\ At(p, "record") /\ Tunnel(p) \in DOMAIN db
      /\ proc'[p].pc = "authorize"
  BY DEF record_user, DInv, ProcessOK, Process, Goto, At, Tunnel
<1>3. /\ DOMAIN db' = DOMAIN db
      /\ \A t \in DOMAIN db :
            /\ db'[t].server = db[t].server
            /\ t # Tunnel(p) => db'[t] = db[t]
      /\ db'[Tunnel(p)].support_user = proc[p].user
  BY <1>2 DEF record_user, DInv, TableOK, Row
<1>4. UNCHANGED host
  BY DEF record_user
<1>5. NamesUsers(p)
  BY <1>2, <1>3, <1>4 DEF NamesUsers, host, At
<1>6. Wires(p)
  BY <1>2, <1>3, <1>4 DEF Wires, host, At
<1>7. QED
  BY <1>1, <1>5, <1>6 DEF Acts

LEMMA AuthorizeActs ==
    ASSUME DInv, NEW p \in Processes, add_authorized_key(p)
    PROVE  Acts(p)
<1>1. At(p, "authorize") /\ UNCHANGED <<db, conf, link, active>>
  BY DEF add_authorized_key
<1>2. Wires(p)
  BY <1>1 DEF Wires, At
<1>3. CASE proc[p].user \in DOMAIN accounts
  <2>1. /\ accounts' = [accounts EXCEPT
                           ![proc[p].user] = db[Tunnel(p)].server]
        /\ proc' = [proc EXCEPT ![p].pc = "load", ![p].user = None]
    BY <1>3 DEF add_authorized_key
  <2>2. Advances(p)
    BY <1>1, <2>1 DEF Advances, At, Tunnel, DInv, Process
  <2>3. NamesUsers(p)
    BY <1>1, <1>3, <2>1 DEF NamesUsers
  <2>4. QED
    BY <1>2, <2>2, <2>3 DEF Acts
<1>4. CASE proc[p].user \notin DOMAIN accounts
  <2>1. Done(p) /\ UNCHANGED accounts
    BY <1>4 DEF add_authorized_key
  <2>2. NamesUsers(p)
    BY <1>1, <1>4, <2>1 DEF NamesUsers
  <2>3. QED
    BY <1>2, <2>1, <2>2, DoneAdvances DEF Acts
<1>5. QED
  BY <1>3, <1>4

LEMMA LoadActs ==
    ASSUME DInv, NEW p \in Processes, load_row(p) \/ load_stopped_row(p)
    PROVE  Acts(p)
<1>1. Advances(p)
  BY DEF load_row, load_stopped_row, Advances, At, Tunnel, DInv, Process,
         ConnectSteps
<1>2. QED
  BY <1>1, QuietActs DEF load_row, load_stopped_row, host, At

LEMMA ConfigActs ==
    ASSUME DInv, NEW p \in Processes, write_wireguard_config(p)
    PROVE  Acts(p)
<1>1. Advances(p)
  BY GotoAdvances DEF write_wireguard_config
<1>2. At(p, "config") /\ Tunnel(p) \in Tunnels
  BY DEF write_wireguard_config, DInv, TableOK, ProcessOK, At, Tunnel
<1>3. UNCHANGED <<db, accounts, link, active>>
  BY DEF write_wireguard_config
<1>4. /\ conf'[Tunnel(p)] = proc[p].loaded.server
      /\ \A t \in Tunnels \ {Tunnel(p)} : conf'[t] = conf[t]
  BY <1>2 DEF write_wireguard_config, DInv, HostOK
<1>5. QED
  BY <1>1, <1>2, <1>3, <1>4 DEF Acts, NamesUsers, Wires, At

LEMMA StopUnitWires ==
    ASSUME DInv, NEW t \in Tunnels, StopUnit(t)
    PROVE  \A s \in Tunnels \ {t} :
              link'[s] = link[s] /\ (s \in active' <=> s \in active)
BY DEF StopUnit, DInv, HostOK

LEMMA StartUnitActs ==
    ASSUME DInv, NEW p \in Processes, start_wireguard_tunnel(p)
    PROVE  Acts(p)
<1>1. At(p, "start") /\ Tunnel(p) \in Tunnels
  BY DEF start_wireguard_tunnel, DInv, TableOK, ProcessOK, At, Tunnel
<1>2. UNCHANGED <<db, accounts, conf>>
  BY DEF start_wireguard_tunnel
<1>3. NamesUsers(p)
  BY <1>1, <1>2 DEF NamesUsers, At
<1> USE DEF Acts
<1>4. CASE Tunnel(p) \in active /\ Goto(p, "commit") /\ UNCHANGED <<link, active>>
  BY <1>1, <1>2, <1>3, <1>4, GotoAdvances DEF Wires, At
<1>5. CASE /\ Tunnel(p) \notin active /\ conf[Tunnel(p)] # None
           /\ active' = active \cup {Tunnel(p)}
           /\ link' = [link EXCEPT ![Tunnel(p)] = conf[Tunnel(p)]]
           /\ Goto(p, "commit")
  <2>1. Advances(p)
    BY <1>1, <1>5, GotoAdvances
  <2>2. /\ link'[Tunnel(p)] = conf[Tunnel(p)]
        /\ \A t \in Tunnels \ {Tunnel(p)} : link'[t] = link[t]
    BY <1>1, <1>5 DEF DInv, HostOK
  <2>3. QED
    BY <1>1, <1>2, <1>3, <1>5, <2>1, <2>2 DEF Wires, At
<1>6. CASE /\ Tunnel(p) \notin active
           /\ conf[Tunnel(p)] = None \/ link[Tunnel(p)] # None
           /\ Goto(p, "unstart")
           /\ UNCHANGED <<link, active>>
  <2>1. Advances(p)
    BY <1>1, <1>6, GotoAdvances DEF ConnectSteps
  <2>2. QED
    BY <1>1, <1>2, <1>3, <1>6, <2>1 DEF Wires, At
<1>7. QED
  BY <1>4, <1>5, <1>6 DEF start_wireguard_tunnel

LEMMA UndoActs ==
    ASSUME DInv, NEW p \in Processes, undo_start(p) \/ undo_enable(p)
    PROVE  Acts(p)
<1>1. CASE undo_start(p)
  <2>1. At(p, "unstart") /\ Tunnel(p) \in Tunnels
    BY <1>1 DEF undo_start, DInv, TableOK, ProcessOK, At, Tunnel
  <2>2. UNCHANGED <<db, accounts, conf>> /\ StopUnit(Tunnel(p))
    BY <1>1 DEF undo_start
  <2>3. Advances(p)
    BY <1>1, GotoAdvances DEF undo_start, ConnectSteps
  <2>4. QED
    BY <2>1, <2>2, <2>3, StopUnitWires DEF Acts, NamesUsers, Wires, At
<1>2. CASE undo_enable(p)
  BY <1>2, DoneAdvances, QuietActs DEF undo_enable, At
<1>3. QED
  BY <1>1, <1>2

LEMMA CommitRunningActs ==
    ASSUME DInv, NEW p \in Processes, commit_running(p)
    PROVE  Acts(p)
<1>1. Advances(p)
  BY DEF commit_running, Advances, At, Tunnel, DInv, Process
<1>2. /\ DOMAIN db' = DOMAIN db
      /\ \A t \in DOMAIN db : /\ db'[t].server = db[t].server
                              /\ db'[t].support_user = db[t].support_user
  BY DEF commit_running, DInv, TableOK, Row
<1>3. QED
  BY <1>1, <1>2, QuietActs DEF commit_running, host, At

LEMMA TakeDownActs ==
    ASSUME DInv, NEW p \in Processes,
           delete_user(p) \/ stop_unit(p) \/ disable_unit(p)
           \/ remove_config(p) \/ commit_closed(p)
    PROVE  Acts(p)
<1>1. /\ proc[p].pc \in StopSteps /\ Tunnel(p) \in Tunnels
      /\ ~ At(p, "authorize") /\ ~ At(p, "record") /\ ~ At(p, "details")
  BY DEF delete_user, stop_unit, disable_unit, remove_config, commit_closed,
         DInv, TableOK, ProcessOK, At, Tunnel, StopSteps
<1>2. Advances(p)
  <2>1. CASE commit_closed(p)
    <3>1. \/ Done(p)
          \/ proc' = [proc EXCEPT ![p].pc = "notify", ![p].loaded = None]
      BY <2>1 DEF commit_closed, Done
    <3>2. QED
      BY <3>1, DoneAdvances DEF Advances, DInv, Process, ConnectSteps
  <2>2. CASE delete_user(p)
    BY <2>2 DEF delete_user, PastUser, Advances, DInv, Process, ConnectSteps
  <2>3. QED
    BY <2>1, <2>2, GotoAdvances DEF stop_unit, disable_unit, remove_config,
       ConnectSteps
<1>3. /\ DOMAIN db' = DOMAIN db
      /\ \A t \in DOMAIN db : /\ db'[t].server = db[t].server
                              /\ db'[t].support_user = db[t].support_user
  BY DEF delete_user, stop_unit, disable_unit, remove_config, commit_closed,
         ClosedRow, DInv, TableOK, Row
<1>4. \A t \in Tunnels \ {Tunnel(p)} :
         /\ conf'[t] = conf[t] /\ link'[t] = link[t]
         /\ t \in active' <=> t \in active
  <2>1. CASE stop_unit(p)
    BY <1>1, <2>1, StopUnitWires DEF stop_unit
  <2>2. CASE remove_config(p)
    BY <2>2 DEF remove_config, DInv, HostOK
  <2>3. QED
    BY <2>1, <2>2 DEF delete_user, disable_unit, commit_closed, host
<1>5. \A u \in DOMAIN accounts :
         \/ At(p, "deluser") /\ proc[p].loaded.support_user = u
         \/ u \in DOMAIN accounts' /\ accounts'[u] = accounts[u]
  BY DEF delete_user, stop_unit, disable_unit, remove_config, commit_closed,
         host
<1>6. QED
  BY <1>1, <1>2, <1>3, <1>4, <1>5 DEF Acts, NamesUsers, Wires

LEMMA LastActs ==
    ASSUME DInv, NEW p \in Processes,
           \/ cannot_request_details(p)
           \/ enable_wireguard_tunnel(p)
           \/ send_connected_status_to_api(p)
           \/ notify_stopped(p)
    PROVE  Acts(p)
<1>1. Advances(p)
  BY DoneAdvances, GotoAdvances
  DEF cannot_request_details, enable_wireguard_tunnel,
      send_connected_status_to_api, notify_stopped
<1>2. QED
  BY <1>1, QuietActs
  DEF cannot_request_details, enable_wireguard_tunnel,
      send_connected_status_to_api, notify_stopped, host, At

LEMMA StepActs ==
    ASSUME DInv, NEW p \in Processes,
           \/ p \in Shells /\ Command(p)
           \/ p \in Collectors /\ gc(p)
           \/ Step(p)
    PROVE  Acts(p)
BY CommandActs, TakeActs, DetailsActs, CreateUserActs, RecordUserActs,
   AuthorizeActs, LoadActs, ConfigActs, StartUnitActs, UndoActs,
   CommitRunningActs, TakeDownActs, LastActs
DEF Step, ConnectStep, StopStep

(* A step in which nothing fails is that of a process.                     *)
LEMMA CalmActs ==
    ASSUME DInv, [Next]_vars, faults' = faults
    PROVE  \/ UNCHANGED <<db, host, proc>>
           \/ \E p \in Processes : Acts(p)
<1>1. ~ Fault
  BY DEF Fault, DInv, HostOK
<1>2. QED
  BY <1>1, StepActs
  DEF Next, ConnectFails, CommandSkipped, Aborts, Reboot, Expire, vars, host,
      Processes

-----------------------------------------------------------------------------
(* A tunnel that is connected to the server of one launch, and not being   *)
(* stopped.                                                                *)

Stopping(t) ==
    \E p \in Processes : Tunnel(p) = t /\ proc[p].pc \in StopSteps

(* User u is on the host and belongs to no other tunnel than t.            *)
Own(u, t) ==
    /\ u \in DOMAIN accounts
    /\ \A s \in DOMAIN db \ {t} : db[s].support_user # u
    /\ \A p \in Processes :
          Tunnel(p) # t =>
             /\ proc[p].pc \in {"record", "authorize"} => proc[p].user # u
             /\ At(p, "deluser") => proc[p].loaded.support_user # u

(* User u lets in who has the key of launch l, or is about to.             *)
Admits(u, t, l) ==
    /\ l # None
    /\ Own(u, t)
    /\ \/ accounts[u] = l
       \/ \E p \in Processes :
             At(p, "authorize") /\ Tunnel(p) = t /\ proc[p].user = u

(* What process p relies on while it connects t to the server of l.        *)
Serves(p, t, l) ==
    /\ proc[p].pc \in ConnectSteps => l # None /\ db[t].server = l
    /\ proc[p].pc \in {"record", "authorize"} => Own(proc[p].user, t)
    /\ At(p, "config") => proc[p].loaded.server = l
    /\ At(p, "enable") \/ At(p, "start") => conf[t] # None
    /\ ~ At(p, "unstart")
    /\ At(p, "commit") \/ At(p, "report") => t \in active

Wired(t, l) ==
    /\ conf[t] \in {None, l}
    /\ link[t] \in {None, l}
    /\ t \in active <=> link[t] # None
    /\ t \in DOMAIN db =>
          /\ db[t].server \in {None, l}
          /\ db[t].support_user # None => Admits(db[t].support_user, t, l)

Connected(t, l) ==
    /\ Wired(t, l)
    /\ \A p \in Processes : Tunnel(p) = t => Serves(p, t, l)

(* A user of a tunnel that is not being stopped stays its own.             *)
LEMMA OwnStays ==
    ASSUME DInv, NEW p \in Processes, Acts(p), NEW t, NEW u, Own(u, t),
           ~ Stopping(t)
    PROVE  Own(u, t)'
<1>1. u # None
  BY NoneIsNoValue DEF Own, DInv, HostOK
<1>2. u \in DOMAIN accounts'
  <2>1. CASE At(p, "deluser") /\ proc[p].loaded.support_user = u
    BY <2>1 DEF Own, Stopping, At, StopSteps
  <2>2. QED
    BY <2>1 DEF Acts, NamesUsers, Own
<1>3. ASSUME NEW s \in DOMAIN db' \ {t} PROVE db'[s].support_user # u
  BY <1>1, <1>3 DEF Acts, NamesUsers, Own, At
<1>4. ASSUME NEW q \in Processes, proc'[q].tunnel # t
      PROVE  /\ proc'[q].pc \in {"record", "authorize"} => proc'[q].user # u
             /\ proc'[q].pc = "deluser" => proc'[q].loaded.support_user # u
  <2>1. CASE proc'[q] = proc[q]
    BY <1>4, <2>1 DEF Own, At, Tunnel
  <2>2. CASE q = p /\ proc'[p].pc \in {"record", "authorize"}
    BY <1>4, <2>2 DEF Acts, Advances, Own, Fresh, At, Tunnel, ConnectSteps
  <2>3. CASE q = p /\ proc'[p].pc = "deluser"
    <3>1. /\ At(p, "snapshot") /\ Tunnel(p) # t
          /\ proc'[p].loaded = db[Tunnel(p)]
      BY <1>4, <2>3 DEF Acts, Advances, Tunnel
    <3>2. Tunnel(p) \in DOMAIN db
      BY <3>1 DEF DInv, ProcessOK, At, Tunnel
    <3>3. QED
      BY <2>3, <3>1, <3>2 DEF Own
  <2>4. QED
    BY <2>1, <2>2, <2>3 DEF Acts, Advances
<1>5. QED
  BY <1>2, <1>3, <1>4 DEF Own, At, Tunnel

LEMMA AdmitsStays ==
    ASSUME DInv, NEW p \in Processes, Acts(p), NEW t, NEW u, NEW l,
           Admits(u, t, l), Connected(t, l), ~ Stopping(t)
    PROVE  Admits(u, t, l)'
<1>1. Own(u, t)'
  BY OwnStays DEF Admits
<1>2. ASSUME At(p, "authorize"), proc[p].user = u
      PROVE  accounts'[u] = l
  <2>1. Tunnel(p) = t /\ u \in DOMAIN accounts
    BY <1>2 DEF Admits, Own, At
  <2>2. db[t].server = l
    BY <1>2, <2>1 DEF Connected, Serves, At, ConnectSteps
  <2>3. QED
    BY <1>2, <2>1, <2>2 DEF Acts, NamesUsers
<1>3. CASE accounts[u] = l
  <2>1. accounts'[u] = l
    <3>1. u \in DOMAIN accounts
      BY DEF Admits, Own
    <3>2. ~ (At(p, "deluser") /\ proc[p].loaded.support_user = u)
      BY <3>1 DEF Admits, Own, Stopping, At, StopSteps
    <3>3. QED
      BY <1>2, <1>3, <3>1, <3>2 DEF Acts, NamesUsers
  <2>2. QED
    BY <1>1, <2>1 DEF Admits
<1>4. CASE \E q \in Processes :
              At(q, "authorize") /\ Tunnel(q) = t /\ proc[q].user = u
  <2>1. PICK q \in Processes :
           At(q, "authorize") /\ Tunnel(q) = t /\ proc[q].user = u
    BY <1>4
  <2>2. CASE q = p
    BY <1>1, <1>2, <2>1, <2>2 DEF Admits
  <2>3. CASE q # p
    <3>1. proc'[q] = proc[q]
      BY <2>3 DEF Acts, Advances
    <3>2. QED
      BY <1>1, <2>1, <3>1 DEF Admits, At, Tunnel
  <2>4. QED
    BY <2>2, <2>3
<1>5. QED
  BY <1>3, <1>4 DEF Admits

(* Process p is only given the details of launch l for tunnel t.           *)
GivenOnly(p, t, l) ==
    Tunnel(p) = t /\ At(p, "details") /\ proc'[p].pc = "user"
        => l # None /\ db'[t].server = l

LEMMA WiresStay ==
    ASSUME DInv, NEW p \in Processes, Acts(p), NEW t \in Tunnels, NEW l,
           Connected(t, l), ~ Stopping(t), GivenOnly(p, t, l)
    PROVE  /\ Wired(t, l)'
           /\ conf[t] # None => conf'[t] # None
           /\ t \in active => t \in active'
           /\ t \in DOMAIN db /\ l # None /\ db[t].server = l
                 => db'[t].server = l
<1>1. Wired(t, l) /\ (Tunnel(p) = t => Serves(p, t, l))
  BY DEF Connected
<1>2. Tunnel(p) = t => proc[p].pc \notin StopSteps
  BY DEF Stopping
<1>3. conf'[t] \in {conf[t], l} /\ (conf[t] # None => conf'[t] # None)
  BY <1>1, <1>2 DEF Acts, Wires, Serves, At, ConnectSteps
<1>4. /\ link'[t] \in {None, l} /\ (t \in active' <=> link'[t] # None)
      /\ t \in active => t \in active'
  BY <1>1, <1>2 DEF Acts, Wires, Serves, Wired, At
<1>5. t \in DOMAIN db' =>
         db'[t].server \in {None, l}
  BY <1>1 DEF Acts, Wires, Wired, GivenOnly, NewTunnel
<1>6. t \in DOMAIN db /\ l # None /\ db[t].server = l => db'[t].server = l
  BY DEF Acts, Wires, GivenOnly
<1>7. ASSUME t \in DOMAIN db', db'[t].support_user # None
      PROVE  Admits(db[t].support_user, t, l)'
  <2>1. CASE t \in DOMAIN db /\ db'[t].support_user = db[t].support_user
    BY <1>1, <1>7, <2>1, AdmitsStays DEF Wired
  <2>2. CASE /\ At(p, "record") /\ Tunnel(p) = t
             /\ proc'[p].pc = "authorize"
             /\ db'[t].support_user = proc[p].user
    <3>1. PICK u : u = proc[p].user
      OBVIOUS
    <3>2. Own(u, t) /\ l # None
      BY <1>1, <2>2, <3>1 DEF Serves, At, ConnectSteps
    <3>3. Own(u, t)'
      BY <3>2, OwnStays
    <3>4. /\ proc'[p].pc = "authorize" /\ proc'[p].tunnel = t
          /\ proc'[p].user = u
      BY <2>2, <3>1 DEF Acts, Advances, At, ConnectSteps
    <3>5. QED
      BY <2>2, <3>1, <3>2, <3>3, <3>4 DEF Admits, At, Tunnel
  <2>3. QED
    BY <1>7, <2>1, <2>2 DEF Acts, NamesUsers
<1>8. QED
  BY <1>1, <1>3, <1>4, <1>5, <1>6, <1>7 DEF Wired

LEMMA ServesStays ==
    ASSUME DInv, NEW p \in Processes, Acts(p), NEW t \in Tunnels, NEW l,
           Connected(t, l), ~ Stopping(t), GivenOnly(p, t, l),
           NEW q \in Processes, proc'[q].tunnel = t
    PROVE  Serves(q, t, l)'
<1>1. /\ Wired(t, l)'
      /\ conf[t] # None => conf'[t] # None
      /\ t \in active => t \in active'
      /\ t \in DOMAIN db /\ l # None /\ db[t].server = l
            => db'[t].server = l
  BY WiresStay
<1>2. CASE proc'[q] = proc[q]
  <2>1. Serves(q, t, l)
    BY <1>2 DEF Connected, Tunnel
  <2>2. proc[q].pc \in ConnectSteps => db'[t].server = l /\ l # None
    <3>1. proc[q].pc \in ConnectSteps => t \in DOMAIN db
      BY <1>2 DEF DInv, ProcessOK, ConnectSteps
    <3>2. QED
      BY <1>1, <2>1, <3>1 DEF Serves
  <2>3. ASSUME proc[q].pc \in {"record", "authorize"}
        PROVE  Own(proc[q].user, t)'
    <3>1. PICK u : u = proc[q].user
      OBVIOUS
    <3>2. Own(u, t)'
      BY <2>1, <2>3, <3>1, OwnStays DEF Serves
    <3>3. QED
      BY <1>2, <3>1, <3>2 DEF Own
  <2>4. QED
    BY <1>1, <1>2, <2>1, <2>2, <2>3 DEF Serves, At
<1>3. CASE q = p /\ proc'[p].pc \in ConnectSteps
  <2>1. Tunnel(p) = t /\ proc[p].pc # "loop" /\ proc[p].pc # "idle"
    BY <1>3 DEF Acts, Advances, At
  <2>2. Serves(p, t, l)
    BY <2>1 DEF Connected
  <2>3. t \in DOMAIN db
    BY <2>1 DEF DInv, ProcessOK, Tunnel
  <2>4. l # None /\ db'[t].server = l
    <3>1. CASE At(p, "details")
      BY <1>3, <2>1, <3>1 DEF GivenOnly, Acts, Advances, At
    <3>2. CASE ~ At(p, "details")
      BY <1>1, <1>3, <2>2, <2>3, <3>2
      DEF Acts, Advances, Serves, At, ConnectSteps
    <3>3. QED
      BY <3>1, <3>2
  <2>5. ASSUME proc'[p].pc \in {"record", "authorize"}
        PROVE  Own(proc[p].user, t)'
    <3>1. PICK u : u = proc'[p].user
      OBVIOUS
    <3>2. Own(u, t)'
      <4>1. CASE At(p, "record")
        <5>1. u = proc[p].user
          BY <1>3, <3>1, <4>1 DEF Acts, Advances, At
        <5>2. QED
          BY <2>2, <4>1, <5>1, OwnStays DEF Serves, At
      <4>2. CASE At(p, "user") /\ u \in Fresh \cap DOMAIN accounts'
        <5>1. u # None
          BY <4>2, NoneIsNoValue DEF Fresh
        <5>2. \A s \in DOMAIN db' : db'[s].support_user # u
          BY <4>2, <5>1 DEF Acts, NamesUsers, Fresh, At
        <5>3. ASSUME NEW r \in Processes, proc'[r].tunnel # t
              PROVE  /\ proc'[r].user # u
                     /\ proc'[r].pc = "deluser"
                           => proc'[r].loaded.support_user # u
          <6>1. proc'[r] = proc[r]
            BY <1>3, <5>3 DEF Acts, Advances
          <6>2. QED
            BY <4>2, <6>1 DEF Fresh, At
        <5>4. QED
          BY <4>2, <5>2, <5>3 DEF Own, At, Tunnel
      <4>3. QED
        BY <1>3, <2>5, <3>1, <4>1, <4>2 DEF Acts, Advances, At
    <3>3. QED
      BY <3>1, <3>2 DEF Own
  <2>6. proc'[p].pc = "config" => proc'[p].loaded.server = l
    BY <1>3, <2>1, <2>2 DEF Acts, Advances, Serves, At, ConnectSteps
  <2>7. proc'[p].pc \in {"enable", "start"} => conf'[t] # None
    <3>1. CASE At(p, "config")
      BY <2>1, <2>2, <3>1 DEF Acts, Wires, Serves, At, StopSteps, ConnectSteps
    <3>2. CASE At(p, "enable")
      BY <1>1, <2>2, <3>2 DEF Serves
    <3>3. QED
      BY <1>3, <3>1, <3>2 DEF Acts, Advances, At
  <2>8. proc'[p].pc \in {"commit", "report"} => t \in active'
    BY <1>1, <1>3, <2>1, <2>2 DEF Acts, Advances, Serves, At
  <2>9. QED
    BY <1>3, <2>4, <2>5, <2>6, <2>7, <2>8 DEF Serves, At, ConnectSteps
<1>4. CASE q = p /\ proc'[p].pc \notin ConnectSteps
  <2>1. proc'[p].pc # "unstart"
    BY <1>4 DEF Acts, Advances, Connected, Wired, Serves
  <2>2. QED
    BY <1>4, <2>1 DEF Serves, At, ConnectSteps
<1>5. QED
  BY <1>2, <1>3, <1>4 DEF Acts, Advances

LEMMA ConnectedStays ==
    ASSUME DInv, [Next]_vars, faults' = faults, NEW t \in Tunnels, NEW l,
           Connected(t, l), ~ Stopping(t),
           \A p \in Processes : GivenOnly(p, t, l)
    PROVE  /\ Connected(t, l)'
           /\ \A u : Admits(u, t, l) => Admits(u, t, l)'
           /\ t \in active => t \in active'
<1>1. CASE UNCHANGED <<db, host, proc>>
  BY <1>1 DEF host, Connected, Wired, Serves, Admits, Own, At, Tunnel
<1>2. ASSUME NEW p \in Processes, Acts(p)
      PROVE  /\ Connected(t, l)'
             /\ \A u : Admits(u, t, l) => Admits(u, t, l)'
             /\ t \in active => t \in active'
  <2>1. Wired(t, l)' /\ (t \in active => t \in active')
    BY <1>2, WiresStay
  <2>2. ASSUME NEW q \in Processes, proc'[q].tunnel = t
        PROVE  Serves(q, t, l)'
    BY <1>2, <2>2, ServesStays
  <2>3. \A u : Admits(u, t, l) => Admits(u, t, l)'
    BY <1>2, AdmitsStays
  <2>4. QED
    BY <2>1, <2>2, <2>3 DEF Connected, Tunnel
<1>3. QED
  BY <1>1, <1>2, CalmActs

(* A tunnel no server was launched for has nothing on the device, and any  *)
(* launch may be its first.                                                *)
LEMMA ConnectedAnew ==
    ASSUME NEW t, NEW l
    PROVE  /\ Connected(t, None) => Connected(t, l)
           /\ Connected(t, None)' => Connected(t, l)'
BY DEF Connected, Wired, Serves, Admits, At, ConnectSteps

LEMMA InitConnected ==
    ASSUME Init, NEW t \in Tunnels, NEW l
    PROVE  Connected(t, l)
BY DEF Init, Connected, Wired, Serves, At, Idle, ConnectSteps

(* A stop that does not fail goes on until the API has been asked, unless  *)
(* the tunnel has expired.                                                 *)
LEMMA StopGoesOn ==
    ASSUME DInv, [Next]_vars, faults' = faults, NEW p \in Processes,
           proc[p].pc \in StopSteps
    PROVE  \/ proc'[p].pc \in StopSteps /\ proc'[p].tunnel = Tunnel(p)
           \/ At(p, "notify")
           \/ Tunnel(p) \in expired
<1>1. CASE proc'[p] = proc[p]
  BY <1>1 DEF Tunnel
<1>2. CASE StopStep(p)
  BY <1>2 DEF StopStep, load_stopped_row, delete_user, PastUser, stop_unit,
       disable_unit, remove_config, commit_closed, notify_stopped, Goto,
       Tunnel, DInv, Process, StopSteps
<1>3. ASSUME NEW q \in Processes,
             \/ q \in Shells /\ Command(q)
             \/ q \in Collectors /\ gc(q)
             \/ Step(q)
      PROVE  proc'[p] = proc[p] \/ StopStep(p)
  <2>1. Acts(q)
    BY <1>3, StepActs
  <2>2. CASE q # p
    BY <2>1, <2>2 DEF Acts, Advances
  <2>3. CASE q = p
    <3>1. proc[p].pc \notin ConnectSteps \cup UndoSteps
                                \cup {"idle", "loop", "details"}
      BY DEF StopSteps, ConnectSteps, UndoSteps
    <3>2. ~ Take(p) /\ ~ ConnectStep(p)
      BY <3>1
      DEF Take, ConnectStep, request_tunnel_server_details,
          cannot_request_details, create_user, record_user,
          add_authorized_key, load_row, write_wireguard_config,
          enable_wireguard_tunnel, start_wireguard_tunnel, undo_start,
          undo_enable, commit_running, send_connected_status_to_api, At,
          ConnectSteps, UndoSteps
    <3>3. (Command(p) \/ gc(p)) => proc'[p] = proc[p]
      BY <3>1 DEF Command, connect_approved_tunnels, request, connect, stop,
         gc, Start, At
    <3>4. QED
      BY <1>3, <2>3, <3>2, <3>3 DEF Step
  <2>4. QED
    BY <2>2, <2>3
<1>4. CASE UNCHANGED proc
  BY <1>1, <1>4
<1>5. QED
  <2>1. ~ Fault
    BY DEF Fault, DInv, HostOK
  <2>2. QED
    BY <1>1, <1>2, <1>3, <1>4, <2>1
    DEF Next, ConnectFails, CommandSkipped, Aborts, Reboot, Expire, vars,
        Processes
=============================================================================
