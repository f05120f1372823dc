----------------------- MODULE DeviceCliOrderly_proofs ----------------------
(***************************************************************************)
(* Proof that a device in good order does what its table says, for any     *)
(* number of tunnels, launches, users, processes and reboots.              *)
(*                                                                         *)
(* HostMatchesTable speaks of the moments when no command is at work; OInv *)
(* says of each step of connect and of stop how far the host has got: all  *)
(* tunnels but the one it works on match the table, and that one has come  *)
(* as far as the steps before have brought it.                             *)
(***************************************************************************)
EXTENDS DeviceCli_proofs

(* The unit of t is up and talks to the server of launch l; or there is    *)
(* none.                                                                   *)
Up(t, l) ==
    /\ l # None
    /\ conf[t] = l
    /\ t \in enabled \cap active
    /\ link[t] = l

Down(t) ==
    /\ conf[t] = None
    /\ t \notin enabled
    /\ t \notin active
    /\ link[t] = None

IsRunning(t) == t \in DOMAIN db /\ db[t].state = running

UnitMatches(t) == IF IsRunning(t) THEN Up(t, db[t].server) ELSE Down(t)

LetsIn(u, l) == u \in DOMAIN accounts /\ accounts[u] = l

UserMatches(t) ==
    t \in DOMAIN db =>
        IF IsRunning(t) THEN LetsIn(db[t].support_user, db[t].server)
        ELSE db[t].support_user \notin DOMAIN accounts

Settled(t) == UnitMatches(t) /\ UserMatches(t)

(* How far connect, and stop, as the process q, have got with tunnel t.    *)
(* connect begins with a tunnel that is not running, of which nothing is   *)
(* on the host; nothing ever has to be undone.                             *)
ConnectGot(q, t) ==
    /\ q.pc \in {"details", "user", "record"} => Settled(t) /\ ~ IsRunning(t)
    /\ q.pc = "record" => /\ q.user \in DOMAIN accounts
                          /\ \A s \in DOMAIN db : db[s].support_user # q.user
    /\ q.pc = "authorize" => /\ q.user = db[t].support_user
                             /\ q.user \in DOMAIN accounts
    /\ q.pc \in {"load", "config", "enable", "start", "commit", "report"}
          => LetsIn(db[t].support_user, db[t].server)
    /\ q.pc \in {"authorize", "load", "config"} => Down(t) /\ ~ IsRunning(t)
    /\ q.pc \in {"config", "enable", "start", "commit"} => q.loaded = db[t]
    /\ q.pc \in {"enable", "start"}
          => conf[t] = db[t].server /\ t \notin active /\ link[t] = None
    /\ q.pc = "start" => t \in enabled
    /\ q.pc \in {"commit", "report"} => Up(t, db[t].server)
    /\ q.pc = "report" => IsRunning(t)
    /\ q.pc \notin UndoSteps

StopGot(q, t) ==
    /\ q.pc \in {"snapshot", "deluser"} => Settled(t)
    /\ q.pc = "deluser" => q.loaded = db[t]
    /\ q.pc \in {"down", "disable", "remove", "close"}
          => /\ q.loaded.state = db[t].state
             /\ db[t].support_user \notin DOMAIN accounts
    /\ q.pc = "down" => Up(t, db[t].server) \/ Down(t)
    /\ q.pc \in {"disable", "remove", "close"}
          => t \notin active /\ link[t] = None
    /\ q.pc \in {"remove", "close"} => t \notin enabled
    /\ q.pc = "close" => conf[t] = None
    /\ q.pc = "notify" => Settled(t) /\ ~ IsRunning(t)

Got(q, t) == ConnectGot(q, t) /\ StopGot(q, t)

AtWork(p) == proc[p].pc \notin {"idle", "loop"}

WorksOn(p, t) == AtWork(p) /\ Tunnel(p) = t

(* No two tunnels have the same user on record.                            *)
UsersApart ==
    \A s, t \in DOMAIN db :
        s # t /\ db[s].support_user = db[t].support_user
            => db[s].support_user = None

(* Every user on the host is on record, or about to be.                    *)
UsersOwned ==
    \A u \in DOMAIN accounts :
        \/ \E t \in DOMAIN db : db[t].support_user = u
        \/ \E p \in Processes : At(p, "record") /\ proc[p].user = u

UsersOK == UsersApart /\ UsersOwned

OInv ==
    /\ DInv
    /\ OneAtATime
    /\ UsersOK
    /\ \A t \in Tunnels :
          Settled(t) \/ \E p \in Processes : WorksOn(p, t)
    /\ \A p \in Processes : AtWork(p) => Got(proc[p], Tunnel(p))

-----------------------------------------------------------------------------
(* What a step leaves alone: a tunnel's unit, what its row says of the     *)
(* host, and the account of its user.                                      *)
UnitKept(t) ==
    /\ conf'[t] = conf[t]
    /\ t \in enabled' <=> t \in enabled
    /\ t \in active' <=> t \in active
    /\ link'[t] = link[t]

RowKept(t) ==
    /\ t \in DOMAIN db' <=> t \in DOMAIN db
    /\ t \in DOMAIN db => /\ db'[t].state = db[t].state
                          /\ db'[t].support_user = db[t].support_user
                          /\ IsRunning(t) => db'[t].server = db[t].server

AccountKept(u) ==
    /\ u \in DOMAIN accounts' <=> u \in DOMAIN accounts
    /\ u \in DOMAIN accounts => accounts'[u] = accounts[u]

LeftAlone(t) ==
    /\ UnitKept(t)
    /\ RowKept(t)
    /\ t \in DOMAIN db => AccountKept(db[t].support_user)

LEMMA SettledStays ==
    ASSUME NEW t, Settled(t), LeftAlone(t)
    PROVE  Settled(t)'
BY DEF Settled, LeftAlone, UnitKept, RowKept, AccountKept, UnitMatches,
       UserMatches, IsRunning, Up, Down, LetsIn

LEMMA AllLeftAlone ==
    ASSUME UNCHANGED host, NEW t, RowKept(t)
    PROVE  LeftAlone(t)
BY DEF LeftAlone, UnitKept, AccountKept, host

(* The turn of process p on tunnel t.                                      *)
LEMMA Alone ==
    ASSUME OInv, NEW p \in Processes, Busy(p)
    PROVE  /\ \A r \in Processes \ {p} : proc[r].pc = "idle"
           /\ \A t \in Tunnels : Settled(t) \/ WorksOn(p, t)
BY DEF OInv, OneAtATime, Busy, WorksOn, AtWork

(* A step of a process p that works on t, or turns to t.                   *)
LEMMA TurnStep ==
    ASSUME OInv, DInv', UsersOK', NEW p \in Processes, NEW t \in Tunnels,
           \A r \in Processes \ {p} : proc[r].pc = "idle" /\ proc'[r] = proc[r],
           \A s \in Tunnels \ {t} : LeftAlone(s) /\ ~ WorksOn(p, s),
           \/ proc'[p].pc \in {"idle", "loop"} /\ Settled(t)'
           \/ WorksOn(p, t)' /\ Got(proc[p], t)'
    PROVE  OInv'
<1>1. OneAtATime'
  BY DEF OneAtATime, Busy
<1>2. ASSUME NEW s \in Tunnels \ {t} PROVE Settled(s)'
  <2>1. Settled(s)
    BY DEF OInv, WorksOn, AtWork
  <2>2. QED
    BY <2>1, SettledStays
<1>3. (\A s \in Tunnels : Settled(s) \/ \E r \in Processes : WorksOn(r, s))'
  BY <1>2
<1>4. ASSUME NEW r \in Processes, AtWork(r)'
      PROVE  Got(proc[r], Tunnel(r))'
  <2>1. r = p
    BY <1>4 DEF AtWork
  <2>2. WorksOn(p, t)' /\ Got(proc[p], t)'
    BY <1>4, <2>1 DEF AtWork
  <2>3. QED
    BY <2>1, <2>2 DEF WorksOn, Got
<1>5. QED
  BY <1>1, <1>3, <1>4 DEF OInv

(* A process at work has come as far as its step says.                     *)
LEMMA InTurn ==
    ASSUME OInv, NEW p \in Processes, AtWork(p)
    PROVE  /\ proc \in [Processes -> Process]
           /\ Tunnel(p) \in DOMAIN db
           /\ Tunnel(p) \in Tunnels
           /\ db[Tunnel(p)] \in Row
           /\ ProcessOK(proc[p])
           /\ Got(proc[p], Tunnel(p))
           /\ \A r \in Processes \ {p} : proc[r].pc = "idle"
           /\ \A s \in Tunnels \ {Tunnel(p)} : Settled(s) /\ ~ WorksOn(p, s)
<1>1. proc \in [Processes -> Process] /\ ProcessOK(proc[p])
  BY DEF OInv, DInv
<1>2. Tunnel(p) \in DOMAIN db
  BY <1>1 DEF ProcessOK, AtWork, Tunnel
<1>3. Tunnel(p) \in Tunnels /\ db[Tunnel(p)] \in Row
  BY <1>2 DEF OInv, DInv, TableOK
<1>4. Busy(p)
  BY DEF Busy, AtWork
<1>5. QED
  BY <1>1, <1>2, <1>3, <1>4, Alone DEF OInv, WorksOn

(* Process p goes on with its tunnel.                                      *)
LEMMA GotoTurn ==
    ASSUME OInv, DInv', UsersOK', NEW p \in Processes, AtWork(p),
           NEW t \in Tunnels, t = Tunnel(p),
           NEW q, q.pc \notin {"idle", "loop"}, q.tunnel = t,
           proc' = [proc EXCEPT ![p] = q],
           \A s \in Tunnels \ {t} : LeftAlone(s),
           Got(q, t)'
    PROVE  OInv'
<1>1. /\ proc'[p] = q
      /\ \A r \in Processes \ {p} : proc[r].pc = "idle" /\ proc'[r] = proc[r]
      /\ \A s \in Tunnels \ {t} : ~ WorksOn(p, s)
  BY InTurn
<1>2. WorksOn(p, t)'
  BY <1>1 DEF WorksOn, AtWork, Tunnel
<1>3. Got(proc[p], t)'
  BY <1>1 DEF Got, ConnectGot, StopGot, UndoSteps
<1>4. QED
  BY <1>1, <1>2, <1>3, TurnStep

(* Process p is done with its tunnel, and has left it settled.             *)
LEMMA DoneTurn ==
    ASSUME OInv, DInv', UsersOK', NEW p \in Processes, AtWork(p), Done(p),
           NEW t \in Tunnels, t = Tunnel(p), Settled(t)',
           \A s \in Tunnels \ {t} : LeftAlone(s)
    PROVE  OInv'
<1>1. /\ proc'[p].pc \in {"idle", "loop"}
      /\ \A r \in Processes \ {p} : proc'[r] = proc[r]
  BY InTurn DEF Done, Rest, Working, Idle
<1>2. QED
  BY <1>1, InTurn, TurnStep

(* No user is added, and only the columns of a row are written that say    *)
(* nothing of users.                                                       *)
LEMMA UsersKept ==
    ASSUME OInv, \A p \in Processes : ~ At(p, "record"),
           DOMAIN accounts' \subseteq DOMAIN accounts,
           DOMAIN db' = DOMAIN db,
           \A t \in DOMAIN db : db'[t].support_user = db[t].support_user
    PROVE  UsersOK'
BY DEF OInv, UsersOK, UsersApart, UsersOwned

LEMMA UsersKeptInTurn ==
    ASSUME OInv, NEW p \in Processes, proc[p].pc \notin {"idle", "record"},
           DOMAIN accounts' \subseteq DOMAIN accounts,
           DOMAIN db' = DOMAIN db,
           \A t \in DOMAIN db : db'[t].support_user = db[t].support_user
    PROVE  UsersOK'
<1>1. \A r \in Processes : ~ At(r, "record")
  BY Alone DEF At, Busy
<1>2. QED
  BY <1>1, UsersKept

-----------------------------------------------------------------------------
(* The steps of connect.                                                   *)
LEMMA DetailsTurn ==
    ASSUME OInv, DInv', NEW p \in Processes, NEW l \in Launches,
           request_tunnel_server_details(p, l)
    PROVE  OInv'
<1>1. proc[p].pc = "details" /\ AtWork(p)
  BY DEF request_tunnel_server_details, At, AtWork
<1>2. PICK t \in Tunnels : t = Tunnel(p)
  BY <1>1, InTurn
<1>3. PICK q \in Process : q = [proc[p] EXCEPT !.pc = "user"]
  BY <1>1, InTurn DEF Process, ConnectSteps
<1>4. /\ proc' = [proc EXCEPT ![p] = q]
      /\ q.pc = "user" /\ q.tunnel = t
  BY <1>1, <1>2, <1>3, InTurn
     DEF request_tunnel_server_details, Goto, Tunnel, Process
<1>5. /\ DOMAIN db' = DOMAIN db
      /\ \A s \in DOMAIN db :
            /\ s # t => db'[s] = db[s]
            /\ db'[s].state = db[s].state
            /\ db'[s].support_user = db[s].support_user
      /\ Settled(t) /\ ~ IsRunning(t)
      /\ UNCHANGED host
  BY <1>1, <1>2, InTurn
     DEF request_tunnel_server_details, Row, Got, ConnectGot
<1>6. \A s : LeftAlone(s)
  <2>1. \A s : RowKept(s)
    BY <1>5 DEF RowKept
  <2>2. QED
    BY <1>5, <2>1, AllLeftAlone
<1>7. UsersOK'
  BY <1>1, <1>5, UsersKeptInTurn DEF host
<1>8. Settled(t)' /\ ~ IsRunning(t)'
  <2>1. Settled(t)'
    BY <1>5, <1>6, SettledStays
  <2>2. QED
    BY <1>5, <2>1 DEF IsRunning
<1>9. Got(q, t)'
  BY <1>4, <1>8 DEF Got, ConnectGot, StopGot, UndoSteps
<1>10. QED
  BY <1>1, <1>2, <1>4, <1>6, <1>7, <1>9, GotoTurn

LEMMA LastTurn ==
    ASSUME OInv, DInv', NEW p \in Processes,
           \/ cannot_request_details(p)
           \/ send_connected_status_to_api(p)
           \/ notify_stopped(p)
    PROVE  OInv'
<1>1. /\ proc[p].pc \in {"details", "report", "notify"} /\ AtWork(p) /\ Done(p)
      /\ UNCHANGED <<db, host>>
  BY DEF cannot_request_details, send_connected_status_to_api, notify_stopped,
         At, AtWork
<1>2. PICK t \in Tunnels : t = Tunnel(p)
  BY <1>1, InTurn
<1>3. \A s : LeftAlone(s)
  BY <1>1, AllLeftAlone DEF RowKept
<1>4. Settled(t)
  BY <1>1, <1>2, InTurn
     DEF Got, ConnectGot, StopGot, UndoSteps, Settled, UnitMatches, UserMatches
<1>5. Settled(t)'
  BY <1>3, <1>4, SettledStays
<1>6. UsersOK'
  BY <1>1, UsersKeptInTurn DEF host
<1>7. QED
  BY <1>1, <1>2, <1>3, <1>5, <1>6, DoneTurn

LEMMA CreateUserTurn ==
    ASSUME OInv, DInv', NEW p \in Processes, create_user(p)
    PROVE  OInv'
<1>1. proc[p].pc = "user" /\ AtWork(p) /\ UNCHANGED db
  BY DEF create_user, At, AtWork
<1>2. PICK t \in Tunnels : t = Tunnel(p)
  BY <1>1, InTurn
<1>3. /\ \A r \in Processes : ~ At(r, "record")
      /\ UsersApart'
  BY <1>1, InTurn DEF At, OInv, UsersOK, UsersApart
<1>4. Settled(t) /\ ~ IsRunning(t)
  BY <1>1, <1>2, InTurn DEF Got, ConnectGot
<1>5. ASSUME NEW u \in Fresh,
             accounts' = [v \in DOMAIN accounts \cup {u} |->
                             IF v = u THEN None ELSE accounts[v]],
             proc' = [proc EXCEPT ![p].pc = "record", ![p].user = u]
      PROVE  OInv'
  <2>1. u \notin DOMAIN accounts /\ \A s \in DOMAIN db : db[s].support_user # u
    BY DEF Fresh
  <2>2. \A s : LeftAlone(s)
    BY <1>1, <1>5, <2>1
       DEF create_user, LeftAlone, UnitKept, RowKept, AccountKept
  <2>3. PICK q : q = [proc[p] EXCEPT !.pc = "record", !.user = u]
    OBVIOUS
  <2>4. /\ proc' = [proc EXCEPT ![p] = q]
        /\ q.pc = "record" /\ q.tunnel = t /\ q.user = u
    BY <1>1, <1>2, <1>5, <2>3, InTurn DEF Tunnel, Process
  <2>5. Settled(t)' /\ ~ IsRunning(t)'
    BY <1>1, <1>4, <2>2, SettledStays DEF IsRunning
  <2>6. Got(q, t)'
    BY <1>1, <1>5, <2>1, <2>4, <2>5 DEF Got, ConnectGot, StopGot, UndoSteps
  <2>7. UsersOK'
    <3>1. proc'[p] = q
      BY <1>1, <2>4, InTurn
    <3>2. DOMAIN accounts' = DOMAIN accounts \cup {u}
      BY <1>5
    <3>3. UsersOwned'
      BY <1>1, <1>3, <2>4, <3>1, <3>2 DEF OInv, UsersOK, UsersOwned, At
    <3>4. QED
      BY <1>3, <3>3 DEF UsersOK
  <2>8. QED
    BY <1>1, <1>2, <2>2, <2>4, <2>6, <2>7, GotoTurn
<1>6. ASSUME Done(p), UNCHANGED accounts
      PROVE  OInv'
  <2>1. \A s : LeftAlone(s)
    BY <1>1, <1>6, AllLeftAlone DEF create_user, RowKept, host
  <2>2. Settled(t)'
    BY <1>4, <2>1, SettledStays
  <2>3. UsersOK'
    BY <1>1, <1>6, UsersKeptInTurn
  <2>4. QED
    BY <1>1, <1>2, <1>6, <2>1, <2>2, <2>3, DoneTurn
<1>7. QED
  BY <1>5, <1>6 DEF create_user

LEMMA RecordUserTurn ==
    ASSUME OInv, DInv', NEW p \in Processes, record_user(p)
    PROVE  OInv'
<1>1. proc[p].pc = "record" /\ AtWork(p) /\ UNCHANGED host
  BY DEF record_user, At, AtWork
<1>2. PICK t \in Tunnels : t = Tunnel(p)
  BY <1>1, InTurn
<1>3. PICK u : u = proc[p].user
  OBVIOUS
<1>4. /\ DOMAIN db' = DOMAIN db
      /\ db'[t].state = db[t].state
      /\ db'[t].support_user = u
      /\ \A s \in DOMAIN db : s # t => db'[s] = db[s]
  BY <1>1, <1>2, <1>3, InTurn DEF record_user, Row
<1>5. /\ u \in DOMAIN accounts /\ Settled(t) /\ ~ IsRunning(t)
      /\ \A s \in DOMAIN db : db[s].support_user # u
  BY <1>1, <1>2, <1>3, InTurn DEF Got, ConnectGot
<1>6. UsersOK'
  <2>1. UsersApart'
    BY <1>4, <1>5 DEF OInv, UsersOK, UsersApart
  <2>2. t \in DOMAIN db /\ db[t].support_user \notin DOMAIN accounts
    BY <1>1, <1>2, <1>5, InTurn DEF Settled, UserMatches
  <2>3. \A r \in Processes : At(r, "record") => proc[r].user = u
    BY <1>1, <1>3, InTurn DEF At
  <2>4. UsersOwned'
    BY <1>1, <1>4, <2>2, <2>3 DEF OInv, UsersOK, UsersOwned, host
  <2>5. QED
    BY <2>1, <2>4 DEF UsersOK
<1>7. \A s \in Tunnels \ {t} : LeftAlone(s)
  BY <1>1, <1>4, AllLeftAlone DEF RowKept
<1>8. PICK q : q = [proc[p] EXCEPT !.pc = "authorize"]
  OBVIOUS
<1>9. /\ proc' = [proc EXCEPT ![p] = q]
      /\ q.pc = "authorize" /\ q.tunnel = t /\ q.user = u
  BY <1>1, <1>2, <1>3, <1>8, InTurn DEF record_user, Goto, Tunnel, Process
<1>10. Down(t)' /\ ~ IsRunning(t)'
  BY <1>1, <1>4, <1>5 DEF Settled, UnitMatches, IsRunning, Down, host
<1>11. Got(q, t)'
  BY <1>1, <1>4, <1>5, <1>9, <1>10 DEF Got, ConnectGot, StopGot, UndoSteps, host
<1>12. QED
  BY <1>1, <1>2, <1>6, <1>7, <1>9, <1>11, GotoTurn

LEMMA AuthorizeTurn ==
    ASSUME OInv, DInv', NEW p \in Processes, add_authorized_key(p)
    PROVE  OInv'
<1>1. /\ proc[p].pc = "authorize" /\ AtWork(p)
      /\ UNCHANGED <<db, conf, enabled, active, link>>
  BY DEF add_authorized_key, At, AtWork
<1>2. PICK t \in Tunnels : t = Tunnel(p)
  BY <1>1, InTurn
<1>3. PICK u : u = proc[p].user
  OBVIOUS
<1>4. /\ u \in DOMAIN accounts /\ u = db[t].support_user
      /\ Down(t) /\ ~ IsRunning(t)
  BY <1>1, <1>2, <1>3, InTurn DEF Got, ConnectGot
<1>5. u # None /\ db[t].server # None
  BY <1>1, <1>2, <1>4, InTurn DEF ProcessOK, Recorded, ConnectSteps, Tunnel
<1>6. PICK q : q = [proc[p] EXCEPT !.pc = "load", !.user = None]
  OBVIOUS
<1>7. /\ accounts' = [accounts EXCEPT ![u] = db[t].server]
      /\ proc' = [proc EXCEPT ![p] = q]
      /\ q.pc = "load" /\ q.tunnel = t
  <2>1. /\ accounts' = [accounts EXCEPT ![u] = db[t].server]
        /\ proc' = [proc EXCEPT ![p].pc = "load", ![p].user = None]
    BY <1>2, <1>3, <1>4 DEF add_authorized_key
  <2>2. proc' = [proc EXCEPT ![p] = q]
    BY <1>1, <1>6, <2>1, InTurn
  <2>3. q.pc = "load" /\ q.tunnel = t
    BY <1>1, <1>2, <1>6, InTurn DEF Tunnel, Process
  <2>4. QED
    BY <2>1, <2>2, <2>3
<1>8. UsersOK'
  BY <1>1, <1>7, UsersKeptInTurn
<1>9. \A s \in Tunnels \ {t} : LeftAlone(s)
  BY <1>1, <1>2, <1>4, <1>5, <1>7, InTurn
     DEF LeftAlone, UnitKept, RowKept, AccountKept, OInv, UsersOK, UsersApart
<1>10. LetsIn(db[t].support_user, db[t].server)'
  BY <1>1, <1>4, <1>5, <1>7 DEF LetsIn
<1>11. Down(t)' /\ ~ IsRunning(t)'
  BY <1>1, <1>4 DEF IsRunning, Down
<1>12. Got(q, t)'
  BY <1>7, <1>10, <1>11 DEF Got, ConnectGot, StopGot, UndoSteps
<1>13. QED
  BY <1>1, <1>2, <1>7, <1>8, <1>9, <1>12, GotoTurn

(* connect and stop load the row they are going to use.                    *)
LEMMA LoadTurn ==
    ASSUME OInv, DInv', NEW p \in Processes,
           load_row(p) \/ load_stopped_row(p)
    PROVE  OInv'
<1>1. /\ proc[p].pc \in {"load", "snapshot"} /\ AtWork(p)
      /\ UNCHANGED <<db, host>>
  BY DEF load_row, load_stopped_row, At, AtWork
<1>2. PICK t \in Tunnels : t = Tunnel(p)
  BY <1>1, InTurn
<1>3. PICK q : q = [proc[p] EXCEPT !.pc = IF proc[p].pc = "load" THEN "config"
                                          ELSE "deluser",
                                   !.loaded = db[t]]
  OBVIOUS
<1>4. /\ proc' = [proc EXCEPT ![p] = q]
      /\ q.pc = IF proc[p].pc = "load" THEN "config" ELSE "deluser"
      /\ q.tunnel = t /\ q.loaded = db[t]
  <2>1. CASE load_row(p)
    <3>1. /\ proc[p].pc = "load"
          /\ proc' = [proc EXCEPT ![p].pc = "config", ![p].loaded = db[t]]
      BY <1>2, <2>1 DEF load_row, At
    <3>2. proc' = [proc EXCEPT ![p] = q]
      BY <1>1, <1>3, <3>1, InTurn
    <3>3. q.pc = IF proc[p].pc = "load" THEN "config" ELSE "deluser"
      BY <1>1, <1>3, InTurn DEF Process
    <3>4. q.tunnel = t /\ q.loaded = db[t]
      BY <1>1, <1>2, <1>3, InTurn DEF Tunnel, Process
    <3>5. QED
      BY <3>2, <3>3, <3>4
  <2>2. CASE load_stopped_row(p)
    <3>1. /\ proc[p].pc = "snapshot"
          /\ proc' = [proc EXCEPT ![p].pc = "deluser", ![p].loaded = db[t]]
      BY <1>2, <2>2 DEF load_stopped_row, At
    <3>2. proc' = [proc EXCEPT ![p] = q]
      BY <1>1, <1>3, <3>1, InTurn
    <3>3. q.pc = IF proc[p].pc = "load" THEN "config" ELSE "deluser"
      BY <1>1, <1>3, InTurn DEF Process
    <3>4. q.tunnel = t /\ q.loaded = db[t]
      BY <1>1, <1>2, <1>3, InTurn DEF Tunnel, Process
    <3>5. QED
      BY <3>2, <3>3, <3>4
  <2>3. QED
    BY <2>1, <2>2
<1>5. \A s : LeftAlone(s)
  BY <1>1, AllLeftAlone DEF RowKept
<1>6. UsersOK'
  BY <1>1, UsersKeptInTurn DEF host
<1>7. Got(proc[p], t)
  BY <1>1, <1>2, InTurn
<1>8. Got(q, t)'
  <2>1. CASE proc[p].pc = "load"
    <3>1. /\ LetsIn(db[t].support_user, db[t].server)
          /\ Down(t) /\ ~ IsRunning(t)
      BY <1>7, <2>1 DEF Got, ConnectGot
    <3>2. /\ LetsIn(db[t].support_user, db[t].server)'
          /\ Down(t)' /\ ~ IsRunning(t)'
      BY <1>1, <3>1 DEF LetsIn, IsRunning, Down, host
    <3>3. q.pc = "config" /\ q.loaded = db'[t]
      BY <1>1, <1>4, <2>1
    <3>4. QED
      BY <3>2, <3>3 DEF Got, ConnectGot, StopGot, UndoSteps
  <2>2. CASE proc[p].pc = "snapshot"
    <3>1. Settled(t)
      BY <1>7, <2>2 DEF Got, StopGot
    <3>2. Settled(t)'
      BY <1>5, <3>1, SettledStays
    <3>3. q.pc = "deluser" /\ q.loaded = db'[t]
      BY <1>1, <1>4, <2>2
    <3>4. QED
      BY <3>2, <3>3 DEF Got, ConnectGot, StopGot, UndoSteps
  <2>3. QED
    BY <1>1, <2>1, <2>2
<1>9. QED
  BY <1>1, <1>2, <1>4, <1>5, <1>6, <1>8, GotoTurn

LEMMA ConfigTurn ==
    ASSUME OInv, DInv', NEW p \in Processes,
           write_wireguard_config(p) \/ enable_wireguard_tunnel(p)
    PROVE  OInv'
<1>1. /\ proc[p].pc \in {"config", "enable"} /\ AtWork(p)
      /\ UNCHANGED <<db, accounts, active, link>>
  BY DEF write_wireguard_config, enable_wireguard_tunnel, At, AtWork
<1>2. PICK t \in Tunnels : t = Tunnel(p)
  BY <1>1, InTurn
<1>3. PICK q : q = [proc[p] EXCEPT !.pc = IF proc[p].pc = "config"
                                          THEN "enable" ELSE "start"]
  OBVIOUS
<1>4. /\ proc' = [proc EXCEPT ![p] = q]
      /\ q.pc = IF proc[p].pc = "config" THEN "enable" ELSE "start"
      /\ q.tunnel = t /\ q.loaded = proc[p].loaded
  BY <1>1, <1>2, <1>3, InTurn
     DEF write_wireguard_config, enable_wireguard_tunnel, Goto, At, Tunnel,
         Process
<1>5. UsersOK'
  BY <1>1, UsersKeptInTurn
<1>6. /\ LetsIn(db[t].support_user, db[t].server)
      /\ proc[p].loaded = db[t]
      /\ t \notin active /\ link[t] = None
  BY <1>1, <1>2, InTurn DEF Got, ConnectGot, Down
<1>7. LetsIn(db[t].support_user, db[t].server)' /\ q.loaded = db'[t]
  BY <1>1, <1>4, <1>6 DEF LetsIn
<1>8. CASE write_wireguard_config(p)
  <2>1. proc[p].pc = "config"
    BY <1>8 DEF write_wireguard_config, At
  <2>2. conf' = [conf EXCEPT ![t] = db[t].server] /\ UNCHANGED enabled
    BY <1>2, <1>6, <1>8 DEF write_wireguard_config
  <2>3. conf'[t] = db[t].server /\ \A s \in Tunnels \ {t} : conf'[s] = conf[s]
    BY <1>2, <1>6, <2>2 DEF OInv, DInv, HostOK
  <2>4. \A s \in Tunnels \ {t} : LeftAlone(s)
    BY <1>1, <2>2, <2>3 DEF LeftAlone, UnitKept, RowKept, AccountKept
  <2>5. t \notin active' /\ link'[t] = None /\ conf'[t] = db'[t].server
    BY <1>1, <1>6, <2>3
  <2>6. q.pc = "enable"
    BY <1>4, <2>1
  <2>7. Got(q, t)'
    BY <1>7, <2>5, <2>6 DEF Got, ConnectGot, StopGot, UndoSteps
  <2>8. QED
    BY <1>1, <1>2, <1>4, <1>5, <2>4, <2>6, <2>7, GotoTurn
<1>9. CASE enable_wireguard_tunnel(p)
  <2>1. proc[p].pc = "enable" /\ conf[t] = db[t].server
    BY <1>2, <1>9, <1>1, InTurn
       DEF enable_wireguard_tunnel, At, Got, ConnectGot
  <2>2. enabled' = enabled \cup {t} /\ UNCHANGED conf
    BY <1>2, <1>9 DEF enable_wireguard_tunnel
  <2>3. \A s \in Tunnels \ {t} : LeftAlone(s)
    BY <1>1, <2>2 DEF LeftAlone, UnitKept, RowKept, AccountKept
  <2>4. t \notin active' /\ link'[t] = None /\ conf'[t] = db'[t].server
    BY <1>1, <1>6, <2>1, <2>2
  <2>5. q.pc = "start"
    BY <1>4, <2>1
  <2>6. Got(q, t)'
    BY <1>7, <2>2, <2>4, <2>5 DEF Got, ConnectGot, StopGot, UndoSteps
  <2>7. QED
    BY <1>1, <1>2, <1>4, <1>5, <2>3, <2>5, <2>6, GotoTurn
<1>10. QED
  BY <1>8, <1>9

(* The interface comes up: nothing has to be cleaned up.                   *)
LEMMA StartUnitTurn ==
    ASSUME OInv, DInv', NEW p \in Processes, start_wireguard_tunnel(p)
    PROVE  OInv'
<1>1. /\ proc[p].pc = "start" /\ AtWork(p)
      /\ UNCHANGED <<db, accounts, conf>>
  BY DEF start_wireguard_tunnel, At, AtWork
<1>2. PICK t \in Tunnels : t = Tunnel(p)
  BY <1>1, InTurn
<1>3. /\ LetsIn(db[t].support_user, db[t].server)
      /\ proc[p].loaded = db[t] /\ db[t].server # None
      /\ conf[t] = db[t].server /\ t \in enabled
      /\ t \notin active /\ link[t] = None
  BY <1>1, <1>2, InTurn
     DEF Got, ConnectGot, ProcessOK, ConnectSteps, Tunnel
<1>4. /\ Goto(p, "commit") /\ UNCHANGED enabled
      /\ active' = active \cup {t}
      /\ link' = [link EXCEPT ![t] = conf[t]]
  BY <1>2, <1>3 DEF start_wireguard_tunnel
<1>5. Up(t, db[t].server)' /\ \A s \in Tunnels \ {t} : UnitKept(s)
  BY <1>1, <1>3, <1>4 DEF Up, UnitKept, OInv, DInv, HostOK
<1>6. \A s \in Tunnels \ {t} : LeftAlone(s)
  BY <1>1, <1>5 DEF LeftAlone, RowKept, AccountKept
<1>7. UsersOK'
  BY <1>1, UsersKeptInTurn
<1>8. PICK q : q = [proc[p] EXCEPT !.pc = "commit"]
  OBVIOUS
<1>9. /\ proc' = [proc EXCEPT ![p] = q]
      /\ q.pc = "commit" /\ q.tunnel = t /\ q.loaded = db[t]
  BY <1>1, <1>2, <1>3, <1>4, <1>8, InTurn DEF Goto, Tunnel, Process
<1>10. Got(q, t)'
  BY <1>1, <1>3, <1>5, <1>9 DEF Got, ConnectGot, StopGot, UndoSteps, LetsIn
<1>11. QED
  BY <1>1, <1>2, <1>6, <1>7, <1>9, <1>10, GotoTurn

LEMMA NothingToUndo ==
    ASSUME OInv, NEW p \in Processes
    PROVE  ~ undo_start(p) /\ ~ undo_enable(p)
BY DEF OInv, AtWork, Got, ConnectGot, UndoSteps, undo_start, undo_enable, At

(* No other process has written the row since it was loaded.               *)
LEMMA CommitRunningTurn ==
    ASSUME OInv, DInv', NEW p \in Processes, commit_running(p)
    PROVE  OInv'
<1>1. proc[p].pc = "commit" /\ AtWork(p) /\ UNCHANGED host
  BY DEF commit_running, At, AtWork
<1>2. PICK t \in Tunnels : t = Tunnel(p)
  BY <1>1, InTurn
<1>3. /\ LetsIn(db[t].support_user, db[t].server)
      /\ proc[p].loaded = db[t] /\ Up(t, db[t].server)
  BY <1>1, <1>2, InTurn DEF Got, ConnectGot
<1>4. /\ DOMAIN db' = DOMAIN db
      /\ db'[t].state = running
      /\ db'[t].support_user = db[t].support_user
      /\ db'[t].server = db[t].server
      /\ \A s \in DOMAIN db : s # t => db'[s] = db[s]
  BY <1>1, <1>2, <1>3, InTurn DEF commit_running, Row, Written
<1>5. UsersOK'
  BY <1>1, <1>4, UsersKeptInTurn DEF host
<1>6. \A s \in Tunnels \ {t} : LeftAlone(s)
  BY <1>1, <1>4, AllLeftAlone DEF RowKept
<1>7. PICK q : q = [proc[p] EXCEPT !.pc = "report", !.loaded = None]
  OBVIOUS
<1>8. proc' = [proc EXCEPT ![p] = q]
  <2>1. proc' = [proc EXCEPT ![p].pc = "report", ![p].loaded = None]
    BY DEF commit_running
  <2>2. QED
    BY <1>1, <1>7, <2>1, InTurn
<1>9. q.pc = "report" /\ q.tunnel = t
  BY <1>1, <1>2, <1>7, InTurn DEF Tunnel, Process
<1>10. /\ IsRunning(t)' /\ Up(t, db[t].server)'
       /\ LetsIn(db[t].support_user, db[t].server)'
  BY <1>1, <1>2, <1>3, <1>4, InTurn DEF IsRunning, Up, LetsIn, host
<1>11. Got(q, t)'
  BY <1>9, <1>10 DEF Got, ConnectGot, StopGot, UndoSteps
<1>12. QED
  BY <1>1, <1>2, <1>5, <1>6, <1>8, <1>9, <1>11, GotoTurn

-----------------------------------------------------------------------------
(* The steps of stop.                                                      *)
LEMMA DeleteUserTurn ==
    ASSUME OInv, DInv', NEW p \in Processes, delete_user(p)
    PROVE  OInv'
<1>1. /\ proc[p].pc = "deluser" /\ AtWork(p)
      /\ UNCHANGED <<db, conf, enabled, active, link>>
  BY DEF delete_user, At, AtWork
<1>2. PICK t \in Tunnels : t = Tunnel(p)
  BY <1>1, InTurn
<1>3. Settled(t) /\ proc[p].loaded = db[t]
  BY <1>1, <1>2, InTurn DEF Got, StopGot
<1>4. PICK u : u = db[t].support_user
  OBVIOUS
<1>5. accounts' = [v \in DOMAIN accounts \ {u} |-> accounts[v]]
  BY <1>3, <1>4 DEF delete_user
<1>6. None \notin DOMAIN accounts
  BY NoneIsNoValue DEF OInv, DInv, HostOK
<1>7. \A s \in Tunnels \ {t} : LeftAlone(s)
  BY <1>1, <1>2, <1>4, <1>5, <1>6, InTurn
     DEF LeftAlone, UnitKept, RowKept, AccountKept, OInv, UsersOK, UsersApart
<1>8. UsersOK'
  BY <1>1, <1>5, UsersKeptInTurn
<1>9. PICK q : q = [proc[p] EXCEPT !.pc = "down", !.loaded = OnlyState(@)]
  OBVIOUS
<1>10. /\ proc' = [proc EXCEPT ![p] = q]
       /\ q.pc = "down" /\ q.tunnel = t /\ q.loaded.state = db[t].state
  <2>1. db[t] \in Row
    BY <1>1, <1>2, InTurn DEF OInv, DInv, TableOK, ProcessOK, Tunnel
  <2>2. OnlyState(db[t]).state = db[t].state
    BY <2>1 DEF OnlyState, Row
  <2>3. proc' = [proc EXCEPT ![p] = q]
    BY <1>9, InTurn DEF delete_user, PastUser
  <2>4. QED
    BY <1>1, <1>2, <1>3, <1>9, <2>2, <2>3, InTurn DEF Tunnel, Process
<1>11. (Up(t, db[t].server) \/ Down(t))'
  BY <1>1, <1>3 DEF Settled, UnitMatches, Up, Down
<1>12. db'[t].support_user \notin DOMAIN accounts'
  BY <1>1, <1>4, <1>5
<1>13. Got(q, t)'
  BY <1>1, <1>10, <1>11, <1>12 DEF Got, ConnectGot, StopGot, UndoSteps
<1>14. QED
  BY <1>1, <1>2, <1>7, <1>8, <1>10, <1>13, GotoTurn

(* The unit goes down, is disabled and loses its configuration.            *)
LEMMA UnitGoesTurn ==
    ASSUME OInv, DInv', NEW p \in Processes,
           stop_unit(p) \/ disable_unit(p) \/ remove_config(p)
    PROVE  OInv'
<1>1. /\ proc[p].pc \in {"down", "disable", "remove"} /\ AtWork(p)
      /\ UNCHANGED <<db, accounts>>
  BY DEF stop_unit, disable_unit, remove_config, At, AtWork
<1>2. PICK t \in Tunnels : t = Tunnel(p)
  BY <1>1, InTurn
<1>3. /\ proc[p].loaded.state = db[t].state
      /\ db[t].support_user \notin DOMAIN accounts
  BY <1>1, <1>2, InTurn DEF Got, StopGot
<1>4. UsersOK'
  BY <1>1, UsersKeptInTurn
<1>5. ASSUME NEW pc \in {"disable", "remove", "close"}, Goto(p, pc),
             \A s \in Tunnels \ {t} : UnitKept(s),
             t \notin active', link'[t] = None,
             pc \in {"remove", "close"} => t \notin enabled',
             pc = "close" => conf'[t] = None
      PROVE  OInv'
  <2>1. \A s \in Tunnels \ {t} : LeftAlone(s)
    BY <1>1, <1>5 DEF LeftAlone, RowKept, AccountKept
  <2>2. PICK q : q = [proc[p] EXCEPT !.pc = pc]
    OBVIOUS
  <2>3. /\ proc' = [proc EXCEPT ![p] = q]
        /\ q.pc = pc /\ q.tunnel = t /\ q.loaded.state = db[t].state
    BY <1>1, <1>2, <1>3, <1>5, <2>2, InTurn DEF Goto, Tunnel, Process
  <2>4. Got(q, t)'
    BY <1>1, <1>3, <1>5, <2>3 DEF Got, ConnectGot, StopGot, UndoSteps
  <2>5. QED
    BY <1>1, <1>2, <1>4, <2>1, <2>3, <2>4, GotoTurn
<1>6. CASE stop_unit(p)
  <2>1. proc[p].pc = "down" /\ (Up(t, db[t].server) \/ Down(t))
    BY <1>2, <1>6, <1>1, InTurn DEF stop_unit, At, Got, StopGot
  <2>2. /\ Goto(p, "disable") /\ UNCHANGED <<conf, enabled>>
        /\ active' = active \ {t}
        /\ link' = [link EXCEPT ![t] = IF t \in active /\ conf[t] # None
                                       THEN None ELSE @]
    BY <1>2, <1>6 DEF stop_unit, StopUnit
  <2>3. t \notin active' /\ link'[t] = None
    BY <2>1, <2>2 DEF Up, Down, OInv, DInv, HostOK
  <2>4. \A s \in Tunnels \ {t} : UnitKept(s)
    BY <2>2 DEF UnitKept
  <2>5. QED
    BY <1>5, <2>2, <2>3, <2>4
<1>7. CASE disable_unit(p)
  <2>1. t \notin active /\ link[t] = None
    BY <1>2, <1>7, <1>1, InTurn DEF disable_unit, At, Got, StopGot
  <2>2. /\ Goto(p, "remove") /\ UNCHANGED <<conf, active, link>>
        /\ enabled' = enabled \ {t}
    BY <1>2, <1>7 DEF disable_unit
  <2>3. \A s \in Tunnels \ {t} : UnitKept(s)
    BY <2>2 DEF UnitKept
  <2>4. QED
    BY <1>5, <2>1, <2>2, <2>3
<1>8. CASE remove_config(p)
  <2>1. t \notin active /\ link[t] = None /\ t \notin enabled
    BY <1>2, <1>8, <1>1, InTurn DEF remove_config, At, Got, StopGot
  <2>2. /\ Goto(p, "close") /\ UNCHANGED <<enabled, active, link>>
        /\ conf' = [conf EXCEPT ![t] = None]
    BY <1>2, <1>8 DEF remove_config
  <2>3. conf'[t] = None /\ \A s \in Tunnels \ {t} : UnitKept(s)
    BY <2>2 DEF UnitKept, OInv, DInv, HostOK
  <2>4. QED
    BY <1>5, <2>1, <2>2, <2>3
<1>9. QED
  BY <1>6, <1>7, <1>8

(* The state the row is left in is not running, whatever it was before.    *)
LEMMA CommitClosedTurn ==
    ASSUME OInv, DInv', NEW p \in Processes, commit_closed(p)
    PROVE  OInv'
<1>1. proc[p].pc = "close" /\ AtWork(p) /\ UNCHANGED host
  BY DEF commit_closed, At, AtWork
<1>2. PICK t \in Tunnels : t = Tunnel(p)
  BY <1>1, InTurn
<1>3. /\ proc[p].loaded.state = db[t].state
      /\ db[t].support_user \notin DOMAIN accounts
      /\ Down(t)
  BY <1>1, <1>2, InTurn DEF Got, StopGot, Down
<1>4. proc[p].closing \in Closed
  BY <1>1, InTurn DEF ProcessOK, StopSteps
<1>5. /\ DOMAIN db' = DOMAIN db
      /\ db'[t].state # running
      /\ db'[t].support_user = db[t].support_user
      /\ \A s \in DOMAIN db : s # t => db'[s] = db[s]
  BY <1>1, <1>2, <1>3, <1>4, InTurn
     DEF commit_closed, ClosedRow, Row, Written, Closed, completed, timedout,
         running
<1>6. UsersOK'
  BY <1>1, <1>5, UsersKeptInTurn DEF host
<1>7. \A s \in Tunnels \ {t} : LeftAlone(s)
  BY <1>1, <1>5, AllLeftAlone DEF RowKept
<1>8. Settled(t)' /\ ~ IsRunning(t)'
  BY <1>1, <1>3, <1>5
     DEF Settled, UnitMatches, UserMatches, IsRunning, Down, host
<1>9. CASE t \in expired
  <2>1. Done(p)
    BY <1>2, <1>9 DEF commit_closed, Done
  <2>2. QED
    BY <1>1, <1>2, <1>6, <1>7, <1>8, <2>1, DoneTurn
<1>10. CASE t \notin expired
  <2>1. PICK q : q = [proc[p] EXCEPT !.pc = "notify", !.loaded = None]
    OBVIOUS
  <2>2. proc' = [proc EXCEPT ![p] = q]
    <3>1. proc' = [proc EXCEPT ![p].pc = "notify", ![p].loaded = None]
      BY <1>2, <1>10 DEF commit_closed
    <3>2. QED
      BY <1>1, <2>1, <3>1, InTurn
  <2>3. q.pc = "notify" /\ q.tunnel = t
    BY <1>1, <1>2, <2>1, InTurn DEF Tunnel, Process
  <2>4. Got(q, t)'
    BY <1>8, <2>3 DEF Got, ConnectGot, StopGot, UndoSteps
  <2>5. QED
    BY <1>1, <1>2, <1>6, <1>7, <2>2, <2>3, <2>4, GotoTurn
<1>11. QED
  BY <1>9, <1>10

-----------------------------------------------------------------------------
(* The other steps.  A command starts while no other is at work.           *)
LEMMA StartTurn ==
    ASSUME OInv, DInv', OneAtATime', UsersOK', NEW p \in Processes,
           NEW todo, NEW closing, Start(p, todo, closing),
           \A t \in Tunnels : Settled(t) => Settled(t)'
    PROVE  OInv'
<1>1. /\ proc \in [Processes -> Process] /\ proc[p].pc = "idle"
      /\ proc' = [proc EXCEPT ![p] = Working(todo, closing)]
  BY DEF OInv, DInv, Start
<1>2. proc'[p].pc = "loop" /\ \A r \in Processes \ {p} : proc'[r] = proc[r]
  BY <1>1 DEF Working, Idle
<1>3. \A r \in Processes \ {p} : proc[r].pc = "idle"
  BY <1>2 DEF OneAtATime, Busy
<1>4. \A t \in Tunnels : Settled(t)
  BY <1>1, <1>3 DEF OInv, WorksOn, AtWork
<1>5. \A r \in Processes : ~ AtWork(r)'
  BY <1>2, <1>3 DEF AtWork
<1>6. QED
  BY <1>4, <1>5 DEF OInv

(* A process that starts has no user to record.                            *)
LEMMA UsersAtStart ==
    ASSUME OInv, NEW p \in Processes, UNCHANGED accounts,
           DOMAIN db \subseteq DOMAIN db',
           \A t \in DOMAIN db : db'[t].support_user = db[t].support_user,
           UNCHANGED proc \/ \E todo, closing : Start(p, todo, closing)
    PROVE  UsersOwned'
<1>1. ASSUME NEW r \in Processes, At(r, "record")
      PROVE  proc'[r] = proc[r]
  BY <1>1 DEF Start, At, OInv, DInv
<1>2. QED
  BY <1>1 DEF OInv, UsersOK, UsersOwned, At

LEMMA CommandTurn ==
    ASSUME OInv, DInv', OneAtATime', NEW p \in Processes,
           UNCHANGED <<db, host>>,
           \/ connect_approved_tunnels(p)
           \/ \E t \in Tunnels : connect(p, t) \/ stop(p, t)
           \/ gc(p)
    PROVE  OInv'
<1>1. \A t \in Tunnels : Settled(t) => Settled(t)'
  BY AllLeftAlone, SettledStays DEF RowKept
<1>2. PICK todo, closing : Start(p, todo, closing)
  BY DEF connect_approved_tunnels, connect, stop, gc
<1>3. UsersOK'
  <2>1. UsersOwned'
    BY <1>2, UsersAtStart DEF host
  <2>2. QED
    BY <2>1 DEF OInv, UsersOK, UsersApart
<1>4. QED
  BY <1>1, <1>2, <1>3, StartTurn

(* A new row is pending and has no user yet.                               *)
LEMMA RequestTurn ==
    ASSUME OInv, DInv', OneAtATime', NEW p \in Processes, NEW t \in Tunnels,
           request(p, t)
    PROVE  OInv'
<1>1. /\ t \notin DOMAIN db /\ UNCHANGED host
      /\ DOMAIN db' = DOMAIN db \cup {t}
      /\ db'[t].state = pending /\ db'[t].support_user = None
      /\ \A s \in DOMAIN db : db'[s] = db[s]
  BY DEF request, NewTunnel
<1>2. UsersOK'
  <2>1. UsersApart'
    BY <1>1 DEF OInv, UsersOK, UsersApart
  <2>2. UsersOwned'
    BY <1>1, UsersAtStart DEF request, host
  <2>3. QED
    BY <2>1, <2>2 DEF UsersOK
<1>3. ASSUME NEW s \in Tunnels, Settled(s) PROVE Settled(s)'
  <2>1. CASE s = t
    <3>1. None \notin DOMAIN accounts
      BY NoneIsNoValue DEF OInv, DInv, HostOK
    <3>2. Down(t)
      BY <1>1, <1>3, <2>1 DEF Settled, UnitMatches, IsRunning
    <3>3. ~ IsRunning(t)' /\ Down(t)'
      BY <1>1, <3>2 DEF IsRunning, Down, host, pending, running
    <3>4. QED
      BY <1>1, <2>1, <3>1, <3>3 DEF Settled, UnitMatches, UserMatches, host
  <2>2. CASE s # t
    BY <1>1, <1>3, <2>2, AllLeftAlone, SettledStays DEF RowKept
  <2>3. QED
    BY <2>1, <2>2
<1>4. CASE Start(p, {t}, None)
  BY <1>2, <1>3, <1>4, StartTurn
<1>5. CASE UNCHANGED proc
  <2>1. ASSUME NEW r \in Processes, AtWork(r)'
        PROVE  Got(proc[r], Tunnel(r))'
    <3>1. AtWork(r)
      BY <1>5, <2>1 DEF AtWork
    <3>2. PICK s \in Tunnels : s = Tunnel(r)
      BY <3>1, InTurn
    <3>3. /\ s \in DOMAIN db /\ Got(proc[r], s)
          /\ proc[r].pc = "record" => proc[r].user # None
      BY <3>1, <3>2, InTurn DEF ProcessOK
    <3>4. PICK q : q = proc[r]
      OBVIOUS
    <3>5. Settled(s) => Settled(s)'
      BY <1>3
    <3>6. Got(q, s)'
      BY <1>1, <3>3, <3>4, <3>5
         DEF Got, ConnectGot, StopGot, UndoSteps, UnitMatches, IsRunning, Up,
             Down, LetsIn, host
    <3>7. QED
      BY <1>5, <3>2, <3>4, <3>6 DEF Tunnel, Got, ConnectGot, StopGot, UndoSteps
  <2>2. \A s \in Tunnels : (Settled(s) \/ \E r \in Processes : WorksOn(r, s))'
    BY <1>3, <1>5 DEF OInv, WorksOn, AtWork, Tunnel
  <2>3. QED
    BY <1>2, <2>1, <2>2 DEF OInv
<1>6. QED
  BY <1>4, <1>5 DEF request

LEMMA TakeTurn ==
    ASSUME OInv, DInv', ConnectsNoneTwice, NEW p \in Processes, Take(p)
    PROVE  OInv'
<1>1. /\ proc \in [Processes -> Process] /\ proc[p].pc = "loop"
      /\ UNCHANGED <<db, host>>
  BY DEF Take, At, OInv, DInv
<1>2. PICK t \in proc[p].todo :
          proc' = [proc EXCEPT
                      ![p].pc = IF proc[p].closing = None
                                THEN "details" ELSE "snapshot",
                      ![p].todo = @ \ {t},
                      ![p].tunnel = t]
  BY DEF Take
<1>3. t \in Tunnels
  BY <1>1, <1>2 DEF Process
<1>4. /\ \A r \in Processes \ {p} : proc[r].pc = "idle" /\ proc'[r] = proc[r]
      /\ \A s \in Tunnels : Settled(s) /\ ~ WorksOn(p, s)
  BY <1>1, <1>2, Alone DEF Busy, WorksOn, AtWork
<1>5. /\ proc'[p].pc \in {"details", "snapshot"} /\ proc'[p].tunnel = t
      /\ proc'[p].pc = "details" => ~ IsRunning(t)'
  BY <1>1, <1>2 DEF Process, ConnectsNoneTwice, At, IsRunning
<1>6. \A s : LeftAlone(s)
  BY <1>1, AllLeftAlone DEF RowKept
<1>7. UsersOK'
  BY <1>1, UsersKeptInTurn DEF host
<1>8. WorksOn(p, t)'
  BY <1>5 DEF WorksOn, AtWork, Tunnel
<1>9. Settled(t)'
  BY <1>3, <1>4, <1>6, SettledStays
<1>10. Got(proc[p], t)'
  BY <1>5, <1>9 DEF Got, ConnectGot, StopGot, UndoSteps
<1>11. QED
  BY <1>3, <1>4, <1>6, <1>7, <1>8, <1>10, TurnStep

(* systemd starts what is enabled, which is what was up before.            *)
LEMMA RebootTurn ==
    ASSUME OInv, DInv', Reboot, \A p \in Processes : ~ Busy(p)
    PROVE  OInv'
<1>1. /\ UNCHANGED <<db, accounts, conf, enabled>>
      /\ active' = {t \in enabled : conf[t] # None}
      /\ \A t \in Tunnels :
            link'[t] = IF t \in enabled THEN conf[t] ELSE None
      /\ \A p \in Processes : proc'[p].pc = "idle"
  BY DEF Reboot, Idle
<1>2. UsersOK'
  BY <1>1, UsersKept DEF Busy, At
<1>3. ASSUME NEW t \in Tunnels PROVE Settled(t)'
  <2>1. Settled(t)
    BY DEF OInv, WorksOn, AtWork, Busy
  <2>2. UnitMatches(t)'
    BY <1>1, <2>1 DEF Settled, UnitMatches, IsRunning, Up, Down
  <2>3. UserMatches(t)'
    BY <1>1, <2>1 DEF Settled, UserMatches, IsRunning, LetsIn
  <2>4. QED
    BY <2>2, <2>3 DEF Settled
<1>4. OneAtATime' /\ \A p \in Processes : ~ AtWork(p)'
  BY <1>1 DEF OneAtATime, Busy, AtWork
<1>5. QED
  BY <1>2, <1>3, <1>4 DEF OInv

LEMMA SameForOInv ==
    ASSUME OInv, DInv', UNCHANGED <<db, host, proc>>
    PROVE  OInv'
BY DEF OInv, OneAtATime, Busy, UsersOK, UsersApart, UsersOwned, At, WorksOn,
       AtWork, Tunnel, Got, ConnectGot, StopGot, Settled, UnitMatches,
       UserMatches, IsRunning, Up, Down, LetsIn, host

-----------------------------------------------------------------------------
LEMMA InitOInv == Init => OInv
<1> SUFFICES ASSUME Init PROVE OInv
  OBVIOUS
<1>2. DInv
  BY InitDInv
<1>3. DOMAIN db = {} /\ \A p \in Processes : proc[p].pc = "idle"
  BY DEF Init, Idle
<1>4. \A t \in Tunnels : Settled(t)
  BY <1>3 DEF Init, Settled, UnitMatches, UserMatches, IsRunning, Down
<1>5. DOMAIN accounts = {}
  BY DEF Init
<1>6. QED
  BY <1>2, <1>3, <1>4, <1>5
     DEF OInv, OneAtATime, Busy, UsersOK, UsersApart, UsersOwned, AtWork

LEMMA NextOInv ==
    OInv /\ ConnectsNoneTwice /\ [Next /\ Orderly]_vars
        => OInv' /\ ConnectsNoneTwice'
<1>1. SUFFICES ASSUME OInv, ConnectsNoneTwice, [Next /\ Orderly]_vars
               PROVE  OInv' /\ ConnectsNoneTwice'
  OBVIOUS
<1>2. DInv'
  BY <1>1, NextDInv DEF OInv
<1>3. CASE UNCHANGED vars
  BY <1>1, <1>2, <1>3, SameForOInv DEF vars, host, ConnectsNoneTwice, At
<1>4. CASE Next /\ Orderly
  <2>1. OneAtATime' /\ ConnectsNoneTwice'
    BY <1>4 DEF Orderly
  <2>2. ~ Fault \/ \A p \in Processes : ~ Busy(p)
    BY <1>1, <1>4 DEF Orderly, Fault, OInv, DInv, HostOK
  <2>3. ASSUME NEW p \in Shells, Command(p) PROVE OInv'
    BY <1>1, <1>2, <2>1, <2>3, CommandTurn, RequestTurn
       DEF Command, Processes, connect_approved_tunnels, connect, stop
  <2>4. ASSUME NEW p \in Collectors, gc(p) PROVE OInv'
    BY <1>1, <1>2, <2>1, <2>4, CommandTurn DEF Processes, gc
  <2>5. ASSUME NEW p \in Processes, Take(p) PROVE OInv'
    BY <1>1, <1>2, <2>5, TakeTurn
  <2>6. ASSUME NEW p \in Processes, ConnectStep(p) PROVE OInv'
    BY <1>1, <1>2, <2>6, DetailsTurn, LastTurn, CreateUserTurn,
       RecordUserTurn, AuthorizeTurn, LoadTurn, ConfigTurn, StartUnitTurn,
       CommitRunningTurn, NothingToUndo
       DEF ConnectStep
  <2>7. ASSUME NEW p \in Processes, StopStep(p) PROVE OInv'
    BY <1>1, <1>2, <2>7, LoadTurn, DeleteUserTurn, UnitGoesTurn,
       CommitClosedTurn, LastTurn
       DEF StopStep
  <2>8. ASSUME NEW p \in Processes
        PROVE  ~ ConnectFails(p) /\ ~ CommandSkipped(p) /\ ~ Aborts(p)
    BY <2>2 DEF ConnectFails, CommandSkipped, AfterSkipped, Aborts, Busy, At,
       ConnectSteps
  <2>9. ASSUME NEW t \in Tunnels, Expire(t) PROVE OInv'
    BY <1>1, <1>2, <2>9, SameForOInv DEF Expire
  <2>10. CASE Reboot
    <3>1. \A p \in Processes : ~ Busy(p)
      BY <2>2, <2>10 DEF Reboot
    <3>2. QED
      BY <1>1, <1>2, <2>1, <2>10, <3>1, RebootTurn
  <2>11. QED
    BY <1>4, <2>1, <2>3, <2>4, <2>5, <2>6, <2>7, <2>8, <2>9, <2>10
       DEF Next, Step
<1>5. QED
  BY <1>1, <1>3, <1>4

(* While no command is at work, a running tunnel can be reached through    *)
(* the server of its row, of any other nothing is on the host, and each    *)
(* support user is that of a running tunnel: if the commands before        *)
(* neither overlapped nor failed, none of them connected a tunnel that was *)
(* running, and the device was rebooted only between them.                 *)
THEOREM OrderlyHostMatches == OrderlySpec => []HostMatchesTable
<1>1. OInv => HostMatchesTable
  <2>1. SUFFICES ASSUME OInv, \A p \in Processes : ~ Busy(p)
                 PROVE  /\ \A t \in DOMAIN db :
                              IF db[t].state = running THEN Reachable(t)
                              ELSE CleanedUp(t) /\ link[t] = None
                        /\ \A u \in DOMAIN accounts :
                              \E t \in DOMAIN db :
                                 db[t].state = running
                                 /\ db[t].support_user = u
    BY DEF HostMatchesTable
  <2>2. \A t \in DOMAIN db : Settled(t)
    BY <2>1 DEF OInv, DInv, TableOK, WorksOn, AtWork, Busy
  <2>3. ASSUME NEW t \in DOMAIN db
        PROVE  IF db[t].state = running THEN Reachable(t)
               ELSE CleanedUp(t) /\ link[t] = None
    BY <2>2 DEF Settled, UnitMatches, UserMatches, IsRunning, Up, Down,
                LetsIn, Reachable, CleanedUp
  <2>4. ASSUME NEW u \in DOMAIN accounts
        PROVE  \E t \in DOMAIN db :
                  db[t].state = running /\ db[t].support_user = u
    <3>1. PICK t \in DOMAIN db : db[t].support_user = u
      BY <2>1 DEF OInv, UsersOK, UsersOwned, Busy, At
    <3>2. IsRunning(t)
      BY <2>2, <3>1 DEF Settled, UserMatches
    <3>3. QED
      BY <3>1, <3>2 DEF IsRunning
  <2>5. QED
    BY <2>3, <2>4
<1>2. Init => ConnectsNoneTwice
  BY DEF Init, ConnectsNoneTwice, At, Idle
<1>3. OrderlySpec => []OInv
  BY <1>2, InitOInv, NextOInv, PTL DEF OrderlySpec
<1>4. QED
  BY <1>1, <1>3, PTL
=============================================================================
