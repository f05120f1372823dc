# A formal model of support_tunnel

These TLA+ modules are kept beside the Python code of support_tunnel. They
model the parts of it that are hard to test: requests that overlap on one row,
commands that overlap on one host, and what is left when a step fails, a
process is killed or the device reboots. TLC checks the models on small
instances; TLAPS proves the main properties for every value of the constants.

Paths below are relative to the root of the repository.

## 1. The system

A *device* asks for a support tunnel, an administrator approves it by starting
a *tunnel server* in the cloud, the device connects to that server over
WireGuard and lets a support user in, and everything is taken down when the
tunnel is stopped or expires. A bookkeeping *API* is all the two sides talk to.

| Component | State it keeps | Operations | Hard behaviour |
|---|---|---|---|
| **Bookkeeping API** (`api/`) | one SQL table, a row per tunnel: state, support user, server details (key, address, box), expiry | device: request, get details, post details, delete; admin: list, get, post details, delete | handlers load a row without a lock, check it, and commit the columns that differ; several threads and instances; every client repeats requests (`common/util.py:21`) |
| **Device CLI** (`device/cli.py`) | a SQLite table; on the host: support accounts, `/etc/wireguard/*.conf`, `wg-quick@` units, interfaces | `request`, `connect`, `stop`, `request-and-connect`, cron: `connect-approved-tunnels`, `gc` | commands are processes with no lock between them, made of many steps that can fail; kills and reboots; expiry in the middle of a connect |
| **Host helpers** (`common/util.py`, `common/tunnel.py`) | none | create and delete user, authorize key, write configuration, start unit | `systemctl start` of an active unit, `wg-quick down` without a configuration |
| **Address allocation** (`common/tunnel.py`) | none | pick a /28 that overlaps no route | random retries, networks of tunnels that are not up yet |
| **Admin CLI** (`admin/cli.py`) | none | `create`, `gc`, `stop`, `connect` | minutes between its check and its post; a lost answer; a garbage collector that works from two lists |
| **Tunnel servers** (`admin/cloud.py`) | cloud instances, one name per tunnel id | insert, list, get, delete | slow operations, names reused by a relaunch |
| **Secret box** (`common/crypto.py`) | none | seal, open | box and key must be of one launch |
| Script hooks, wire formats, deployment | none | | time they take; not modelled otherwise |

How they interact. The device POSTs a request and gets a JWT with tunnel id
and expiry, which it saves. The administrator's `create` reads the row, starts
a server, and POSTs its details (state `started`). The device's cron job asks
for the details of its pending tunnels; with an answer it stores them, creates
a user, authorizes the key in the box, starts the interface, sets its local
state to `running` and POSTs that with the user's name (API state `running`).
`stop` on either side DELETEs at the API. Each side collects garbage by itself:
the device by local expiry, the administrator by the API's list. No message
goes from the API to anyone, so each side acts on what it read last.

What makes each part correct:

* API: a row never mixes two launches; an open tunnel has what its device
  needs; a closed tunnel stays closed, except for requests let in before; only
  an expired tunnel is recorded as timed out.
* Device: what a running tunnel needs for its clean-up is recorded; nothing of
  an expired tunnel is ever revived once it is gone; garbage collection gets to
  everything in the end; commands that do not overlap or fail, none of which
  connects a running tunnel again, leave the host as the table says.
* Admin and servers: a server that a started row refers to exists; the server
  of a closed tunnel is destroyed in the end, and nobody starts it again.
* Device and API together: an approved tunnel is connected and reported; a
  tunnel of which the API knows a user has one on record at its device, and
  cron will not connect it again; a tunnel that is down on both sides stays
  down.
* Address allocation: the chosen network overlaps no route in use, and the
  search ends.

## 2. The modules

```
TunnelModels  <-- TunnelApi  <-- MCTunnelApi, TunnelApi_proofs
                     |
                     +-- INSTANCE TunnelLifecycle   (abstract specification)
TunnelModels  <-- DeviceCli  <-- MCDeviceCli, DeviceCli_proofs
                                             <-- DeviceCliOrderly_proofs
TunnelModels  <-- AdminCli  <-- MCAdminCli, AdminCli_proofs
                     |
                     +-- Api == INSTANCE TunnelApi
TunnelModels  <-- SupportTunnel  <-- MCSupportTunnel, SupportTunnel_proofs
                     |                           <-- SupportTunnelOnce_proofs
                     +-- Api == INSTANCE TunnelApi
                     +-- Device == INSTANCE DeviceCli WITH expired <- ...
AddressSpace  <-- MCAddressSpace, AddressSpace_proofs
```

**TunnelModels** has the tunnel states of `common/models.py` and `Written`,
what a commit leaves in a column: SQLAlchemy updates the attributes that differ
from the loaded ones, so a column whose value did not change keeps what another
transaction wrote.

**TunnelApi** is the API. `table` is the SQL table, `txn` the open transaction
of each worker (the row it loaded and the row it assigned), `expired` the
tunnels past their expiry. Each handler that writes is two steps: the handler
itself, which loads, checks and assigns (`post_tunnel_details`,
`admin_stop_tunnel`, `set_tunnel_details_from_device`, `device_stop_tunnel`),
and `Commit`, which writes. `request_tunnel` only inserts, under a fresh id,
and is one step. `Rollback` is an instance that stops or loses its database
connection. Clients are unconstrained: any request may come at any time and any
number of times, which includes every retry and duplicate.

**TunnelLifecycle** is what the API promises, with no rows and no transactions:
each tunnel has a phase (unknown, waiting, open, closed) and is *admitted*
while requests are in flight that may open it. A tunnel is opened only while
admitted, admitted only while it is not closed, and never waits twice.
TunnelApi implements it with `phase` read off the state column and `admitted`
off the open transactions.

**DeviceCli** is the device. `db` is the SQLite table; `accounts`, `conf`,
`enabled`, `active` and `link` are the host: support users with the key that
lets in, configuration files, units enabled at boot, units systemd holds
active, and the server each interface talks to. `proc` holds the processes: the
tunnels still to do, the step that comes next, the user created and the row
loaded (of which stop keeps only the state once it has deleted the user). Each
shell command, SQL statement and API call of `connect` and `stop`
is an action with the name of the function it models. The API is
external: any details, late ones included, or no usable answer
(`cannot_request_details`). So are systemd and wg-quick, modelled by what their
units do: starting an active unit does nothing, `wg-quick up` needs the
configuration and no interface of that name, `wg-quick down` needs the
configuration. Failures are `ConnectFails` (an exception, which the cron loop
catches), `CommandSkipped` (a command run with `warn=True` that fails: `userdel`,
those of `stop`, and those that clean up a failed start), `Aborts` (an exception
at the top, or a kill) and `Reboot`. A unit that is not enabled or does not
start is first stopped and disabled, in two steps (`undo_start`, `undo_enable`),
and then connect raises.

**AdminCli** is the administrator's command line and the cloud, working against
TunnelApi. `servers` holds the tunnels that have an instance of their name,
`inserting` those with an insert that no create waits for any more, `keys` the
launch whose keys are on the instance, `overdue` the tunnels past their expiry
by the administrators' local clock. A process goes through `create` (check the
state, insert the instance, set it up, post the details; destroy what failed),
`gc` (list the tunnels, stop the expired ones, list the instances, fetch the
tunnel of each, destroy) or `stop` (which ends with a gc). A request is begun by
`post_details` or `delete_tunnel`, which are the handlers of TunnelApi, and ends
with `Answered`, the commit of its worker. In between, `Retries` sends it again
while the first is still being served, `CommitUnattended` serves a request
nobody waits for, and `RequestDies` loses the instance of the API.
`InsertTimesOut`, `DestroyFails`, `CreateFails`, `LookupRefused` and `Aborts`
are the error paths of the code. After `InsertTimesOut` create has ended and the
operation goes on in the cloud: `LateInsert` ends it, with an instance or
without, at any time later, also after a stop and a gc. Devices are
unconstrained: any of their requests at any time.

**SupportTunnel** composes DeviceCli and TunnelApi. Its variables are theirs
plus `awaited` (the worker each process of the device waits for), `reply` (what
it has been told and has not used yet), `posted` and `lost`. Each step of the
device that talks to the API is split into sending, serving and using the
answer: `post_request`/`save_request`, `get_tunnel_details`/`use_tunnel_details`,
`post_report` and `delete_tunnel` with `Answered`, `Refused`, `GivesUp` and
`Retries`. All other steps of the device are those of DeviceCli
(`HostStep`, `cron`, `gc`, `Command`, `CommandFails`, `Reboot`). The
administrator is unconstrained: he posts details and stops tunnels at any time.

**AddressSpace** is `allocate_address_space` turn by turn, between tunnels that
are connected and disconnected and foreign networks that come and go. `seen` is
the routes a request has read; `beside` is a history variable, the tunnels that
were up at that time.

**MCTunnelApi**, **MCDeviceCli**, **MCAdminCli**, **MCSupportTunnel** add
symmetry sets for TLC, **MCAddressSpace** a small address space. The modules
named `*_proofs` hold the theorems.

In each module, an operator that stands before another one and differs from it
by a likely mistake (`NewRowWithoutDefault` before `NewRow`) is a mutant: with
it in the other's place, the property named for it in `PROJECT.json` fails.

### Abstractions

* A launch of a tunnel server is one value: it stands for the key, address,
  port and instance id that the same post carries. In the API's row two columns
  are kept, key and box, because a mix of the two is the hazard. (Two launches
  with an equal address or port are not told apart from two with different ones.)
* `stopped_at` of the device is left out: nothing reads it.
* The token check of a device request and the load of its row are one step. A
  request that passes the check just before expiry may still commit at any time
  after it.
* The expiry of a token and of its row are computed one after the other in one
  request (`api/device.py:75-76`) and are one event.
* Time is the event `Expire(t)`. It is never forced to happen.
* A support user's name is random: the model takes any name that is on neither
  the host nor the table and that no process has in hand (`Fresh`). When the
  names of the model run out, `useradd` fails.
* The POST and the local save of `request` are one step in DeviceCli, for which
  a crash between them leaves nothing; in SupportTunnel they are two.
* `configure_server`, everything `create` does on a server, is one step: nobody
  but the create that has inserted the instance works on it. It fails if the
  instance is gone or has keys already (`create_sshkey` does not replace any).
* An answer of status 5xx is sent again by the session and raises in the end:
  it is a lost answer, then `CreateFails`, `GivesUp` or `Aborts`. An answer of
  status 4xx is not sent again; for gc's lookup it is `LookupRefused`.
* Administrators' machines are in one time zone: `overdue` is one set. It has
  no order with `expired`, so local time may be ahead or behind.
* `fab connect` changes nothing; what it needs of the device and of the API is
  the predicate `CanConnect`. It also needs the tunnel server, which is not in
  SupportTunnel: that the server of a started tunnel exists, and why it may not,
  is `StartedHasServer` of AdminCli.
* In SupportTunnel the device knows only of the expiry of its own tunnels, and
  no token expires between the API's grant and the local save.
* Addresses are numbers and a network is a range of them, from network to
  broadcast address. The private ranges, the size of a block (16) and the
  number of tries (1000) are parameters.

## 3. The runs

| Run | Configuration | Checks | Result |
|---|---|---|---|
| `api` | `MCTunnelApi.cfg` | `TypeOK`, `DetailsFromOneLaunch`, `OpenTunnelsAreUsable`, `TimedOutOnlyPastExpiry`, `SealedStaysClosed`, `KeepsLifecycle` (refinement) | holds, 325 thousand states |
| `api_reopen` | `MCTunnelApiReopen.cfg` | `DetailsOnlyForOpenTunnels` | violated |
| `device` | `MCDeviceCli.cfg` | `TypeOK`, `RunningIsRecorded`, `GoneStaysGone`, `ExpiredAreCleanedUp` (liveness) | holds, 860 thousand states |
| `device_alone` | `MCDeviceCliAlone.cfg` | `HostMatchesTable` | holds, 84 thousand states |
| `device_retry` | `MCDeviceCliRetry.cfg` | `RecordedUsersStay` | violated |
| `device_orphan` | `MCDeviceCliOrphan.cfg` | `ExpiredGoDown` (liveness) | violated |
| `admin` | `MCAdminCli.cfg` | `TypeOK`, `ServersStayDestroyed`, `ExpiredServersGoAway` (liveness) | holds, 732 thousand states |
| `admin_lost` | `MCAdminCliLost.cfg` | `StartedHasServer` | violated |
| `support` | `MCSupportTunnel.cfg` | `TypeOK`, `ReportedIsRecorded`, `RunningCanBeConnected`, `DownStaysDown` | holds, 675 thousand states |
| `support_live` | `MCSupportTunnelLive.cfg` | `ApprovedIsConnected`, `ApprovedIsReported`, `StopIsReported` (liveness) | holds, 186 thousand states |
| `support_relaunch` | `MCSupportTunnelRelaunch.cfg` | `RunningCanBeConnected` | violated |
| `addresses` | `MCAddressSpace.cfg` | `TypeOK`, `ApartFromWhatWasUp`, `SearchEnds` (liveness) | holds, 122 thousand states |

What the passing runs show:

* `DetailsFromOneLaunch`: the device opens the box with the key of the same
  row. Two posts of details at the same time, each writing only the columns
  that differ, cannot leave a row whose box and key disagree.
* `OpenTunnelsAreUsable`: a tunnel the device is told to use has the details
  the device asserts (`device/cli.py:225-228`), and a running one has the user
  `fab connect` logs in as. This relies on no handler clearing a column.
* `SealedStaysClosed`: the API does reopen closed tunnels (finding
  `api_reopen`); this is the exact limit of it. Only a request that loaded the
  row before it was closed can, and once none is left the tunnel is sealed.
* `RunningIsRecorded`: what stop and gc need to find a running tunnel's user,
  in spite of stops and connects that overlap it.
* `GoneStaysGone`: expiry is checked once, before a long series of steps. Once
  an expired tunnel is off the host and no connect that passed the check is
  left, no command and no reboot brings any of it back.
* `ExpiredAreCleanedUp`: gc works from stale rows, may be killed between any
  two steps and races with connects let in before expiry; the configuration,
  the unit and the recorded user of an expired tunnel are gone in the end. It
  does not say the interface is down: that fails (`device_orphan`).
* `HostMatchesTable`: while no command is at work, the interface and the
  configuration of a running tunnel are of the server in its row, its unit is
  enabled and active, and the user in its row is let in with the key of that
  server; of any other tunnel nothing is left; and every support account is the
  recorded user of a running tunnel. It is the contract that overlap and
  failure break, so the run is of `OrderlySpec`: shell commands, cron and gc on
  two tunnels, one at a time and without failures, none connecting a running
  tunnel again (see the limits), and a reboot between them.
* `ServersStayDestroyed`: `create` checks the state once and then works for
  minutes, and its post may be sent again and answered late. Still, once a
  closed tunnel has no server, no request let in earlier, no create before the
  end of its insert and no insert that was given up and goes on in the cloud,
  nobody starts one again. (With such an insert the server may come back after
  stop and gc, and only the next property speaks of it.)
* `ExpiredServersGoAway`: whatever a lost answer, failed delete, late insert or
  kill leaves behind, gc gets to it, however late its local clock is.
* `ReportedIsRecorded`: a report may take effect after a stop, a gc or another
  connect. Whenever the API knows a user of a tunnel, the device's row has a
  user and a server, and a state past pending, for good: cron will not connect
  it again, and stop has a user to delete. The user on record need not be the
  one the API knows: connecting a running tunnel again replaces it, and the
  report of that may be refused.
* `DownStaysDown`: connect acts on answers that a stop may have overtaken, and
  the API may still serve requests of killed commands. A tunnel that is sealed
  in the API and gone from the device is never set up again, though its row
  and its token are still there.
* `RunningCanBeConnected`: user, key and server agree between the API's row,
  the accounts and the interface whenever nothing is under way and nothing has
  been lost or has failed.
* `ApprovedIsConnected`: lost answers, failed connects, kills and reboots only
  make cron try again. `ApprovedIsReported`, `StopIsReported`: what happens on
  the device reaches the API, unless a fault or a loss is in the way. Both
  name that condition (`Disturbed`), for the device tells the API only once.
  `ApprovedIsReported` is about a tunnel that its device has not connected
  yet, and holds however often it is launched again meanwhile. For a tunnel
  that runs there is no such promise: a launch takes the API's state back to
  started, and cron connects and reports pending rows only.
* `ApartFromWhatWasUp`: no order of connecting, disconnecting and of routes
  changing makes a tunnel share addresses with what was up when it was
  requested. `SearchEnds`: also if no network is free.

What the violated ones show (details in `PROJECT.json`, `findings`):

* `api_reopen`: "assert that the tunnel is not explicitly closed" does not hold
  at the time of the commit.
* `device_retry`: the account of a connect that failed is forgotten by the next
  one, against the comment at `device/cli.py:253`. It outlives the tunnel.
* `device_orphan`: between `systemctl stop` and `rm` in a stop, a connect can
  start an interface that no later stop can take down.
* `admin_lost`: create takes details that were stored for details that were
  refused and destroys the server of a started tunnel.
* `support_relaunch`: a report does not say of which launch it is, and is taken
  for one of the launch that came meanwhile. (`RunningCanBeConnected` is the
  property of `support`, with two launches instead of one.)

### Limits of the code that no run is spent on

These follow from single lines or are consequences of the findings above. The
models contain the behaviour, and the properties above are stated so that they
hold in spite of it.

* A second post of details takes a running tunnel back to started
  (`api/admin.py:73`), against the docstring of `TunnelState`; the device does
  not report again by itself: hence `ApprovedIsReported` is about pending rows.
* Connecting a running tunnel again does not move its interface to the server
  its row then has, as `systemctl start` of an active unit does nothing
  (`common/tunnel.py:92`). It also creates a second account and forgets the
  first (`device/cli.py:274`), which outlives the tunnel, against
  `docs/overview.md:44`. No failure or overlap is needed: hence
  `ConnectsNoneTwice` in `OrderlySpec`.
* A stop that overlaps a connect can leave an account or an interface on a
  closed tunnel, until it expires.
* A report or a DELETE that the device gives up on is never made again
  (`device/cli.py:308`, `:340`): hence `Disturbed`. After the latter the API
  has an open tunnel that is closed on the device, which can be connected
  again; then only its expiry takes it down (`ExpiredAreCleanedUp`). So it is
  with a connect that holds an answer which a stop has overtaken.
* A stop that raises ends gc's round for the tunnels after it
  (`device/cli.py:424`); one that always raises keeps gc from them for ever.
* A request for a tunnel whose answer is lost leaves a row no device knows
  (`device/cli.py:136`), until it expires.
* A tunnel stopped by the administrator stays up on the device until it expires
  (`update_local_tunnel_statuses`, `device/cli.py:404`, is a stub): hence
  `ExpiredAreCleanedUp` speaks of expired tunnels only.
* gc compares an expiry in UTC with local time (`admin/cli.py:203`) and takes
  a lookup that was refused for a tunnel that does not exist
  (`admin/cli.py:67`, `:214`): it may stop a tunnel hours early, or destroy a
  server in use. The server of an interrupted create is not collected while
  its tunnel is pending, and blocks the next create: hence
  `ExpiredServersGoAway` speaks of expired tunnels only.
* Two tunnels requested before either is connected may get the same network
  (`common/tunnel.py:46`): hence "what was up" in `ApartFromWhatWasUp`. The
  search may give up while a network is free, as its draws are random.

### Bounds

Tunnels of the API do not interact, and each worker handles one tunnel, so the
`api` run has one tunnel and three workers: a commit between the load and the
commit of another transaction, and a third that depends on both, are the
patterns the properties are about. Two launches and two users are needed to
tell values apart. (`ApiKeepsLifecycle` proves the refinement for any number of
tunnels.)

On the device two shells and one collector give a connect, a second connect or
a stop, and gc at the same time on one tunnel. `MaxFaults` is 1: a failure, a
kill or a reboot at any step. One launch is enough for these properties, which
do not compare them. With one user name `useradd` fails when it is used up, and
so does a second connect of the tunnel; `device_retry` has two names, to lose
one, and the safety properties are proved for any number. With one tunnel,
nothing is said of gc's way from one tunnel to the next. `device_alone` has two
tunnels, so that cron and gc have a list to go through, two launches, so that
interface, configuration or key could be of another than the row's, and one name
more than tunnels. Faults are the reboots of the run.

AdminCli has one tunnel, because an instance belongs to one tunnel by its name
and gc goes through its lists one by one. Two workers let a request be served
while it is sent again, or while it is overtaken by another. The number of
launches is the number of creates that get as far as their keys; later ones
fail and clean up. `MaxFaults` is 1. The safety property is proved for any
number of all of these.

SupportTunnel has one tunnel, one shell and one collector, with one worker:
overlapping commands and transactions are the subject of the parts. There is a
fault or a loss, at any step, and not both (`OneDisturbance`, the constraint of
the run); the theorems are of any number of each. A second user name lets a
connect be tried again. `support_live` leaves gc out, which only takes down what has expired. It
has two launches, as a relaunch is what could keep a report from being made,
one fault, and no lost answer (`MaxLost` is 0): a command that gives up on an
answer leaves device and API as one killed at that step does. Requests that are
lost and sent again are in `support`, without liveness.
`support_relaunch` has two launches.

AddressSpace has two ranges of two blocks of four addresses, and foreign
networks that contain a block, lie inside one and are larger than a range:
each way in which two networks can overlap. Two tries reach the limit.

Symmetry is used in the runs without liveness properties that are large.
No run turns deadlock checking off.

### Fairness

`FairSpec` of DeviceCli assumes that cron starts gc again whenever its process
is idle, and that a gc that is neither killed nor failing goes on: each shell
command ends and each API call times out (`timeout=60`, ten retries). Users need
not run anything, the commands they run need not go on, nothing has to fail, and
no tunnel has to expire. `MaxFaults` bounds failures, without which gc could be
killed for ever.

That of AdminCli assumes the same of gc (`api/device.py:117` has it called from
cron) and of the API's workers, that an administrator's command takes the answer
of a request that has one, and that the local clock gets to each expiry that the
API's clock has passed. No administrator has to run a command or to let it go
on, no insert that was given up has to end, and no tunnel has to expire.

That of SupportTunnel assumes that cron starts its two jobs again and again
(`docs/overview.md:21` and `:44`). Connecting is strongly fair (SF): the cron
job runs as a process of its own every few minutes, so it is not kept from
starting for ever by commands a user runs in between. Nobody has to run a
command, post details or stop a tunnel.

That of AddressSpace only has a search that has begun go on.

## 4. What is proved

The proof modules follow one argument: find the inductive invariant, show that
`Init` establishes it and each action preserves it, and conclude the invariants
and the action property from it. The proofs hold for any sets of tunnels,
launches, users, workers and processes, and any bounds on faults and losses.
Every safety property that a passing run checks is proved. Three properties that
do not hold of every behaviour are proved of those that are left when what
breaks them is taken out: `OrderlySpec`, `CarefulSpec` and `OnceSpec` name it,
as a condition on each step.

**TunnelApi_proofs** (assumption: `None` is no launch and no user).
`DetailsFromOneLaunch` and its companions are not inductive: a commit writes
what a handler computed from a row that has changed since. `IInv` adds, for
every open transaction, how the row it assigned relates to the row it loaded
(`Assigned`), and what of the loaded row still holds of the current one
(`NotLost`: no column goes back to NULL). `FlushKeepsRow` is the heart of it:
an UPDATE from a stale row still leaves a sound row. Proved: `TypeCorrect`,
`DetailsAgree`, `OpenTunnelsUsable`, `TimedOutExpired`, `SealedForGood` and the
refinement `ApiKeepsLifecycle`.

**DeviceCli_proofs** (assumptions: `None` is no value, `MaxFaults` is a
natural number). `DInv` adds what each process relies on from one step to the
next: that its tunnel has a row and that the server and user an earlier step
stored are not NULL, whatever others did to the row, which also never becomes
pending again. `ProcessKept` shows that
this survives the steps of the other processes. Proved: `DeviceTypeCorrect`,
`RunningRecorded` and `GoneForGood`. The last part is about one tunnel while
nothing fails. `Acts` sums up what a step of one process does to users and
wires; `Connected(t, l)` says that all there is of t on the device is of launch
l, each user being its own and letting in l's key, or about to; and
`ConnectedStays` that this is kept, whatever overlaps, until t is stopped.

**DeviceCliOrderly_proofs**: `OrderlyHostMatches`, `HostMatchesTable` from
`OrderlySpec`, where commands run one at a time, do not fail and connect no
running tunnel again, and the device is rebooted between them. The property says
nothing while a command is at work, so it is far from inductive. `OInv` adds how
far the host has got at each step of connect (`ConnectGot`) and of stop
(`StopGot`), that all other tunnels are `Settled`, that no two rows have one
user, and whose each account is. A reboot between commands then starts the units
of the running tunnels and no others.

**AdminCli_proofs** (assumptions: `None` is no value, `MaxFaults` is a natural
number, a process is of one kind). Every step is a step of the API or leaves
its variables alone, which is `AdminKeepsApi`: AdminCli implements TunnelApi.
`AInv` adds to the API's type invariant what a process holds at each step (a
tunnel that has a row, its launch when it posts, a worker that serves a
request). `ServersDestroyedForGood` splits a step by who could start a server:
only a create before its insert, which gets there only past its check, or an
insert that was given up and goes on in the cloud.
Proved: `AdminTypeCorrect`, `AdminKeepsApi`, `ServersDestroyedForGood`.

`StartedServed` proves `StartedHasServer`, which the run `admin_lost` violates,
of `CarefulSpec`. This leaves out the two ways to break it: create or gc
destroys the server of a tunnel that is not over, because it takes a lost answer
for a refusal or a refused lookup for a missing tunnel; and a late commit
reopens a closed tunnel (`api_reopen`). So these are all there are, for any
number of administrators, devices, kills and late inserts. `GInv` says of every
tunnel that is not over: whoever knows a launch, in the row, in a request being
served or in a process about to post it, knows one whose keys are on the
server; one process at most works on that server; and nobody is about to remove
it. The server is named after the tunnel, so the argument is that the insert of
a second create fails.

**SupportTunnel_proofs** (assumptions: as above, and `MaxLost` is a natural
number) is a proof by refinement. `SupportKeepsApi` and `SupportKeepsDevice`
show that each step of the composition is a step of TunnelApi, or leaves it
alone, and one of DeviceCli; so the theorems about the parts,
`OpenTunnelsUsable` and `RunningRecorded` among them, hold of the whole. The
step from one to the other is that a state the device may use has server
details: it is what the answer of `get_tunnel_details` rests on. `SInv` adds
what connects the two: that a tunnel of the device is one of the API, that a
process at its report has been told a user it has recorded, and that a report in
flight or committed is of a tunnel with a user and a server on record and a row
past pending. Proved: `SupportTypeCorrect`, `ReportedRecorded`,
`SupportKeepsApi`, `SupportKeepsDevice`, `DownForGood`. `DownForGood` rests on
two lemmas on what a process has been told: it waits until it is used
(`RepliesWait`), and nothing else lets a process in to connect (`LetInByReply`).
(`KeepsDevice` is not a property of a run: every step of the composition is
written with the action of DeviceCli that it is.)

**SupportTunnelOnce_proofs**: `RunningConnectable`, `RunningCanBeConnected`
from `OnceSpec`, which assumes of every tunnel that it is not reopened once it
was closed (what `api_reopen` shows) and not launched a second time (what
`support_relaunch` shows). The property speaks of both programs at rest. `BInv`
says what holds while they work, as long as nothing was lost or has failed. A
tunnel is `Doomed`, that is expired, closed or being stopped on the device, or
`Steady`: the device is connected to nothing but the launch in the API's row
(`Connected`), what a process has been told is that launch or a user that lets
it in (`Hears`), and so is every user in the row or in a request being served
(`Stored`). Doom has to be shown final: a stop under way ends in the API's row
being closed, because the process waits for its DELETE (`WaitsRightly`) and a
DELETE that changes no state has found the row closed (`LoadedClosed`).
`RunningConnectableInTurn` needs no assumption on the steps, but one worker and
one launch, as in the run `support`: then a request never finds its row changed
when it commits (`UpToDate`), so it reopens nothing. The numbers of tunnels,
users, processes, faults and losses are still any.

**AddressSpace_proofs** (assumptions: networks are ranges of naturals, a block
has at least four addresses, there is at least one try). `OverlapsIsSharing`:
comparing ends decides whether two ranges share an address.
`EndsAreDistinctHosts`: device and server get different hosts of a block.
Proved of the search: `AddressesTypeCorrect` and `ChosenApart`, whose
invariant adds that the networks of the tunnels in `beside` are among the
routes in `seen`, which is what ties the history to the search.

Only model-checked: all liveness (`ExpiredAreCleanedUp`, `ExpiredServersGoAway`,
`ApprovedIsConnected`, `ApprovedIsReported`, `StopIsReported`, `SearchEnds`),
which is out of the prover's reach. The properties that are violated, of course,
are not proved; `StartedHasServer` and `RunningCanBeConnected` are proved of the
steps that are left when the cause of the finding is taken out.

## 5. Plan

1. *Done:* TunnelApi with TunnelLifecycle; DeviceCli; AdminCli with the tunnel
   servers; SupportTunnel, the composition of device and API; AddressSpace; the
   proofs of each and of every safety property that a passing run checks.
2. AdminCli and DeviceCli in one model: the administrator of SupportTunnel and
   the device of AdminCli are unconstrained here, so only properties that need
   both sides to behave are left for it, such as support access that ends.
3. An abstract specification of support access (who can get in, and when it
   must end) that the composition implements outside the findings.
4. Tunnels of one device that share an interface name or a port.

Not modelled: the cryptography and the wire formats (data, no behaviour), the
listing commands (read only), script hooks (their time is the gap between two
steps), the deployment (`opentofu/`, `Dockerfile`, workflows: configuration).
