---------------------------- MODULE AddressSpace ----------------------------
(***************************************************************************)
(* The address spaces of a device's tunnels (common/tunnel.py).            *)
(*                                                                         *)
(* A request reads the routes of the device once and tries random networks *)
(* until one overlaps none of them.  The network is routed only when the   *)
(* tunnel is connected, hours later perhaps, and other networks come and   *)
(* go meanwhile.  Addresses are numbers; a network is the range from its   *)
(* network address to its broadcast address.                               *)
(***************************************************************************)
EXTENDS Naturals

CONSTANTS
    Tunnels,            \* tunnel ids
    CandidateRanges,    \* the private ranges, to be split up
    ForeignNetworks,    \* what other interfaces of the device may route
    BlockSize,          \* addresses of a tunnel's network: 16
    MaxTries,           \* networks tried before giving up: 1000
    None

IsNetwork(net) ==
    /\ net.network_address \in Nat
    /\ net.broadcast_address \in Nat
    /\ net.network_address <= net.broadcast_address

ASSUME KnownNetworks ==
    \A net \in CandidateRanges \cup ForeignNetworks : IsNetwork(net)
ASSUME BlocksHaveHosts == BlockSize \in Nat /\ BlockSize >= 4
ASSUME SomeTries == MaxTries \in Nat \ {0}

VARIABLES
    stage,      \* how far each tunnel is
    network,    \* the network of each tunnel that has one
    routed,     \* networks other interfaces route
    seen,       \* the routes each request has read
    tries,      \* networks each request has tried in vain
    beside      \* history: tunnels that were up when a request read the routes

vars == <<stage, network, routed, seen, tries, beside>>

(* The addresses of a network.                                             *)
Addresses(net) == net.network_address .. net.broadcast_address

OverlapsInside(net, other) ==
    \/ other.network_address \in Addresses(net)
    \/ other.broadcast_address \in Addresses(net)

(* IPv4Network.overlaps().                                                 *)
overlaps(net, other) ==
    \/ other.network_address \in Addresses(net)
    \/ other.broadcast_address \in Addresses(net)
    \/ net.network_address \in Addresses(other)
    \/ net.broadcast_address \in Addresses(other)

(* supernet.subnets(new_prefix=28)                                         *)
subnets(supernet) ==
    {[network_address |-> a, broadcast_address |-> a + BlockSize - 1] :
        a \in {x \in Addresses(supernet) :
                  /\ (x - supernet.network_address) % BlockSize = 0
                  /\ x + BlockSize - 1 <= supernet.broadcast_address}}

net_choices == UNION {subnets(range) : range \in CandidateRanges}

(* The nth host of a network, whose first and last address are not hosts.  *)
host_in_network(n, net) == net.network_address + 1 + n

device_ip(net) == host_in_network(0, net)

server_ip(net) == host_in_network(1, net)

-----------------------------------------------------------------------------
HasNetwork(t) == stage[t] \in {"requested", "up"}

Up == {t \in Tunnels : stage[t] = "up"}

get_current_routes == routed \cup {network[t] : t \in Up}

TypeOK ==
    /\ stage \in [Tunnels -> {"new", "choosing", "requested", "up"}]
    /\ network \in [Tunnels -> net_choices \cup {None}]
    /\ \A t \in Tunnels : HasNetwork(t) => network[t] \in net_choices
    /\ routed \subseteq ForeignNetworks
    /\ seen \in [Tunnels -> SUBSET (ForeignNetworks \cup net_choices)]
    /\ tries \in [Tunnels -> 0 .. MaxTries]
    /\ beside \in [Tunnels -> SUBSET Tunnels]

Init ==
    /\ stage = [t \in Tunnels |-> "new"]
    /\ network = [t \in Tunnels |-> None]
    /\ routed = {}
    /\ seen = [t \in Tunnels |-> {}]
    /\ tries = [t \in Tunnels |-> 0]
    /\ beside = [t \in Tunnels |-> {}]

Becomes(t, s) == stage' = [stage EXCEPT ![t] = s]

(* request() of tunnel t begins: the routes are read once.                 *)
request(t) ==
    /\ stage[t] = "new"
    /\ Becomes(t, "choosing")
    /\ seen' = [seen EXCEPT ![t] = get_current_routes]
    /\ tries' = [tries EXCEPT ![t] = 0]
    /\ beside' = [beside EXCEPT ![t] = Up]
    /\ UNCHANGED <<network, routed>>

MayTryOnceMore(t) == tries[t] <= MaxTries

MayTry(t) == tries[t] < MaxTries

CountedNever(t) == UNCHANGED tries

Counted(t) == tries' = [tries EXCEPT ![t] = @ + 1]

IsTaken(t, net) == \E other \in seen[t] : overlaps(net, other)

(* One turn of the loop of allocate_address_space().                       *)
tries_network(t) ==
    /\ stage[t] = "choosing"
    /\ MayTry(t)
    /\ \E net \in net_choices :
          \/ /\ IsTaken(t, net)
             /\ Counted(t)
             /\ UNCHANGED <<stage, network>>
          \/ /\ ~ IsTaken(t, net)
             /\ network' = [network EXCEPT ![t] = net]
             /\ Becomes(t, "requested")
             /\ UNCHANGED tries
    /\ UNCHANGED <<routed, seen, beside>>

(* "No usable networks found.": the request is not made.                   *)
gives_up(t) ==
    /\ stage[t] = "choosing"
    /\ ~ MayTry(t)
    /\ Becomes(t, "new")
    /\ UNCHANGED <<network, routed, seen, tries, beside>>

(* connect() brings the interface up, with its network routed to it.       *)
connect(t) ==
    /\ stage[t] = "requested"
    /\ Becomes(t, "up")
    /\ UNCHANGED <<network, routed, seen, tries, beside>>

(* The interface goes down: it may come up again, as after a reboot.       *)
disconnect(t) ==
    /\ stage[t] = "up"
    /\ Becomes(t, "requested")
    /\ UNCHANGED <<network, routed, seen, tries, beside>>

(* Other interfaces of the device come and go.                             *)
RoutesChange ==
    /\ \E net \in ForeignNetworks :
          \/ net \notin routed /\ routed' = routed \cup {net}
          \/ net \in routed /\ routed' = routed \ {net}
    /\ UNCHANGED <<stage, network, seen, tries, beside>>

Search(t) == tries_network(t) \/ gives_up(t)

Next ==
    \/ \E t \in Tunnels : request(t) \/ Search(t) \/ connect(t) \/ disconnect(t)
    \/ RoutesChange

Spec == Init /\ [][Next]_vars

(* A command that searches for a network goes on.                          *)
FairSpec == Spec /\ \A t \in Tunnels : WF_vars(Search(t))

-----------------------------------------------------------------------------
Disjoint(net, other) == Addresses(net) \cap Addresses(other) = {}

(* The addresses of two tunnels mix only in a race: the network of a       *)
(* tunnel shares no address with that of a tunnel that was up when it was  *)
(* requested, nor with any other network that was routed then, whatever    *)
(* came and went since, and whichever tunnel is connected first.           *)
ApartFromWhatWasUp ==
    \A t \in Tunnels :
        HasNetwork(t) =>
            /\ \A u \in beside[t] : Disjoint(network[t], network[u])
            /\ \A other \in seen[t] : Disjoint(network[t], other)

(* The search ends, with a network or without one, even if the device's    *)
(* routes leave none free.                                                 *)
SearchEnds == \A t \in Tunnels : stage[t] = "choosing" ~> stage[t] # "choosing"
=============================================================================
