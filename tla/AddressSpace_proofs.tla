------------------------ MODULE AddressSpace_proofs -------------------------
(***************************************************************************)
(* Theorems about the address spaces of a device's tunnels.                *)
(***************************************************************************)
EXTENDS AddressSpace, TLAPS

(* Two networks overlap, by the four tests of IPv4Network.overlaps(), just *)
(* when they have an address in common.                                    *)
THEOREM OverlapsIsSharing ==
    ASSUME NEW net, NEW other, IsNetwork(net), IsNetwork(other)
    PROVE  overlaps(net, other) <=> ~ Disjoint(net, other)
BY DEF overlaps, Disjoint, Addresses, IsNetwork

(* What a range is split up into are networks of BlockSize addresses.      *)
LEMMA BlocksAreNetworks ==
    ASSUME NEW net \in net_choices
    PROVE  /\ IsNetwork(net)
           /\ net.broadcast_address = net.network_address + BlockSize - 1
<1>1. PICK range \in CandidateRanges : net \in subnets(range)
  BY DEF net_choices
<1>2. IsNetwork(range)
  BY KnownNetworks
<1>3. PICK a \in Addresses(range) :
         net = [network_address |-> a, broadcast_address |-> a + BlockSize - 1]
  BY <1>1 DEF subnets
<1>4. a \in Nat
  BY <1>2, <1>3 DEF Addresses, IsNetwork
<1>5. QED
  BY <1>3, <1>4, BlocksHaveHosts DEF IsNetwork

(* The two ends of a tunnel have different addresses, both hosts of its    *)
(* network and neither of them its first or last address.                  *)
THEOREM EndsAreDistinctHosts ==
    ASSUME NEW net \in net_choices
    PROVE  /\ device_ip(net) # server_ip(net)
           /\ {device_ip(net), server_ip(net)} \subseteq
                  Addresses(net)
                      \ {net.network_address, net.broadcast_address}
BY BlocksAreNetworks, BlocksHaveHosts
   DEF device_ip, server_ip, host_in_network, Addresses, IsNetwork

-----------------------------------------------------------------------------
(* The inductive invariant: what was up when a request read the routes     *)
(* still has the network that was read, and a network is chosen apart from *)
(* all that was read.                                                      *)
BesideIsSeen ==
    \A t \in Tunnels : \A u \in beside[t] :
        HasNetwork(u) /\ network[u] \in seen[t]

ApartFromSeen ==
    \A t \in Tunnels :
        HasNetwork(t) => \A other \in seen[t] : Disjoint(network[t], other)

AInv == TypeOK /\ BesideIsSeen /\ ApartFromSeen

LEMMA AInitially == Init => AInv
BY SomeTries
   DEF Init, AInv, TypeOK, BesideIsSeen, ApartFromSeen, HasNetwork

LEMMA AInvRequest ==
    ASSUME AInv, NEW t \in Tunnels, request(t)
    PROVE  AInv'
<1>1. /\ Up \subseteq Tunnels
      /\ \A u \in Up : HasNetwork(u) /\ network[u] \in net_choices
  BY DEF AInv, TypeOK, Up, HasNetwork
<1>2. get_current_routes \subseteq ForeignNetworks \cup net_choices
  BY <1>1 DEF AInv, TypeOK, get_current_routes
<1>3. TypeOK'
  BY <1>1, <1>2, SomeTries DEF AInv, TypeOK, request, Becomes, HasNetwork
<1>4. \A u \in Tunnels : HasNetwork(u)' <=> HasNetwork(u)
  BY DEF AInv, TypeOK, request, Becomes, HasNetwork
<1>5. BesideIsSeen'
  <2> SUFFICES ASSUME NEW s \in Tunnels, NEW u \in beside'[s]
               PROVE  HasNetwork(u)' /\ network'[u] \in seen'[s]
    BY DEF BesideIsSeen
  <2>1. CASE s = t
    <3>1. beside'[s] = Up /\ seen'[s] = get_current_routes
      BY <2>1 DEF AInv, TypeOK, request
    <3>2. network[u] \in get_current_routes
      BY <3>1 DEF get_current_routes
    <3>3. QED
      BY <1>1, <1>4, <3>1, <3>2 DEF request
  <2>2. CASE s # t
    <3>1. beside'[s] = beside[s] /\ seen'[s] = seen[s]
      BY <2>2 DEF AInv, TypeOK, request
    <3>2. u \in Tunnels
      BY <3>1 DEF AInv, TypeOK
    <3>3. QED
      BY <1>4, <3>1, <3>2 DEF AInv, BesideIsSeen, request
  <2>3. QED
    BY <2>1, <2>2
<1>6. ApartFromSeen'
  <2> SUFFICES ASSUME NEW s \in Tunnels, HasNetwork(s)'
               PROVE  \A other \in seen'[s] : Disjoint(network'[s], other)
    BY DEF ApartFromSeen, Disjoint, Addresses
  <2>1. s # t
    BY DEF AInv, TypeOK, request, Becomes, HasNetwork
  <2>2. seen'[s] = seen[s] /\ network'[s] = network[s]
    BY <2>1 DEF AInv, TypeOK, request
  <2>3. QED
    BY <1>4, <2>2 DEF AInv, ApartFromSeen
<1>7. QED
  BY <1>3, <1>5, <1>6 DEF AInv

LEMMA AInvTriesNetwork ==
    ASSUME AInv, NEW t \in Tunnels, tries_network(t)
    PROVE  AInv'
<1>1. PICK net \in net_choices :
         \/ /\ IsTaken(t, net)
            /\ Counted(t)
            /\ UNCHANGED <<stage, network>>
         \/ /\ ~ IsTaken(t, net)
            /\ network' = [network EXCEPT ![t] = net]
            /\ Becomes(t, "requested")
            /\ UNCHANGED tries
  BY DEF tries_network
<1>2. UNCHANGED <<routed, seen, beside>> /\ MayTry(t) /\ stage[t] = "choosing"
  BY DEF tries_network
<1>3. CASE IsTaken(t, net) /\ Counted(t) /\ UNCHANGED <<stage, network>>
  <2>1. tries' \in [Tunnels -> 0 .. MaxTries]
    BY <1>2, <1>3, SomeTries DEF AInv, TypeOK, Counted, MayTry
  <2>2. TypeOK'
    BY <1>2, <1>3, <2>1 DEF AInv, TypeOK, HasNetwork
  <2>3. BesideIsSeen' /\ ApartFromSeen'
    BY <1>2, <1>3
       DEF AInv, BesideIsSeen, ApartFromSeen, HasNetwork, Disjoint, Addresses
  <2>4. QED
    BY <2>2, <2>3 DEF AInv
<1>4. CASE /\ ~ IsTaken(t, net)
           /\ network' = [network EXCEPT ![t] = net]
           /\ Becomes(t, "requested")
           /\ UNCHANGED tries
  <2>1. TypeOK'
    BY <1>2, <1>4 DEF AInv, TypeOK, Becomes, HasNetwork
  <2>2. \A u \in Tunnels : HasNetwork(u) => /\ HasNetwork(u)'
                                            /\ network'[u] = network[u]
    BY <1>2, <1>4 DEF AInv, TypeOK, Becomes, HasNetwork
  <2>3. BesideIsSeen'
    BY <1>2, <2>2 DEF AInv, TypeOK, BesideIsSeen
  <2>4. ApartFromSeen'
    <3> SUFFICES ASSUME NEW s \in Tunnels, HasNetwork(s)', NEW other \in seen[s]
                 PROVE  Disjoint(network'[s], other)
      BY <1>2 DEF ApartFromSeen, Disjoint, Addresses
    <3>1. CASE s = t
      <4>1. network'[s] = net
        BY <1>4, <3>1 DEF AInv, TypeOK
      <4>2. ~ overlaps(net, other)
        BY <1>4, <3>1 DEF IsTaken
      <4>3. other \in ForeignNetworks \cup net_choices
        BY DEF AInv, TypeOK
      <4>4. IsNetwork(net) /\ IsNetwork(other)
        BY <4>3, BlocksAreNetworks, KnownNetworks
      <4>5. QED
        BY <4>1, <4>2, <4>4, OverlapsIsSharing
    <3>2. CASE s # t
      <4>1. HasNetwork(s) /\ network'[s] = network[s]
        BY <1>4, <3>2 DEF AInv, TypeOK, Becomes, HasNetwork
      <4>2. QED
        BY <4>1 DEF AInv, ApartFromSeen
    <3>3. QED
      BY <3>1, <3>2
  <2>5. QED
    BY <2>1, <2>3, <2>4 DEF AInv
<1>5. QED
  BY <1>1, <1>3, <1>4

(* The other steps leave alone which tunnels have a network, and which.    *)
LEMMA AInvOthers ==
    ASSUME AInv,
           \/ \E t \in Tunnels : gives_up(t) \/ connect(t) \/ disconnect(t)
           \/ RoutesChange
           \/ UNCHANGED vars
    PROVE  AInv'
<1>1. UNCHANGED <<network, seen, tries, beside>>
  BY DEF gives_up, connect, disconnect, RoutesChange, vars
<1>2. \A u \in Tunnels : HasNetwork(u)' <=> HasNetwork(u)
  BY DEF AInv, TypeOK, gives_up, connect, disconnect, RoutesChange, vars,
         Becomes, HasNetwork
<1>3. /\ stage' \in [Tunnels -> {"new", "choosing", "requested", "up"}]
      /\ routed' \subseteq ForeignNetworks
  BY DEF AInv, TypeOK, gives_up, connect, disconnect, RoutesChange, vars,
         Becomes
<1>4. TypeOK'
  BY <1>1, <1>2, <1>3 DEF AInv, TypeOK
<1>5. BesideIsSeen'
  BY <1>1, <1>2 DEF AInv, TypeOK, BesideIsSeen
<1>6. ApartFromSeen'
  BY <1>1, <1>2 DEF AInv, ApartFromSeen, Disjoint, Addresses
<1>7. QED
  BY <1>4, <1>5, <1>6 DEF AInv

LEMMA AInvKept == AInv /\ [Next]_vars => AInv'
<1> SUFFICES ASSUME AInv, [Next]_vars
             PROVE  AInv'
  OBVIOUS
<1>1. CASE \E t \in Tunnels : request(t)
  BY <1>1, AInvRequest
<1>2. CASE \E t \in Tunnels : tries_network(t)
  BY <1>2, AInvTriesNetwork
<1>3. CASE \/ \E t \in Tunnels : gives_up(t) \/ connect(t) \/ disconnect(t)
           \/ RoutesChange
           \/ UNCHANGED vars
  BY <1>3, AInvOthers
<1>4. QED
  BY <1>1, <1>2, <1>3 DEF Next, Search

LEMMA AInvHolds == Spec => []AInv
BY AInitially, AInvKept, PTL DEF Spec

(* The state of the search is well formed: it never tries more networks    *)
(* than it may.                                                            *)
THEOREM AddressesTypeCorrect == Spec => []TypeOK
<1>1. AInv => TypeOK
  BY DEF AInv
<1>2. QED
  BY <1>1, AInvHolds, PTL

(* For any address space and any number of tunnels, a tunnel has its       *)
(* network to itself among all that was routed when it was requested.      *)
THEOREM ChosenApart == Spec => []ApartFromWhatWasUp
<1>1. AInv => ApartFromWhatWasUp
  BY DEF AInv, TypeOK, BesideIsSeen, ApartFromSeen, ApartFromWhatWasUp
<1>2. QED
  BY <1>1, AInvHolds, PTL
=============================================================================
