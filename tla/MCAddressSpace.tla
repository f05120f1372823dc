--------------------------- MODULE MCAddressSpace ---------------------------
(***************************************************************************)
(* A small address space for TLC: two ranges of two blocks of four         *)
(* addresses each, and foreign networks that contain a block, lie in one   *)
(* and are larger than a range.                                            *)
(***************************************************************************)
EXTENDS AddressSpace

Net(first, last) == [network_address |-> first, broadcast_address |-> last]

Ranges == {Net(0, 7), Net(16, 23)}

Foreign == {Net(0, 15), Net(17, 17), Net(20, 23)}
=============================================================================
