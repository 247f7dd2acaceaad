--------------------------- MODULE MCSubscribers ---------------------------
(* Instances of Subscribers for TLC. *)
EXTENDS Subscribers

SocketSymmetry == Permutations(Sockets)
=============================================================================
