--------------------------- MODULE MCNotifications ---------------------------
(* An instance of Notifications for TLC: two collections, of two rows and of  *)
(* one, and subscriptions to each and to a row.                              *)
EXTENDS Notifications, TLC

CONSTANTS r1, r2, r3, c1, c2, s1, s2

TwoCollections == r1 :> c1 @@ r2 :> c1 @@ r3 :> c2
CollectionAndRow == s1 :> c1 @@ s2 :> r1
=============================================================================
