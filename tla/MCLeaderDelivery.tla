-------------------------- MODULE MCLeaderDelivery --------------------------
(* Two messages, one of which may be signalled again; two faults of any kind, one of which may
   be a replacement of the Session. *)
EXTENDS LeaderDelivery
=============================================================================
