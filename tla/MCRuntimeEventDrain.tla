------------------------ MODULE MCRuntimeEventDrain ------------------------
(* Two lanes that need not empty: t1 has a failing fact with a Turn boundary behind it, t2 a
   Host event that waits for its Session with progress and a usage fact behind it.  In
   t3 the Host and the hook both report the end of Turn a, the hook perhaps twice, behind a
   state whose record goes with it, and the receipt may come after them.  There is one
   global fact. *)
EXTENDS RuntimeEventDrain

E(t, k, s) == [task |-> t, kind |-> k, stream |-> s]

MCEvent == <<E("t1", "fact", "a"), E("t2", "host", "-"), E("t1", "turn", "a"),
             E("t2", "activity", "a"), E("t2", "usage", "a"), E("t2", "activity", "a"),
             E("t3", "state", "a"), E("t3", "accepted", "a"), E("t3", "turn", "a"),
             E("t3", "terminal", "a"), E("global", "fact", "-")>>
MCPoison      == {1}
MCDeferring   == {2}
MCBacklog     == (1..11) \ {8}
MCRepublished == {10}
=============================================================================
