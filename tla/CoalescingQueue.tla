-------------------------- MODULE CoalescingQueue --------------------------
(***************************************************************************)
(* What the keyed work queue promises, without its key states, ready list, *)
(* dirty flags and waiter lists: a set of due keys, who holds which key,   *)
(* and the promises handed out by drain(), shutdown() and abortPending().  *)
(* KeyedWorkQueue implements it.                                           *)
(***************************************************************************)
CONSTANTS Key, Consumer, Drainer, None

VARIABLES
  due,     \* the keys signalled since they were last handed out
  held,    \* the key each consumer works on
  mode,    \* "open", "closing" after shutdown(), "aborted"
  over,    \* the promise of shutdown() or abortPending() has resolved
  asked    \* per caller of drain(): "none", "waiting", "resolved"

vars == <<due, held, mode, over, asked>>

Init ==
  /\ due = {}
  /\ held = [c \in Consumer |-> None]
  /\ mode = "open"
  /\ over = FALSE
  /\ asked = [d \in Drainer |-> "none"]

(* Nothing is due and nobody works. *)
Quiet(d, h) == d = {} /\ \A c \in Consumer : h[c] = None

Free(k) == \A c \in Consumer : held[c] # k

(* Every step that ends quiet keeps the promises given so far, in the same step. *)
Become(d, h, m) ==
  /\ due' = d /\ held' = h /\ mode' = m
  /\ over' = (over \/ (m # "open" /\ Quiet(d, h)))
  /\ asked' = IF Quiet(d, h)
              THEN [x \in Drainer |-> IF asked[x] = "waiting" THEN "resolved" ELSE asked[x]]
              ELSE asked

(* A signal makes its key due, however often and whoever holds it. *)
Signal(k) == mode = "open" /\ Become(due \cup {k}, held, mode)

(* A signal whose key goes straight to a consumer. *)
SignalTo(c, k) ==
  /\ mode = "open" /\ held[c] = None /\ Free(k)
  /\ Become(due \ {k}, [held EXCEPT ![c] = k], mode)

(* A due key is handed to one consumer, and only while no other holds it. *)
Lease(c, k) ==
  /\ held[c] = None /\ k \in due /\ Free(k)
  /\ Become(due \ {k}, [held EXCEPT ![c] = k], mode)

(* A consumer is done; signals received meanwhile leave the key due. *)
Release(c) ==
  /\ held[c] # None
  /\ Become(due, [held EXCEPT ![c] = None], mode)

(* A consumer is done with a key that is due again, and another one takes it over. *)
HandOver(c, x) ==
  /\ held[c] \in due /\ held[x] = None
  /\ Become(due \ {held[c]}, [held EXCEPT ![c] = None, ![x] = held[c]], mode)

(* shutdown() keeps every due key, abortPending() drops them; neither takes a held one away. *)
Close == mode = "open" /\ Become(due, held, "closing")
Abort == mode # "aborted" /\ Become({}, held, "aborted")

Drain(x) ==
  /\ asked[x] = "none"
  /\ asked' = [asked EXCEPT ![x] = IF Quiet(due, held) THEN "resolved" ELSE "waiting"]
  /\ UNCHANGED <<due, held, mode, over>>

Next ==
  \/ \E k \in Key : Signal(k)
  \/ \E c \in Consumer, k \in Key : SignalTo(c, k) \/ Lease(c, k)
  \/ \E c \in Consumer : Release(c)
  \/ \E c, x \in Consumer : HandOver(c, x)
  \/ Close
  \/ Abort
  \/ \E x \in Drainer : Drain(x)

Spec == Init /\ [][Next]_vars
=============================================================================
