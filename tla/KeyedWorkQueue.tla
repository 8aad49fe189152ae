--------------------------- MODULE KeyedWorkQueue ---------------------------
(***************************************************************************)
(* The in-memory work queue the Controller uses to run one dirty pass over *)
(* several Tasks at once (src/coordination/keyedWorkQueue.ts).  Signals    *)
(* for one key coalesce; a key is leased by at most one consumer; a signal *)
(* that arrives during a lease marks the key dirty and is replayed at the  *)
(* FIFO tail.  shutdown() drains what was accepted, abortPending() drops   *)
(* it.  Every method runs to completion on one JavaScript thread, so each  *)
(* is one action, its inner loops and waiter resolutions included.         *)
(*                                                                         *)
(* The consumers are the `consume` loops of controller.ts: take an item,   *)
(* work on it, complete it, take again, end when take yields undefined.    *)
(***************************************************************************)
EXTENDS Naturals, Sequences

CONSTANTS
  Key,        \* work keys (Task ids)
  Consumer,   \* concurrent consume() loops
  Drainer,    \* callers of drain()
  None        \* a consumer that holds no key

ASSUME NoneAssumption == None \notin Key

VARIABLES
  phase,        \* #states: "absent", "queued" or "processing" per key
  dirty,        \* the processing keys whose dirty flag is set
  ready,        \* #ready from #readyHead on
  takeWaiters,  \* #takeWaiters from #takeWaiterHead on, as consumers
  loop,         \* where each consumer is: "idle", "waiting", "leased", "ended"
  lease,        \* the key a leased consumer holds
  drain,        \* per caller of drain(): "none", "waiting", "resolved"
  closed,       \* #closed
  aborted,      \* #aborted
  stopped,      \* #closeCompletion has been resolved
  owed          \* history: keys signalled and accepted since their last lease

vars == <<phase, dirty, ready, takeWaiters, loop, lease, drain,
          closed, aborted, stopped, owed>>

Phase == {"absent", "queued", "processing"}
Loop  == {"idle", "waiting", "leased", "ended"}

-----------------------------------------------------------------------------
Occurs(x, s) == \E i \in 1..Len(s) : s[i] = x
NoRepeat(s) == \A i, j \in 1..Len(s) : s[i] = s[j] => i = j

(* #states.size = 0 *)
Idle(ph) == \A k \in Key : ph[k] = "absent"

(* Mutant: the newest ready key is leased first, so an old one may starve. *)
LeaseNewest(c) ==
  LET k == ready[Len(ready)] IN
  /\ phase' = [phase EXCEPT ![k] = "processing"]
  /\ dirty' = dirty \ {k}
  /\ ready' = SubSeq(ready, 1, Len(ready) - 1)
  /\ loop'  = [loop EXCEPT ![c] = "leased"]
  /\ lease' = [lease EXCEPT ![c] = k]
  /\ owed'  = owed \ {k}

(* #leaseReadyWork for consumer c in take(): the head of the ready list is its lease. *)
LeaseReady(c) ==
  /\ phase' = [phase EXCEPT ![Head(ready)] = "processing"]
  /\ dirty' = dirty \ {Head(ready)}
  /\ ready' = Tail(ready)
  /\ loop'  = [loop EXCEPT ![c] = "leased"]
  /\ lease' = [lease EXCEPT ![c] = Head(ready)]
  /\ owed'  = owed \ {Head(ready)}

(* Mutant: the pushed key is never handed to a consumer that already waits. *)
PushWithoutDispatch(k, owing, freedLoop, freedLease) ==
  /\ phase' = [phase EXCEPT ![k] = "queued"]
  /\ dirty' = dirty \ {k}
  /\ ready' = Append(ready, k)
  /\ loop'  = freedLoop
  /\ lease' = freedLease
  /\ owed'  = owing
  /\ UNCHANGED takeWaiters

(***************************************************************************)
(* Push k at the tail and run #dispatchReadyWork.  The loop there hands    *)
(* ready keys to waiting consumers while both exist; a consumer waits only *)
(* while nothing is ready (NoWaiterWithReadyWork), so it turns at most     *)
(* once.  freedLoop and freedLease are the consumers after the caller gave *)
(* its own lease up.                                                       *)
(***************************************************************************)
PushAndDispatch(k, owing, freedLoop, freedLease) ==
  LET rd == Append(ready, k)
      ph == [phase EXCEPT ![k] = "queued"]
  IN  IF takeWaiters # <<>>
      THEN /\ phase' = [ph EXCEPT ![Head(rd)] = "processing"]
           /\ dirty' = dirty \ {k, Head(rd)}
           /\ ready' = Tail(rd)
           /\ loop'  = [freedLoop EXCEPT ![Head(takeWaiters)] = "leased"]
           /\ lease' = [freedLease EXCEPT ![Head(takeWaiters)] = Head(rd)]
           /\ takeWaiters' = Tail(takeWaiters)
           /\ owed'  = owing \ {Head(rd)}
      ELSE /\ phase' = ph
           /\ dirty' = dirty \ {k}
           /\ ready' = rd
           /\ loop'  = freedLoop
           /\ lease' = freedLease
           /\ owed'  = owing
           /\ UNCHANGED takeWaiters

(* The consumers whose pending take() resolves to undefined. *)
EndWaiters(lp) == [c \in Consumer |-> IF lp[c] = "waiting" THEN "ended" ELSE lp[c]]

(* Mutant: the shutdown promise resolves only when a pending take is resolved with it. *)
SettleNeedsTakers(ph, lp, tw, cl) ==
  /\ drain' = IF Idle(ph)
              THEN [d \in Drainer |-> IF drain[d] = "waiting" THEN "resolved" ELSE drain[d]]
              ELSE drain
  /\ stopped' = (stopped \/ (Idle(ph) /\ cl /\ tw # <<>>))
  /\ loop' = IF Idle(ph) /\ cl THEN EndWaiters(lp) ELSE lp
  /\ takeWaiters' = IF Idle(ph) /\ cl THEN <<>> ELSE tw

(***************************************************************************)
(* #settleIdleWaiters, given the key states ph, consumer positions lp and  *)
(* close flag cl its caller has established.                               *)
(***************************************************************************)
SettleIdleWaiters(ph, lp, tw, cl) ==
  /\ drain' = IF Idle(ph)
              THEN [d \in Drainer |-> IF drain[d] = "waiting" THEN "resolved" ELSE drain[d]]
              ELSE drain
  /\ stopped' = (stopped \/ (Idle(ph) /\ cl))
  /\ loop' = IF Idle(ph) /\ cl THEN EndWaiters(lp) ELSE lp
  /\ takeWaiters' = IF Idle(ph) /\ cl THEN <<>> ELSE tw

-----------------------------------------------------------------------------
Init ==
  /\ phase = [k \in Key |-> "absent"]
  /\ dirty = {}
  /\ ready = <<>>
  /\ takeWaiters = <<>>
  /\ loop = [c \in Consumer |-> "idle"]
  /\ lease = [c \in Consumer |-> None]
  /\ drain = [d \in Drainer |-> "none"]
  /\ closed = FALSE
  /\ aborted = FALSE
  /\ stopped = FALSE
  /\ owed = {}

(* signal(k) for a key the queue does not know: queue it and dispatch. *)
SignalNew(k) ==
  /\ ~closed
  /\ phase[k] = "absent"
  /\ PushAndDispatch(k, owed \cup {k}, loop, lease)
  /\ UNCHANGED <<drain, closed, aborted, stopped>>

(* Mutant: a signal during a lease does not mark the key dirty. *)
SignalForgetsDirty(k) ==
  /\ ~closed
  /\ phase[k] # "absent"
  /\ owed' = owed \cup {k}
  /\ UNCHANGED <<phase, dirty, ready, takeWaiters, loop, lease, drain, closed, aborted, stopped>>

(* signal(k) for a known key: a queued one absorbs it, a leased one turns dirty. *)
SignalKnown(k) ==
  /\ ~closed
  /\ phase[k] # "absent"
  /\ dirty' = IF phase[k] = "processing" THEN dirty \cup {k} ELSE dirty
  /\ owed' = owed \cup {k}
  /\ UNCHANGED <<phase, ready, takeWaiters, loop, lease, drain, closed, aborted, stopped>>

(* take() by a consumer that is between two items. *)
Take(c) ==
  /\ loop[c] = "idle"
  /\ \/ /\ aborted \/ (ready = <<>> /\ closed /\ Idle(phase))
        /\ loop' = [loop EXCEPT ![c] = "ended"]
        /\ UNCHANGED <<phase, dirty, ready, takeWaiters, lease, owed>>
     \/ /\ ~aborted
        /\ ready # <<>>
        /\ LeaseReady(c)
        /\ UNCHANGED takeWaiters
     \/ /\ ~aborted
        /\ ready = <<>>
        /\ ~(closed /\ Idle(phase))
        /\ takeWaiters' = Append(takeWaiters, c)
        /\ loop' = [loop EXCEPT ![c] = "waiting"]
        /\ UNCHANGED <<phase, dirty, ready, lease, owed>>
  /\ UNCHANGED <<drain, closed, aborted, stopped>>

(* done() on the lease of consumer c, that is #complete. *)
Done(c) ==
  LET k  == lease[c]
      lp == [loop EXCEPT ![c] = "idle"]
      ls == [lease EXCEPT ![c] = None]
      ph == [phase EXCEPT ![k] = "absent"]
  IN  /\ loop[c] = "leased"
      /\ UNCHANGED <<closed, aborted>>
      /\ \/ /\ k \in dirty /\ ~aborted
            /\ PushAndDispatch(k, owed, lp, ls)
            /\ UNCHANGED <<drain, stopped>>
         \/ /\ ~(k \in dirty /\ ~aborted)
            /\ phase' = ph
            /\ dirty' = dirty \ {k}
            /\ lease' = ls
            /\ SettleIdleWaiters(ph, lp, takeWaiters, closed)
            /\ UNCHANGED <<ready, owed>>

(* drain(): resolves at once on an idle queue, else waits for the next idle moment. *)
Drain(d) ==
  /\ drain[d] = "none"
  /\ drain' = [drain EXCEPT ![d] = IF Idle(phase) THEN "resolved" ELSE "waiting"]
  /\ UNCHANGED <<phase, dirty, ready, takeWaiters, loop, lease, closed, aborted, stopped, owed>>

(* Mutant: shutdown drops queued keys as an abort would. *)
ShutdownDropsQueued ==
  LET ph == [k \in Key |-> IF phase[k] = "queued" THEN "absent" ELSE phase[k]]
  IN  /\ ~closed
      /\ closed' = TRUE
      /\ phase' = ph
      /\ ready' = <<>>
      /\ owed' = {k \in owed : ph[k] # "absent"}
      /\ SettleIdleWaiters(ph, loop, takeWaiters, TRUE)
      /\ UNCHANGED <<dirty, lease, aborted>>

(* shutdown(): repeated calls change nothing more. *)
Shutdown ==
  /\ ~closed
  /\ closed' = TRUE
  /\ SettleIdleWaiters(phase, loop, takeWaiters, TRUE)
  /\ UNCHANGED <<phase, dirty, ready, lease, aborted, owed>>

(* abortPending(): drop queued keys and dirty replays, release every waiter. *)
AbortPending ==
  LET ph == [k \in Key |-> IF phase[k] = "queued" THEN "absent" ELSE phase[k]]
  IN  /\ ~aborted
      /\ closed' = TRUE
      /\ aborted' = TRUE
      /\ phase' = ph
      /\ dirty' = {}
      /\ ready' = <<>>
      /\ owed' = {}
      /\ SettleIdleWaiters(ph, EndWaiters(loop), <<>>, TRUE)
      /\ UNCHANGED lease

Next ==
  \/ \E k \in Key : SignalNew(k) \/ SignalKnown(k)
  \/ \E c \in Consumer : Take(c) \/ Done(c)
  \/ \E d \in Drainer : Drain(d)
  \/ Shutdown
  \/ AbortPending

Spec == Init /\ [][Next]_vars

(***************************************************************************)
(* A consumer is a loop that takes again as soon as an item is done and    *)
(* completes its item in a finally block, so both steps are weakly fair.   *)
(* Nothing forces a signal, a drain, a shutdown or an abort.               *)
(***************************************************************************)
Fairness == \A c \in Consumer : WF_vars(Take(c)) /\ WF_vars(Done(c))

FairSpec == Spec /\ Fairness

-----------------------------------------------------------------------------
(***************************************************************************)
(* Shape of the state: only a processing key is dirty, and a consumer      *)
(* names a key exactly while it holds that key's lease.                    *)
(***************************************************************************)
TypeOK ==
  /\ phase \in [Key -> Phase]
  /\ dirty \in SUBSET Key
  /\ ready \in Seq(Key)
  /\ takeWaiters \in Seq(Consumer)
  /\ loop \in [Consumer -> Loop]
  /\ lease \in [Consumer -> Key \cup {None}]
  /\ drain \in [Drainer -> {"none", "waiting", "resolved"}]
  /\ closed \in BOOLEAN
  /\ aborted \in BOOLEAN
  /\ stopped \in BOOLEAN
  /\ owed \in SUBSET Key
  /\ \A k \in dirty : phase[k] = "processing"
  /\ \A c \in Consumer : lease[c] # None <=> loop[c] = "leased"

(***************************************************************************)
(* "At most one item for a key can be processing": two consumers never     *)
(* hold the same key, and a held key is one the queue knows as processing  *)
(* (otherwise done() throws and the consumer's pass is lost).              *)
(***************************************************************************)
LeaseExclusive ==
  /\ \A c \in Consumer : loop[c] = "leased" => phase[lease[c]] = "processing"
  /\ \A c1, c2 \in Consumer :
       loop[c1] = "leased" /\ loop[c2] = "leased" /\ lease[c1] = lease[c2] => c1 = c2

(***************************************************************************)
(* A signal that signal() accepted is never lost: until its key is leased  *)
(* again (or the queue aborted) the key is queued, or leased and dirty so  *)
(* that done() replays it.                                                 *)
(***************************************************************************)
NoLostSignal ==
  \A k \in owed : phase[k] = "queued" \/ (phase[k] = "processing" /\ k \in dirty)

(* No consumer sleeps in take() while a key is ready for it. *)
NoWaiterWithReadyWork == takeWaiters # <<>> => ready = <<>>

(***************************************************************************)
(* Once the promise of shutdown() or abortPending() has resolved the queue *)
(* is empty, no consumer works and nobody is left waiting on it.           *)
(***************************************************************************)
StoppedIsQuiet ==
  stopped => /\ closed /\ Idle(phase)
             /\ ready = <<>> /\ takeWaiters = <<>>
             /\ \A c \in Consumer : loop[c] \in {"idle", "ended"}
             /\ \A d \in Drainer : drain[d] # "waiting"

(***************************************************************************)
(* The queue implements CoalescingQueue: whatever its lists and flags do,  *)
(* a signal makes its key due until one consumer gets it, a key is never   *)
(* held twice, only an abort drops due keys, and the promises of drain(),  *)
(* shutdown() and abortPending() resolve exactly in the step that leaves   *)
(* nothing due and nobody working.                                         *)
(***************************************************************************)
Promise == INSTANCE CoalescingQueue
  WITH due <- owed, held <- lease, over <- stopped, asked <- drain,
       mode <- IF aborted THEN "aborted" ELSE IF closed THEN "closing" ELSE "open"

KeepsThePromise == Promise!Spec

(* Every accepted signal is eventually leased by some consumer, or aborted. *)
SignalsAreServed == \A k \in Key : k \in owed ~> k \notin owed

(* After shutdown() or abortPending() the promise resolves and every consumer ends. *)
CloseTerminates == closed ~> (stopped /\ \A c \in Consumer : loop[c] = "ended")

=============================================================================
