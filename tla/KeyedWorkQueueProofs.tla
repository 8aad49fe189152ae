------------------------ MODULE KeyedWorkQueueProofs ------------------------
(***************************************************************************)
(* Proofs about KeyedWorkQueue for any set of keys, consumers and          *)
(* drainers.  The safety properties are not inductive one by one: leases   *)
(* stay exclusive only because the ready list holds queued keys once, and  *)
(* dispatch hands out the pushed key only because waiters and ready work   *)
(* never coexist.  Inv collects them with what else they need.             *)
(***************************************************************************)
EXTENDS KeyedWorkQueue, TLAPS

(* Appending adds one occurrence and keeps a repetition-free list so. *)
LEMMA AppendFacts ==
  ASSUME NEW S, NEW s \in Seq(S), NEW x \in S
  PROVE  /\ Append(s, x) \in Seq(S)
         /\ Append(s, x) # <<>>
         /\ \A y : Occurs(y, Append(s, x)) <=> Occurs(y, s) \/ y = x
         /\ NoRepeat(s) /\ ~Occurs(x, s) => NoRepeat(Append(s, x))
         /\ s = <<>> => Head(Append(s, x)) = x /\ Tail(Append(s, x)) = <<>>
  BY DEF Occurs, NoRepeat

(* Removing the head removes exactly its occurrence from a repetition-free list. *)
LEMMA TailFacts ==
  ASSUME NEW S, NEW s \in Seq(S), s # <<>>
  PROVE  /\ Head(s) \in S
         /\ Tail(s) \in Seq(S)
         /\ Occurs(Head(s), s)
         /\ NoRepeat(s) => NoRepeat(Tail(s))
         /\ NoRepeat(s) => \A y : Occurs(y, Tail(s)) <=> Occurs(y, s) /\ y # Head(s)
<1>1. /\ Head(s) \in S /\ Tail(s) \in Seq(S) /\ Len(s) \in Nat \ {0}
      /\ Head(s) = s[1] /\ Len(Tail(s)) = Len(s) - 1
      /\ \A i \in 1..Len(Tail(s)) : Tail(s)[i] = s[i+1]
  OBVIOUS
<1>2. Occurs(Head(s), s)
  BY <1>1 DEF Occurs
<1>3. NoRepeat(s) => NoRepeat(Tail(s))
  BY <1>1 DEF NoRepeat
<1>4. ASSUME NoRepeat(s), NEW y
      PROVE  Occurs(y, Tail(s)) <=> Occurs(y, s) /\ y # Head(s)
  <2>1. ASSUME Occurs(y, Tail(s)) PROVE Occurs(y, s) /\ y # Head(s)
    BY <1>1, <1>4, <2>1 DEF Occurs, NoRepeat
  <2>2. ASSUME Occurs(y, s), y # Head(s) PROVE Occurs(y, Tail(s))
    <3>1. PICK i \in 1..Len(s) : s[i] = y
      BY <2>2 DEF Occurs
    <3>2. i # 1 /\ i - 1 \in 1..Len(Tail(s)) /\ Tail(s)[i-1] = y
      BY <1>1, <2>2, <3>1
    <3> QED BY <3>2 DEF Occurs
  <2> QED BY <2>1, <2>2
<1> QED BY <1>1, <1>2, <1>3, <1>4

-----------------------------------------------------------------------------
(* The ready list holds each queued key exactly once and nothing else, the condition
   #leaseReadyWork enforces with a throw. *)
ReadyIsQueued ==
  /\ \A k \in Key : phase[k] = "queued" <=> Occurs(k, ready)
  /\ NoRepeat(ready)

(* The waiter list holds each consumer blocked in take() exactly once. *)
WaitersAreBlocked ==
  /\ \A c \in Consumer : loop[c] = "waiting" <=> Occurs(c, takeWaiters)
  /\ NoRepeat(takeWaiters)

(* What an abort leaves behind, and what keeps drain() callers waiting. *)
StopFlags ==
  /\ aborted => closed /\ ready = <<>> /\ takeWaiters = <<>> /\ owed = {}
  /\ closed /\ Idle(phase) => takeWaiters = <<>>
  /\ \A d \in Drainer : drain[d] = "waiting" => ~Idle(phase)
  /\ stopped => closed /\ Idle(phase)

Inv ==
  /\ TypeOK
  /\ LeaseExclusive
  /\ NoLostSignal
  /\ ReadyIsQueued
  /\ NoWaiterWithReadyWork
  /\ WaitersAreBlocked
  /\ StopFlags

(* A new queue satisfies the inductive invariant. *)
LEMMA InitInv == Init => Inv
<1> SUFFICES ASSUME Init PROVE Inv
  OBVIOUS
<1>1. TypeOK
  <2>1. /\ phase \in [Key -> Phase]
        /\ loop \in [Consumer -> Loop]
        /\ lease \in [Consumer -> Key \cup {None}]
        /\ drain \in [Drainer -> {"none", "waiting", "resolved"}]
    BY DEF Init, Phase, Loop
  <2>2. /\ dirty \in SUBSET Key /\ owed \in SUBSET Key
        /\ closed \in BOOLEAN /\ aborted \in BOOLEAN /\ stopped \in BOOLEAN
    BY Zenon DEF Init
  <2>4. ready \in Seq(Key) /\ takeWaiters \in Seq(Consumer)
    BY DEF Init
  <2>3. /\ \A k \in dirty : phase[k] = "processing"
        /\ \A c \in Consumer : lease[c] # None <=> loop[c] = "leased"
    BY DEF Init
  <2> QED BY <2>1, <2>2, <2>3, <2>4 DEF TypeOK
<1>2. LeaseExclusive /\ NoLostSignal /\ NoWaiterWithReadyWork
  BY DEF Init, LeaseExclusive, NoLostSignal, NoWaiterWithReadyWork
<1>3. ReadyIsQueued /\ WaitersAreBlocked
  BY DEF Init, ReadyIsQueued, WaitersAreBlocked, Occurs, NoRepeat
<1>4. StopFlags
  BY DEF Init, StopFlags, Idle
<1> QED BY <1>1, <1>2, <1>3, <1>4 DEF Inv

(***************************************************************************)
(* What PushAndDispatch does in a state that satisfies Inv: the key stays  *)
(* at the tail of the list, or it goes straight to the first waiter and    *)
(* the list stays empty.                                                   *)
(***************************************************************************)
LEMMA PushFacts ==
  ASSUME Inv, NEW k \in Key, NEW owing, NEW lp, NEW ls,
         PushAndDispatch(k, owing, lp, ls)
  PROVE  \/ /\ takeWaiters = <<>>
            /\ phase' = [phase EXCEPT ![k] = "queued"] /\ dirty' = dirty \ {k}
            /\ ready' = Append(ready, k) /\ owed' = owing
            /\ loop' = lp /\ lease' = ls /\ takeWaiters' = takeWaiters
         \/ /\ takeWaiters # <<>> /\ ready = <<>>
            /\ phase' = [phase EXCEPT ![k] = "processing"] /\ dirty' = dirty \ {k}
            /\ ready' = <<>> /\ owed' = owing \ {k}
            /\ loop' = [lp EXCEPT ![Head(takeWaiters)] = "leased"]
            /\ lease' = [ls EXCEPT ![Head(takeWaiters)] = k]
            /\ takeWaiters' = Tail(takeWaiters)
<1>1. CASE takeWaiters = <<>>
  BY <1>1 DEF PushAndDispatch
<1>2. CASE takeWaiters # <<>>
  <2>1. ready = <<>> /\ ready \in Seq(Key)
    BY <1>2 DEF Inv, NoWaiterWithReadyWork, TypeOK
  <2>2. Head(Append(ready, k)) = k /\ Tail(Append(ready, k)) = <<>>
    BY <2>1, AppendFacts
  <2>3. [[phase EXCEPT ![k] = "queued"] EXCEPT ![k] = "processing"]
          = [phase EXCEPT ![k] = "processing"]
    BY DEF Inv, TypeOK
  <2> QED BY <1>2, <2>1, <2>2, <2>3 DEF PushAndDispatch
<1> QED BY <1>1, <1>2

(* signal() of a key the queue does not know keeps Inv. *)
LEMMA SignalNewInv ==
  ASSUME Inv, NEW k \in Key, SignalNew(k)
  PROVE  Inv'
<1> USE DEF Inv
<1>0. /\ ~closed /\ phase[k] = "absent"
      /\ UNCHANGED <<drain, closed, aborted, stopped>>
      /\ PushAndDispatch(k, owed \cup {k}, loop, lease)
  BY DEF SignalNew
<1>1. CASE takeWaiters = <<>>
  <2>1. /\ phase' = [phase EXCEPT ![k] = "queued"] /\ dirty' = dirty \ {k}
        /\ ready' = Append(ready, k) /\ owed' = owed \cup {k}
        /\ UNCHANGED <<loop, lease, takeWaiters>>
    BY <1>0, <1>1, PushFacts
  <2>2. /\ ready' \in Seq(Key)
        /\ \A y : Occurs(y, ready') <=> Occurs(y, ready) \/ y = k
        /\ NoRepeat(ready')
    BY <1>0, <2>1, AppendFacts DEF TypeOK, ReadyIsQueued
  <2>3. TypeOK'
    BY <1>0, <2>1, <2>2 DEF TypeOK, Phase
  <2>4. LeaseExclusive' /\ NoLostSignal'
    BY <1>0, <2>1 DEF TypeOK, LeaseExclusive, NoLostSignal, Phase
  <2>5. ReadyIsQueued' /\ NoWaiterWithReadyWork' /\ WaitersAreBlocked'
    BY <1>0, <1>1, <2>1, <2>2 DEF TypeOK, ReadyIsQueued, NoWaiterWithReadyWork, WaitersAreBlocked
  <2>6. StopFlags'
    BY <1>0, <1>1, <2>1 DEF TypeOK, StopFlags, Idle
  <2> QED BY <2>3, <2>4, <2>5, <2>6
<1>2. CASE takeWaiters # <<>>
  <2> DEFINE w == Head(takeWaiters)
  <2>1. /\ phase' = [phase EXCEPT ![k] = "processing"] /\ dirty' = dirty \ {k}
        /\ ready' = <<>> /\ ready = <<>> /\ owed' = (owed \cup {k}) \ {k}
        /\ loop' = [loop EXCEPT ![w] = "leased"]
        /\ lease' = [lease EXCEPT ![w] = k]
        /\ takeWaiters' = Tail(takeWaiters)
    BY <1>0, <1>2, PushFacts
  <2>2. /\ w \in Consumer /\ loop[w] = "waiting" /\ takeWaiters' \in Seq(Consumer)
        /\ \A y : Occurs(y, takeWaiters') <=> Occurs(y, takeWaiters) /\ y # w
        /\ NoRepeat(takeWaiters')
    BY <1>2, <2>1, TailFacts DEF TypeOK, WaitersAreBlocked
  <2> HIDE DEF w
  <2>3. TypeOK'
    BY <1>0, <2>1, <2>2, NoneAssumption DEF TypeOK, Phase, Loop
  <2>4. LeaseExclusive' /\ NoLostSignal'
    BY <1>0, <2>1, <2>2 DEF TypeOK, LeaseExclusive, NoLostSignal, Phase
  <2>5. ReadyIsQueued' /\ NoWaiterWithReadyWork' /\ WaitersAreBlocked'
    BY <1>0, <2>1, <2>2 DEF TypeOK, ReadyIsQueued, NoWaiterWithReadyWork, WaitersAreBlocked
  <2>6. StopFlags'
    BY <1>0, <2>1, <2>2 DEF TypeOK, StopFlags, Idle
  <2> QED BY <2>3, <2>4, <2>5, <2>6
<1> QED BY <1>1, <1>2

(* signal() of a queued or leased key keeps Inv. *)
LEMMA SignalKnownInv ==
  ASSUME Inv, NEW k \in Key, SignalKnown(k)
  PROVE  Inv'
<1> USE DEF Inv
<1>1. /\ ~closed /\ phase[k] # "absent"
      /\ dirty' = IF phase[k] = "processing" THEN dirty \cup {k} ELSE dirty
      /\ owed' = owed \cup {k}
      /\ UNCHANGED <<phase, ready, takeWaiters, loop, lease, drain, closed, aborted, stopped>>
  BY DEF SignalKnown
<1>2. TypeOK'
  BY <1>1 DEF TypeOK, Phase
<1>3. LeaseExclusive' /\ NoLostSignal'
  BY <1>1 DEF TypeOK, LeaseExclusive, NoLostSignal, Phase
<1>4. ReadyIsQueued' /\ NoWaiterWithReadyWork' /\ WaitersAreBlocked'
  BY <1>1 DEF ReadyIsQueued, NoWaiterWithReadyWork, WaitersAreBlocked
<1>5. StopFlags'
  BY <1>1 DEF TypeOK, StopFlags, Idle
<1> QED BY <1>2, <1>3, <1>4, <1>5

(* take() keeps Inv: it ends the consumer, leases the head or blocks. *)
LEMMA TakeInv ==
  ASSUME Inv, NEW c \in Consumer, Take(c)
  PROVE  Inv'
<1> USE DEF Inv
<1>0. loop[c] = "idle" /\ UNCHANGED <<drain, closed, aborted, stopped>>
  BY DEF Take
<1>1. CASE /\ loop' = [loop EXCEPT ![c] = "ended"]
           /\ UNCHANGED <<phase, dirty, ready, takeWaiters, lease, owed>>
  <2>1. TypeOK'
    BY <1>0, <1>1 DEF TypeOK, Loop
  <2>2. LeaseExclusive' /\ NoLostSignal'
    BY <1>0, <1>1 DEF TypeOK, LeaseExclusive, NoLostSignal
  <2>3. ReadyIsQueued' /\ NoWaiterWithReadyWork' /\ WaitersAreBlocked'
    BY <1>0, <1>1 DEF TypeOK, ReadyIsQueued, NoWaiterWithReadyWork, WaitersAreBlocked
  <2>4. StopFlags'
    BY <1>0, <1>1 DEF StopFlags, Idle
  <2> QED BY <2>1, <2>2, <2>3, <2>4
<1>2. CASE ~aborted /\ ready # <<>> /\ LeaseReady(c) /\ UNCHANGED takeWaiters
  <2> DEFINE k == Head(ready)
  <2>1. /\ phase' = [phase EXCEPT ![k] = "processing"] /\ dirty' = dirty \ {k}
        /\ ready' = Tail(ready) /\ owed' = owed \ {k}
        /\ loop' = [loop EXCEPT ![c] = "leased"]
        /\ lease' = [lease EXCEPT ![c] = k]
        /\ takeWaiters' = takeWaiters /\ takeWaiters = <<>>
    BY <1>2 DEF LeaseReady, NoWaiterWithReadyWork
  <2>2. /\ k \in Key /\ phase[k] = "queued" /\ ready' \in Seq(Key)
        /\ \A y : Occurs(y, ready') <=> Occurs(y, ready) /\ y # k
        /\ NoRepeat(ready')
    BY <1>2, <2>1, TailFacts DEF TypeOK, ReadyIsQueued
  <2> HIDE DEF k
  <2>3. TypeOK'
    BY <1>0, <2>1, <2>2, NoneAssumption DEF TypeOK, Phase, Loop
  <2>4. LeaseExclusive' /\ NoLostSignal'
    BY <1>0, <2>1, <2>2 DEF TypeOK, LeaseExclusive, NoLostSignal, Phase
  <2>5. ReadyIsQueued' /\ NoWaiterWithReadyWork' /\ WaitersAreBlocked'
    BY <1>0, <2>1, <2>2 DEF TypeOK, ReadyIsQueued, NoWaiterWithReadyWork, WaitersAreBlocked
  <2>6. StopFlags'
    BY <1>0, <1>2, <2>1, <2>2 DEF TypeOK, StopFlags, Idle
  <2> QED BY <2>3, <2>4, <2>5, <2>6
<1>3. CASE /\ ~aborted /\ ready = <<>> /\ ~(closed /\ Idle(phase))
           /\ takeWaiters' = Append(takeWaiters, c)
           /\ loop' = [loop EXCEPT ![c] = "waiting"]
           /\ UNCHANGED <<phase, dirty, ready, lease, owed>>
  <2>1. ~Occurs(c, takeWaiters)
    BY <1>0 DEF WaitersAreBlocked
  <2>2. /\ takeWaiters' \in Seq(Consumer)
        /\ \A y : Occurs(y, takeWaiters') <=> Occurs(y, takeWaiters) \/ y = c
        /\ NoRepeat(takeWaiters')
    BY <1>3, <2>1, AppendFacts DEF TypeOK, WaitersAreBlocked
  <2>3. TypeOK'
    BY <1>0, <1>3, <2>2 DEF TypeOK, Loop
  <2>4. LeaseExclusive' /\ NoLostSignal'
    BY <1>0, <1>3 DEF TypeOK, LeaseExclusive, NoLostSignal
  <2>5. ReadyIsQueued' /\ NoWaiterWithReadyWork' /\ WaitersAreBlocked'
    BY <1>0, <1>3, <2>2 DEF TypeOK, ReadyIsQueued, NoWaiterWithReadyWork, WaitersAreBlocked
  <2>6. StopFlags'
    BY <1>0, <1>3 DEF StopFlags, Idle
  <2> QED BY <2>3, <2>4, <2>5, <2>6
<1> QED BY <1>1, <1>2, <1>3 DEF Take

(* Nothing occurs in the empty list, and resolving the takes leaves no consumer waiting. *)
LEMMA EmptyFacts == (\A x : ~Occurs(x, <<>>)) /\ NoRepeat(<<>>)
  BY DEF Occurs, NoRepeat

(* Resolving the outstanding takes ends exactly the waiting consumers. *)
LEMMA EndWaitersFacts ==
  ASSUME NEW lp \in [Consumer -> Loop]
  PROVE  /\ EndWaiters(lp) \in [Consumer -> Loop]
         /\ \A c \in Consumer : EndWaiters(lp)[c] # "waiting"
         /\ \A c \in Consumer : EndWaiters(lp)[c] = "leased" <=> lp[c] = "leased"
  BY DEF EndWaiters, Loop

(* done() keeps Inv, whether the key is replayed or released. *)
LEMMA DoneInv ==
  ASSUME Inv, NEW c \in Consumer, Done(c)
  PROVE  Inv'
<1> USE DEF Inv
<1> DEFINE k == lease[c]
           lp == [loop EXCEPT ![c] = "idle"]
           ls == [lease EXCEPT ![c] = None]
<1>0. /\ loop[c] = "leased" /\ k \in Key /\ phase[k] = "processing"
      /\ UNCHANGED <<closed, aborted>>
      /\ lp \in [Consumer -> Loop] /\ ls \in [Consumer -> Key \cup {None}]
      /\ \A x \in Consumer : lp[x] = "leased" => x # c /\ lease[x] # k /\ ls[x] = lease[x]
      /\ \A x \in Consumer : ls[x] # None <=> lp[x] = "leased"
      /\ \A x \in Consumer : lp[x] = "waiting" <=> loop[x] = "waiting"
  BY DEF Done, TypeOK, LeaseExclusive, Loop
<1>1. CASE k \in dirty /\ ~aborted
  <2>0. PushAndDispatch(k, owed, lp, ls) /\ UNCHANGED <<drain, stopped>>
    BY <1>1 DEF Done
  <2> HIDE DEF k, lp, ls
  <2>1. CASE takeWaiters = <<>>
    <3>1. /\ phase' = [phase EXCEPT ![k] = "queued"] /\ dirty' = dirty \ {k}
          /\ ready' = Append(ready, k) /\ owed' = owed
          /\ loop' = lp /\ lease' = ls /\ takeWaiters' = takeWaiters
      BY <1>0, <2>0, <2>1, PushFacts
    <3>2. /\ ready' \in Seq(Key)
          /\ \A y : Occurs(y, ready') <=> Occurs(y, ready) \/ y = k
          /\ NoRepeat(ready')
      BY <1>0, <3>1, AppendFacts DEF TypeOK, ReadyIsQueued
    <3>3. TypeOK'
      BY <1>0, <2>0, <3>1, <3>2 DEF TypeOK, Phase
    <3>4. LeaseExclusive' /\ NoLostSignal'
      BY <1>0, <3>1 DEF TypeOK, LeaseExclusive, NoLostSignal, Phase
    <3>5. ReadyIsQueued' /\ NoWaiterWithReadyWork' /\ WaitersAreBlocked'
      BY <1>0, <2>1, <3>1, <3>2 DEF TypeOK, ReadyIsQueued, NoWaiterWithReadyWork, WaitersAreBlocked
    <3>6. StopFlags'
      BY <1>0, <1>1, <2>0, <2>1, <3>1 DEF TypeOK, StopFlags, Idle
    <3> QED BY <3>3, <3>4, <3>5, <3>6
  <2>2. CASE takeWaiters # <<>>
    <3> DEFINE w == Head(takeWaiters)
    <3>1. /\ phase' = [phase EXCEPT ![k] = "processing"] /\ dirty' = dirty \ {k}
          /\ ready' = <<>> /\ ready = <<>> /\ owed' = owed \ {k}
          /\ loop' = [lp EXCEPT ![w] = "leased"]
          /\ lease' = [ls EXCEPT ![w] = k]
          /\ takeWaiters' = Tail(takeWaiters)
      BY <1>0, <2>0, <2>2, PushFacts
    <3>2. /\ w \in Consumer /\ loop[w] = "waiting" /\ takeWaiters' \in Seq(Consumer)
          /\ \A y : Occurs(y, takeWaiters') <=> Occurs(y, takeWaiters) /\ y # w
          /\ NoRepeat(takeWaiters')
      BY <2>2, <3>1, TailFacts DEF TypeOK, WaitersAreBlocked
    <3> HIDE DEF w
    <3>3. TypeOK'
      BY <1>0, <2>0, <3>1, <3>2, NoneAssumption DEF TypeOK, Phase, Loop
    <3>4. LeaseExclusive' /\ NoLostSignal'
      BY <1>0, <3>1, <3>2 DEF TypeOK, LeaseExclusive, NoLostSignal, Phase
    <3>5. ReadyIsQueued' /\ NoWaiterWithReadyWork' /\ WaitersAreBlocked'
      BY <1>0, <3>1, <3>2 DEF TypeOK, ReadyIsQueued, NoWaiterWithReadyWork, WaitersAreBlocked, Loop
    <3>6. StopFlags'
      BY <1>0, <1>1, <2>0, <3>1, <3>2 DEF TypeOK, StopFlags, Idle
    <3> QED BY <3>3, <3>4, <3>5, <3>6
  <2> QED BY <2>1, <2>2
<1>2. CASE ~(k \in dirty /\ ~aborted)
  <2> DEFINE ph == [phase EXCEPT ![k] = "absent"]
  <2>1. /\ phase' = ph /\ dirty' = dirty \ {k} /\ lease' = ls
        /\ SettleIdleWaiters(ph, lp, takeWaiters, closed)
        /\ UNCHANGED <<ready, owed>>
    BY <1>2 DEF Done
  <2>2. ph \in [Key -> Phase] /\ \A x \in Key : x # k => ph[x] = phase[x]
    BY <1>0 DEF TypeOK, Phase
  <2>3. ph[k] = "absent"
    BY <1>0 DEF TypeOK
  <2>4. k \notin owed
    BY <1>0, <1>2 DEF StopFlags, NoLostSignal
  <2>5. ready' \in Seq(Key) /\ (\A y : Occurs(y, ready') <=> Occurs(y, ready)) /\ NoRepeat(ready')
    BY <2>1 DEF TypeOK, ReadyIsQueued
  <2> HIDE DEF k, ph, ls, lp
  <2>6. CASE Idle(ph) /\ closed
    <3>1. /\ drain' = [d \in Drainer |-> IF drain[d] = "waiting" THEN "resolved" ELSE drain[d]]
          /\ stopped' = TRUE /\ loop' = EndWaiters(lp) /\ takeWaiters' = <<>>
      BY Zenon, <2>1, <2>6 DEF SettleIdleWaiters
    <3>2. /\ loop' \in [Consumer -> Loop]
          /\ \A x \in Consumer : loop'[x] # "waiting"
          /\ \A x \in Consumer : loop'[x] = "leased" <=> lp[x] = "leased"
      BY <1>0, <3>1, EndWaitersFacts
    <3>3. TypeOK'
      <4>1. takeWaiters' \in Seq(Consumer) /\ drain' \in [Drainer -> {"none", "waiting", "resolved"}]
        BY <3>1 DEF TypeOK
      <4>2. stopped' \in BOOLEAN /\ closed' \in BOOLEAN /\ aborted' \in BOOLEAN
        BY <1>0, <3>1 DEF TypeOK
      <4> QED BY <1>0, <2>1, <2>2, <2>5, <3>2, <4>1, <4>2 DEF TypeOK
    <3>4. LeaseExclusive' /\ NoLostSignal'
      BY <1>0, <2>1, <2>2, <2>4, <3>2 DEF TypeOK, LeaseExclusive, NoLostSignal
    <3>5. ReadyIsQueued' /\ NoWaiterWithReadyWork' /\ WaitersAreBlocked'
      BY <1>0, <2>1, <2>2, <2>3, <2>5, <3>1, <3>2, EmptyFacts
         DEF TypeOK, ReadyIsQueued, NoWaiterWithReadyWork, WaitersAreBlocked
    <3>6. StopFlags'
      BY <1>0, <2>1, <2>6, <3>1 DEF TypeOK, StopFlags
    <3> QED BY <3>3, <3>4, <3>5, <3>6
  <2>7. CASE ~(Idle(ph) /\ closed)
    <3>1. /\ drain' = IF Idle(ph)
                      THEN [d \in Drainer |-> IF drain[d] = "waiting" THEN "resolved" ELSE drain[d]]
                      ELSE drain
          /\ stopped' = stopped /\ loop' = lp /\ takeWaiters' = takeWaiters
      BY <2>1, <2>7 DEF SettleIdleWaiters, TypeOK
    <3>2. drain' \in [Drainer -> {"none", "waiting", "resolved"}]
      BY <3>1 DEF TypeOK
    <3>3. TypeOK'
      BY <1>0, <2>1, <2>2, <3>1, <3>2 DEF TypeOK
    <3>4. LeaseExclusive' /\ NoLostSignal'
      BY <1>0, <2>1, <2>2, <2>4, <3>1 DEF TypeOK, LeaseExclusive, NoLostSignal
    <3>5. ReadyIsQueued' /\ NoWaiterWithReadyWork' /\ WaitersAreBlocked'
      BY <1>0, <2>1, <2>2, <2>3, <2>5, <3>1
         DEF TypeOK, ReadyIsQueued, NoWaiterWithReadyWork, WaitersAreBlocked
    <3>6. ~stopped
      BY <1>0 DEF StopFlags, Idle
    <3>7. StopFlags'
      BY <1>0, <2>1, <2>7, <3>1, <3>6 DEF TypeOK, StopFlags
    <3> QED BY <3>3, <3>4, <3>5, <3>7
  <2> QED BY <2>6, <2>7
<1> QED BY <1>1, <1>2

(* drain() keeps Inv. *)
LEMMA DrainInv ==
  ASSUME Inv, NEW d \in Drainer, Drain(d)
  PROVE  Inv'
<1> USE DEF Inv
<1>1. /\ drain' = [drain EXCEPT ![d] = IF Idle(phase) THEN "resolved" ELSE "waiting"]
      /\ UNCHANGED <<phase, dirty, ready, takeWaiters, loop, lease, closed, aborted, stopped, owed>>
  BY DEF Drain
<1>2. TypeOK'
  BY <1>1 DEF TypeOK
<1>3. LeaseExclusive' /\ NoLostSignal' /\ ReadyIsQueued' /\ NoWaiterWithReadyWork' /\ WaitersAreBlocked'
  BY <1>1 DEF LeaseExclusive, NoLostSignal, ReadyIsQueued, NoWaiterWithReadyWork, WaitersAreBlocked
<1>4. StopFlags'
  BY <1>1 DEF TypeOK, StopFlags, Idle
<1> QED BY <1>2, <1>3, <1>4

(* shutdown() keeps Inv. *)
LEMMA ShutdownInv ==
  ASSUME Inv, Shutdown
  PROVE  Inv'
<1> USE DEF Inv
<1>1. /\ ~closed /\ closed' = TRUE
      /\ SettleIdleWaiters(phase, loop, takeWaiters, TRUE)
      /\ UNCHANGED <<phase, dirty, ready, lease, aborted, owed>>
  BY Zenon DEF Shutdown
<1>2. CASE Idle(phase)
  <2>1. /\ drain' = [d \in Drainer |-> IF drain[d] = "waiting" THEN "resolved" ELSE drain[d]]
        /\ stopped' = TRUE /\ loop' = EndWaiters(loop) /\ takeWaiters' = <<>>
    BY Zenon, <1>1, <1>2 DEF SettleIdleWaiters
  <2>2. /\ loop' \in [Consumer -> Loop]
        /\ \A x \in Consumer : loop'[x] # "waiting"
        /\ \A x \in Consumer : loop'[x] = "leased" <=> loop[x] = "leased"
    BY <2>1, EndWaitersFacts DEF TypeOK
  <2>3. takeWaiters' \in Seq(Consumer) /\ drain' \in [Drainer -> {"none", "waiting", "resolved"}]
    BY <2>1 DEF TypeOK
  <2>4. stopped' \in BOOLEAN /\ closed' \in BOOLEAN /\ aborted' \in BOOLEAN
    BY <1>1, <2>1 DEF TypeOK
  <2>5. TypeOK'
    BY <1>1, <2>2, <2>3, <2>4 DEF TypeOK
  <2>6. LeaseExclusive' /\ NoLostSignal'
    BY <1>1, <2>2 DEF TypeOK, LeaseExclusive, NoLostSignal
  <2>7. ReadyIsQueued' /\ NoWaiterWithReadyWork' /\ WaitersAreBlocked'
    BY <1>1, <2>1, <2>2, EmptyFacts DEF ReadyIsQueued, NoWaiterWithReadyWork, WaitersAreBlocked
  <2>8. StopFlags'
    BY <1>1, <1>2, <2>1 DEF TypeOK, StopFlags, Idle
  <2> QED BY <2>5, <2>6, <2>7, <2>8
<1>3. CASE ~Idle(phase)
  <2>1. UNCHANGED <<drain, stopped, loop, takeWaiters>>
    BY <1>1, <1>3 DEF SettleIdleWaiters, TypeOK
  <2>2. TypeOK'
    BY <1>1, <2>1 DEF TypeOK
  <2>3. LeaseExclusive' /\ NoLostSignal' /\ ReadyIsQueued' /\ NoWaiterWithReadyWork' /\ WaitersAreBlocked'
    BY <1>1, <2>1 DEF LeaseExclusive, NoLostSignal, ReadyIsQueued, NoWaiterWithReadyWork, WaitersAreBlocked
  <2>4. StopFlags'
    BY <1>1, <1>3, <2>1 DEF TypeOK, StopFlags, Idle
  <2> QED BY <2>2, <2>3, <2>4
<1> QED BY <1>2, <1>3

(* abortPending() keeps Inv: what it drops disappears from every part of the state. *)
LEMMA AbortInv ==
  ASSUME Inv, AbortPending
  PROVE  Inv'
<1> USE DEF Inv
<1> DEFINE ph == [k \in Key |-> IF phase[k] = "queued" THEN "absent" ELSE phase[k]]
<1>1. /\ closed' = TRUE /\ aborted' = TRUE /\ phase' = ph /\ dirty' = {}
      /\ ready' = <<>> /\ owed' = {} /\ lease' = lease
      /\ SettleIdleWaiters(ph, EndWaiters(loop), <<>>, TRUE)
  BY Zenon DEF AbortPending
<1>2. /\ ph \in [Key -> Phase] /\ \A k \in Key : ph[k] # "queued"
      /\ \A k \in Key : phase[k] = "processing" => ph[k] = "processing"
  BY DEF TypeOK, Phase
<1> HIDE DEF ph
<1>3. /\ EndWaiters(loop) \in [Consumer -> Loop]
      /\ \A x \in Consumer : EndWaiters(loop)[x] # "waiting"
      /\ \A x \in Consumer : EndWaiters(loop)[x] = "leased" <=> loop[x] = "leased"
  BY EndWaitersFacts DEF TypeOK
<1>4. EndWaiters(EndWaiters(loop)) = EndWaiters(loop)
  BY <1>3 DEF EndWaiters
<1>5. loop' = EndWaiters(loop) /\ takeWaiters' = <<>>
  BY <1>1, <1>4 DEF SettleIdleWaiters
<1>6. /\ drain' \in [Drainer -> {"none", "waiting", "resolved"}]
      /\ \A d \in Drainer : drain'[d] = "waiting" => ~Idle(ph)
  BY <1>1 DEF SettleIdleWaiters, TypeOK
<1>7. stopped' \in BOOLEAN /\ (stopped' => stopped \/ Idle(ph))
  BY <1>1 DEF SettleIdleWaiters, TypeOK
<1>8. stopped => Idle(ph)
  BY Zenon, <1>2 DEF StopFlags, Idle, ph, TypeOK, Phase
<1>9. TypeOK'
  <2>1. ready' \in Seq(Key) /\ takeWaiters' \in Seq(Consumer)
    BY <1>1, <1>5
  <2>2. dirty' \in SUBSET Key /\ owed' \in SUBSET Key /\ closed' \in BOOLEAN /\ aborted' \in BOOLEAN
    BY <1>1
  <2>3. \A k \in dirty' : phase'[k] = "processing"
    BY <1>1
  <2>4. /\ loop' \in [Consumer -> Loop] /\ phase' \in [Key -> Phase]
        /\ lease' \in [Consumer -> Key \cup {None}]
        /\ \A c \in Consumer : lease'[c] # None <=> loop'[c] = "leased"
    BY <1>1, <1>2, <1>3, <1>5 DEF TypeOK
  <2> QED BY <1>6, <1>7, <2>1, <2>2, <2>3, <2>4 DEF TypeOK
<1>10. LeaseExclusive'
  BY <1>1, <1>2, <1>3, <1>5 DEF TypeOK, LeaseExclusive
<1>11. NoLostSignal' /\ NoWaiterWithReadyWork'
  BY <1>1, <1>5 DEF NoLostSignal, NoWaiterWithReadyWork
<1>12. ReadyIsQueued' /\ WaitersAreBlocked'
  BY <1>1, <1>2, <1>3, <1>5, EmptyFacts DEF ReadyIsQueued, WaitersAreBlocked
<1>13. StopFlags'
  BY <1>1, <1>5, <1>6, <1>7, <1>8 DEF StopFlags
<1> QED BY <1>9, <1>10, <1>11, <1>12, <1>13

(* A step that changes nothing keeps the inductive invariant. *)
LEMMA StutterInv == Inv /\ UNCHANGED vars => Inv'
  BY DEF Inv, vars, TypeOK, LeaseExclusive, NoLostSignal, ReadyIsQueued,
     NoWaiterWithReadyWork, WaitersAreBlocked, StopFlags, Idle

(* Every reachable state of the queue satisfies the inductive invariant. *)
THEOREM Invariance == Spec => []Inv
<1>1. Inv /\ [Next]_vars => Inv'
  <2> SUFFICES ASSUME Inv, [Next]_vars PROVE Inv'
    OBVIOUS
  <2>1. ASSUME NEW k \in Key, SignalNew(k) PROVE Inv'
    BY <2>1, SignalNewInv
  <2>2. ASSUME NEW k \in Key, SignalKnown(k) PROVE Inv'
    BY <2>2, SignalKnownInv
  <2>3. ASSUME NEW c \in Consumer, Take(c) PROVE Inv'
    BY <2>3, TakeInv
  <2>4. ASSUME NEW c \in Consumer, Done(c) PROVE Inv'
    BY <2>4, DoneInv
  <2>5. ASSUME NEW d \in Drainer, Drain(d) PROVE Inv'
    BY <2>5, DrainInv
  <2>6. CASE Shutdown
    BY <2>6, ShutdownInv
  <2>7. CASE AbortPending
    BY <2>7, AbortInv
  <2>8. CASE UNCHANGED vars
    BY <2>8, StutterInv
  <2> QED BY <2>1, <2>2, <2>3, <2>4, <2>5, <2>6, <2>7, <2>8 DEF Next
<1> QED BY <1>1, InitInv, PTL DEF Spec

(* The queue's state is well formed for any number of keys and consumers. *)
THEOREM TypeCorrect == Spec => []TypeOK
  BY Invariance, PTL DEF Inv

(* No two consumers ever hold one key, and a held key is a processing one. *)
THEOREM ExclusiveLeases == Spec => []LeaseExclusive
  BY Invariance, PTL DEF Inv

(* An accepted signal is queued or marked dirty until its key is leased again. *)
THEOREM SignalsNeverLost == Spec => []NoLostSignal
  BY Invariance, PTL DEF Inv

(* No consumer sleeps while a key is ready. *)
THEOREM NoSleepingConsumer == Spec => []NoWaiterWithReadyWork
  BY Invariance, PTL DEF Inv

(* When a stop promise has resolved nothing runs, is queued or waits. *)
THEOREM StopIsFinal == Spec => []StoppedIsQuiet
<1>1. Inv => StoppedIsQuiet
  <2> SUFFICES ASSUME Inv, stopped PROVE StoppedIsQuiet
    BY DEF StoppedIsQuiet, Inv, TypeOK
  <2>1. closed /\ Idle(phase) /\ takeWaiters = <<>> /\ \A d \in Drainer : drain[d] # "waiting"
    BY DEF Inv, StopFlags
  <2>2. \A c \in Consumer : loop[c] # "waiting"
    BY <2>1, EmptyFacts DEF Inv, WaitersAreBlocked
  <2>3. \A c \in Consumer : loop[c] # "leased"
    BY <2>1, NoneAssumption DEF Inv, TypeOK, LeaseExclusive, Idle
  <2>4. ready = <<>>
    <3>1. ready \in Seq(Key) /\ \A k \in Key : ~Occurs(k, ready)
      BY <2>1 DEF Inv, TypeOK, ReadyIsQueued, Idle
    <3>2. SUFFICES ASSUME ready # <<>> PROVE FALSE
      OBVIOUS
    <3>3. Head(ready) \in Key /\ 1 \in 1..Len(ready) /\ ready[1] = Head(ready)
      BY <3>1, <3>2
    <3> QED BY <3>1, <3>3 DEF Occurs
  <2> QED BY <2>1, <2>2, <2>3, <2>4 DEF StoppedIsQuiet, Inv, TypeOK, Loop
<1> QED BY <1>1, Invariance, PTL

-----------------------------------------------------------------------------
(***************************************************************************)
(* KeyedWorkQueue implements CoalescingQueue.  The promises resolve in the *)
(* code when #states is empty and in the abstraction when nothing is due   *)
(* and nobody works.  That these are the same moment is what the extra     *)
(* invariant Accounted gives: every entry of #states stands for a due key  *)
(* or for a holder.                                                        *)
(***************************************************************************)

(* A queued or dirty key is due, and a processing key has a consumer. *)
Accounted ==
  /\ \A k \in Key : phase[k] = "queued" => k \in owed
  /\ dirty \subseteq owed
  /\ \A k \in Key : phase[k] = "processing" => \E c \in Consumer : lease[c] = k

Mode == IF aborted THEN "aborted" ELSE IF closed THEN "closing" ELSE "open"

(* The queue holds no entry exactly when nothing is due and nobody works. *)
LEMMA QuietIsIdle ==
  ASSUME Inv, Accounted
  PROVE  Idle(phase) <=> Promise!Quiet(owed, lease)
<1>1. ASSUME Idle(phase) PROVE owed = {} /\ \A c \in Consumer : lease[c] = None
  <2>1. owed = {}
    BY <1>1 DEF Inv, TypeOK, NoLostSignal, Idle
  <2>2. ASSUME NEW c \in Consumer, lease[c] # None PROVE FALSE
    <3>1. lease[c] \in Key /\ phase[lease[c]] = "processing"
      BY <2>2 DEF Inv, TypeOK, LeaseExclusive
    <3> QED BY <1>1, <3>1 DEF Idle
  <2> QED BY <2>1, <2>2
<1>2. ASSUME owed = {}, \A c \in Consumer : lease[c] = None PROVE Idle(phase)
  <2> SUFFICES ASSUME NEW k \in Key, phase[k] # "absent" PROVE FALSE
    BY Zenon DEF Idle
  <2>1. phase[k] = "queued" \/ phase[k] = "processing"
    BY DEF Inv, TypeOK, Phase
  <2> QED BY <1>2, <2>1, NoneAssumption DEF Accounted
<1> QED BY <1>1, <1>2 DEF Promise!Quiet

(* A key the queue does not know as processing is in nobody's hands. *)
LEMMA FreeFacts ==
  ASSUME Inv, NEW k \in Key, phase[k] # "processing"
  PROVE  Promise!Free(k)
<1> SUFFICES ASSUME NEW c \in Consumer, lease[c] = k PROVE FALSE
  BY DEF Promise!Free
<1>1. loop[c] = "leased"
  BY NoneAssumption DEF Inv, TypeOK
<1> QED BY <1>1 DEF Inv, LeaseExclusive

(* A step that settles the waiters of the new state is an abstract Become. *)
LEMMA BecomeFacts ==
  ASSUME Inv', Accounted',
         drain' = IF Idle(phase')
                  THEN [d \in Drainer |-> IF drain[d] = "waiting" THEN "resolved" ELSE drain[d]]
                  ELSE drain,
         stopped' = (stopped \/ (Idle(phase') /\ closed'))
  PROVE  Promise!Become(owed', lease', Mode')
<1>1. Idle(phase') <=> Promise!Quiet(owed', lease')
  <2>1. (Inv /\ Accounted => (Idle(phase) <=> Promise!Quiet(owed, lease)))'
    BY QuietIsIdle, PTL
  <2> QED BY <2>1 DEF Idle, Promise!Quiet
<1>2. closed' <=> Mode' # "open"
  BY DEF Inv, StopFlags, Mode
<1> QED BY <1>1, <1>2 DEF Promise!Become, Mode

-----------------------------------------------------------------------------
(* A push that dispatches at most once leaves some entry in the queue. *)
LEMMA PushIsBusy ==
  ASSUME Inv, NEW k \in Key, NEW owing, NEW lp, NEW ls,
         PushAndDispatch(k, owing, lp, ls)
  PROVE  ~Idle(phase')
<1>1. phase'[k] \in {"queued", "processing"}
  BY PushFacts DEF Inv, TypeOK
<1> QED BY <1>1 DEF Idle

(* Steps that leave an entry in the queue and resolve no promise. *)
LEMMA BusyBecome ==
  ASSUME Inv', Accounted', Inv, ~Idle(phase'), UNCHANGED <<drain, stopped>>
  PROVE  Promise!Become(owed', lease', Mode')
<1>1. stopped' = (stopped \/ (Idle(phase') /\ closed'))
  BY DEF Inv, TypeOK
<1> QED BY <1>1, BecomeFacts

(* signal() of an unknown key is an abstract Signal, or SignalTo the first waiter. *)
LEMMA SignalNewStep ==
  ASSUME Inv, Accounted, NEW k \in Key, SignalNew(k)
  PROVE  Accounted' /\ Promise!Next
<1>0. /\ ~closed /\ phase[k] = "absent" /\ Mode = "open" /\ Mode' = Mode
      /\ UNCHANGED <<drain, closed, aborted, stopped>>
      /\ PushAndDispatch(k, owed \cup {k}, loop, lease)
  BY DEF SignalNew, Mode, Inv, StopFlags
<1>1. Inv' /\ ~Idle(phase')
  BY <1>0, SignalNewInv, PushIsBusy
<1>2. CASE takeWaiters = <<>>
  <2>1. /\ phase' = [phase EXCEPT ![k] = "queued"] /\ dirty' = dirty \ {k}
        /\ owed' = owed \cup {k} /\ lease' = lease
    BY <1>0, <1>2, PushFacts
  <2>2. Accounted'
    BY <2>1 DEF Accounted, Inv, TypeOK
  <2>3. Promise!Become(owed \cup {k}, lease, Mode)
    BY <1>0, <1>1, <2>1, <2>2, BusyBecome
  <2> QED BY Zenon, <1>0, <2>2, <2>3 DEF Promise!Next, Promise!Signal, Mode
<1>3. CASE takeWaiters # <<>>
  <2> DEFINE w == Head(takeWaiters)
  <2>1. /\ phase' = [phase EXCEPT ![k] = "processing"] /\ dirty' = dirty \ {k}
        /\ owed' = (owed \cup {k}) \ {k} /\ lease' = [lease EXCEPT ![w] = k]
    BY <1>0, <1>3, PushFacts
  <2>2. w \in Consumer /\ loop[w] = "waiting" /\ lease[w] = None
    BY <1>3, TailFacts DEF Inv, TypeOK, WaitersAreBlocked
  <2> HIDE DEF w
  <2>3. owed' = owed \ {k}
    BY <2>1
  <2>4. Accounted'
    BY <2>1, <2>2, <2>3, NoneAssumption DEF Accounted, Inv, TypeOK
  <2>5. Promise!Become(owed \ {k}, [lease EXCEPT ![w] = k], Mode)
    BY Zenon, <1>0, <1>1, <2>1, <2>3, <2>4, BusyBecome
  <2>6. Promise!Free(k)
    BY <1>0, FreeFacts
  <2> QED BY Zenon, <1>0, <2>2, <2>4, <2>5, <2>6 DEF Promise!Next, Promise!SignalTo, Mode
<1> QED BY <1>2, <1>3

(* signal() of a known key is an abstract Signal. *)
LEMMA SignalKnownStep ==
  ASSUME Inv, Accounted, NEW k \in Key, SignalKnown(k)
  PROVE  Accounted' /\ Promise!Next
<1>1. /\ ~closed /\ phase[k] # "absent" /\ owed' = owed \cup {k}
      /\ dirty' \subseteq dirty \cup {k}
      /\ UNCHANGED <<phase, lease, drain, stopped, closed, aborted>>
      /\ Mode = "open" /\ Mode' = Mode
  BY DEF SignalKnown, Mode, Inv, StopFlags
<1>2. Inv' /\ ~Idle(phase')
  BY <1>1, SignalKnownInv DEF Idle
<1>3. Accounted'
  BY <1>1 DEF Accounted
<1>4. Promise!Become(owed \cup {k}, lease, Mode)
  BY <1>1, <1>2, <1>3, BusyBecome
<1> QED BY Zenon, <1>1, <1>3, <1>4 DEF Promise!Next, Promise!Signal, Mode

(* take() is an abstract Lease, or nothing the abstraction shows. *)
LEMMA TakeStep ==
  ASSUME Inv, Accounted, NEW c \in Consumer, Take(c)
  PROVE  Accounted' /\ [Promise!Next]_(Promise!vars)
<1>0. loop[c] = "idle" /\ UNCHANGED <<drain, closed, aborted, stopped>> /\ Mode' = Mode
  BY DEF Take, Mode
<1>1. CASE UNCHANGED <<phase, dirty, lease, owed>>
  BY <1>0, <1>1 DEF Accounted, Promise!vars
<1>2. CASE ~aborted /\ ready # <<>> /\ LeaseReady(c) /\ UNCHANGED takeWaiters
  <2> DEFINE k == Head(ready)
  <2>1. /\ phase' = [phase EXCEPT ![k] = "processing"] /\ dirty' = dirty \ {k}
        /\ owed' = owed \ {k} /\ lease' = [lease EXCEPT ![c] = k]
    BY <1>2 DEF LeaseReady
  <2>2. k \in Key /\ phase[k] = "queued" /\ lease[c] = None
    BY <1>0, <1>2, TailFacts DEF Inv, TypeOK, ReadyIsQueued
  <2> HIDE DEF k
  <2>3. Inv' /\ ~Idle(phase')
    BY <2>1, <2>2, TakeInv DEF Idle, Inv, TypeOK
  <2>4. k \in owed /\ Promise!Free(k)
    BY <2>2, FreeFacts DEF Accounted
  <2>5. Accounted'
    BY <2>1, <2>2, NoneAssumption DEF Accounted, Inv, TypeOK
  <2>6. Promise!Become(owed \ {k}, [lease EXCEPT ![c] = k], Mode)
    BY <1>0, <2>1, <2>3, <2>5, BusyBecome
  <2> QED BY Zenon, <2>2, <2>4, <2>5, <2>6 DEF Promise!Next, Promise!Lease, Mode
<1> QED BY <1>1, <1>2 DEF Take

(* done() is an abstract Release, or a HandOver to the first waiter. *)
LEMMA DoneStep ==
  ASSUME Inv, Accounted, NEW c \in Consumer, Done(c)
  PROVE  Accounted' /\ Promise!Next
<1> DEFINE k == lease[c]
           lp == [loop EXCEPT ![c] = "idle"]
           ls == [lease EXCEPT ![c] = None]
<1>a. loop[c] = "leased" /\ UNCHANGED <<closed, aborted>>
  BY DEF Done
<1>b. k \in Key /\ k # None /\ phase[k] = "processing"
  BY <1>a DEF Inv, TypeOK, LeaseExclusive
<1>c. \A x \in Consumer : x # c => ls[x] = lease[x]
  BY DEF Inv, TypeOK
<1>0. /\ loop[c] = "leased" /\ k \in Key /\ k # None /\ phase[k] = "processing"
      /\ UNCHANGED <<closed, aborted>> /\ Mode' = Mode /\ Inv'
      /\ \A x \in Consumer : x # c => ls[x] = lease[x]
  BY <1>a, <1>b, <1>c, DoneInv DEF Mode
<1>1. CASE k \in dirty /\ ~aborted
  <2>0. PushAndDispatch(k, owed, lp, ls) /\ UNCHANGED <<drain, stopped>> /\ k \in owed
    BY <1>1 DEF Done, Accounted
  <2>1. ~Idle(phase')
    BY <1>0, <2>0, PushIsBusy
  <2>2. CASE takeWaiters = <<>>
    <3>1. /\ phase' = [phase EXCEPT ![k] = "queued"] /\ dirty' = dirty \ {k}
          /\ owed' = owed /\ lease' = ls
      BY <1>0, <2>0, <2>2, PushFacts
    <3>2. Accounted'
      BY <1>0, <2>0, <3>1 DEF Accounted, Inv, TypeOK
    <3>3. Promise!Become(owed, ls, Mode)
      BY <1>0, <2>0, <2>1, <3>1, <3>2, BusyBecome
    <3> QED BY <1>0, <3>2, <3>3 DEF Promise!Next, Promise!Release, Mode
  <2>3. CASE takeWaiters # <<>>
    <3> DEFINE w == Head(takeWaiters)
    <3>1. /\ phase' = [phase EXCEPT ![k] = "processing"] /\ dirty' = dirty \ {k}
          /\ owed' = owed \ {k} /\ lease' = [ls EXCEPT ![w] = k]
      <4> HIDE DEF k, lp, ls
      <4> QED BY <1>0, <2>0, <2>3, PushFacts
    <3>2. w \in Consumer /\ loop[w] = "waiting" /\ lease[w] = None /\ w # c
      BY <1>0, <2>3, TailFacts DEF Inv, TypeOK, WaitersAreBlocked
    <3>3. lease' = [lease EXCEPT ![c] = None, ![w] = lease[c]]
      BY <3>1
    <3> HIDE DEF w
    <3>4. Accounted'
      <4>1. lease'[w] = k /\ \A x \in Consumer : x # w /\ x # c => lease'[x] = lease[x]
        BY <1>0, <3>1, <3>2 DEF Inv, TypeOK
      <4>2. \A j \in Key : phase'[j] = "queued" => j \in owed'
        BY <1>0, <3>1 DEF Accounted, Inv, TypeOK
      <4>3. dirty' \subseteq owed'
        BY <3>1 DEF Accounted
      <4>4. ASSUME NEW j \in Key, phase'[j] = "processing"
            PROVE  \E x \in Consumer : lease'[x] = j
        <5>1. CASE j = k
          BY <3>2, <4>1, <5>1
        <5>2. CASE j # k
          <6>1. PICK x \in Consumer : lease[x] = j
            BY <3>1, <4>4, <5>2 DEF Accounted, Inv, TypeOK
          <6>2. x # c /\ x # w
            BY <3>2, <5>2, <6>1, NoneAssumption
          <6> QED BY <4>1, <6>1, <6>2
        <5> QED BY <5>1, <5>2
      <4> QED BY <4>2, <4>3, <4>4 DEF Accounted
    <3>5. Promise!Become(owed \ {lease[c]}, [lease EXCEPT ![c] = None, ![w] = lease[c]], Mode)
      BY <1>0, <2>0, <2>1, <3>1, <3>3, <3>4, BusyBecome
    <3>6. Promise!HandOver(c, w)
      BY <2>0, <3>2, <3>5 DEF Promise!HandOver, Mode
    <3> QED BY <3>2, <3>4, <3>6 DEF Promise!Next
  <2> QED BY <2>2, <2>3
<1>2. CASE ~(k \in dirty /\ ~aborted)
  <2>1. /\ phase' = [phase EXCEPT ![k] = "absent"] /\ dirty' = dirty \ {k}
        /\ lease' = ls /\ owed' = owed
        /\ SettleIdleWaiters(phase', lp, takeWaiters, closed)
    BY <1>2 DEF Done
  <2>2. Accounted'
    <3>1. ASSUME NEW j \in Key, phase'[j] # "absent" PROVE j # k /\ phase'[j] = phase[j]
      BY <1>0, <2>1, <3>1 DEF Inv, TypeOK
    <3>2. \A j \in Key : phase'[j] = "queued" => j \in owed'
      BY <2>1, <3>1 DEF Accounted
    <3>3. ASSUME NEW j \in Key, phase'[j] = "processing"
          PROVE  \E x \in Consumer : lease'[x] = j
      <4>1. PICK x \in Consumer : lease[x] = j
        BY <3>1, <3>3 DEF Accounted
      <4>2. x # c
        BY <3>1, <3>3, <4>1
      <4> QED BY <1>0, <2>1, <4>1, <4>2
    <3> QED BY <2>1, <3>2, <3>3 DEF Accounted
  <2>3. /\ drain' = IF Idle(phase')
                    THEN [d \in Drainer |-> IF drain[d] = "waiting" THEN "resolved" ELSE drain[d]]
                    ELSE drain
        /\ stopped' = (stopped \/ (Idle(phase') /\ closed'))
    BY <1>0, <2>1 DEF SettleIdleWaiters
  <2>4. Promise!Become(owed, ls, Mode)
    BY <1>0, <2>1, <2>2, <2>3, BecomeFacts
  <2> QED BY <1>0, <2>2, <2>4 DEF Promise!Next, Promise!Release, Mode
<1> QED BY <1>1, <1>2

(* drain() asks the same question of both. *)
LEMMA DrainStep ==
  ASSUME Inv, Accounted, NEW d \in Drainer, Drain(d)
  PROVE  Accounted' /\ Promise!Next
<1>1. /\ drain[d] = "none"
      /\ drain' = [drain EXCEPT ![d] = IF Idle(phase) THEN "resolved" ELSE "waiting"]
      /\ UNCHANGED <<phase, dirty, lease, closed, aborted, stopped, owed>>
  BY DEF Drain
<1>2. Accounted'
  BY <1>1 DEF Accounted
<1>3. Promise!Drain(d)
  BY Zenon, <1>1, QuietIsIdle DEF Promise!Drain
<1> QED BY <1>2, <1>3 DEF Promise!Next

(* shutdown() is an abstract Close: it drops nothing. *)
LEMMA ShutdownStep ==
  ASSUME Inv, Accounted, Shutdown
  PROVE  Accounted' /\ Promise!Next
<1>1. /\ ~closed /\ closed' = TRUE /\ ~aborted
      /\ SettleIdleWaiters(phase, loop, takeWaiters, TRUE)
      /\ UNCHANGED <<phase, dirty, lease, aborted, owed>>
  BY Zenon DEF Shutdown, Inv, StopFlags
<1>2. Accounted'
  BY <1>1 DEF Accounted
<1>3. Mode = "open" /\ Mode' = "closing"
  BY <1>1 DEF Mode
<1>4. /\ drain' = IF Idle(phase')
                  THEN [d \in Drainer |-> IF drain[d] = "waiting" THEN "resolved" ELSE drain[d]]
                  ELSE drain
      /\ stopped' = (stopped \/ (Idle(phase') /\ closed'))
  BY <1>1 DEF SettleIdleWaiters
<1>5. Promise!Become(owed, lease, "closing")
  BY <1>1, <1>2, <1>3, <1>4, ShutdownInv, BecomeFacts
<1> QED BY <1>2, <1>3, <1>5 DEF Promise!Next, Promise!Close, Mode

(* abortPending() is an abstract Abort: it drops everything due, and no lease. *)
LEMMA AbortStep ==
  ASSUME Inv, Accounted, AbortPending
  PROVE  Accounted' /\ Promise!Next
<1> DEFINE ph == [k \in Key |-> IF phase[k] = "queued" THEN "absent" ELSE phase[k]]
<1>1. /\ ~aborted /\ closed' = TRUE /\ aborted' = TRUE /\ phase' = ph /\ dirty' = {}
      /\ owed' = {} /\ lease' = lease
      /\ SettleIdleWaiters(ph, EndWaiters(loop), <<>>, TRUE)
  BY Zenon DEF AbortPending
<1>2. \A k \in Key : ph[k] # "queued" /\ (ph[k] = "processing" => phase[k] = "processing")
  OBVIOUS
<1> HIDE DEF ph
<1>3. Accounted'
  BY <1>1, <1>2 DEF Accounted
<1>4. Mode # "aborted" /\ Mode' = "aborted"
  BY <1>1 DEF Mode
<1>5. /\ drain' = IF Idle(phase')
                  THEN [d \in Drainer |-> IF drain[d] = "waiting" THEN "resolved" ELSE drain[d]]
                  ELSE drain
      /\ stopped' = (stopped \/ (Idle(phase') /\ closed'))
  BY <1>1 DEF SettleIdleWaiters
<1>6. Promise!Become({}, lease, "aborted")
  BY <1>1, <1>3, <1>4, <1>5, AbortInv, BecomeFacts
<1> QED BY <1>3, <1>4, <1>6 DEF Promise!Next, Promise!Abort, Mode

-----------------------------------------------------------------------------
(* keyedWorkQueue.ts implements the coalescing queue its callers rely on, for every
   set of Task ids, consume() loops and drain() callers. *)
THEOREM QueueKeepsPromise == Spec => KeepsThePromise
<1>1. Init => Promise!Init /\ Accounted
  BY DEF Init, Promise!Init, Accounted
<1>2. Inv /\ Accounted /\ [Next]_vars => Accounted' /\ [Promise!Next]_(Promise!vars)
  <2> SUFFICES ASSUME Inv, Accounted, [Next]_vars
               PROVE  Accounted' /\ [Promise!Next]_(Promise!vars)
    OBVIOUS
  <2>1. ASSUME NEW k \in Key, SignalNew(k) \/ SignalKnown(k)
        PROVE  Accounted' /\ Promise!Next
    BY <2>1, SignalNewStep, SignalKnownStep
  <2>2. ASSUME NEW c \in Consumer, Take(c)
        PROVE  Accounted' /\ [Promise!Next]_(Promise!vars)
    BY <2>2, TakeStep
  <2>3. ASSUME NEW c \in Consumer, Done(c)
        PROVE  Accounted' /\ Promise!Next
    BY <2>3, DoneStep
  <2>4. ASSUME NEW d \in Drainer, Drain(d)
        PROVE  Accounted' /\ Promise!Next
    BY <2>4, DrainStep
  <2>5. CASE Shutdown
    BY <2>5, ShutdownStep
  <2>6. CASE AbortPending
    BY <2>6, AbortStep
  <2>7. CASE UNCHANGED vars
    BY <2>7 DEF vars, Accounted, Promise!vars
  <2> QED BY <2>1, <2>2, <2>3, <2>4, <2>5, <2>6, <2>7 DEF Next
<1> QED BY <1>1, <1>2, Invariance, PTL DEF Spec, KeepsThePromise, Promise!Spec
=============================================================================
