------------------------- MODULE RuntimeEventDrain -------------------------
(***************************************************************************)
(* The durable inbox of runtime events and the Controller's drain of it    *)
(* (src/controller/runtimeEventInbox.ts, runtimeEventProcessor.ts).  A     *)
(* producer links one immutable file per event.  A drain lists the files,  *)
(* coalesces progress, takes a bounded batch that is fair between Tasks,   *)
(* folds each candidate into the store and only then unlinks its files.    *)
(*                                                                         *)
(* Both processors are modelled.  FileRuntimeEventProcessor ("inProcess")  *)
(* folds a wave of candidates of distinct Tasks in one transaction and     *)
(* falls back to one transaction per candidate.  AsyncRuntimeEventProcessor*)
(* ("worker") folds one candidate at a time and reads the Task in an       *)
(* earlier worker call than the fold, so commands interleave there.        *)
(*                                                                         *)
(* Events are numbered in the order compareRuntimeEvents lists them; they  *)
(* may be published in any order.  What a fold does to the aggregate is    *)
(* abstracted to: it takes effect (effects counts how often), or it is     *)
(* retired without effect (obsolete).  Two things tell a fold that it      *)
(* comes again: the record of the observation (persisted), which a later   *)
(* one may replace, and for the events of a Turn the status of its binding *)
(* (accepted, settled), whoever reported it first.                         *)
(***************************************************************************)
EXTENDS Integers, Sequences, FiniteSets, FiniteSetsExt

CONSTANTS
  Event,         \* sequence of [task, kind, stream]; the stream names the fence of an
                 \* observation, and the Turn of an event that is about one
  Global,        \* the task field of an event of global scope
  Poison,        \* events whose fold throws whenever it reaches the observer
  Deferring,     \* Host events that wait for the adoption of their Session
  MaxPerDrain,   \* maxEventsPerDrain
  Backlog,       \* events already in the inbox when the Controller starts
  Republished,   \* events whose producer may publish them twice
  MaxDisturbances \* bound: Controller restarts, transient throws of a fold or of an unlink,
                  \* and stop, start and archive commands, together

Ids   == DOMAIN Event
Tasks == {Event[e].task : e \in Ids} \ {Global}

(* fact: an observation whose record is kept (of global scope: a diagnostic);
   state: one whose record the next replaces (operations, waiting, sessions, health);
   host: what an Agent Host says of its connection;
   activity, usage: progress, and token evidence;
   accepted: turn.accepted (input.accepted folds alike);  turn: turn.completed, turn.failed, turn.cancelled;
   terminal: native-turn-terminal, the hook's report of the same boundary. *)
Kinds == {"fact", "state", "host", "activity", "usage", "accepted", "turn", "terminal"}

ASSUME EventsAreListed == Len(Event) \in Nat /\ Ids = 1..Len(Event)
ASSUME DrainLimitIsPositive == MaxPerDrain \in Nat \ {0}
ASSUME EventsAreKnown ==
  /\ \A e \in Ids : Event[e].kind \in Kinds
  /\ Poison \cup Deferring \cup Republished \cup Backlog \subseteq Ids
  /\ \A e \in Deferring : Event[e].kind = "host"
  /\ \A e \in Ids : Event[e].task = Global => Event[e].kind \in {"fact", "turn", "terminal"}

VARIABLES
  backend,     \* "inProcess" or "worker": which processor the Controller runs
  inbox,       \* ids whose file exists
  persisted,   \* ids whose record (runtime.observation, attention) is in the store
  accepted,    \* Turns whose binding an observation has accepted
  settled,     \* Turns whose binding is completed, failed or cancelled
  effects,     \* how often an id has changed the aggregate
  obsolete,    \* ids retired without effect
  gate,        \* Task status and execution gate
  adopted,     \* the Session a Deferring event names has been adopted
  cursor,      \* drainLaneCursor
  drain,       \* the running drain, see Idle
  published,   \* how often an id was published
  disturbed    \* disturbances so far

vars == <<backend, inbox, persisted, accepted, settled, effects, obsolete, gate, adopted, cursor,
          drain, published, disturbed>>

store == <<persisted, accepted, settled, effects, obsolete>>

(* todo: candidates still to fold; alone: how many of them a failed wave left to be
   folded on their own; peeked: the Task of the first was read and is not archived;
   acks: folded candidates whose files are still to be unlinked. *)
Idle == [on |-> FALSE, listed |-> {}, todo |-> <<>>, alone |-> 0, peeked |-> FALSE,
         acks |-> <<>>, failed |-> {}]

Init ==
  /\ backend \in {"inProcess", "worker"}
  /\ inbox = Backlog /\ persisted = {} /\ accepted = {} /\ settled = {} /\ obsolete = {}
  /\ effects = [e \in Ids |-> 0]
  /\ gate = [t \in Tasks |-> "enabled"]
  /\ adopted = FALSE /\ cursor = 0 /\ drain = Idle
  /\ published = [e \in Ids |-> IF e \in Backlog THEN 1 ELSE 0]
  /\ disturbed = 0

Disturb == disturbed < MaxDisturbances /\ disturbed' = disturbed + 1

-----------------------------------------------------------------------------
(* Coalescing and selection *)

(* FileRuntimeEventInbox.list; compareRuntimeEvents sorts it in the order of the ids. *)
List == inbox

IsActivity(e) == Event[e].kind \in {"activity", "usage"}

SameStream(e, f) == Event[e].task = Event[f].task /\ Event[e].stream = Event[f].stream

(* Progress e is stood for by f in a listing: a later event of its stream with nothing but
   activity listed between them.  Usage facts stand only for themselves. *)
StoodForBy(listed, e, f) ==
  /\ e < f /\ SameStream(e, f)
  /\ Event[e].kind = "activity" /\ Event[f].kind = "activity"
  /\ \A g \in listed : e < g /\ g < f => IsActivity(g)

(* coalesceRuntimeProgress: the representatives, and the ids each acknowledges. *)
Coalesced(listed) ==
  {e \in listed : ~\E f \in listed : StoodForBy(listed, e, f)}

Represented(listed, e) == {f \in listed : f = e \/ StoodForBy(listed, f, e)}

Lane(e) == Event[e].task

Smaller(m, n) == IF m < n THEN m ELSE n

(* The first candidate of each lane; lanes are numbered from 0 in the order of these. *)
Heads(cands) == {e \in cands : \A f \in cands : Lane(f) = Lane(e) => e <= f}

LaneIndex(heads, e) ==
  Cardinality({g \in heads : \A h \in heads : Lane(h) = Lane(e) => g < h})

(* The candidates of its own lane that go before it. *)
Round(cands, e) == Cardinality({f \in cands : f < e /\ Lane(f) = Lane(e)})

(* Mutant: the candidates are visited in the order of the listing, whatever their lanes. *)
TurnsAsListed(cands, laneCursor) == [e \in cands |-> e]

(* When a candidate is visited: one per lane per round, from the cursor's lane on. *)
Turns(cands, laneCursor) ==
  LET heads == Heads(cands)
      n     == Cardinality(heads)
  IN [e \in cands |-> (Round(cands, e) * n) + ((LaneIndex(heads, e) + n - (laneCursor % n)) % n)]

(* selectDrainBatch: the first candidates in the order of their turns, and the cursor on the
   lane behind the last of them. *)
SelectDrainBatch(cands, maximum, turn) ==
  LET at(k) == CHOOSE e \in cands : Cardinality({f \in cands : turn[f] < turn[e]}) = k - 1
      taken == Smaller(Cardinality(cands), maximum)
  IN IF cands = {} THEN [candidates |-> <<>>, next |-> 0]
     ELSE [candidates |-> [k \in 1..taken |-> at(k)],
           next |-> (LaneIndex(Heads(cands), at(taken)) + 1) % Cardinality(Heads(cands))]

-----------------------------------------------------------------------------
(* Producers *)

(* publish: link the file; an id that already exists is the same fact.  The producer
   repeats a publication whose answer it lost. *)
Publish(e) ==
  /\ published[e] < (IF e \in Republished THEN 2 ELSE 1)
  /\ published' = [published EXCEPT ![e] = @ + 1]
  /\ inbox' = inbox \cup {e}
  /\ UNCHANGED <<backend, store, gate, adopted, cursor, drain, disturbed>>

(* The launch coordinator commits the Session a Host event was waiting for. *)
AdoptSession ==
  /\ ~adopted /\ adopted' = TRUE
  /\ UNCHANGED <<backend, inbox, store, gate, cursor, drain, published, disturbed>>

(* Another CLI process stops, starts or archives a Task. *)
ChangeGate(t, g) ==
  /\ gate[t] # "archived" /\ g # gate[t]
  /\ Disturb
  /\ gate' = [gate EXCEPT ![t] = g]
  /\ UNCHANGED <<backend, inbox, store, adopted, cursor, drain, published>>

-----------------------------------------------------------------------------
(* The drain *)

(* drain, drainAsync: list, coalesce, select and move the cursor. *)
StartDrain ==
  /\ ~drain.on /\ inbox # {}
  /\ \E cands \in {Coalesced(List)} : \E turn \in {Turns(cands, cursor)} :
        \E batch \in {SelectDrainBatch(cands, MaxPerDrain, turn)} :
        /\ drain' = [Idle EXCEPT !.on = TRUE, !.listed = List, !.todo = batch.candidates]
        /\ cursor' = batch.next
  /\ UNCHANGED <<backend, inbox, store, gate, adopted, published, disturbed>>

(* ownsResultTransaction *)
OwnsResult(c) == Event[c].kind \in {"terminal", "turn"}

(* Mutant: a failed Task does not block its later candidates. *)
BlockedNever(c) == FALSE

(* isTaskCandidateBlocked: a global candidate has no Task and is never blocked. *)
Blocked(c) == Lane(c) \in drain.failed

(* selectTaskOrderedWave: how many leading candidates of todo, blocked ones counted, the
   next transaction takes. *)
WaveLength(todo) ==
  LET open(k) == ~Blocked(todo[k])
      stops(k) ==
        /\ open(k)
        /\ \E j \in 1..(k - 1) :
             /\ open(j)
             /\ \/ OwnsResult(todo[j]) \/ OwnsResult(todo[k])
                \/ Lane(todo[j]) = Lane(todo[k]) /\ Lane(todo[k]) # Global
  IN IF \E k \in DOMAIN todo : stops(k)
     THEN Min({k \in DOMAIN todo : stops(k)}) - 1
     ELSE Len(todo)

(* The candidates of the next fold. *)
Wave ==
  LET n == IF backend = "worker" \/ drain.alone > 0 THEN 1 ELSE WaveLength(drain.todo)
  IN SubSeq(drain.todo, 1, n)

Rest(n) == [drain EXCEPT !.todo = SubSeq(@, n + 1, Len(@)),
                         !.alone = IF @ > 0 THEN @ - 1 ELSE 0,
                         !.peeked = FALSE]

Status(e) == IF Event[e].task = Global THEN "enabled" ELSE gate[Event[e].task]

(* applyRuntimeObservation, applyNativeTurnTerminal before the observer is called: what
   the status of the Task alone decides. *)
RefusedByStatus(e) ==
  CASE Event[e].kind = "host" -> FALSE
    [] Event[e].kind = "turn" -> Status(e) = "archived"
    [] OTHER -> Status(e) # "enabled"

(* Mutant: the fold trusts the status read before it. *)
FoldOutcomeTrusting(e) ==
  IF e \in Deferring /\ ~adopted THEN "deferred" ELSE "applied"

(* foldAgentHostObservation, foldRuntimeObservation, foldRuntimeRunTerminal: archive is
   checked again inside the write transaction; a terminal then throws. *)
FoldOutcome(e) ==
  CASE Status(e) = "archived" -> IF Event[e].kind = "terminal" THEN "throws" ELSE "obsolete"
    [] Status(e) # "archived" /\ e \in Deferring /\ ~adopted -> "deferred"
    [] OTHER -> IF e \in Poison THEN "throws" ELSE "applied"

(* The outcome of a candidate whose Task is read and folded in one synchronous call. *)
SyncOutcome(e) == IF RefusedByStatus(e) THEN "obsolete" ELSE FoldOutcome(e)

(* A blocked candidate is passed over: it is neither folded nor acknowledged. *)
Outcome(c) ==
  IF Blocked(c) THEN "blocked"
  ELSE IF backend = "worker" THEN FoldOutcome(c) ELSE SyncOutcome(c)

Outcomes(wave) == [k \in DOMAIN wave |-> [cand |-> wave[k], outcome |-> Outcome(wave[k])]]

TurnOf(e) == <<Event[e].task, Event[e].stream>>

(* Mutant: the record of an observation alone tells a fold that it comes again. *)
AbsorbedByRecord(e) == e \in persisted

(* The fold finds the work of the event done: a boundary by the binding of its Turn, which
   is settled once, a receipt by one that is accepted or settled, a usage snapshot by its
   record or a newer one, any other observation by its record. *)
Absorbed(e) ==
  CASE OwnsResult(e)              -> TurnOf(e) \in settled
    [] Event[e].kind = "accepted" -> TurnOf(e) \in accepted \cup settled
    [] Event[e].kind = "usage"    -> \E f \in persisted : /\ Event[f].kind = "usage" /\ e <= f
                                                         /\ SameStream(e, f)
    [] OTHER                      -> e \in persisted

(* persistRuntimeObservation: the observations of a Turn are recorded although its binding
   was settled before; a hook's terminal is no observation, and none of global scope is
   recorded but for its diagnostics. *)
Recorded(e) ==
  CASE Event[e].kind \in {"accepted", "turn"} -> Event[e].task # Global
    [] Event[e].kind = "terminal"             -> FALSE
    [] OTHER                                  -> ~Absorbed(e)

(* compactedRuntimeObservationIds: the record of e takes the place of the record of f. *)
Replaces(e, f) ==
  /\ e # f /\ SameStream(e, f)
  /\ \/ Event[e].kind \in {"activity", "state", "accepted"} /\ Event[f].kind = Event[e].kind
     \/ Event[e].kind = "turn" /\ Event[f].kind \in {"turn", "state"}

Applied(results) ==
  {results[k].cand : k \in {k \in DOMAIN results : results[k].outcome = "applied"}}

(* One store transaction.  Its candidates are of distinct Tasks, or global facts, or one
   boundary alone, so that no fold of it sees what another did. *)
Commit(results) ==
  LET new     == {e \in Applied(results) : ~Absorbed(e)}
      records == {e \in Applied(results) \ persisted : Recorded(e)}
  IN /\ effects' = [e \in Ids |-> IF e \in new THEN effects[e] + 1 ELSE effects[e]]
     /\ accepted' = accepted \cup {TurnOf(e) : e \in {e \in new : Event[e].kind = "accepted"}}
     /\ settled' = settled \cup {TurnOf(e) : e \in {e \in new : OwnsResult(e)}}
     /\ persisted' = {f \in persisted : ~\E e \in records : Replaces(e, f)} \cup records
     /\ obsolete' = obsolete \cup {results[k].cand : k \in {k \in DOMAIN results :
                                                            results[k].outcome = "obsolete"}}

Fail(d, cands) == [d EXCEPT !.failed = @ \cup ({Lane(c) : c \in cands} \ {Global})]

Folding == drain.on /\ drain.acks = <<>> /\ drain.todo # <<>>

(* The worker path reads the Task first and decides on that status. *)
PeekTask ==
  /\ Folding /\ backend = "worker" /\ ~drain.peeked
  /\ LET c == Head(drain.todo) IN
       IF Blocked(c)
       THEN drain' = Rest(1) /\ UNCHANGED store
       ELSE IF RefusedByStatus(c)
       THEN /\ drain' = [Rest(1) EXCEPT !.acks = <<[cand |-> c, outcome |-> "obsolete"]>>]
            /\ Commit(<<[cand |-> c, outcome |-> "obsolete"]>>)
       ELSE drain' = [drain EXCEPT !.peeked = TRUE] /\ UNCHANGED store
  /\ UNCHANGED <<backend, inbox, gate, adopted, cursor, published, disturbed>>

CanFold == Folding /\ (backend = "worker" => drain.peeked)

Throws(results) == \E k \in DOMAIN results : results[k].outcome = "throws"

(* Every candidate of the wave folds: the transaction commits. *)
FoldWave ==
  /\ CanFold
  /\ \E wave \in {Wave} : \E results \in {Outcomes(wave)} :
        /\ ~Throws(results)
        /\ Commit(results)
        /\ drain' = [Rest(Len(wave)) EXCEPT !.acks = results]
  /\ UNCHANGED <<backend, inbox, gate, adopted, cursor, published, disturbed>>

(* A fold throws: nothing of the wave is committed.  A wave that is not already a single
   candidate of its own is retried candidate by candidate, a single one is a failure. *)
FoldThrows ==
  /\ CanFold
  /\ \E wave \in {Wave} : \E results \in {Outcomes(wave)} :
        \E open \in {{c \in Range(wave) : ~Blocked(c)}} :
        /\ open # {}
        /\ \/ Throws(results) /\ UNCHANGED disturbed
           \/ ~Throws(results) /\ Disturb
        /\ drain' = IF backend = "inProcess" /\ drain.alone = 0 /\ \A c \in open : ~OwnsResult(c)
                    THEN [drain EXCEPT !.alone = Len(wave)]
                    ELSE Fail(Rest(Len(wave)), open)
  /\ UNCHANGED <<backend, inbox, store, gate, adopted, cursor, published>>

(* Mutant: a deferred candidate is acknowledged like an applied one. *)
AckIdsOfDeferredToo(r) == Represented(drain.listed, r.cand)

(* finalizeOne: a deferred representative keeps its file, what it represents goes. *)
AckIds(r) ==
  CASE r.outcome = "blocked"  -> {}
    [] r.outcome = "deferred" -> Represented(drain.listed, r.cand) \ {r.cand}
    [] OTHER                  -> Represented(drain.listed, r.cand)

(* acknowledgeMany *)
Acknowledge ==
  /\ drain.acks # <<>>
  /\ inbox' = inbox \ AckIds(Head(drain.acks))
  /\ drain' = [drain EXCEPT !.acks = Tail(@)]
  /\ UNCHANGED <<backend, store, gate, adopted, cursor, published, disturbed>>

(* An unlink throws after those of the first files: the candidate is a failure. *)
AcknowledgeThrows ==
  /\ drain.acks # <<>> /\ Disturb
  /\ LET r == Head(drain.acks)
     IN \E gone \in SUBSET AckIds(r) :
          /\ gone # AckIds(r) /\ \A e \in gone, f \in AckIds(r) \ gone : e < f
          /\ inbox' = inbox \ gone
          /\ drain' = Fail([drain EXCEPT !.acks = Tail(@)], {r.cand})
  /\ UNCHANGED <<backend, store, gate, adopted, cursor, published>>

EndDrain ==
  /\ drain.on /\ drain.todo = <<>> /\ drain.acks = <<>>
  /\ drain' = Idle
  /\ UNCHANGED <<backend, inbox, store, gate, adopted, cursor, published, disturbed>>

(* The Controller process dies: the store and the inbox survive, the cursor does not. *)
Crash ==
  /\ Disturb
  /\ drain' = Idle /\ cursor' = 0
  /\ UNCHANGED <<backend, inbox, store, gate, adopted, published>>

Next ==
  \/ \E e \in Ids : Publish(e)
  \/ AdoptSession
  \/ \E t \in Tasks, g \in {"enabled", "stopped", "archived"} : ChangeGate(t, g)
  \/ StartDrain \/ PeekTask \/ FoldWave \/ FoldThrows
  \/ Acknowledge \/ AcknowledgeThrows
  \/ EndDrain \/ Crash

Spec == Init /\ [][Next]_vars

(* A pass begins with a drain, passes recur and a drain waits on nobody: weak fairness of
   the drain's own steps, which can be taken exactly when a drain runs or the inbox is not
   empty.  They are the steps that change drain, but for the bounded number of faults. *)
DrainRecurs == <>[](drain.on \/ inbox # {}) => []<><<TRUE>>_drain

FairSpec == Spec /\ DrainRecurs

-----------------------------------------------------------------------------
(* The shapes of the inbox, the store's records and the running drain. *)
TypeOK ==
  /\ inbox \subseteq Ids /\ persisted \subseteq Ids /\ obsolete \subseteq Ids
  /\ accepted \cup settled \subseteq {TurnOf(e) : e \in Ids}
  /\ effects \in [Ids -> Nat]
  /\ gate \in [Tasks -> {"enabled", "stopped", "archived"}]
  /\ cursor \in Nat
  /\ drain.failed \subseteq Tasks /\ drain.listed \subseteq Ids
  /\ drain.alone <= Len(drain.todo)

(* The event took effect, was retired, or has nothing left to do. *)
Done(e) == effects[e] > 0 \/ e \in obsolete \/ Absorbed(e)

(* "Immutable files are acknowledged only after the Controller commits their authoritative
   aggregate effect": an event whose file is gone is done, or it is progress and a later
   progress event of its stream is; over crashes, failed unlinks, deferrals and records
   that were replaced since. *)
AcknowledgedMeansSettled ==
  \A e \in Ids : published[e] > 0 /\ e \notin inbox =>
    \/ Done(e)
    \/ /\ Event[e].kind = "activity"
       /\ \E f \in Ids : e < f /\ SameStream(e, f) /\ Event[f].kind = "activity" /\ Done(f)

(* The events that report the end of a Turn. *)
Boundaries == {e \in Ids : OwnsResult(e)}

(* A fact changes the aggregate at most once, and a Turn gets one result although its Host
   and its hook both report it, however often an event is folded again after a crash or a
   failed unlink between the commit and the acknowledgement, or published again after its
   file was removed.  Progress and state are exempt: the next of their stream replaces
   their record, and an old one published again takes effect again. *)
EffectAtMostOnce ==
  /\ \A e \in Ids : Event[e].kind \notin {"activity", "state"} => effects[e] <= 1
  /\ \A e, f \in Boundaries :
       TurnOf(e) = TurnOf(f) /\ e # f => effects[e] = 0 \/ effects[f] = 0

TakesEffect(e) == effects'[e] # effects[e]

(* "Preserving the same-Task semantic fence": a fold takes effect only when every earlier
   event of its Task that the drain listed is done, progress, or waiting for its Session;
   a failed event holds back everything behind it. *)
TaskOrderIsKept ==
  [][\A e \in Ids : TakesEffect(e) /\ Event[e].task # Global =>
       \A f \in drain.listed : f < e /\ Event[f].task = Event[e].task =>
         Done(f) \/ f \in Deferring \/ Event[f].kind = "activity"]_vars

(* "Archive and observation settlement share the same write boundary": nothing takes effect
   on a Task after it was archived, although the worker path read its status earlier. *)
ArchiveIsAFence ==
  [][\A e \in Ids : TakesEffect(e) => Status(e) # "archived"]_vars

(* "A poison prefix from one Task cannot consume the whole bounded batch": an event with no
   failing or waiting event before it in its own lane is settled and leaves the inbox,
   although other lanes fail in every drain and there are more lanes than a drain takes. *)
HealthyEventsLeaveTheInbox ==
  \A e \in Ids \ (Poison \cup Deferring) :
    (\A f \in Poison \cup Deferring : Event[f].task = Event[e].task => f > e) =>
      (e \in inbox ~> e \notin inbox)
=============================================================================
