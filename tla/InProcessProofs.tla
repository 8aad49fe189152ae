-------------------------- MODULE InProcessProofs --------------------------
(***************************************************************************)
(* The two components whose whole state lives in the memory of one         *)
(* process.                                                                *)
(*                                                                         *)
(* The pass loop of the Controller: no wake is lost between the signal     *)
(* window, the running turn and the retries, a full request is given up    *)
(* only to a full turn and no retry exceeds its budget, for any Tasks,     *)
(* concurrency, retry limits and number of failures.                       *)
(*                                                                         *)
(* The instance host: its ownership promises, for any instances, handles   *)
(* and disposers.                                                          *)
(***************************************************************************)
EXTENDS ControllerPass, InstanceHost, FiniteSetTheorems, TLAPS

Types ==
  /\ owed \subseteq Task /\ schPending \subseteq Task
  /\ pendingFull \in BOOLEAN /\ scopeFull \in BOOLEAN /\ stopped \in BOOLEAN
  /\ phase \in {"none", "drain", "full", "tasks", "finish", "yield"}

Queued(t) == t \in schPending \/ pendingFull \/ t \in pendingKeys

(* The running turn still has Task t before it, or has failed it. *)
InTurn(t) ==
  /\ t \in Scope
  /\ \/ phase \in {"drain", "full"}
     \/ phase = "tasks" /\ t \in todo \cup inflight \cup failed \cup blocked
     \/ phase = "finish" /\ t \in failed \cup blocked

Kept(t) == Queued(t) \/ InTurn(t) \/ t \in taskTimers \/ t \in exhausted

(* A Task signalled during the turn is not covered by the turn: it is queued for the next. *)
FreshIsQueued == \A t \in fresh : Queued(t)

(* A full turn has no Task phase, and leaves owed only what it was told to leave.  Without
   it, the retries that a full turn clears at its end could be the last trace of a wake. *)
FullTurn ==
  /\ phase = "tasks" => ~scopeFull
  /\ phase = "finish" /\ scopeFull => owed \subseteq fresh \cup blocked

Inv ==
  /\ Types
  /\ FullTurn
  /\ ~stopped => FreshIsQueued /\ \A t \in owed : Kept(t)

-----------------------------------------------------------------------------
(* A signal puts its Task into the window, as owed and as fresh. *)
LEMMA SignalStep ==
  ASSUME Inv, NEW u \in Task, Signal(u) PROVE Inv'
<1>1. Types' /\ FullTurn'
  BY DEF Inv, Types, FullTurn, Signal, Spend, pass, retries, ghost
<1>2. ~stopped' => FreshIsQueued'
  BY DEF Inv, Types, FullTurn, FreshIsQueued, Queued, Signal, Spend, pass, retries, ghost
<1>3. ASSUME ~stopped', NEW t \in owed' PROVE Kept(t)'
  BY <1>3 DEF Inv, Types, FullTurn, FreshIsQueued, Kept, Queued, InTurn, Scope, Signal, Spend, pass, retries, ghost
<1> QED BY <1>1, <1>2, <1>3 DEF Inv

(* The end of a window moves no key. *)
LEMMA WindowClosesStep ==
  ASSUME Inv, WindowCloses PROVE Inv'
<1>1. Types' /\ FullTurn'
  BY DEF Inv, Types, FullTurn, WindowCloses, Drain, pass, retries, ghost
<1>2. ~stopped' => FreshIsQueued'
  BY DEF Inv, Types, FullTurn, FreshIsQueued, Queued, WindowCloses, Drain, pass, retries, ghost
<1>3. ASSUME ~stopped', NEW t \in owed' PROVE Kept(t)'
  BY <1>3 DEF Inv, Types, FullTurn, FreshIsQueued, Kept, Queued, InTurn, Scope, WindowCloses, Drain, pass, retries, ghost
<1> QED BY <1>1, <1>2, <1>3 DEF Inv

(* A semantic deadline signals, and drains at once. *)
LEMMA DeadlineFiresStep ==
  ASSUME Inv, NEW u \in Task, DeadlineFires(u) PROVE Inv'
<1>1. Types' /\ FullTurn'
  BY DEF Inv, Types, FullTurn, DeadlineFires, Spend, pass, retries
<1>2. ~stopped' => FreshIsQueued'
  BY DEF Inv, Types, FullTurn, FreshIsQueued, Queued, DeadlineFires, Spend, pass, retries
<1>3. ASSUME ~stopped', NEW t \in owed' PROVE Kept(t)'
  BY <1>3 DEF Inv, Types, FullTurn, FreshIsQueued, Kept, Queued, InTurn, Scope, DeadlineFires, Spend, pass, retries
<1> QED BY <1>1, <1>2, <1>3 DEF Inv

(* A batch leaves the window for the pending keys, or for the turn it begins. *)
LEMMA DrainStartsStep ==
  ASSUME Inv, DrainStarts PROVE Inv'
<1>1. Types' /\ FullTurn'
  BY Zenon DEF Inv, Types, FullTurn, DrainStarts, DrainBatch, RequestDirty, BeginTurn, pass, retries, ghost
<1>2. ~stopped' => FreshIsQueued'
  BY DEF Inv, Types, FullTurn, FreshIsQueued, Queued, DrainStarts, DrainBatch, RequestDirty, BeginTurn, pass, retries, ghost
<1>3. ASSUME ~stopped', NEW t \in owed' PROVE Kept(t)'
  BY <1>3 DEF Inv, Types, FullTurn, FreshIsQueued, Kept, Queued, InTurn, Scope, DrainStarts, DrainBatch, RequestDirty, BeginTurn, pass, retries, ghost
<1> QED BY <1>1, <1>2, <1>3 DEF Inv

(* The next batch of a drain does the same; a settled drain moves no key. *)
LEMMA BatchSettlesStep ==
  ASSUME Inv, BatchSettles PROVE Inv'
<1>1. Types' /\ FullTurn'
  BY Zenon DEF Inv, Types, FullTurn, BatchSettles, DrainBatch, DrainSettles, RequestDirty, BeginTurn, pass, retries
<1>2. ~stopped' => FreshIsQueued'
  BY DEF Inv, Types, FullTurn, FreshIsQueued, Queued, BatchSettles, DrainBatch, DrainSettles, RequestDirty, BeginTurn, pass, retries
<1>3. ASSUME ~stopped', NEW t \in owed' PROVE Kept(t)'
  BY <1>3 DEF Inv, Types, FullTurn, FreshIsQueued, Kept, Queued, InTurn, Scope, BatchSettles, DrainBatch, DrainSettles, RequestDirty, BeginTurn, pass, retries
<1> QED BY <1>1, <1>2, <1>3 DEF Inv

(* A full request supersedes keys and Task retries: it covers them, now or as the next turn. *)
LEMMA RequestFullStep ==
  ASSUME Inv, RequestFull, UNCHANGED <<scheduler, stopped, owed>> PROVE Inv'
<1>1. Types' /\ FullTurn'
  BY Zenon DEF Inv, Types, FullTurn, RequestFull, BeginTurn, scheduler
<1>2. ~stopped' => FreshIsQueued'
  BY DEF Inv, Types, FullTurn, FreshIsQueued, Queued, RequestFull, BeginTurn, scheduler
<1>3. ASSUME ~stopped', NEW t \in owed' PROVE Kept(t)'
  BY <1>3 DEF Inv, Types, FullTurn, FreshIsQueued, Kept, Queued, InTurn, Scope, RequestFull, BeginTurn, scheduler
<1> QED BY <1>1, <1>2, <1>3 DEF Inv

(* The pass retry begins a turn with what the failed one restored. *)
LEMMA PassRetryFiresStep ==
  ASSUME Inv, PassRetryFires PROVE Inv'
<1>1. Types' /\ FullTurn'
  BY Zenon DEF Inv, Types, FullTurn, PassRetryFires, RequestDirty, BeginTurn, pass, scheduler
<1>2. ~stopped' => FreshIsQueued'
  BY DEF Inv, Types, FullTurn, FreshIsQueued, Queued, PassRetryFires, RequestDirty, BeginTurn, pass, scheduler
<1>3. ASSUME ~stopped', NEW t \in owed' PROVE Kept(t)'
  BY <1>3 DEF Inv, Types, FullTurn, FreshIsQueued, Kept, Queued, InTurn, Scope, PassRetryFires, RequestDirty, BeginTurn, pass, scheduler
<1> QED BY <1>1, <1>2, <1>3 DEF Inv

(* A Task retry queues its Task, finds a full turn pending, or leaves it to the next one. *)
LEMMA TaskRetryFiresStep ==
  ASSUME Inv, NEW u \in Task, TaskRetryFires(u) PROVE Inv'
<1>1. Types' /\ FullTurn'
  <2>1. CASE BeginTurn(pendingFull, pendingKeys \cup {u})
    BY Zenon, <2>1 DEF Inv, Types, BeginTurn, FullTurn, TaskRetryFires, scheduler
  <2>2. CASE UNCHANGED pass /\ UNCHANGED <<pendingFull, fresh>>
    BY <2>2 DEF Inv, Types, FullTurn, TaskRetryFires, pass, scheduler
  <2> QED BY <2>1, <2>2 DEF TaskRetryFires, RequestDirty
<1>2. ~stopped' => FreshIsQueued'
  BY DEF Inv, Types, FullTurn, FreshIsQueued, Queued, TaskRetryFires, RequestDirty, BeginTurn, pass, scheduler
<1>3. ASSUME ~stopped', NEW t \in owed' PROVE Kept(t)'
  BY <1>3 DEF Inv, Types, FullTurn, FreshIsQueued, Kept, Queued, InTurn, Scope, TaskRetryFires, RequestDirty, BeginTurn, pass, scheduler
<1> QED BY <1>1, <1>2, <1>3 DEF Inv

(* A stop or start of a Task moves no key. *)
LEMMA GateChangesStep ==
  ASSUME Inv, NEW u \in Task, GateChanges(u) PROVE Inv'
<1>1. Types' /\ FullTurn'
  BY DEF Inv, Types, FullTurn, GateChanges, pass, scheduler, retries, ghost
<1>2. ~stopped' => FreshIsQueued'
  BY DEF Inv, Types, FullTurn, FreshIsQueued, Queued, GateChanges, pass, scheduler, retries, ghost
<1>3. ASSUME ~stopped', NEW t \in owed' PROVE Kept(t)'
  BY <1>3 DEF Inv, Types, FullTurn, FreshIsQueued, Kept, Queued, InTurn, Scope, GateChanges, pass, scheduler, retries, ghost
<1> QED BY <1>1, <1>2, <1>3 DEF Inv

(* After the first drain each Task of the scope is to be run or blocked. *)
LEMMA FirstDrainStep ==
  ASSUME Inv, FirstDrain PROVE Inv'
<1>1. Types' /\ FullTurn'
  BY DEF Inv, Types, FullTurn, FirstDrain, scheduler, retries, ghost
<1>2. ~stopped' => FreshIsQueued'
  BY DEF Inv, Types, FullTurn, FreshIsQueued, Queued, FirstDrain, scheduler, retries, ghost
<1>3. ASSUME ~stopped', NEW t \in owed' PROVE Kept(t)'
  BY <1>3 DEF Inv, Types, FullTurn, FreshIsQueued, Kept, Queued, InTurn, Scope, FirstDrain, scheduler, retries, ghost
<1> QED BY <1>1, <1>2, <1>3 DEF Inv

(* A turn that throws, at any of its awaits, restores its scope into what was requested meanwhile. *)
LEMMA FailStep ==
  ASSUME Inv, phase \in {"drain", "full", "finish"}, Fail PROVE Inv'
<1>1. Types' /\ FullTurn'
  BY DEF Inv, Types, FullTurn, Fail, Restore, RunEnds, ghost
<1>2. ~stopped' => FreshIsQueued'
  BY DEF Inv, Types, FullTurn, FreshIsQueued, Queued, Fail, Restore, RunEnds, ghost
<1>3. ASSUME ~stopped', NEW t \in owed' PROVE Kept(t)'
  BY <1>3 DEF Inv, Types, FullTurn, FreshIsQueued, Kept, Queued, InTurn, Scope, Fail, Restore, RunEnds, ghost
<1> QED BY <1>1, <1>2, <1>3 DEF Inv

(* A full pass reconciles all but the blocked and the freshly signalled Tasks. *)
LEMMA FullPassStep ==
  ASSUME Inv, FullPass PROVE Inv'
<1>1. Types' /\ FullTurn'
  BY DEF Inv, Types, FullTurn, FullPass, Reconciled, scheduler, retries
<1>2. ~stopped' => FreshIsQueued'
  BY DEF Inv, Types, FullTurn, FreshIsQueued, Queued, FullPass, Reconciled, scheduler, retries
<1>3. ASSUME ~stopped', NEW t \in owed' PROVE Kept(t)'
  BY <1>3 DEF Inv, Types, FullTurn, FreshIsQueued, Kept, Queued, InTurn, Scope, FullPass, Reconciled, scheduler, retries
<1> QED BY <1>1, <1>2, <1>3 DEF Inv

(* A Task is taken, or skipped for the full turn that is pending. *)
LEMMA TakeTaskStep ==
  ASSUME Inv, NEW u \in Task, TakeTask(u) PROVE Inv'
<1>1. Types' /\ FullTurn'
  BY DEF Inv, Types, FullTurn, TakeTask, scheduler, retries, ghost
<1>2. ~stopped' => FreshIsQueued'
  BY DEF Inv, Types, FullTurn, FreshIsQueued, Queued, TakeTask, scheduler, retries, ghost
<1>3. ASSUME ~stopped', NEW t \in owed' PROVE Kept(t)'
  BY <1>3 DEF Inv, Types, FullTurn, FreshIsQueued, Kept, Queued, InTurn, Scope, TakeTask, scheduler, retries, ghost
<1> QED BY <1>1, <1>2, <1>3 DEF Inv

(* A Task is reconciled; its retry goes with it, unless it was signalled again, and then it is queued. *)
LEMMA TaskPassStep ==
  ASSUME Inv, NEW u \in Task, TaskPass(u) PROVE Inv'
<1>1. Types' /\ FullTurn'
  BY DEF Inv, Types, FullTurn, TaskPass, Reconciled, scheduler
<1>2. ~stopped' => FreshIsQueued'
  BY DEF Inv, Types, FullTurn, FreshIsQueued, Queued, TaskPass, Reconciled, scheduler
<1>3. ASSUME ~stopped', NEW t \in owed' PROVE Kept(t)'
  BY <1>3 DEF Inv, Types, FullTurn, FreshIsQueued, Kept, Queued, InTurn, Scope, TaskPass, Reconciled, scheduler
<1> QED BY <1>1, <1>2, <1>3 DEF Inv

(* A Task that throws is remembered as failed. *)
LEMMA TaskPassFailsStep ==
  ASSUME Inv, NEW u \in Task, TaskPassFails(u) PROVE Inv'
<1>1. Types' /\ FullTurn'
  BY DEF Inv, Types, FullTurn, TaskPassFails, scheduler, retries, ghost
<1>2. ~stopped' => FreshIsQueued'
  BY DEF Inv, Types, FullTurn, FreshIsQueued, Queued, TaskPassFails, scheduler, retries, ghost
<1>3. ASSUME ~stopped', NEW t \in owed' PROVE Kept(t)'
  BY <1>3 DEF Inv, Types, FullTurn, FreshIsQueued, Kept, Queued, InTurn, Scope, TaskPassFails, scheduler, retries, ghost
<1> QED BY <1>1, <1>2, <1>3 DEF Inv

(* When the queue has stopped, what was neither reconciled nor queued is failed or blocked. *)
LEMMA TasksJoinStep ==
  ASSUME Inv, TasksJoin PROVE Inv'
<1>1. Types' /\ FullTurn'
  BY DEF Inv, Types, FullTurn, TasksJoin, scheduler, retries, ghost
<1>2. ~stopped' => FreshIsQueued'
  BY DEF Inv, Types, FullTurn, FreshIsQueued, Queued, TasksJoin, scheduler, retries, ghost
<1>3. ASSUME ~stopped', NEW t \in owed' PROVE Kept(t)'
  BY <1>3 DEF Inv, Types, FullTurn, FreshIsQueued, Kept, Queued, InTurn, Scope, TasksJoin, scheduler, retries, ghost
<1> QED BY <1>1, <1>2, <1>3 DEF Inv

(* A turn that succeeds arms a retry for each Task it failed, or leaves it to the next full turn. *)
LEMMA FinishStep ==
  ASSUME Inv, Finish PROVE Inv'
<1>1. Types' /\ FullTurn'
  BY DEF Inv, Types, FullTurn, Finish, ScheduleTaskRetries, NextTurn, RunEnds, scheduler
<1>2. ~stopped' => FreshIsQueued'
  BY DEF Inv, Types, FullTurn, FreshIsQueued, Queued, Finish, ScheduleTaskRetries, NextTurn, RunEnds, scheduler
<1>3. ASSUME ~stopped', NEW t \in owed' PROVE Kept(t)'
  BY <1>3 DEF Inv, Types, FullTurn, FreshIsQueued, Kept, Queued, InTurn, Scope, Finish, ScheduleTaskRetries, NextTurn, RunEnds, scheduler
<1> QED BY <1>1, <1>2, <1>3 DEF Inv

(* The next turn takes everything that is pending. *)
LEMMA YieldedStep ==
  ASSUME Inv, Yielded PROVE Inv'
<1>1. Types' /\ FullTurn'
  BY Zenon DEF Inv, Types, FullTurn, Yielded, BeginTurn, RunEnds, scheduler, retries
<1>2. ~stopped' => FreshIsQueued'
  BY DEF Inv, Types, FullTurn, FreshIsQueued, Queued, Yielded, BeginTurn, RunEnds, scheduler, retries
<1>3. ASSUME ~stopped', NEW t \in owed' PROVE Kept(t)'
  BY <1>3 DEF Inv, Types, FullTurn, FreshIsQueued, Kept, Queued, InTurn, Scope, Yielded, BeginTurn, RunEnds, scheduler, retries
<1> QED BY <1>1, <1>2, <1>3 DEF Inv

(* After stop() nothing is claimed. *)
LEMMA StopStep ==
  ASSUME Inv, Stop PROVE Inv'
<1>1. Types' /\ FullTurn'
  BY DEF Inv, Types, FullTurn, Stop, ghost
<1>2. ~stopped' => FreshIsQueued'
  BY DEF Inv, Types, FullTurn, FreshIsQueued, Queued, Stop, ghost
<1>3. ASSUME ~stopped', NEW t \in owed' PROVE Kept(t)'
  BY <1>3 DEF Inv, Types, FullTurn, FreshIsQueued, Kept, Queued, InTurn, Scope, Stop, ghost
<1> QED BY <1>1, <1>2, <1>3 DEF Inv

(* A stuttering step. *)
LEMMA StutterStep ==
  ASSUME Inv, UNCHANGED vars PROVE Inv'
<1>1. Types' /\ FullTurn'
  BY DEF Inv, Types, FullTurn, vars, scheduler, pass, retries, ghost
<1>2. ~stopped' => FreshIsQueued'
  BY DEF Inv, Types, FullTurn, FreshIsQueued, Queued, vars, scheduler, pass, retries, ghost
<1>3. ASSUME ~stopped', NEW t \in owed' PROVE Kept(t)'
  BY <1>3 DEF Inv, Types, FullTurn, FreshIsQueued, Kept, Queued, InTurn, Scope, vars, scheduler, pass, retries, ghost
<1> QED BY <1>1, <1>2, <1>3 DEF Inv

-----------------------------------------------------------------------------
(* The invariant holds in every reachable state of scheduler and pass loop. *)
THEOREM Invariance == Spec => []Inv
<1>1. Init => Inv
  BY Zenon DEF Init, Inv, Types, FullTurn, FreshIsQueued
<1>2. Inv /\ [Next]_vars => Inv'
  <2> SUFFICES ASSUME Inv, [Next]_vars PROVE Inv'
    OBVIOUS
  <2>1. ASSUME NEW t \in Task,
               Signal(t) \/ DeadlineFires(t) \/ TaskRetryFires(t) \/ GateChanges(t)
        PROVE  Inv'
    BY <2>1, SignalStep, DeadlineFiresStep, TaskRetryFiresStep, GateChangesStep
  <2>2. CASE WindowCloses \/ SchedulerStep \/ PassRetryFires
    BY <2>2, WindowClosesStep, DrainStartsStep, BatchSettlesStep, PassRetryFiresStep
    DEF SchedulerStep
  <2>3. CASE Pump \/ PumpAgain
    BY <2>3, RequestFullStep DEF Pump, PumpAgain
  <2>4. CASE PassStep
    BY <2>4, FirstDrainStep, FullPassStep, TasksJoinStep, FinishStep, YieldedStep,
       TakeTaskStep, TaskPassStep DEF PassStep
  <2>5. CASE PassFailure
    BY <2>5, FailStep, TaskPassFailsStep
    DEF PassFailure, FirstDrainFails, FullPassFails, SecondDrainFails
  <2>6. CASE Stop
    BY <2>6, StopStep
  <2>7. CASE UNCHANGED vars
    BY <2>7, StutterStep
  <2> QED BY <2>1, <2>2, <2>3, <2>4, <2>5, <2>6, <2>7 DEF Next
<1> QED BY <1>1, <1>2, PTL DEF Spec

(* A signalled Task that has not been reconciled since is remembered somewhere, over
   coalescing, full requests, turns that throw, Tasks that fail and retries that run out. *)
THEOREM WakesAreKept == Spec => []NoLostWake
<1>1. Inv => NoLostWake
  BY DEF Inv, NoLostWake, Kept, Queued, InTurn, Remembered
<1> QED BY <1>1, Invariance, PTL

(* #pendingFull is cleared only by the turn that takes the full scope. *)
THEOREM FullRequestsAreHonoured == Spec => FullIsHonoured
<1>1. ASSUME Types, [Next]_vars, pendingFull, ~pendingFull'
      PROVE  phase' = "drain" /\ scopeFull'
  <2>1. ASSUME NEW keys, BeginTurn(pendingFull, keys) \/ BeginTurn(TRUE, keys)
        PROVE  phase' = "drain" /\ scopeFull'
    BY Zenon, <1>1, <2>1 DEF BeginTurn
  <2>2. ASSUME NEW keys, RequestDirty(keys) PROVE phase' = "drain" /\ scopeFull'
    BY Zenon, <1>1, <2>1, <2>2 DEF RequestDirty
  <2>3. ASSUME RequestFull PROVE phase' = "drain" /\ scopeFull'
    BY Zenon, <1>1, <2>1, <2>3 DEF RequestFull
  <2>4. CASE DrainStarts \/ BatchSettles
    BY Zenon, <1>1, <2>2, <2>4 DEF DrainStarts, BatchSettles, DrainBatch, DrainSettles
  <2>5. CASE Pump \/ PumpAgain
    BY <2>3, <2>5 DEF Pump, PumpAgain
  <2>6. CASE PassRetryFires \/ \E t \in Task : TaskRetryFires(t)
    BY Zenon, <1>1, <2>2, <2>6 DEF PassRetryFires, TaskRetryFires
  <2>7. CASE Yielded
    BY Zenon, <1>1, <2>1, <2>7 DEF Yielded
  <2>8. CASE PassFailure
    BY Zenon, <1>1, <2>8 DEF PassFailure, FirstDrainFails, FullPassFails, SecondDrainFails, Fail,
       Restore, TaskPassFails, Types
  <2>9. CASE \/ \E t \in Task : Signal(t) \/ DeadlineFires(t) \/ GateChanges(t)
             \/ WindowCloses \/ FirstDrain \/ FullPass \/ TasksJoin \/ Finish \/ Stop
             \/ \E t \in Task : TakeTask(t) \/ TaskPass(t)
             \/ UNCHANGED vars
    BY Zenon, <1>1, <2>9 DEF Signal, DeadlineFires, GateChanges, WindowCloses, FirstDrain, FullPass,
       TasksJoin, Finish, Stop, TakeTask, TaskPass, vars
  <2> QED BY <1>1, <2>4, <2>5, <2>6, <2>7, <2>8, <2>9 DEF Next, SchedulerStep, PassStep
<1>2. Types /\ [Next]_vars
      => [pendingFull /\ ~pendingFull' => phase' = "drain" /\ scopeFull']_vars
  BY <1>1
<1>3. Inv => Types
  BY DEF Inv
<1> QED BY <1>2, <1>3, Invariance, PTL DEF Spec, FullIsHonoured

-----------------------------------------------------------------------------
(* The class fields, by kind: wake and scope keys, flags, stages, retry budgets. *)

KeySets ==
  /\ schPending \subseteq Task /\ pendingKeys \subseteq Task /\ scopeKeys \subseteq Task
  /\ blocked \subseteq Task /\ todo \subseteq Task /\ inflight \subseteq Task
  /\ failed \subseteq Task /\ taskTimers \subseteq Task /\ owed \subseteq Task
  /\ fresh \subseteq Task /\ exhausted \subseteq Task /\ enabled \subseteq Task

Flags ==
  /\ schTimer \in BOOLEAN /\ drainRequested \in BOOLEAN /\ pendingFull \in BOOLEAN
  /\ scopeFull \in BOOLEAN /\ passTimer \in BOOLEAN /\ stopped \in BOOLEAN
  /\ pendingRuntimeDrain \in BOOLEAN

Stages ==
  /\ schCurrent \in {"none", "starting", "awaiting"}
  /\ awaited \in {"running", "ok", "failed"}
  /\ phase \in {"none", "drain", "full", "tasks", "finish", "yield"}

Budgets ==
  /\ passAttempt \in 0..PassRetryLimit
  /\ taskAttempts \in [Task -> 0..TaskRetryLimit]

Fields == KeySets /\ Flags /\ Stages /\ Budgets

LEMMA SignalFields ==
  ASSUME Fields, NEW t \in Task, Signal(t)
  PROVE  Fields'
<1> USE DEF Fields, Signal, scheduler, pass, retries, ghost
<1>1. KeySets'
  BY DEF KeySets
<1>2. Flags'
  BY Zenon DEF Flags
<1>3. Stages'
  BY DEF Stages
<1>4. Budgets'
  BY LimitsAreNat DEF Budgets
<1> QED BY Zenon, <1>1, <1>2, <1>3, <1>4

LEMMA DeadlineFields ==
  ASSUME Fields, NEW t \in Task, DeadlineFires(t)
  PROVE  Fields'
<1> USE DEF Fields, DeadlineFires, Drain, scheduler, pass, retries, ghost
<1>1. KeySets'
  BY DEF KeySets
<1>2. Flags'
  BY Zenon DEF Flags
<1>3. Stages'
  BY DEF Stages
<1>4. Budgets'
  BY LimitsAreNat DEF Budgets
<1> QED BY Zenon, <1>1, <1>2, <1>3, <1>4

LEMMA GateFields ==
  ASSUME Fields, NEW t \in Task, GateChanges(t)
  PROVE  Fields'
<1> USE DEF Fields, GateChanges, scheduler, pass, retries, ghost
<1>1. KeySets'
  BY DEF KeySets
<1>2. Flags'
  BY Zenon DEF Flags
<1>3. Stages'
  BY DEF Stages
<1>4. Budgets'
  BY LimitsAreNat DEF Budgets
<1> QED BY Zenon, <1>1, <1>2, <1>3, <1>4

LEMMA WindowFields ==
  ASSUME Fields, WindowCloses
  PROVE  Fields'
<1> USE DEF Fields, WindowCloses, Drain, scheduler, pass, retries, ghost
<1>1. KeySets'
  BY DEF KeySets
<1>2. Flags'
  BY Zenon DEF Flags
<1>3. Stages'
  BY DEF Stages
<1>4. Budgets'
  BY LimitsAreNat DEF Budgets
<1> QED BY Zenon, <1>1, <1>2, <1>3, <1>4

LEMMA DrainStartsFields ==
  ASSUME Fields, DrainStarts
  PROVE  Fields'
<1> USE DEF Fields, DrainStarts, DrainBatch, RequestDirty, BeginTurn, scheduler, pass, retries,
           ghost
<1>1. KeySets'
  BY DEF KeySets
<1>2. Flags'
  BY Zenon DEF Flags
<1>3. Stages'
  BY DEF Stages
<1>4. Budgets'
  BY LimitsAreNat DEF Budgets
<1> QED BY Zenon, <1>1, <1>2, <1>3, <1>4

LEMMA BatchSettlesFields ==
  ASSUME Fields, BatchSettles
  PROVE  Fields'
<1> USE DEF Fields, BatchSettles, DrainBatch, DrainSettles, RequestDirty, BeginTurn, scheduler,
           pass, retries, ghost
<1>1. KeySets'
  BY DEF KeySets
<1>2. Flags'
  BY Zenon DEF Flags
<1>3. Stages'
  BY DEF Stages
<1>4. Budgets'
  BY LimitsAreNat DEF Budgets
<1> QED BY Zenon, <1>1, <1>2, <1>3, <1>4

LEMMA PumpFields ==
  ASSUME Fields, Pump \/ PumpAgain
  PROVE  Fields'
<1> USE DEF Fields, Pump, PumpAgain, RequestFull, BeginTurn, scheduler, pass, retries, ghost
<1>1. KeySets'
  BY DEF KeySets
<1>2. Flags'
  BY Zenon DEF Flags
<1>3. Stages'
  BY DEF Stages
<1>4. Budgets'
  BY LimitsAreNat DEF Budgets
<1> QED BY Zenon, <1>1, <1>2, <1>3, <1>4

LEMMA PassRetryFields ==
  ASSUME Fields, PassRetryFires
  PROVE  Fields'
<1> USE DEF Fields, PassRetryFires, RequestDirty, BeginTurn, scheduler, pass, retries, ghost
<1>1. KeySets'
  BY DEF KeySets
<1>2. Flags'
  BY Zenon DEF Flags
<1>3. Stages'
  BY DEF Stages
<1>4. Budgets'
  BY LimitsAreNat DEF Budgets
<1> QED BY Zenon, <1>1, <1>2, <1>3, <1>4

LEMMA TaskRetryFields ==
  ASSUME Fields, NEW t \in Task, TaskRetryFires(t)
  PROVE  Fields'
<1> USE DEF Fields, TaskRetryFires, RequestDirty, BeginTurn, scheduler, pass, retries, ghost
<1>1. KeySets'
  BY DEF KeySets
<1>2. Flags'
  BY Zenon DEF Flags
<1>3. Stages'
  BY DEF Stages
<1>4. Budgets'
  BY LimitsAreNat DEF Budgets
<1> QED BY Zenon, <1>1, <1>2, <1>3, <1>4

LEMMA FirstDrainFields ==
  ASSUME Fields, FirstDrain
  PROVE  Fields'
<1> USE DEF Fields, FirstDrain, scheduler, pass, retries, ghost
<1>1. KeySets'
  BY DEF KeySets
<1>2. Flags'
  BY Zenon DEF Flags
<1>3. Stages'
  BY DEF Stages
<1>4. Budgets'
  BY LimitsAreNat DEF Budgets
<1> QED BY Zenon, <1>1, <1>2, <1>3, <1>4

LEMMA FullPassFields ==
  ASSUME Fields, FullPass \/ TasksJoin
  PROVE  Fields'
<1> USE DEF Fields, FullPass, TasksJoin, Reconciled, scheduler, pass, retries, ghost
<1>1. KeySets'
  BY DEF KeySets
<1>2. Flags'
  BY Zenon DEF Flags
<1>3. Stages'
  BY DEF Stages
<1>4. Budgets'
  BY LimitsAreNat DEF Budgets
<1> QED BY Zenon, <1>1, <1>2, <1>3, <1>4

LEMMA FinishFields ==
  ASSUME Fields, Finish
  PROVE  Fields'
<1> USE DEF Fields, Finish, ScheduleTaskRetries, NextTurn, RunEnds, scheduler, pass, retries,
           ghost
<1>1. KeySets'
  BY DEF KeySets
<1>2. Flags'
  BY Zenon DEF Flags
<1>3. Stages'
  BY DEF Stages
<1>4. Budgets'
  BY LimitsAreNat DEF Budgets
<1> QED BY Zenon, <1>1, <1>2, <1>3, <1>4

LEMMA YieldedFields ==
  ASSUME Fields, Yielded
  PROVE  Fields'
<1> USE DEF Fields, Yielded, BeginTurn, RunEnds, scheduler, pass, retries, ghost
<1>1. KeySets'
  BY DEF KeySets
<1>2. Flags'
  BY Zenon DEF Flags
<1>3. Stages'
  BY DEF Stages
<1>4. Budgets'
  BY LimitsAreNat DEF Budgets
<1> QED BY Zenon, <1>1, <1>2, <1>3, <1>4

LEMMA StopFields ==
  ASSUME Fields, Stop
  PROVE  Fields'
<1> USE DEF Fields, Stop, scheduler, pass, retries, ghost
<1>1. KeySets'
  BY DEF KeySets
<1>2. Flags'
  BY Zenon DEF Flags
<1>3. Stages'
  BY DEF Stages
<1>4. Budgets'
  BY LimitsAreNat DEF Budgets
<1> QED BY Zenon, <1>1, <1>2, <1>3, <1>4

LEMMA TaskFields ==
  ASSUME Fields, NEW t \in Task, TakeTask(t) \/ TaskPass(t) \/ TaskPassFails(t)
  PROVE  Fields'
<1> USE DEF Fields, TakeTask, TaskPass, TaskPassFails, Reconciled, scheduler, pass, retries, ghost
<1>1. KeySets'
  BY DEF KeySets
<1>2. Flags'
  BY Zenon DEF Flags
<1>3. Stages'
  BY DEF Stages
<1>4. Budgets'
  BY LimitsAreNat DEF Budgets
<1> QED BY Zenon, <1>1, <1>2, <1>3, <1>4

LEMMA FailFields ==
  ASSUME Fields, Fail
  PROVE  Fields'
<1> USE DEF Fields, Fail, Restore, SchedulePassRetry, RunEnds, scheduler, pass, retries, ghost
<1>1. KeySets'
  BY DEF KeySets
<1>2. Flags'
  BY Zenon DEF Flags
<1>3. Stages'
  BY DEF Stages
<1>4. Budgets'
  BY LimitsAreNat DEF Budgets
<1> QED BY Zenon, <1>1, <1>2, <1>3, <1>4

LEMMA InitFields == Init => Fields
<1>1. 0 \in 0..PassRetryLimit /\ 0 \in 0..TaskRetryLimit
  BY LimitsAreNat
<1> QED BY Zenon, <1>1 DEF Init, Fields, KeySets, Flags, Stages, Budgets

LEMMA StutterFields == Fields /\ UNCHANGED vars => Fields'
BY DEF Fields, KeySets, Flags, Stages, Budgets, vars, scheduler, pass, retries, ghost

(* Every field keeps its shape, and neither the passes nor a Task are retried more often than
   their limit: a timer is armed only below it, and only a success, a full request or stop()
   gives the attempts back. *)
THEOREM BudgetsAreKept == Spec => []TypeOK
<1>1. Fields /\ [Next]_vars => Fields'
  <2> SUFFICES ASSUME Fields, [Next]_vars PROVE Fields'
    OBVIOUS
  <2>1. ASSUME NEW t \in Task,
               \/ Signal(t) \/ DeadlineFires(t) \/ TaskRetryFires(t) \/ GateChanges(t)
               \/ TakeTask(t) \/ TaskPass(t) \/ TaskPassFails(t)
        PROVE  Fields'
    BY Zenon, <2>1, SignalFields, DeadlineFields, TaskRetryFields, GateFields, TaskFields
  <2>2. CASE WindowCloses \/ SchedulerStep
    BY Zenon, <2>2, WindowFields, DrainStartsFields, BatchSettlesFields DEF SchedulerStep
  <2>3. CASE PassRetryFires \/ Pump \/ PumpAgain \/ Stop
    BY Zenon, <2>3, PassRetryFields, PumpFields, StopFields
  <2>4. CASE PassStep
    BY Zenon, <2>1, <2>4, FirstDrainFields, FullPassFields, FinishFields, YieldedFields
       DEF PassStep
  <2>5. CASE PassFailure
    BY Zenon, <2>1, <2>5, FailFields
       DEF PassFailure, FirstDrainFails, FullPassFails, SecondDrainFails
  <2>6. CASE UNCHANGED vars
    BY Zenon, <2>6, StutterFields
  <2> QED BY Zenon, <2>1, <2>2, <2>3, <2>4, <2>5, <2>6 DEF Next
<1>2. Fields => TypeOK
  BY Zenon DEF Fields, KeySets, Flags, Stages, Budgets, TypeOK
<1> QED BY <1>1, <1>2, InitFields, PTL DEF Spec

-----------------------------------------------------------------------------
(* The instance host: one entry of its table. *)
Record == [attached : BOOLEAN, references : Nat, detached : BOOLEAN,
           disposal : {"none", "running", "done"}, left : 0..NDisposers,
           drained : {"pending", "resolved", "rejected"}]

HostTypes ==
  /\ inst \in [Instance -> Record]
  /\ handle \in [Handle -> {[state |-> "unused"]}
                           \cup [state : {"held", "released"}, of : Instance]]
  /\ closed \in BOOLEAN
  /\ closing \in {"none", "pending", "settled"}

(* The count of an instance is the number of handles on it that were not released. *)
Counted(i) ==
  /\ IsFiniteSet(Held(i))
  /\ inst[i].references = Cardinality(Held(i))

(* The life of one instance: disposal starts when it is detached and its count is zero, at
   the first such moment, and drained settles in the step that ends it. *)
Orderly(r) ==
  /\ r.disposal # "none" <=> (r.detached /\ r.references = 0)
  /\ r.detached \/ r.references # 0 => r.attached
  /\ r.drained # "pending" <=> r.disposal = "done"
  /\ r.disposal = "done" => r.left = 0

(* close detaches every instance, none is attached after it, and it settles last. *)
Closed ==
  /\ closed => \A i \in Instance : inst[i].attached => inst[i].detached
  /\ closing # "none" => closed
  /\ closing = "settled" =>
       \A i \in Instance : inst[i].detached => inst[i].drained # "pending"

HostInv ==
  /\ HostTypes
  /\ \A i \in Instance : Counted(i) /\ Orderly(inst[i])
  /\ Closed

-----------------------------------------------------------------------------
(* dispose keeps a record orderly when it is called on a detached instance without
   references, and changes only disposal and drained. *)
LEMMA DisposeFacts ==
  ASSUME NEW r \in Record,
         r.detached, r.attached, r.references = 0,
         r.drained # "pending" <=> r.disposal = "done",
         r.disposal = "done" => r.left = 0
  PROVE  /\ Dispose(r) \in Record
         /\ Orderly(Dispose(r))
         /\ Dispose(r).references = r.references
         /\ (Dispose(r).detached <=> r.detached)
         /\ (Dispose(r).attached <=> r.attached)
         /\ r.drained # "pending" => Dispose(r).drained # "pending"
BY Zenon DEF Dispose, Record, Orderly

(* detach keeps a record orderly, and its references. *)
LEMMA DetachedFacts ==
  ASSUME NEW r \in Record, Orderly(r), r.attached
  PROVE  /\ Detached(r) \in Record
         /\ Orderly(Detached(r))
         /\ Detached(r).references = r.references
         /\ Detached(r).detached
         /\ (Detached(r).attached <=> r.attached)
         /\ r.detached => Detached(r) = r
<1> DEFINE d == [r EXCEPT !.detached = TRUE]
<1>1. /\ d \in Record /\ d.detached /\ d.attached /\ d.references = r.references
      /\ (d.attached <=> r.attached) /\ d.disposal = r.disposal /\ d.left = r.left /\ d.drained = r.drained
  BY Zenon DEF Record
<1>2. CASE r.references = 0
  <2>1. Detached(r) = Dispose(d)
    BY <1>2 DEF Detached, DisposeIf
  <2>2. r.detached => d = r
    BY DEF Record
  <2>3. r.detached => Dispose(d) = d
    BY <1>1, <1>2 DEF Dispose, Orderly
  <2> HIDE DEF d
  <2> QED BY <1>1, <1>2, <2>1, <2>2, <2>3, DisposeFacts DEF Orderly
<1>3. CASE r.references # 0
  <2>1. Detached(r) = d
    BY <1>3 DEF Detached, DisposeIf
  <2> QED BY <1>1, <1>3, <2>1 DEF Orderly, Record
<1> QED BY <1>2, <1>3

(* A step that leaves the handles alone leaves the counts right if it leaves the
   references alone. *)
LEMMA SameHandles ==
  ASSUME UNCHANGED handle, NEW i \in Instance, Counted(i),
         inst'[i].references = inst[i].references
  PROVE  Counted(i)'
<1>1. Held(i)' = Held(i)
  BY DEF Held
<1> QED BY <1>1 DEF Counted

-----------------------------------------------------------------------------
(* What every step must show of the instances it changes. *)
LEMMA HostFacts ==
  ASSUME HostInv
  PROVE  /\ inst \in [Instance -> Record]
         /\ \A i \in Instance : inst[i] \in Record /\ Orderly(inst[i]) /\ Counted(i)
BY DEF HostInv, HostTypes

(* An identity is attached with no references, to a host that is open. *)
LEMMA AttachStep ==
  ASSUME HostInv, NEW i \in Instance, Attach(i) PROVE HostInv'
<1> DEFINE n == [Absent EXCEPT !.attached = TRUE, !.left = NDisposers]
<1>1. n \in Record /\ Orderly(n) /\ n.references = 0 /\ ~n.detached
  <2>1. NDisposers \in 0..NDisposers
    BY DisposersAreNat
  <2> QED BY Zenon, <2>1 DEF Record, Absent, Orderly
<1>2. inst' = [inst EXCEPT ![i] = n] /\ ~closed /\ ~inst[i].attached
      /\ UNCHANGED <<handle, closed, closing>>
  BY DEF Attach
<1> HIDE DEF n
<1>3. inst' \in [Instance -> Record] /\ \A j \in Instance : Orderly(inst'[j])
  BY <1>1, <1>2, HostFacts
<1>4. ASSUME NEW j \in Instance PROVE Counted(j)'
  <2>1. inst[i].references = 0
    BY <1>2, HostFacts DEF Orderly, Record
  <2>2. inst'[j].references = inst[j].references
    BY <1>1, <1>2, <2>1, HostFacts
  <2> QED BY <1>2, <2>2, HostFacts, SameHandles
<1>5. Closed'
  BY <1>2 DEF HostInv, Closed, HostTypes
<1> QED BY <1>2, <1>3, <1>4, <1>5 DEF HostInv, HostTypes

(* detach and close replace records by their detached form. *)
LEMMA DetachStep ==
  ASSUME HostInv, NEW S \in SUBSET Instance, \A i \in S : inst[i].attached,
         inst' = [i \in Instance |-> IF i \in S THEN Detached(inst[i]) ELSE inst[i]],
         UNCHANGED handle
  PROVE  /\ inst' \in [Instance -> Record]
         /\ \A i \in Instance : Orderly(inst[i])' /\ Counted(i)'
         /\ \A i \in S : inst'[i].detached
         /\ \A i \in Instance : /\ inst[i].detached => inst'[i] = inst[i]
                                /\ (inst'[i].attached <=> inst[i].attached)
<1>1. ASSUME NEW i \in S
      PROVE  /\ Detached(inst[i]) \in Record /\ Orderly(Detached(inst[i]))
             /\ Detached(inst[i]).references = inst[i].references
             /\ Detached(inst[i]).detached
             /\ (Detached(inst[i]).attached <=> inst[i].attached)
             /\ inst[i].detached => Detached(inst[i]) = inst[i]
  BY HostFacts, DetachedFacts
<1>2. \A i \in Instance : inst'[i] = IF i \in S THEN Detached(inst[i]) ELSE inst[i]
  OBVIOUS
<1>3. inst' \in [Instance -> Record]
  BY <1>1, HostFacts
<1>4. ASSUME NEW i \in Instance PROVE Orderly(inst[i])' /\ Counted(i)'
  <2>1. inst'[i].references = inst[i].references /\ Orderly(inst'[i])
    BY <1>1, <1>2, HostFacts
  <2> QED BY <2>1, HostFacts, SameHandles
<1> QED BY <1>1, <1>2, <1>3, <1>4

(* acquire: one more reference, and one more handle held. *)
LEMMA AcquireStep ==
  ASSUME HostInv, NEW i \in Instance, NEW h \in Handle, Acquire(i, h) PROVE HostInv'
<1> DEFINE n == [inst[i] EXCEPT !.references = @ + 1]
<1>1. /\ inst' = [inst EXCEPT ![i] = n] /\ inst[i].attached /\ ~inst[i].detached /\ ~closed
      /\ handle[h].state = "unused"
      /\ handle' = [handle EXCEPT ![h] = [state |-> "held", of |-> i]]
      /\ UNCHANGED <<closed, closing>>
  BY DEF Acquire
<1>2. n \in Record /\ Orderly(n) /\ n.references = inst[i].references + 1
      /\ (n.attached <=> inst[i].attached) /\ (n.detached <=> inst[i].detached)
  BY <1>1, HostFacts DEF Record, Orderly
<1> HIDE DEF n
<1>3. inst' \in [Instance -> Record] /\ \A j \in Instance : Orderly(inst'[j])
  BY <1>1, <1>2, HostFacts
<1>4. HostTypes'
  BY <1>1, <1>3 DEF HostInv, HostTypes
<1>5. Held(i)' = Held(i) \cup {h} /\ h \notin Held(i)
  BY <1>1 DEF Held, HostInv, HostTypes
<1>6. ASSUME NEW j \in Instance PROVE Counted(j)'
  <2>1. CASE j = i
    <3>1. IsFiniteSet(Held(i) \cup {h})
          /\ Cardinality(Held(i) \cup {h}) = Cardinality(Held(i)) + 1
      BY <1>5, HostFacts, FS_AddElement DEF Counted
    <3>2. inst'[i].references = inst[i].references + 1
      BY <1>1, <1>2, HostFacts
    <3> QED BY Zenon, <1>5, <2>1, <3>1, <3>2, HostFacts DEF Counted
  <2>2. CASE j # i
    <3>1. Held(j)' = Held(j)
      BY <1>1, <2>2 DEF Held, HostInv, HostTypes
    <3>2. inst'[j] = inst[j]
      BY <1>1, <2>2, HostFacts
    <3> QED BY <3>1, <3>2, HostFacts DEF Counted
  <2> QED BY <2>1, <2>2
<1>7. Closed'
  BY <1>1 DEF HostInv, Closed, HostTypes
<1> QED BY <1>3, <1>4, <1>6, <1>7 DEF HostInv

(* release: the first of a handle gives its reference back, and the last of a detached
   instance starts the disposal. *)
LEMMA ReleaseStep ==
  ASSUME HostInv, NEW h \in Handle, Release(h) PROVE HostInv'
<1>0. PICK i \in Instance : i = handle[h].of
  BY DEF Release, HostInv, HostTypes
<1> DEFINE r == [inst[i] EXCEPT !.references = @ - 1]
           n == DisposeIf(r, r.detached /\ r.references = 0)
<1>1. /\ handle[h].state \in {"held", "released"} /\ i = handle[h].of
      /\ handle' = [handle EXCEPT ![h].state = "released"]
      /\ UNCHANGED <<closed, closing>>
  BY <1>0 DEF Release, HostInv, HostTypes
<1>2. handle' \in [Handle -> {[state |-> "unused"]}
                             \cup [state : {"held", "released"}, of : Instance]]
  BY <1>1 DEF HostInv, HostTypes
<1>3. CASE handle[h].state = "released"
  <2>1. inst' = inst
    BY <1>3 DEF Release
  <2>2. \A j \in Instance : Held(j)' = Held(j)
    BY <1>1, <1>3 DEF Held, HostInv, HostTypes
  <2> QED BY <1>1, <1>2, <2>1, <2>2 DEF HostInv, HostTypes, Counted, Closed
<1>4. CASE handle[h].state = "held"
  <2>1. inst' = [inst EXCEPT ![i] = n]
    BY <1>1, <1>4 DEF Release
  <2>2. Held(i)' = Held(i) \ {h} /\ h \in Held(i)
    BY <1>1, <1>4 DEF Held, HostInv, HostTypes
  <2>3. /\ IsFiniteSet(Held(i) \ {h})
        /\ Cardinality(Held(i) \ {h}) = Cardinality(Held(i)) - 1
        /\ Cardinality(Held(i)) \in Nat /\ Cardinality(Held(i) \ {h}) \in Nat
    BY <1>1, <2>2, HostFacts, FS_RemoveElement, FS_CardinalityType DEF Counted
  <2>4. inst[i] \in Record /\ Orderly(inst[i]) /\ inst[i].references = Cardinality(Held(i))
    BY <1>1, HostFacts DEF Counted
  <2>5. /\ r \in Record /\ r.references = Cardinality(Held(i) \ {h})
        /\ (r.detached <=> inst[i].detached) /\ (r.attached <=> inst[i].attached)
        /\ r.disposal = inst[i].disposal /\ r.drained = inst[i].drained
        /\ r.left = inst[i].left
    BY <2>3, <2>4 DEF Record
  <2>6. inst[i].references # 0
    BY <2>3, <2>4
  <2> HIDE DEF r
  <2>7. /\ n \in Record /\ Orderly(n) /\ n.references = r.references
        /\ (n.detached <=> r.detached) /\ (n.attached <=> r.attached)
        /\ r.drained # "pending" => n.drained # "pending"
    <3>1. CASE r.detached /\ r.references = 0
      <4>1. n = Dispose(r)
        BY <3>1 DEF DisposeIf
      <4>2. r.attached
        BY <2>4, <2>5, <3>1 DEF Orderly
      <4> QED BY Zenon, <2>4, <2>5, <3>1, <4>1, <4>2, DisposeFacts DEF Orderly
    <3>2. CASE ~(r.detached /\ r.references = 0)
      <4>1. n = r
        BY <3>2 DEF DisposeIf
      <4> QED BY Zenon, <2>4, <2>5, <2>6, <3>2, <4>1 DEF Orderly
    <3> QED BY <3>1, <3>2
  <2> HIDE DEF n
  <2>8. inst' \in [Instance -> Record] /\ \A j \in Instance : Orderly(inst'[j])
    BY <1>1, <2>1, <2>7, HostFacts
  <2>9. ASSUME NEW j \in Instance PROVE Counted(j)'
    <3>1. CASE j = i
      BY Zenon, <1>1, <2>1, <2>2, <2>3, <2>5, <2>7, <3>1, HostFacts DEF Counted
    <3>2. CASE j # i
      <4>1. Held(j)' = Held(j)
        BY <1>1, <3>2 DEF Held, HostInv, HostTypes
      <4>2. inst'[j] = inst[j]
        BY <1>1, <2>1, <3>2, HostFacts
      <4> QED BY <4>1, <4>2, HostFacts DEF Counted
    <3> QED BY <3>1, <3>2
  <2>10. Closed'
    BY <1>1, <2>1, <2>5, <2>7, HostFacts DEF HostInv, Closed
  <2> QED BY <1>1, <1>2, <2>8, <2>9, <2>10 DEF HostInv, HostTypes
<1> QED BY <1>1, <1>3, <1>4

(* A disposer settles: only the record of its instance changes, and drained settles in the
   step in which the last one does. *)
LEMMA DisposerStep ==
  ASSUME HostInv, NEW i \in Instance, DisposerEnds(i) PROVE HostInv'
<1>1. /\ inst[i].disposal = "running" /\ UNCHANGED <<handle, closed, closing>>
      /\ inst[i] \in Record /\ Orderly(inst[i])
  BY HostFacts DEF DisposerEnds
<1>2. PICK n \in Record :
        /\ inst' = [inst EXCEPT ![i] = n] /\ Orderly(n)
        /\ n.references = inst[i].references /\ (n.detached <=> inst[i].detached)
        /\ (n.attached <=> inst[i].attached)
  <2>1. CASE inst[i].left > 1
    <3> DEFINE n == [inst[i] EXCEPT !.left = @ - 1]
    <3>1. inst' = [inst EXCEPT ![i] = n]
      BY <2>1 DEF DisposerEnds
    <3>2. n \in Record /\ Orderly(n) /\ n.references = inst[i].references
          /\ (n.detached <=> inst[i].detached) /\ (n.attached <=> inst[i].attached)
      <4>1. inst[i].left \in 0..NDisposers
        BY <1>1 DEF Record
      <4>2. inst[i].left - 1 \in 0..NDisposers
        BY <2>1, <4>1, DisposersAreNat
      <4> QED BY Zenon, <1>1, <4>2 DEF Record, Orderly
    <3> HIDE DEF n
    <3> QED BY Zenon, <3>1, <3>2
  <2>2. CASE ~(inst[i].left > 1)
    <3>1. PICK outcome \in {"resolved", "rejected"} :
            inst' = [inst EXCEPT ![i] =
                      [@ EXCEPT !.left = 0, !.disposal = "done", !.drained = outcome]]
      BY <2>2 DEF DisposerEnds
    <3> DEFINE n == [inst[i] EXCEPT !.left = 0, !.disposal = "done", !.drained = outcome]
    <3>2. inst' = [inst EXCEPT ![i] = n]
      BY <3>1
    <3>3. n \in Record /\ Orderly(n) /\ n.references = inst[i].references
          /\ (n.detached <=> inst[i].detached) /\ (n.attached <=> inst[i].attached)
      <4>1. 0 \in 0..NDisposers
        BY DisposersAreNat
      <4> QED BY Zenon, <1>1, <4>1 DEF Record, Orderly
    <3> HIDE DEF n
    <3> QED BY Zenon, <3>2, <3>3
  <2> QED BY <2>1, <2>2
<1>3. inst' \in [Instance -> Record] /\ \A j \in Instance : Orderly(inst'[j])
  BY <1>2, HostFacts
<1>4. ASSUME NEW j \in Instance PROVE Counted(j)'
  <2>1. inst'[j].references = inst[j].references
    BY <1>2, HostFacts
  <2> QED BY <1>1, <2>1, HostFacts, SameHandles
<1>5. Closed'
  <2>1. closing # "settled"
    BY <1>1 DEF HostInv, Closed, Orderly
  <2> QED BY <1>1, <1>2, <2>1, HostFacts DEF HostInv, Closed
<1> QED BY <1>1, <1>3, <1>4, <1>5 DEF HostInv, HostTypes

-----------------------------------------------------------------------------
(* The invariant holds in every reachable state of the host. *)
THEOREM HostInvariance ==
  HostSpec => []HostInv
<1>1. HostInit => HostInv
  <2> SUFFICES ASSUME HostInit PROVE HostInv
    OBVIOUS
  <2>1. HostTypes
    <3>1. 0 \in 0..NDisposers
      BY DisposersAreNat
    <3> QED BY Zenon, <3>1 DEF HostInit, HostTypes, Absent, Record
  <2>2. ASSUME NEW i \in Instance PROVE Counted(i) /\ Orderly(inst[i])
    <3>1. Held(i) = {}
      BY DEF HostInit, Held
    <3>2. inst[i] = Absent
      BY DEF HostInit
    <3>3. IsFiniteSet({}) /\ Cardinality({}) = 0
      BY Zenon, FS_EmptySet
    <3>4. inst[i].references = 0 /\ Orderly(inst[i])
      BY <3>2 DEF Orderly, Absent
    <3> QED BY Zenon, <3>1, <3>3, <3>4 DEF Counted
  <2>3. Closed
    BY DEF HostInit, Closed
  <2> QED BY <2>1, <2>2, <2>3 DEF HostInv
<1>2. HostInv /\ [HostNext]_hostVars => HostInv'
  <2> SUFFICES ASSUME HostInv, [HostNext]_hostVars PROVE HostInv'
    OBVIOUS
  <2>1. ASSUME NEW i \in Instance, Attach(i) PROVE HostInv'
    BY <2>1, AttachStep
  <2>2. ASSUME NEW i \in Instance, Detach(i) PROVE HostInv'
    <3>1. /\ inst[i].attached /\ UNCHANGED <<handle, closed, closing>>
          /\ inst' = [j \in Instance |-> IF j \in {i} THEN Detached(inst[j]) ELSE inst[j]]
      BY Zenon, <2>2, HostFacts DEF Detach
    <3> {i} \in SUBSET Instance /\ \A j \in {i} : inst[j].attached
      BY <3>1
    <3>2. /\ inst' \in [Instance -> Record]
          /\ \A j \in Instance : Orderly(inst[j])' /\ Counted(j)'
          /\ \A j \in Instance : /\ inst[j].detached => inst'[j] = inst[j]
                                 /\ (inst'[j].attached <=> inst[j].attached)
      BY Zenon, <3>1, DetachStep
    <3>3. \A j \in Instance : inst'[j].attached /\ closed => inst'[j].detached
      BY <3>2 DEF HostInv, Closed
    <3>4. ASSUME closing = "settled", NEW j \in Instance, inst'[j].detached
          PROVE  inst'[j].drained # "pending"
      <4>1. inst'[j].attached
        BY <3>2, <3>4 DEF Orderly
      <4>2. inst[j].detached
        BY <3>2, <3>4, <4>1 DEF HostInv, Closed
      <4> QED BY <3>2, <3>4, <4>2 DEF HostInv, Closed
    <3> QED BY Zenon, <3>1, <3>2, <3>3, <3>4 DEF HostInv, HostTypes, Closed
  <2>3. ASSUME NEW i \in Instance, DisposerEnds(i) PROVE HostInv'
    BY <2>3, DisposerStep
  <2>4. ASSUME NEW i \in Instance, NEW h \in Handle, Acquire(i, h) PROVE HostInv'
    BY <2>4, AcquireStep
  <2>5. ASSUME NEW h \in Handle, Release(h) PROVE HostInv'
    BY <2>5, ReleaseStep
  <2>6. CASE Close
    <3>0. PICK S \in SUBSET Instance : S = {i \in Instance : inst[i].attached}
      BY Zenon
    <3>1. /\ closed' = TRUE /\ UNCHANGED handle
          /\ closing' = IF closing = "settled" THEN "settled" ELSE "pending"
          /\ inst' = [i \in Instance |-> IF i \in S THEN Detached(inst[i]) ELSE inst[i]]
      BY <2>6, <3>0 DEF Close
    <3>2. /\ inst' \in [Instance -> Record]
          /\ \A j \in Instance : Orderly(inst[j])' /\ Counted(j)'
          /\ \A j \in S : inst'[j].detached
          /\ \A j \in Instance : /\ inst[j].detached => inst'[j] = inst[j]
                                 /\ (inst'[j].attached <=> inst[j].attached)
      BY Zenon, <3>0, <3>1, DetachStep
    <3>3. \A j \in Instance : inst'[j].attached => inst'[j].detached
      BY <3>0, <3>2
    <3>4. ASSUME closing' = "settled", NEW j \in Instance, inst'[j].detached
          PROVE  inst'[j].drained # "pending"
      <4>1. closing = "settled"
        BY <3>1, <3>4
      <4>2. inst'[j].attached
        BY <3>2, <3>4 DEF Orderly
      <4>3. inst[j].detached
        BY <3>2, <4>1, <4>2 DEF HostInv, Closed
      <4> QED BY <3>2, <4>1, <4>3 DEF HostInv, Closed
    <3> QED BY Zenon, <3>1, <3>2, <3>3, <3>4 DEF HostInv, HostTypes, Closed
  <2>7. CASE CloseSettles
    <3>1. \A i \in Instance : Counted(i)'
      BY <2>7, HostFacts, SameHandles DEF CloseSettles
    <3> QED BY <2>7, <3>1 DEF CloseSettles, HostInv, HostTypes, Closed
  <2>8. CASE UNCHANGED hostVars
    <3>1. \A i \in Instance : Counted(i)'
      BY <2>8, HostFacts, SameHandles DEF hostVars
    <3> QED BY <2>8, <3>1 DEF hostVars, HostInv, HostTypes, Closed
  <2> QED BY <2>1, <2>2, <2>3, <2>4, <2>5, <2>6, <2>7, <2>8 DEF HostNext
<1> QED BY <1>1, <1>2, PTL DEF HostSpec

(* An instance is never disposed of under a caller that still holds a handle on it:
   #dispose is reached only when the count is zero, and the count is right. *)
THEOREM NeverDisposedInUse ==
  HostSpec => []NoUseAfterDispose
<1>1. HostInv => NoUseAfterDispose
  <2> SUFFICES ASSUME HostInv, NEW i \in Instance, inst[i].disposal # "none" PROVE Held(i) = {}
    BY DEF NoUseAfterDispose
  <2>1. inst[i].references = 0 /\ Counted(i)
    BY HostFacts DEF Orderly
  <2> QED BY <2>1, FS_EmptySet DEF Counted
<1> QED BY <1>1, HostInvariance, PTL

(* When the promise of detach settles, nobody holds the instance and each of its disposers
   has run, whether or not one of them failed. *)
THEOREM DrainsAreHonest ==
  HostSpec => []DrainIsHonest
<1>1. HostInv => DrainIsHonest
  <2> SUFFICES ASSUME HostInv, NEW i \in Instance, inst[i].drained # "pending"
               PROVE  Held(i) = {} /\ inst[i].left = 0 /\ inst[i].disposal = "done"
    BY DEF DrainIsHonest
  <2>1. inst[i].disposal = "done" /\ inst[i].left = 0 /\ inst[i].references = 0 /\ Counted(i)
    BY HostFacts DEF Orderly
  <2> QED BY <2>1, FS_EmptySet DEF Counted
<1> QED BY <1>1, HostInvariance, PTL

(* When close settles, every instance the host ever had is disposed of. *)
THEOREM CloseDisposesAll ==
  HostSpec => []CloseIsComplete
<1>1. HostInv => CloseIsComplete
  BY DEF HostInv, Closed, Orderly, CloseIsComplete
<1> QED BY <1>1, HostInvariance, PTL

(* The reference count of an instance is the number of handles on it that were not released,
   over any interleaving of acquisitions, releases, detaches and disposals. *)
THEOREM CountsAreRight ==
  HostSpec => []HostTypeOK
<1>1. HostInv => HostTypeOK
  <2>1. ASSUME NEW r \in Record
        PROVE  /\ r.left \in 0..NDisposers /\ r.disposal \in {"none", "running", "done"}
               /\ r.drained \in {"pending", "resolved", "rejected"}
    BY DEF Record
  <2>2. ASSUME HostInv, NEW i \in Instance
        PROVE  /\ inst[i].references = Cardinality(Held(i))
               /\ inst[i].left \in 0..NDisposers
               /\ inst[i].disposal \in {"none", "running", "done"}
               /\ inst[i].drained \in {"pending", "resolved", "rejected"}
    BY Zenon, <2>1, <2>2, HostFacts DEF Counted
  <2>3. HostInv => closing \in {"none", "pending", "settled"}
    BY Zenon DEF HostInv, HostTypes
  <2> QED BY Zenon, <2>2, <2>3 DEF HostTypeOK
<1> QED BY <1>1, HostInvariance, PTL

=============================================================================
