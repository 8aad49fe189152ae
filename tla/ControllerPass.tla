--------------------------- MODULE ControllerPass ---------------------------
(***************************************************************************)
(* How a wake signal becomes a reconciliation pass: the fixed-window       *)
(* MailboxScheduler (src/coordination/mailboxScheduler.ts) feeding the     *)
(* pass loop of FileTaskController (src/controller/controller.ts):         *)
(* #requestPass, #runCoalesced, #runDirtySchedulerPass, and the pass and   *)
(* Task retry timers.                                                      *)
(*                                                                         *)
(* JavaScript runs each callback to its next await, so an action is the    *)
(* code between two awaits.  A pass awaits between its first runtime-event *)
(* drain ("drain"), the scheduler work ("full" or "tasks") and its second  *)
(* drain ("finish"); signals, timers, pumps and stop() interleave there.   *)
(* The bounded Task queue of a dirty pass is kept abstract (todo,          *)
(* inflight): KeyedWorkQueue models it.                                    *)
(*                                                                         *)
(* Ghost state: owed is the set of Tasks signalled and not yet reconciled  *)
(* by a successful pass that captured its scope after the signal.          *)
(***************************************************************************)
EXTENDS Naturals, FiniteSets

CONSTANTS
  Task,            \* Tasks, each with its wake key
  TaskConcurrency, \* consumers of a dirty pass
  PassRetryLimit,  \* #deliveryRetryLimit
  TaskRetryLimit,  \* #taskOrchestrationRetryLimit
  MaxFailures,     \* bound: passes or Task passes that throw
  MaxSignals,      \* bound: wake signals
  MaxDisturbances, \* bound: turns that leave runtime events for the next turn, and
                   \* Task stop and start commands
  MaxPumps         \* bound: full passes requested (the last pump recurs for ever)

ASSUME LimitsAreNat ==
  {TaskConcurrency, PassRetryLimit, TaskRetryLimit} \subseteq Nat \ {0}
ASSUME BoundsAreNat == {MaxFailures, MaxSignals, MaxDisturbances, MaxPumps} \subseteq Nat

VARIABLES
  \* MailboxScheduler
  schPending,      \* #pendingKeys
  schTimer,        \* #timer is set
  schCurrent,      \* #current: "none", "starting" (microtask queued), "awaiting"
  awaited,         \* the pass processBatch awaits: "running", "ok", "failed"
  drainRequested,  \* #drainRequested
  \* FileTaskController
  pendingFull, pendingKeys,
  phase,           \* "none" (no #current), "drain", "full", "tasks", "finish", "yield"
  scopeFull, scopeKeys,
  blocked,         \* runtimeFailedTaskIds
  todo, inflight,  \* the dirty Task queue: not yet taken, leased
  failed,          \* failedTaskScopes
  pendingRuntimeDrain,
  passTimer, passAttempt,
  taskTimers, taskAttempts,
  stopped,
  enabled,         \* Tasks that are active with an enabled execution gate
  \* ghost and bounds
  owed, fresh, exhausted, used

scheduler == <<schPending, schTimer, schCurrent, awaited, drainRequested>>
pass      == <<phase, scopeFull, scopeKeys, blocked, todo, inflight, failed,
               pendingRuntimeDrain>>
retries   == <<passTimer, passAttempt, taskTimers, taskAttempts>>
ghost     == <<owed, fresh, exhausted>>
vars      == <<scheduler, pendingFull, pendingKeys, pass, retries, stopped, enabled, ghost,
               used>>

Spend(b, limit) == used[b] < limit /\ used' = [used EXCEPT ![b] = @ + 1]

Scope == IF scopeFull THEN Task ELSE scopeKeys

-----------------------------------------------------------------------------
Init ==
  /\ schPending = {} /\ schTimer = FALSE /\ schCurrent = "none"
  /\ awaited = "ok" /\ drainRequested = FALSE
  /\ pendingFull = FALSE /\ pendingKeys = {}
  /\ phase = "none" /\ scopeFull = FALSE /\ scopeKeys = {}
  /\ blocked = {} /\ todo = {} /\ inflight = {} /\ failed = {}
  /\ pendingRuntimeDrain = FALSE
  /\ passTimer = FALSE /\ passAttempt = 0
  /\ taskTimers = {} /\ taskAttempts = [t \in Task |-> 0]
  /\ stopped = FALSE /\ enabled = Task
  /\ owed = {} /\ fresh = {} /\ exhausted = {}
  /\ used = [b \in {"failure", "signal", "disturbance", "pump"} |-> 0]

-----------------------------------------------------------------------------
(***************************************************************************)
(* One turn of the #runCoalesced loop: take everything pending as scope.   *)
(* full and keys are #pendingFull and #pendingKeys when the turn begins.   *)
(***************************************************************************)
BeginTurn(full, keys) ==
  /\ phase' = "drain" /\ scopeFull' = full /\ scopeKeys' = keys
  /\ pendingFull' = FALSE /\ pendingKeys' = {}
  /\ blocked' = {} /\ todo' = {} /\ inflight' = {} /\ failed' = {}
  /\ pendingRuntimeDrain' = FALSE
  /\ fresh' = {}
  /\ exhausted' = IF full THEN {} ELSE exhausted \ keys

(* #requestPass({ kind: "dirty" }): coalesce into the running pass or begin one. *)
RequestDirty(keys) ==
  LET pend == IF pendingFull THEN pendingKeys ELSE pendingKeys \cup keys IN
  IF phase # "none"
  THEN /\ pendingKeys' = pend
       /\ UNCHANGED <<pendingFull, pass, fresh, exhausted>>
  ELSE IF pendingFull \/ pend # {}
  THEN BeginTurn(pendingFull, pend)
  ELSE UNCHANGED <<pendingFull, pendingKeys, pass, fresh, exhausted>>

(* Mutant: a full request that finds nothing running runs only what is pending. *)
RequestFullRunsPending ==
  /\ taskTimers' = {} /\ taskAttempts' = [t \in Task |-> 0]
  /\ UNCHANGED <<passTimer, passAttempt>>
  /\ IF phase # "none"
     THEN /\ pendingFull' = TRUE /\ pendingKeys' = {}
          /\ todo' = {}
          /\ UNCHANGED <<phase, scopeFull, scopeKeys, blocked, inflight, failed,
                         pendingRuntimeDrain, fresh, exhausted>>
     ELSE BeginTurn(pendingFull, pendingKeys \cup taskTimers)

(* #requestPass({ kind: "full" }): supersedes dirty keys, Task retries and the
   Tasks a running dirty pass has not taken yet. *)
RequestFull ==
  /\ taskTimers' = {} /\ taskAttempts' = [t \in Task |-> 0]
  /\ UNCHANGED <<passTimer, passAttempt>>
  /\ IF phase # "none"
     THEN /\ pendingFull' = TRUE /\ pendingKeys' = {}
          /\ todo' = {}
          /\ UNCHANGED <<phase, scopeFull, scopeKeys, blocked, inflight, failed,
                         pendingRuntimeDrain, fresh, exhausted>>
     ELSE BeginTurn(TRUE, {})

-----------------------------------------------------------------------------
(* signal(key): the first signal of a window arms the timer. *)
Signal(t) ==
  /\ ~stopped /\ Spend("signal", MaxSignals)
  /\ schPending' = schPending \cup {t}
  /\ schTimer' = TRUE
  /\ owed' = owed \cup {t} /\ fresh' = fresh \cup {t}
  /\ UNCHANGED <<schCurrent, awaited, drainRequested, pendingFull, pendingKeys, pass, retries,
                 stopped, enabled, exhausted>>

(* drain() given the keys waiting now: join the running drain or queue one. *)
Drain(keys) ==
  IF schCurrent # "none"
  THEN drainRequested' = TRUE /\ UNCHANGED schCurrent
  ELSE /\ schCurrent' = IF keys # {} THEN "starting" ELSE "none"
       /\ UNCHANGED drainRequested

(* The window closes. *)
WindowCloses ==
  /\ schTimer
  /\ schTimer' = FALSE
  /\ Drain(schPending)
  /\ UNCHANGED <<schPending, awaited, pendingFull, pendingKeys, pass, retries, stopped, enabled, ghost,
                 used>>

(* A semantic deadline (input timeout, Leader aggregation): signal, then drain at once. *)
DeadlineFires(t) ==
  /\ ~stopped /\ Spend("signal", MaxSignals)
  /\ schPending' = schPending \cup {t}
  /\ schTimer' = FALSE
  /\ Drain(schPending')
  /\ owed' = owed \cup {t} /\ fresh' = fresh \cup {t}
  /\ UNCHANGED <<awaited, pendingFull, pendingKeys, pass, retries, stopped, enabled, exhausted>>

(* One turn of #drainDueBatches with a nonempty batch: processBatch requests a pass. *)
DrainBatch(keys) ==
  /\ schPending' = {} /\ drainRequested' = FALSE
  /\ schCurrent' = "awaiting" /\ awaited' = "running"
  /\ RequestDirty(keys)
  /\ UNCHANGED schTimer

(* The queued #drainDueBatches starts; stop() may have emptied the set meanwhile. *)
DrainStarts ==
  /\ schCurrent = "starting"
  /\ IF schPending # {}
     THEN DrainBatch(schPending) /\ UNCHANGED <<retries, stopped, enabled, owed, used>>
     ELSE /\ schCurrent' = "none" /\ drainRequested' = FALSE
          /\ UNCHANGED <<schPending, schTimer, awaited, pendingFull, pendingKeys, pass, retries,
                         stopped, enabled, ghost, used>>

(* Mutant: a finished drain looks at its pending set only if a drain was requested. *)
DrainSettlesQuietly ==
  /\ schCurrent' = IF drainRequested /\ schPending # {} THEN "starting" ELSE "none"
  /\ schTimer' = FALSE /\ drainRequested' = FALSE
  /\ UNCHANGED <<schPending, awaited, pendingFull, pendingKeys, pass, fresh, exhausted>>

(* The finally callback of drain(): start again, or arm a window for the leftovers. *)
DrainSettles ==
  /\ drainRequested' = (drainRequested /\ (stopped \/ schPending = {}))
  /\ IF ~stopped /\ schPending # {} /\ drainRequested
     THEN schCurrent' = "starting" /\ schTimer' = FALSE
     ELSE schCurrent' = "none" /\ schTimer' = (schTimer \/ (~stopped /\ schPending # {}))
  /\ UNCHANGED <<schPending, awaited, pendingFull, pendingKeys, pass, fresh, exhausted>>

(* processBatch settles: a success with a drain requested meanwhile takes the
   next batch in the same loop; a failure ends the loop. *)
BatchSettles ==
  /\ schCurrent = "awaiting" /\ awaited # "running"
  /\ IF awaited = "ok" /\ ~stopped /\ drainRequested /\ schPending # {}
     THEN DrainBatch(schPending)
     ELSE DrainSettles
  /\ UNCHANGED <<retries, stopped, enabled, owed, used>>

-----------------------------------------------------------------------------
(* The reconciliation interval, or an explicit scan. *)
Pump ==
  /\ ~stopped /\ Spend("pump", MaxPumps)
  /\ RequestFull
  /\ UNCHANGED <<scheduler, stopped, enabled, owed>>

(* The last pump recurs: a pump that finds nothing running and nothing new. *)
PumpAgain ==
  /\ ~stopped /\ used["pump"] = MaxPumps /\ phase = "none"
  /\ RequestFull
  /\ UNCHANGED <<scheduler, stopped, enabled, owed, used>>

(* #schedulePassRetry's timer: run whatever the failed pass restored. *)
PassRetryFires ==
  /\ passTimer /\ ~stopped
  /\ passTimer' = FALSE
  /\ RequestDirty({})
  /\ UNCHANGED <<scheduler, passAttempt, taskTimers, taskAttempts, stopped, enabled, owed, used>>

(* #scheduleTaskPassRetry's timer: a Task that stopped meanwhile is left to the next
   full pass; a full pass already pending covers it. *)
TaskRetryFires(t) ==
  /\ t \in taskTimers /\ ~stopped
  /\ taskTimers' = taskTimers \ {t}
  /\ \/ /\ pendingFull
        /\ UNCHANGED <<pendingFull, pendingKeys, pass, fresh, exhausted, taskAttempts>>
     \/ /\ ~pendingFull /\ t \in enabled
        /\ RequestDirty({t})
        /\ UNCHANGED taskAttempts
     \/ /\ ~pendingFull /\ t \notin enabled
        /\ taskAttempts' = [taskAttempts EXCEPT ![t] = 0]
        /\ exhausted' = exhausted \cup {t}
        /\ UNCHANGED <<pendingFull, pendingKeys, pass, fresh>>
  /\ UNCHANGED <<scheduler, passTimer, passAttempt, stopped, enabled, owed, used>>

(* External: a stop or start command of Task t commits. *)
GateChanges(t) ==
  /\ Spend("disturbance", MaxDisturbances)
  /\ enabled' = IF t \in enabled THEN enabled \ {t} ELSE enabled \cup {t}
  /\ UNCHANGED <<scheduler, pendingFull, pendingKeys, pass, retries, stopped, ghost>>

-----------------------------------------------------------------------------
(* The run promise settles and #current is cleared. *)
RunEnds(how) ==
  /\ phase' = "none"
  /\ awaited' = IF schCurrent = "awaiting" THEN how ELSE awaited
  /\ UNCHANGED <<schPending, schTimer, schCurrent, drainRequested>>

(* #schedulePassRetry: one timer at a time, a bounded number of attempts. *)
SchedulePassRetry ==
  LET arm == ~stopped /\ ~passTimer /\ passAttempt < PassRetryLimit IN
  /\ passTimer' = (passTimer \/ arm)
  /\ passAttempt' = IF arm THEN passAttempt + 1 ELSE passAttempt

(* Mutant: a failed dirty pass forgets the keys it had taken. *)
RestoreFullOnly ==
  /\ pendingFull' = (pendingFull \/ scopeFull)
  /\ pendingKeys' = IF scopeFull THEN {} ELSE pendingKeys

(* Mutant: a failed dirty pass overwrites a full request made while it ran. *)
RestoreOverwritesFull ==
  /\ pendingFull' = scopeFull
  /\ pendingKeys' = IF scopeFull THEN {} ELSE pendingKeys \cup scopeKeys

(* What a failed turn puts back. *)
Restore ==
  /\ pendingFull' = (pendingFull \/ scopeFull)
  /\ pendingKeys' = IF scopeFull THEN {}
                    ELSE IF pendingFull THEN pendingKeys ELSE pendingKeys \cup scopeKeys

(* The catch block of a turn: restore its scope, arm the bounded retry, reject. *)
Fail ==
  /\ Spend("failure", MaxFailures)
  /\ Restore /\ SchedulePassRetry
  /\ RunEnds("failed")
  /\ UNCHANGED <<scopeFull, scopeKeys, blocked, todo, inflight, failed, pendingRuntimeDrain,
                 taskTimers, taskAttempts, stopped, enabled, ghost>>

(* Maintenance and the first runtime-event drain; it may block some Tasks. *)
FirstDrain ==
  /\ phase = "drain"
  /\ \E b \in SUBSET Task :
       /\ IF b = {} THEN UNCHANGED used ELSE Spend("failure", MaxFailures)
       /\ blocked' = b
       /\ todo' = IF stopped \/ pendingFull \/ scopeFull THEN {} ELSE scopeKeys \ b
       /\ phase' = IF scopeFull THEN "full" ELSE IF todo' = {} THEN "finish" ELSE "tasks"
  /\ UNCHANGED <<scheduler, pendingFull, pendingKeys, scopeFull, scopeKeys, pendingRuntimeDrain, inflight, failed,
                 retries, stopped, enabled, ghost>>

FirstDrainFails == phase = "drain" /\ Fail

(* Ghost: Tasks ts were reconciled by a pass that captured its scope after
   every signal except the fresh ones. *)
Reconciled(ts) == owed' = owed \ (ts \ fresh)

(* A full scheduler pass over every Task that is not blocked. *)
FullPass ==
  /\ phase = "full"
  /\ phase' = "finish"
  /\ Reconciled(Task \ blocked)
  /\ UNCHANGED <<scheduler, pendingFull, pendingKeys, scopeFull, scopeKeys, pendingRuntimeDrain, blocked, todo,
                 inflight, failed, retries, stopped, enabled, fresh, exhausted, used>>

FullPassFails == phase = "full" /\ Fail

(* A consumer of the dirty queue takes a Task; a pending full pass skips it. *)
TakeTask(t) ==
  /\ phase = "tasks" /\ t \in todo /\ Cardinality(inflight) < TaskConcurrency
  /\ todo' = todo \ {t}
  /\ inflight' = IF stopped \/ pendingFull THEN inflight ELSE inflight \cup {t}
  /\ UNCHANGED <<scheduler, pendingFull, pendingKeys, phase, scopeFull, scopeKeys, pendingRuntimeDrain, blocked,
                 failed, retries, stopped, enabled, ghost, used>>

(* ... and its scheduler pass returns: the Task's retry budget is cleared. *)
TaskPass(t) ==
  /\ phase = "tasks" /\ t \in inflight
  /\ inflight' = inflight \ {t}
  /\ taskTimers' = taskTimers \ {t}
  /\ taskAttempts' = [taskAttempts EXCEPT ![t] = 0]
  /\ Reconciled({t})
  /\ UNCHANGED <<scheduler, pendingFull, pendingKeys, phase, scopeFull, scopeKeys, pendingRuntimeDrain, blocked, todo,
                 failed, passTimer, passAttempt, stopped, enabled, fresh, exhausted, used>>

(* ... or throws: only this Task's scope is failed. *)
TaskPassFails(t) ==
  /\ phase = "tasks" /\ t \in inflight /\ Spend("failure", MaxFailures)
  /\ inflight' = inflight \ {t}
  /\ failed' = failed \cup {t}
  /\ UNCHANGED <<scheduler, pendingFull, pendingKeys, phase, scopeFull, scopeKeys, pendingRuntimeDrain, blocked, todo,
                 retries, stopped, enabled, ghost>>

(* Every consumer returned and the queue stopped. *)
TasksJoin ==
  /\ phase = "tasks" /\ todo = {} /\ inflight = {}
  /\ phase' = "finish"
  /\ UNCHANGED <<scheduler, pendingFull, pendingKeys, scopeFull, scopeKeys, pendingRuntimeDrain, blocked, todo,
                 inflight, failed, retries, stopped, enabled, ghost, used>>

(***************************************************************************)
(* #scheduleTaskPassRetry for the Tasks ts that failed or were blocked,    *)
(* after a full pass has cleared every Task retry.  A Task that is not     *)
(* enabled, or whose budget is used up, is left to the next full pass.     *)
(***************************************************************************)
ScheduleTaskRetries(ts) ==
  LET timers   == IF scopeFull THEN {} ELSE taskTimers
      attempts == [t \in Task |-> IF scopeFull THEN 0 ELSE taskAttempts[t]]
      due      == IF stopped \/ pendingFull THEN {} ELSE ts
      left     == {t \in due : t \notin enabled
                                \/ (t \notin timers /\ attempts[t] >= TaskRetryLimit)}
      armed    == due \ (left \cup timers)
  IN  /\ taskTimers' = (timers \ left) \cup armed
      /\ taskAttempts' = [t \in Task |-> IF t \in left THEN 0
                                         ELSE IF t \in armed THEN attempts[t] + 1
                                         ELSE attempts[t]]
      /\ exhausted' = exhausted \cup left

(* The end of a turn: stop, yield to the event loop before the next turn, or end. *)
NextTurn(backlog) ==
  IF stopped \/ ~(pendingFull \/ pendingKeys # {} \/ backlog)
  THEN RunEnds("ok")
  ELSE phase' = "yield" /\ UNCHANGED scheduler

(* The second drain and the retries of a turn that succeeded. *)
Finish ==
  /\ phase = "finish"
  /\ \E b \in SUBSET Task, backlog \in BOOLEAN :
       /\ b # {} => used["failure"] < MaxFailures
       /\ backlog => used["disturbance"] < MaxDisturbances
       /\ used' = [used EXCEPT !["failure"] = IF b = {} THEN @ ELSE @ + 1,
                               !["disturbance"] = IF backlog THEN @ + 1 ELSE @]
       /\ ScheduleTaskRetries(failed \cup blocked \cup b)
       /\ pendingRuntimeDrain' = backlog
       /\ NextTurn(backlog)
  /\ passTimer' = FALSE /\ passAttempt' = 0
  /\ UNCHANGED <<pendingFull, pendingKeys, scopeFull, scopeKeys, blocked, todo, inflight, failed,
                 stopped, enabled, owed, fresh>>

SecondDrainFails == phase = "finish" /\ Fail

(* The loop condition after the yield. *)
Yielded ==
  /\ phase = "yield"
  /\ IF pendingFull \/ pendingKeys # {} \/ pendingRuntimeDrain
     THEN BeginTurn(pendingFull, pendingKeys) /\ UNCHANGED scheduler
     ELSE /\ RunEnds("ok")
          /\ UNCHANGED <<pendingFull, pendingKeys, scopeFull, scopeKeys, pendingRuntimeDrain, blocked, todo, inflight,
                         failed, fresh, exhausted>>
  /\ UNCHANGED <<retries, stopped, enabled, owed, used>>

(* stop(): every timer and queue is dropped; the running pass finishes. *)
Stop ==
  /\ ~stopped
  /\ stopped' = TRUE
  /\ schTimer' = FALSE /\ schPending' = {} /\ drainRequested' = FALSE
  /\ taskTimers' = {} /\ taskAttempts' = [t \in Task |-> 0] /\ passTimer' = FALSE
  /\ todo' = {}
  /\ UNCHANGED <<schCurrent, awaited, pendingFull, pendingKeys, phase, scopeFull, scopeKeys, pendingRuntimeDrain,
                 blocked, inflight, failed, passAttempt, enabled, ghost, used>>

-----------------------------------------------------------------------------
PassStep ==
  \/ FirstDrain \/ FullPass \/ TasksJoin \/ Finish \/ Yielded
  \/ \E t \in Task : TakeTask(t) \/ TaskPass(t)

PassFailure ==
  \/ FirstDrainFails \/ FullPassFails \/ SecondDrainFails
  \/ \E t \in Task : TaskPassFails(t)

SchedulerStep == DrainStarts \/ BatchSettles

Next ==
  \/ \E t \in Task : Signal(t) \/ DeadlineFires(t) \/ TaskRetryFires(t)
                     \/ GateChanges(t)
  \/ WindowCloses \/ SchedulerStep \/ PassRetryFires
  \/ Pump \/ PumpAgain \/ PassStep \/ PassFailure \/ Stop

Spec == Init /\ [][Next]_vars

(***************************************************************************)
(* Fairness: timers fire, promise continuations run, and every awaited     *)
(* part of a pass settles (each is bounded by its own timeout).  The       *)
(* interval timer is not part of it: WakesAreReconciled assumes that one   *)
(* itself.  Each is weak fairness of a step that ends its own cause.       *)
(***************************************************************************)
Fairness ==
  /\ []<>~schTimer
  /\ []<>(schCurrent # "starting") /\ []<>(schCurrent # "awaiting" \/ awaited = "running")
  /\ []<>(~passTimer \/ stopped)
  /\ \A t \in Task : []<>(t \notin taskTimers \/ stopped)
  /\ []<>(phase = "none" \/ phase = "yield")
  /\ []<>(phase # "yield")

FairSpec == Spec /\ Fairness

-----------------------------------------------------------------------------
(* The variables keep the shape of the class fields they model. *)
TypeOK ==
  /\ {schPending, pendingKeys, scopeKeys, blocked, todo, inflight, failed, taskTimers, owed,
      fresh, exhausted, enabled} \subseteq SUBSET Task
  /\ {schTimer, drainRequested, pendingFull, scopeFull, passTimer, stopped,
      pendingRuntimeDrain} \subseteq BOOLEAN
  /\ schCurrent \in {"none", "starting", "awaiting"}
  /\ awaited \in {"running", "ok", "failed"}
  /\ phase \in {"none", "drain", "full", "tasks", "finish", "yield"}
  /\ passAttempt \in 0..PassRetryLimit
  /\ taskAttempts \in [Task -> 0..TaskRetryLimit]

(* Where the controller still remembers that Task t must be reconciled. *)
Remembered(t) ==
  \/ t \in schPending \/ pendingFull \/ t \in pendingKeys
  \/ (phase \in {"drain", "full", "tasks"} /\ t \in Scope)
  \/ (phase = "finish" /\ t \in failed \cup blocked)
  \/ t \in taskTimers \/ t \in exhausted

(* No wake is forgotten: through coalescing, a concurrent full request, a pass that
   throws, a Task that fails and a retry that runs out, a signalled Task that has
   not been reconciled since is still recorded somewhere, until stop(). *)
NoLostWake == stopped \/ \A t \in owed : Remembered(t)

(* A request for a full pass is only given up to a full pass: the turn that clears
   #pendingFull takes the full scope, also when the pass it interrupted fails. *)
FullIsHonoured == [][pendingFull /\ ~pendingFull' => phase' = "drain" /\ scopeFull']_vars

(* Without the periodic pass, every wake is reconciled or handed to that pass: its
   Task stopped, its Task's retries ran out, or the retries of whole passes did.
   None stays owed for ever, which is the same as each leading to being no longer owed. *)
WakesAreReconciledOrExhausted ==
  \A t \in Task : []<>(t \notin owed \/ t \in exhausted \/ stopped
                         \/ passAttempt = PassRetryLimit)

(* If the periodic pass keeps coming, every wake is reconciled, whatever failed before. *)
WakesAreReconciled ==
  []<>(stopped \/ (used["pump"] = MaxPumps /\ phase # "none")) =>
    \A t \in Task : []<>(t \notin owed \/ stopped)

=============================================================================
