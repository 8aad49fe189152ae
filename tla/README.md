# A TLA+ model of Yui's coordination core

Yui runs teams of coding agents. A **Controller** process owns a SQLite **Task
Store**, reconciles it in passes, delivers work to agent sessions, supervises
detached job processes and tells the **Operator** what needs attention; CLI
processes and agents change the Store concurrently. What is hard to test in it
is what happens *between* steps: a wake during a pass, a crash between a record
and its effect, a file read before a process is probed. This project models
those parts, checks them with TLC on small instances and proves the most
important results with TLAPS for every instance.

Paths below are relative to the repository (`src/...`); PROJECT.json names the
lines every definition stands for.

## 1. Modules

| module | code | what its state and actions are |
|---|---|---|
| `KeyedWorkQueue` | `src/coordination/keyedWorkQueue.ts` | ready list, phase and dirty flag per key, leases, blocked takers, drain callers; one action per method, with any number of consumer loops |
| `CoalescingQueue` | what that class promises | due keys, who holds which, and the promises handed out; no ready list, index or waiters |
| `ControllerPass` | `src/coordination/mailboxScheduler.ts`, pass loop of `src/controller/controller.ts` | signal window, drain chain, requested scope, the turn under way and its phase, pass and Task retry timers |
| `WorkMailbox` | `src/coordination/workMailbox.ts` | pure operators: a mailbox as pending and processing batch, remembered keys, next sequence |
| `OperatorMailbox` | `operatorEvent.ts`, `operatorInputNotificationProcessor.ts`, `operatorNotification.ts`, the Operator lane of `controller.ts` | the Operator's mailbox (through `WorkMailbox`), the lane's place and captured values, notices in the global queue, the Operator session |
| `DurableJob` | `src/controller/jobSupervisor.ts`, `src/job/jobRunner.ts`, `durableJob.ts`, `jobControl.ts`, `taskExecutionCommands.ts` | one job: stored record, Task gate and authority, artifact files, the supervisor's place in its ladder, runner processes, heartbeat |
| `WorkflowFileLock` | `src/release/workflowFileLock.ts` | lock directory, receipt, marker and temporary files, each process's place; a system call is a step |
| `InstanceHost` | `src/kernel/instanceHost.ts` | instance table with counts and disposal, handles, close |
| `RuntimeEventDrain` | `src/controller/runtimeEventInbox.ts`, `runtimeEventProcessor.ts`, status checks of `fileSchedulerStoreAdapter.ts` | files of the inbox, the records and the Turn bindings of the store, the running drain (listing, rest of the batch, failed lanes, acknowledgements), lane cursor, Task gates; both processors |
| `LeaderDelivery` | `leaderWakeupProcessor.ts`, notification methods of `fileSchedulerStoreAdapter.ts`, `submitRun` and terminals of `runtime/agentHost.ts`, `providerRuntimeIdentity.ts`, `task wake` commands | Leader mailbox, wakes and attempts, durable Provider binding, the Host's serialized submission with its queue and retained events, the processor's place, Session and its replacement, what the Provider really took |

`MC*` modules are what TLC runs; the symmetry of runners is used in `job_safety` only.
The theorems about a module `M` are in `MProofs`, with three exceptions: those about
`ControllerPass` and `InstanceHost`, whose whole state is in the memory of one process,
share `InProcessProofs`; the invariant of `LeaderDelivery`, with half of its proof, is in
`LeaderDeliveryInvariant`; the lemmas about `WorkMailbox` are in `OperatorMailboxProofs`.

Some of the modules compose: `OperatorMailbox` is built on the operators of
`WorkMailbox`. `ControllerPass` keeps the Task queue of a dirty pass as two sets
(not yet taken, leased) with bounded concurrency; `KeyedWorkQueue` is that queue
in full. Its job pass (`DurableJobSupervisor.reconcile`) is the source of the
passes of `DurableJob`; its event drain is `RuntimeEventDrain`, and one of its
Leader steps is a pass of `LeaderDelivery`. `LeaderDelivery` keeps the inbox as a
set of events folded in any order, which is weaker than what `RuntimeEventDrain`
gives. `KeyedWorkQueue` implements `CoalescingQueue` under the mapping in its
`Promise` instance.

### Grain of the steps

The Controller is one JavaScript thread: in `KeyedWorkQueue`, `ControllerPass`
and `InstanceHost` an action is the code between two awaits. In `DurableJob` the
supervisor's pass is synchronous, but runner processes, CLI processes and
crashes are not, so each of its reads and writes of a file, a process or the
Store is a step, and RPCs (cancel, acknowledge) come only between passes. In
`RuntimeEventDrain` a wave is one transaction and each acknowledgement a step; the
worker processor reads the Task in one step and folds in another. In
`LeaderDelivery` Controller and Host are two processes: each call between them is
sent, takes effect and is answered in steps of its own, and any of these can be
lost. In
`WorkflowFileLock` all processes are equal and every system call is a step. A
Store transaction is always one step.

### Ghost state

`ControllerPass`: `owed` is the set of Tasks signalled and not yet reconciled by
a successful pass that captured its scope after the signal; `fresh` holds those
signalled since the turn began, `exhausted` those whose retries are used up or
whose Task was stopped. `KeyedWorkQueue`: `owed` is
the set of keys with a signal not yet served. `DurableJob`: `wakes` counts the
wakeups enqueued for the Leader, `source` says on which evidence the outcome
rests, and `run[r].done` is what the runner really did.
`RuntimeEventDrain`: `effects` counts how often an event changed the aggregate.
`LeaderDelivery`: `accepted` and `running` are the Provider's own state, which no
code can read; the properties compare the records with it.

## 2. What the runs check

| run | instance and bounds | result |
|---|---|---|
| `keyed_queue` | 3 keys, 3 consumers, 1 drainer, fair | the queue implements `CoalescingQueue` (`KeepsThePromise`): exclusive leases, a shutdown that keeps what is queued, promises that resolve when and only when nothing is left; a signal during a lease is kept (`NoLostSignal`) and served (`SignalsAreServed`); no loop sleeps beside ready work (`NoWaiterWithReadyWork`); closing ends the loops (`CloseTerminates`) |
| `job_safety` | 2 runners, 2 steps, 2 crashes, 1 cancel, 1 stop, 1 hang, both authority faults | `IntentPrecedesEffect`, `OneRunner`, `SuccessIsTruthful`, `OneWakePerOutcome`, `DeadMeansGone`, `NoStartAfterCancel` |
| `job_live` | 1 runner, 1 step, 1 crash, 1 cancel, 1 stop, 1 hang, no authority fault, fair | the job ends (`JobsTerminate`), except where a cancelled job has a hung runner; an uncancelled stale runner is killed (`UncancelledRunnerEscalates`) |
| `job_hung_cancel` | 1 cancel, 1 hang, fair | **violated**, see findings |
| `job_exit_race` | 1 crash | **violated**, see findings |
| `pass` | 2 Tasks, concurrency 2, 2 pass retries, 1 Task retry, 2 failures, 2 signals, 1 gate change or stop, 1 pump that recurs, fair | no wake is lost (`NoLostWake`), a requested full pass is honoured (`FullIsHonoured`); without the periodic pass every wake is reconciled or its retries are exhausted (`WakesAreReconciledOrExhausted`); if that pass keeps coming, every wake is reconciled (`WakesAreReconciled`) |
| `operator` | 3 facts of which 1 input request, claim limit 2, 2 remembered keys, 1 crash, 1 disturbance (failing transfer, health notice or outage), fair | `BacklogIsSplittable`, `NoFactLost`, `OneNoticePerFact`, `ClaimIsNew`; every open fact is noticed (`FactsAreNoticed`); no deadlock |
| `lock` | 3 processes, 1 deadline, 1 failing write, 1 failing rename, 2 killed as holder or inside a reclaim, fair | while nobody was killed, one owner (`ExclusiveUnlessKilled`) and, while receipts can be written, a lock that can be reclaimed (`ReclaimableUnlessKilled`); a dead owner's lock is taken from it (`DeadOwnerIsReplaced`) |
| `lock_reclaim_race` | 3 processes, 1 killed holder | **violated**, see findings |
| `instance_lifecycle` | 2 instances, 3 handles, 2 disposers, fair | no disposal under a holder, an honest drain, a complete close, drains that end |
| `event_drain` | 11 events of 3 Tasks and the global scope, batch of 2, one event that always throws, one that waits for its Session, a Turn with a late receipt whose end its Host and its hook report, the hook twice, 1 disturbance (crash, failing fold or unlink, stop, start, archive), fair, both processors | a fact takes effect at most once and a Turn gets one result (`EffectAtMostOnce`), and a file goes only when its event is done (`AcknowledgedMeansSettled`); events of a Task take effect in order, a failed one blocks the later ones of its drain (`TaskOrderIsKept`); nothing of an archived Task takes effect (`ArchiveIsAFence`); healthy events leave the inbox although others fail for ever (`HealthyEventsLeaveTheInbox`) |
| `leader_delivery` | 2 messages, 2 signals, 6 attempts, 2 faults of any kind, a Host without recovery Turns, fair | the Provider takes a message at most once (`AtMostOnce`); what is recorded as not delivered was not (`NegativeEvidenceIsTrue`), what is consumed was accepted (`ConsumedMeansAccepted`), nothing vanishes (`NoInputLost`); a running Turn has a Host and a binding that know of it (`RunningTurnIsOwned`); every message is taken, parked for the user or behind a Host that must be replaced (`DeliveryIsDecided`) |

Why the bounds are enough. Keys, Tasks, facts and processes interact in pairs
(two holders, a fact and the batch it merges into); one more than a pair lets a
third come in between. Limits of the code (64 facts per claim, 256 remembered
keys, retry limits) are constants, set small enough to be hit and to overflow.
The lanes of `event_drain` outnumber its
batch, so that the cursor wraps around with failing lanes on both sides. Two
faults in `leader_delivery` let one hit the recovery from another; six attempts are
more than two faults and two signals can use up. Crashes are bounded by two, so that
one can hit the recovery from another. The theorems do without the bounds: they cover
every safety property of the passing runs.

Deadlock checking is off where a system may rightly stop: a closed queue, a
terminal job, a stopped Controller, finished lock holders, a closed host.

## 3. Findings

1. **exit.json race** (`job_exit_race`). The supervisor reads `exit.json`, finds
   none, then asks whether the runner is alive. A runner that is not its child
   (the Controller was restarted) may publish the file and exit in between;
   `#handleDeadProcess` does not read it again, and the job ends as
   `unknown-needs-attention`, "runner process exited without writing exit.json".
2. **A cancelled job with a hung runner is never killed** (`job_hung_cancel`).
   The cancel request sets `updatedAt` to now; recording the older heartbeat sets
   it back, which `saveDurableJob` refuses with an error, in every pass, before
   the SIGKILL step is reached.
3. **Two owners of a release workflow** (`lock_reclaim_race`). A recursive
   removal unlinks the reclaim marker before or after the receipt, as the
   directory lists them. If before, a second waiter starts a reclaim inside the
   first one, and its removal goes on, by path, in the directory the first waiter
   has made anew.
Beside these, a limit of the workflow lock: a directory without receipt is never
reclaimed. It remains if its owner is killed between mkdir and rename or in the
middle of a release, which the code accepts, and also if opening or writing the
receipt fails: only a failing rename removes the directory, although the comment
of `writeOwnerReceipt` reads as if any failure did. `ReclaimableUnlessKilled`
excepts exactly these cases.

## 4. Fairness

* `KeyedWorkQueue`: consumer loops take and finish (weak, per consumer): the
  Controller's loops await nothing else.
* `ControllerPass`: timers fire, promise continuations run, awaited work settles
  (weak fairness, written as `[]<>` of the state in which nothing is left to do, which is
  much cheaper to check). The interval pump is not part of `Fairness`: only `WakesAreReconciled`
  assumes it, as its own premise. Signals, failures, gate changes and stop are
  never fair.
* `OperatorMailbox`: the periodic pass, the lane's own steps and the delivery of
  a queued notice (weak, in the same form but for the pass); an Operator session comes back.
* `DurableJob`: a synchronous pass runs to its end and a crashed Controller is
  restarted (weak); the periodic pass gets its turn however many RPCs come
  between, and finished children are reaped (strong); runner steps end because
  each has a timeout. Nothing is assumed of hung runners, crashes and callers.
* `WorkflowFileLock`: a process that is not killed goes on.
* `RuntimeEventDrain`: passes recur while there is work and a drain waits on nobody
  (weak). No fault, command or publication is fair.
* `LeaderDelivery`: passes recur, full ones too; the Host works off its queue; a
  native Turn ends; a replacement that was asked for is carried out (weak). No
  fault, user command or late registration is fair.
* `InstanceHost`: holders release (`use` does in its finally block) and disposers
  settle.

## 5. Theorems

Every theorem is `Spec => []P` or `Spec => P` for arbitrary constants, under the
named assumptions of its module. In each proof module `Inv` is the inductive
invariant and `Invariance` the theorem about it; the proof has a lemma for every
action or for a group of actions that do the same to the invariant. Each
`Inv` also holds under TLC with the constants of its module's run (that of
`LeaderDelivery` with its quantifiers over `Nat` bounded); the configurations do not
list it.

**`KeyedWorkQueueProofs`** (any sets of keys, consumers and drainers with
`None \notin Key`). `Inv` adds to the
safety invariants that the ready list holds the queued keys, each once
(`ReadyIsQueued`), that a loop is waiting exactly when it is in the waiter list, once
(`WaitersAreBlocked`: without it a dispatch could wake a loop that runs), and
what abort and close leave behind (`StopFlags`: without it a stopped queue could
still have a lease). `TypeCorrect`, `ExclusiveLeases`, `SignalsNeverLost`,
`NoSleepingConsumer` and `StopIsFinal` follow.
`QueueKeepsPromise` is `Spec => KeepsThePromise`: every behaviour of the queue is one of
`CoalescingQueue`, with the due keys mapped to `owed`, the mode to the two flags
and the rest by name. The code resolves a promise when its index is empty, the
abstraction when nothing is due and nobody works. That these coincide needs
`Accounted` beside `Inv`: every entry of the index stands for a due key or for a
holder. There is a lemma per method, each naming the abstract step.

**`DurableJobProofs`** (any runners, number of steps, faults and bounds, with the
assumptions `NoneNotRunner`, `RunnersAreNotMarks`, `BoundsAreNat`,
`FaultKinds`). `Inv` is `TypeOK`, `Main` and `LoopFacts`. `Main` joins the safety
invariants with the place of the pass: in the spawn window no runner exists and
the effect is recorded; at "dead" every runner has ended (`PassFlow`); every
process name in memory, record or file is of a spawned process
(`NamesAreSpawned`); a pass that overlooked a cancel finds the gate closed
(`CancelIsSeenOrGated`). `LoopFacts` ties the runner's steps to its checkpoint
and exit file. From them: `EffectHasIntent`, `SingleRunner`, `SuccessTruth`,
`WokenOnce`, `DeadIsGone`, and the action properties `TerminalFinality` and
`CancelPreventsStart`.

**`LeaderDeliveryInvariant`, `LeaderDeliveryProofs`** (any messages; any number of
signals, attempts, lost calls, crashes and refusals; a Host without recovery Turns,
see section 6). The properties compare records
with what the Provider did, so `Inv` says where an attempt can be on its way: in the
processor, in the Host's queue or in its submission, in one of them at a time
(`OnePlace`); only the claimed attempt of an open wake can still be taken
(`Current`); attempts that were or can be taken share no message (`Disjoint`).
`Evidence` says that every reply, binding, event and delivery record is true of such
an attempt: a refusal is of one that can no longer be taken. `Turn` ties the Host's
submission to the running Turn. From these: `DeliveredAtMostOnce`,
`NegativeEvidenceHolds`, `ConsumedWakesWereAccepted`, `InputsAreKept` and
`TurnsAreOwned`. Most steps only make fewer attempts possible (`Shrinks`) and are
covered by common lemmas; a new claim and the Provider's acceptance are not.
`RecordsAreFinal` is an action property: no step reopens or reclassifies a closed wake,
changes what a wake announces or takes back an outcome. It needs `Inv`, because three
different actions close the wake a claim names, and only `ClaimIsOpen` says that it was
open. `ShapesAreKept` is the type invariant.

**`RuntimeEventDrainProofs`** (any events, batch size, set of failing and waiting events,
faults and commands; both processors). `ArchiveFences` is the check inside the
transaction. `AtMostOneEffect` needs to know what tells a fold that it comes again
(`Remembered`): the record of an event if no later one replaces it, the accepted binding
for a receipt, and for a result the settled binding of its Turn. A transaction keeps that
(`CommitFacts`) because a wave holds no second result beside a first (`WaveFacts`), and
what is done stays done although records are removed. What waits to be unlinked is done or
waits for its Session (`AcksAreTrue`), which gives `FilesOutliveTheirEvents`; and before
each candidate every earlier event of its Task was passed, or its Task has failed, or it
is a candidate further ahead (`Ordered`), which gives `TaskOrderHolds` because a wave
holds two candidates of one Task only if one of them is blocked (`WaveFacts`). That a
batch begins with `Ordered` is `SelectFacts`: the selection numbers the candidates by
round and by lane from the cursor on, these turns have no ties and grow within a lane. The
lemmas before it count with cardinalities and use the least element of a set of numbers
(`Least`) in place of induction. `ShapesAreKept` is the type invariant.

**`InProcessProofs`** (any Tasks, concurrency, retry limits and number of failures; any
instances and handles, and any number of disposers). For the pass loop `Inv` follows an
owed Task through the signal window, the request, the turn
and its phases and the retry timers (`Kept`); a Task signalled during a turn is queued
for the next (`FreshIsQueued`), and a full turn leaves owed only what it was told to
leave (`FullTurn`: without it the retries that a full turn clears at its end could be
the last trace of a wake). From it `WakesAreKept`; `FullRequestsAreHonoured` is an
action property of the steps. `BudgetsAreKept` is the type invariant: the attempts of a
pass and of a Task never exceed their limits. For the host, whose
specification is `HostSpec`, the invariant is `HostInv`: the count of an
instance is the number of handles on it (`Counted`), its disposal starts at the first
moment it is detached with count zero (`Orderly`), and close detaches all (`Closed`):
`NeverDisposedInUse`, `DrainsAreHonest`, `CloseDisposesAll`, and the type invariant
`CountsAreRight`.

**`OperatorMailboxProofs`** (any facts, input requests, claim limit above zero, number of
remembered keys, crashes and disturbances). The mailbox is plain data that five
functions of `workMailbox.ts` rewrite, so most of `Inv` is about it (`Sound`): a batch has
one key and one sequence number for each ref (`Aligned`), the claimed batch, the queued
one and the next number follow each other without a gap, and a key is claimed, queued or
remembered in one place only. Without the first a release could merge into a batch that
`claimOperatorAttention` cannot split; without the last a merge could drop a ref. Around
it: what is in a message is no longer in the mailbox (`Raised`), the receipt of a message
numbers a batch in front of all that is left (`Receipts`), and the lane's captured values
belong to the batch it works on (`Lane`). The central lemma is that `AppendUnique` of
sequences that share nothing is their concatenation (`AppendDisjoint`). It is a recursive
function, and induction is out of reach; the lemma looks at the least index where the two
differ instead (`Smallest`). One lemma for each mailbox function and one for each action
then give `BacklogStaysSplittable`, `FactsAreKept`, `FactsAreAnnouncedOnce`,
`ClaimsAreNew` and, as type invariant, `MailboxStaysValid`: every stored mailbox
passes `validateWorkMailbox`. `ClaimsAreNew`: no
claim ever has the id of a queued receipt, because the transfer completes the claim in
the transaction that queues the message. The branch of `queueOperatorNotification` for a
receipt that is already there is a guard that the present code never takes.

**`WorkflowFileLockProofs`** (any number of processes, attempts, deadlines and failing
writes and renames). As long as nobody is killed, mkdir makes one process the owner of
the directory until its own rmdir (`Owned`), and no reclaim gets past its first read,
because a receipt always names a live process: `OneHolder`, `LockIsReclaimable`.
`OnlyTheDeadAreReclaimed` holds with kills too: whoever reclaims has read the receipt
of an owner that is gone, and files exist only in a lock directory. Exclusion itself
fails then, see finding 3.

Only model-checked: the liveness properties, because fairness and ENABLED are beyond the
prover, and the three expected violations, which are counterexamples. Every safety
property of a passing run, the refinement of `CoalescingQueue` and the type invariant of
every component are proved. `TypeOK` (`HostTypeOK` in `InstanceHost`) is not among the
properties of the runs; TLC agrees with it on their instances.

## 6. Abstractions

* `DurableJob`: one Task job on Linux (process identity by start time). Admission
  and its idempotency key, global jobs and their limit of four refreshes,
  delegated jobs, business results and a Node executable that cannot be spawned
  are outside. Times are relations: heartbeat stale, newer than recorded, older
  than `updatedAt`.
* `ControllerPass`: one wake key per Task; the step from a settled run to its
  `finally` is atomic; delivery, cleanup and mailbox retry timers are further
  signals.
* `OperatorMailbox`: facts have the key of their source, as every current
  producer gives them; presentation text is the set of refs it shows; Provider
  delivery of a notice is one action.
* `WorkflowFileLock`: one acquisition per process; temporary files are told apart
  up to `MaxTries` attempts; the order in which a directory is listed is
  arbitrary; a removal that meets a new entry lists again or throws, as the Node
  releases the package supports do.
* `InstanceHost`: the values of instances are left out; drained settles with the
  last disposer.
* `RuntimeEventDrain`: what a fold does to the aggregate is "takes effect" or
  "retired"; the classification before a fold is part of it. Progress and state
  observations may take effect twice: the next of their stream replaces their record,
  and an old one that is published again is not recognised. Two results of one Turn
  that contradict each other, which the code rejects, are not told apart. Events are
  numbered in the order of the listing and may be published in any order; in the run only
  the receipt and the hook's second report come while drains run. Durable-job
  events are only acknowledged by the code and have no kind here. Malformed files are
  quarantined by the code and not modelled. Nothing is claimed for lanes that appear
  without end.
* `LeaderDelivery`: one Task, one Leader, and a Host that reports no safe same-Session
  recovery (`retrySupport` "unsupported", every adapter but codex). There
  `recordProviderFailure` leaves no retry pending, admission refuses a recovery Turn, and
  the `providerRetryPending` branches of the modelled code are never taken. With codex an
  accepted Turn that fails is followed by recovery Turns with the text of the same wake,
  by design (`docs/provider-retry.md`): `AtMostOnce` and its theorem say nothing about
  those. Claims held by the Leader's own inbox, interrupt-then handoffs, message
  revisions, Draft planning and the Task's gate are left out. A Host dies only through the
  verified stop that precedes a replacement; observations of an old Session and
  registrations after it are refused by the Session fence. Passes are serialized, as
  `ControllerPass` shows. If the publication of a terminal fails and the Host has lost the
  matching run, it stays occupied until it is replaced: `HostStranded` names that state,
  and `DeliveryIsDecided` excepts it.

## 7. Inventory

The parts of the system and their status are in PROJECT.json. By size the source
is commands, controller, runtime and web (about 95k lines), repository, storage,
cli, nativeAgent, executor and task (47k), and some fifty smaller directories.
Modelled are the coordination core, durable jobs, the workflow lock, the
instance host, the runtime event drain and the delivery to the Leader.

### Not modelled

* Role run dispatch (`coordination/workMailboxQueue.ts`,
  `scheduler/activeRoleRunDelivery.ts`): the same window between a claim and its
  settlement as in `LeaderDelivery`, for Worker and Reviewer runs.
* Global input delivery with its awaited reconcile and authority epochs; it would
  refine the settling action of `OperatorMailbox`.
* Admission of a job and its idempotency key; Integration, whose one concurrent
  step is Git's own compare-and-swap; the release workflow engine above its lock.
* Bounded Provider recovery (`runtime/providerRetry.ts` and its admission and delivery):
  the recovery Turns of a codex Host, see section 6.
* Capability registry, endpoint ownership, launch broker, Controller singleton,
  schedules.
* Work items, iterations, reviews and decisions: validation of records inside one
  Store transaction.

Of these, role run dispatch and global input delivery would add most.

Outside the reach of a model: terminal, tmux, Provider and Git I/O, HTTP and presentation,
codecs and schema migrations.
