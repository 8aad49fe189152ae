----------------------------- MODULE DurableJob -----------------------------
(***************************************************************************)
(* One DurableJob: its record in the store (src/job/durableJob.ts), the    *)
(* Controller's supervision ladder (src/controller/jobSupervisor.ts), the  *)
(* detached runner process (src/job/jobRunner.ts) and the artifact files   *)
(* through which the two processes talk.                                   *)
(*                                                                         *)
(* A reconcile pass is one synchronous function in the Controller, but the *)
(* runner and the CLI are other processes, and the Controller may die      *)
(* between any two of its durable effects.  So each store transaction,     *)
(* file access and signal of a pass is a step of its own (pc), and RPC     *)
(* handlers of the Controller run only between passes (pc = "idle").       *)
(*                                                                         *)
(* Time is abstracted to the comparisons the code makes: whether the       *)
(* heartbeat file is stale, newer than the recorded heartbeat, or older    *)
(* than the record's updatedAt.                                            *)
(***************************************************************************)
EXTENDS Naturals, Sequences

CONSTANTS
  Runner,        \* runner processes that may be spawned
  NSteps,        \* steps of the job
  None,          \* no runner
  AuthFaults,    \* ways the start authority may fail: "revoked", "out-of-scope"
  MaxCrashes,    \* bound: Controller crashes
  MaxCancels,    \* bound: explicit cancel requests
  MaxStops,      \* bound: `task execution stop` commands
  MaxHangs       \* bound: times a runner stops making progress

ASSUME NoneNotRunner == None \notin Runner
ASSUME RunnersAreNotMarks == Runner \cap {"none", "pending", "empty"} = {}
ASSUME BoundsAreNat == {NSteps, MaxCrashes, MaxCancels, MaxStops, MaxHangs} \subseteq Nat
ASSUME FaultKinds == AuthFaults \subseteq {"revoked", "out-of-scope"}

VARIABLES
  \* the stored record
  status, effect, cancelRequested, process, source, acknowledged,
  wakes,         \* terminal wakeups enqueued for the Leader
  \* the Task and the caller binding the start is authorised against
  gate, auth,
  \* artifact directory
  marker, ready, fence, checkpoint, exitFile,
  \* Controller
  pc, seen, sawCancel, sigkill,
  \* runner processes
  run,
  \* heartbeat file, relative to now, the recorded heartbeat and updatedAt
  stale, beatNew, beatBehind,
  \* how much of each bound is used
  used

record  == <<status, effect, cancelRequested, process, source, acknowledged, wakes>>
task    == <<gate, auth>>
files   == <<marker, ready, fence, checkpoint, exitFile>>
control == <<pc, seen, sawCancel, sigkill>>
beat    == <<stale, beatNew, beatBehind>>
vars    == <<record, task, files, control, run, beat, used>>

Terminal   == {"succeeded", "failed", "timed-out", "cancelled", "unknown-needs-attention"}
Status     == {"queued", "running"} \cup Terminal
StepResult == {"ok", "failed", "timed-out"}
Outcome    == {"succeeded", "failed", "timed-out", "cancelled"}
Source     == {"none", "exit-artifact", "checkpoint", "no-exit", "no-acceptance",
               "rejected", "never-started"}
PC         == {"down", "idle", "fence", "term", "decide", "attempt", "reject", "mark-pending",
               "spawn", "mark-real", "adopted", "probe", "alive", "beat", "kill",
               "harvest", "dead"}
RunnerPC   == {"none", "boot", "created", "loop", "step", "exiting", "zombie", "gone"}
Bound      == {"crash", "cancel", "stop", "hang"}

Active == status \notin Terminal
-----------------------------------------------------------------------------
(* The operating system: a process exists for /proc and kill(pid, 0) until it is reaped. *)
Visible(r) == r \in Runner /\ run[r].pc \notin {"none", "gone"}

(* Signal handlers are installed, or the process waits for its first turn. *)
Running(r) == run[r].pc \in {"boot", "created", "loop", "step", "exiting"}

(* A process that ends: a zombie while the Controller that spawned it lives. *)
Ended(rec) == [rec EXCEPT !.pc = IF rec.own THEN "zombie" ELSE "gone", !.hung = FALSE]

(***************************************************************************)
(* SIGTERM through signalIfOwned.  Before the runner installs its handler  *)
(* and after it removes it the default action ends the process; between,   *)
(* the handler runs at the next turn of the runner's event loop.           *)
(***************************************************************************)
SigTerm(r) ==
  IF ~Visible(r) THEN run
  ELSE CASE run[r].pc \in {"boot", "created", "exiting"} -> [run EXCEPT ![r] = Ended(@)]
         [] run[r].pc \in {"loop", "step"} /\ run[r].term = "none" ->
              [run EXCEPT ![r].term = "pending"]
         [] OTHER -> run

SigKill(r) == IF Visible(r) /\ Running(r) THEN [run EXCEPT ![r] = Ended(@)] ELSE run

(* #spawnedProcessFromEvidence: ready.json first, then a start marker with a pid. *)
SpawnedFromEvidence ==
  IF ready \in Runner THEN ready ELSE IF marker \in Runner THEN marker ELSE None

(* Mutant: a checkpoint without a failed step proves success, however short. *)
ProveShortCheckpoint(cp) ==
  IF \A i \in 1..Len(cp) : cp[i] = "ok" THEN "succeeded" ELSE "none"

(* proveOutcomeFromCheckpoint: "none" unless every planned step is covered. *)
ProveOutcome(cp) ==
  IF Len(cp) # NSteps THEN "none"
  ELSE IF \A i \in 1..Len(cp) : cp[i] = "ok" THEN "succeeded"
  ELSE LET first == CHOOSE i \in 1..Len(cp) :
                      cp[i] # "ok" /\ \A j \in 1..(i - 1) : cp[j] = "ok"
       IN  cp[first]

(* authorizeStart: the binding, then the assignment scope, then the Task gate. *)
Authorisation ==
  CASE auth = "revoked"      -> "refused"
    [] auth = "out-of-scope" -> "error"
    [] OTHER                 -> IF gate = "enabled" THEN "granted" ELSE "refused"

-----------------------------------------------------------------------------
Init ==
  /\ status = "queued" /\ effect = "none" /\ cancelRequested = FALSE
  /\ process = None /\ source = "none" /\ acknowledged = FALSE /\ wakes = 0
  /\ gate = "enabled" /\ auth = "granted"
  /\ marker = "none" /\ ready = "none" /\ fence = FALSE
  /\ checkpoint = <<>> /\ exitFile = "none"
  /\ pc = "idle" /\ seen = None /\ sawCancel = FALSE /\ sigkill = "off"
  /\ run = [r \in Runner |-> [pc |-> "none", done |-> <<>>, term |-> "none",
                              verdict |-> "none", hung |-> FALSE, own |-> FALSE]]
  /\ stale = FALSE /\ beatNew = FALSE /\ beatBehind = FALSE
  /\ used = [b \in Bound |-> 0]

Spend(b, limit) == used[b] < limit /\ used' = [used EXCEPT ![b] = @ + 1]

(* Mutant: the wakeup is left to a later pass instead of the same transaction. *)
FinishWithoutWake(st, src) ==
  /\ status' = st /\ source' = src
  /\ pc' = "idle" /\ sigkill' = "off"
  /\ UNCHANGED <<effect, cancelRequested, process, acknowledged, wakes, seen, sawCancel>>

(* One transaction: the terminal status and the Leader wakeup. *)
Finish(st, src) ==
  /\ status' = st /\ source' = src /\ wakes' = wakes + 1
  /\ pc' = "idle" /\ sigkill' = "off"
  /\ UNCHANGED <<effect, cancelRequested, process, acknowledged, seen, sawCancel>>

-----------------------------------------------------------------------------
(* #reconcileQueued: the listed record and the start evidence. *)
BeginQueued ==
  /\ pc = "idle" /\ status = "queued"
  /\ seen' = SpawnedFromEvidence
  /\ sawCancel' = cancelRequested
  /\ pc' = IF cancelRequested THEN "fence" ELSE "decide"
  /\ UNCHANGED <<record, task, files, sigkill, run, beat, used>>

(* The cancel fence, of a queued or a running job. *)
WriteFence ==
  /\ pc = "fence"
  /\ fence' = TRUE
  /\ pc' = IF seen # None THEN "term" ELSE "decide"
  /\ UNCHANGED <<record, task, marker, ready, checkpoint, exitFile, seen, sawCancel, sigkill,
                 run, beat, used>>

(* ... and the SIGTERM that follows it. *)
SignalCancel ==
  /\ pc = "term"
  /\ run' = SigTerm(seen)
  /\ pc' = IF status = "queued" THEN "decide" ELSE "alive"
  /\ UNCHANGED <<record, task, files, seen, sawCancel, sigkill, beat, used>>

(* #adoptAndContinue: queued -> running under the observed process identity. *)
Adopt ==
  /\ pc = "decide" /\ seen # None
  /\ status' = "running" /\ effect' = "confirmed" /\ process' = seen
  /\ beatNew' = FALSE /\ beatBehind' = TRUE
  /\ pc' = "adopted"
  /\ UNCHANGED <<cancelRequested, source, acknowledged, wakes, task, files, seen, sawCancel,
                 sigkill, run, stale, used>>

(* The intent to spawn was committed but no runner can be observed. *)
AcceptanceUnknown ==
  /\ pc = "decide" /\ seen = None /\ effect # "none"
  /\ Finish("unknown-needs-attention", "no-acceptance")
  /\ UNCHANGED <<task, files, run, beat, used>>

(* Mutant: a cancelled queued job is fenced but its record is left queued. *)
CancelQueuedFencesOnly ==
  /\ pc = "decide" /\ seen = None /\ effect = "none" /\ sawCancel
  /\ pc' = "idle"
  /\ UNCHANGED <<record, task, files, seen, sawCancel, sigkill, run, beat, used>>

(* cancelQueuedDurableJob: nothing was attempted. *)
CancelQueued ==
  /\ pc = "decide" /\ seen = None /\ effect = "none" /\ sawCancel
  /\ Finish("cancelled", "never-started")
  /\ UNCHANGED <<task, files, run, beat, used>>

(* #startJob up to the spec file: the first authority check. *)
StartJob ==
  /\ pc = "decide" /\ seen = None /\ effect = "none" /\ ~sawCancel
  /\ pc' = CASE marker # "none"            -> "idle"
             [] Authorisation = "granted"  -> "attempt"
             [] Authorisation = "refused"  -> "reject"
             [] OTHER                      -> "idle"
  /\ UNCHANGED <<record, task, files, seen, sawCancel, sigkill, run, beat, used>>

(* Mutant: the possible effect is not recorded before the spawn. *)
AttemptWithoutIntent ==
  /\ pc = "attempt"
  /\ pc' = IF Authorisation = "granted" THEN "mark-pending" ELSE "idle"
  /\ UNCHANGED <<record, task, files, seen, sawCancel, sigkill, run, beat, used>>

(* The transaction that records the possible effect, re-checking authority. *)
Attempt ==
  /\ pc = "attempt"
  /\ IF status # "queued" \/ effect # "none" \/ Authorisation = "error"
     THEN pc' = "idle" /\ UNCHANGED effect
     ELSE IF Authorisation = "refused"
     THEN pc' = "reject" /\ UNCHANGED effect
     ELSE pc' = "mark-pending" /\ effect' = "possible"
  /\ UNCHANGED <<status, cancelRequested, process, source, acknowledged, wakes, task, files,
                 seen, sawCancel, sigkill, run, beat, used>>

(* #rejectStart after a domain refusal. *)
RejectStart ==
  /\ pc = "reject"
  /\ Finish("failed", "rejected")
  /\ UNCHANGED <<task, files, run, beat, used>>

MarkPending ==
  /\ pc = "mark-pending"
  /\ marker' = "pending"
  /\ pc' = "spawn"
  /\ UNCHANGED <<record, task, ready, fence, checkpoint, exitFile, seen, sawCancel, sigkill,
                 run, beat, used>>

(* Mutant: a spawn whose answer is late is tried again. *)
SpawnRetried(r) ==
  /\ pc = "spawn" /\ run[r].pc = "none"
  /\ run' = [run EXCEPT ![r].pc = "boot", ![r].own = TRUE]
  /\ seen' = r
  /\ pc' \in {"spawn", "mark-real"}
  /\ UNCHANGED <<record, task, files, sawCancel, sigkill, beat, used>>

(* spawnJobRunner: the detached child of this Controller. *)
Spawn(r) ==
  /\ pc = "spawn" /\ run[r].pc = "none"
  /\ run' = [run EXCEPT ![r].pc = "boot", ![r].own = TRUE]
  /\ seen' = r
  /\ pc' = "mark-real"
  /\ UNCHANGED <<record, task, files, sawCancel, sigkill, beat, used>>

MarkReal ==
  /\ pc = "mark-real"
  /\ marker' = seen
  /\ pc' = "idle"
  /\ UNCHANGED <<record, task, ready, fence, checkpoint, exitFile, seen, sawCancel, sigkill,
                 run, beat, used>>

(* After adoption: was exit.json already there? *)
AdoptedReadExit ==
  /\ pc = "adopted"
  /\ pc' = IF exitFile # "none" THEN "harvest" ELSE "probe"
  /\ UNCHANGED <<record, task, files, seen, sawCancel, sigkill, run, beat, used>>

(* Mutant: a runner that has not finished its handshake counts as dead. *)
ProbeDuringHandshake ==
  /\ pc = "probe"
  /\ pc' = IF Visible(seen) /\ run[seen].pc # "boot" THEN "idle" ELSE "dead"
  /\ UNCHANGED <<record, task, files, seen, sawCancel, sigkill, run, beat, used>>

(* Liveness of an adopted or confirmed process by pid and start identity. *)
Probe ==
  /\ pc = "probe"
  /\ pc' = IF Visible(seen) THEN "idle" ELSE "dead"
  /\ UNCHANGED <<record, task, files, seen, sawCancel, sigkill, run, beat, used>>

-----------------------------------------------------------------------------
(* #superviseRunning: exit.json first, then the cancel branch, then liveness. *)
BeginRunning ==
  /\ pc = "idle" /\ status = "running"
  /\ seen' = process
  /\ sawCancel' = cancelRequested
  /\ pc' = IF exitFile # "none" THEN "harvest" ELSE IF cancelRequested THEN "fence" ELSE "alive"
  /\ UNCHANGED <<record, task, files, sigkill, run, beat, used>>

ReadAlive ==
  /\ pc = "alive"
  /\ pc' = IF Visible(process) THEN "beat" ELSE "dead"
  /\ UNCHANGED <<record, task, files, seen, sawCancel, sigkill, run, beat, used>>

(* Mutant: a stale heartbeat re-arms the deadline at every pass. *)
CheckHeartbeatRearms ==
  /\ pc = "beat"
  /\ run' = IF stale THEN SigTerm(process) ELSE run
  /\ sigkill' = IF stale THEN "armed" ELSE sigkill
  /\ pc' = "kill" /\ beatNew' = FALSE /\ beatBehind' = IF beatNew THEN FALSE ELSE beatBehind
  /\ UNCHANGED <<record, task, files, seen, sawCancel, stale, used>>

(***************************************************************************)
(* Heartbeat freshness.  A stale heartbeat sends SIGTERM and arms the      *)
(* SIGKILL deadline.  A heartbeat newer than the recorded one is written   *)
(* to the record with updatedAt = the heartbeat's time; saveDurableJob     *)
(* refuses an updatedAt that moves backwards, and the throw ends the pass  *)
(* of this job before its SIGKILL step.                                    *)
(***************************************************************************)
CheckHeartbeat ==
  /\ pc = "beat"
  /\ run' = IF stale THEN SigTerm(process) ELSE run
  /\ sigkill' = IF stale /\ sigkill = "off" THEN "armed" ELSE sigkill
  /\ IF beatNew /\ beatBehind
     THEN pc' = "idle" /\ UNCHANGED <<beatNew, beatBehind>>
     ELSE /\ pc' = "kill"
          /\ beatNew' = FALSE
          /\ beatBehind' = IF beatNew THEN FALSE ELSE beatBehind
  /\ UNCHANGED <<record, task, files, seen, sawCancel, stale, used>>

(* Mutant: the deadline is forgotten without the signal being sent. *)
EscalateDropsSignal ==
  /\ pc = "kill"
  /\ sigkill' = IF sigkill = "due" THEN "off" ELSE sigkill
  /\ pc' = "idle"
  /\ UNCHANGED <<record, task, files, seen, sawCancel, run, beat, used>>

(* SIGKILL escalation once the grace deadline has passed. *)
Escalate ==
  /\ pc = "kill"
  /\ run' = IF sigkill = "due" THEN SigKill(process) ELSE run
  /\ sigkill' = IF sigkill = "due" THEN "off" ELSE sigkill
  /\ pc' = "idle"
  /\ UNCHANGED <<record, task, files, seen, sawCancel, beat, used>>

(* #harvestExit: the runner's own outcome. *)
HarvestExit ==
  /\ pc = "harvest"
  /\ Finish(exitFile, "exit-artifact")
  /\ UNCHANGED <<task, files, run, beat, used>>

(* #handleDeadProcess: the checkpoint, or unknown. *)
HandleDeadProcess ==
  /\ pc = "dead"
  /\ IF ProveOutcome(checkpoint) # "none"
     THEN Finish(ProveOutcome(checkpoint), "checkpoint")
     ELSE Finish("unknown-needs-attention", "no-exit")
  /\ UNCHANGED <<task, files, run, beat, used>>

(* confirmResult of a queued job: collect only, from existing evidence. *)
ConfirmQueued ==
  /\ pc = "idle" /\ status = "queued" /\ SpawnedFromEvidence # None
  /\ seen' = SpawnedFromEvidence /\ sawCancel' = FALSE
  /\ pc' = "decide"
  /\ UNCHANGED <<record, task, files, sigkill, run, beat, used>>

(* confirmResult of a running job. *)
ConfirmRunning ==
  /\ pc = "idle" /\ status = "running"
  /\ seen' = process /\ sawCancel' = FALSE
  /\ pc' = IF exitFile # "none" THEN "harvest" ELSE "probe"
  /\ UNCHANGED <<record, task, files, sigkill, run, beat, used>>

(* The steps of a pass after its first. *)
PassStep ==
  \/ WriteFence \/ SignalCancel \/ Adopt \/ AcceptanceUnknown \/ CancelQueued
  \/ StartJob \/ Attempt \/ RejectStart \/ MarkPending \/ (\E r \in Runner : Spawn(r))
  \/ MarkReal \/ AdoptedReadExit \/ Probe \/ ReadAlive \/ CheckHeartbeat \/ Escalate
  \/ HarvestExit \/ HandleDeadProcess

(* SIGKILL_GRACE_MS has passed since the deadline was armed. *)
GraceExpires ==
  /\ sigkill = "armed"
  /\ sigkill' = "due"
  /\ UNCHANGED <<record, task, files, pc, seen, sawCancel, run, beat, used>>

(* The Controller dies: its memory is lost, its zombies are reaped by init. *)
Crash ==
  /\ pc # "down" /\ Spend("crash", MaxCrashes)
  /\ pc' = "down" /\ seen' = None /\ sawCancel' = FALSE /\ sigkill' = "off"
  /\ run' = [r \in Runner |->
               [run[r] EXCEPT !.own = FALSE, !.pc = IF @ = "zombie" THEN "gone" ELSE @]]
  /\ UNCHANGED <<record, task, files, beat>>

Restart ==
  /\ pc = "down"
  /\ pc' = "idle"
  /\ UNCHANGED <<record, task, files, seen, sawCancel, sigkill, run, beat, used>>

(* libuv reaps a finished child when the Controller's event loop turns. *)
Reap(r) ==
  /\ pc = "idle" /\ run[r].pc = "zombie"
  /\ run' = [run EXCEPT ![r].pc = "gone"]
  /\ UNCHANGED <<record, task, files, control, beat, used>>

-----------------------------------------------------------------------------
(* cancelJob: an RPC, so never in the middle of a pass. *)
RequestCancel ==
  /\ pc = "idle" /\ Active /\ ~cancelRequested /\ Spend("cancel", MaxCancels)
  /\ cancelRequested' = TRUE
  /\ beatBehind' = TRUE
  /\ UNCHANGED <<status, effect, process, source, acknowledged, wakes, task, files, control,
                 run, stale, beatNew>>

(* `task execution stop`, a CLI process: the gate and every active job's cancel. *)
StopTask ==
  /\ Spend("stop", MaxStops)
  /\ gate' = "stopped"
  /\ cancelRequested' = (cancelRequested \/ Active)
  /\ beatBehind' = (beatBehind \/ Active)
  /\ UNCHANGED <<status, effect, process, source, acknowledged, wakes, auth, files, control,
                 run, stale, beatNew>>

(* Mutant: execution is re-enabled while a job is still queued or running. *)
StartTaskUnguarded ==
  /\ gate = "stopped"
  /\ gate' = "enabled"
  /\ UNCHANGED <<record, auth, files, control, run, beat, used>>

(* `task execution start`: refused while a job is queued or running. *)
StartTask ==
  /\ gate = "stopped" /\ ~Active
  /\ gate' = "enabled"
  /\ UNCHANGED <<record, auth, files, control, run, beat, used>>

(* The caller's Session is replaced, or its assignment ends; a scope may come back. *)
ChangeAuthority ==
  /\ status = "queued"
  /\ \/ auth = "granted" /\ auth' \in AuthFaults
     \/ auth = "out-of-scope" /\ auth' = "granted"
  /\ UNCHANGED <<record, gate, files, control, run, beat, used>>

(* acknowledgeJob *)
Acknowledge ==
  /\ pc = "idle" /\ status = "unknown-needs-attention" /\ ~acknowledged
  /\ acknowledged' = TRUE
  /\ UNCHANGED <<status, effect, cancelRequested, process, source, wakes, task, files, control,
                 run, beat, used>>

-----------------------------------------------------------------------------
Beats == stale' = FALSE /\ beatNew' = TRUE /\ beatBehind' = FALSE

(* Start-up: touch the heartbeat, create ready.json exclusively or leave. *)
RunnerBoot(r) ==
  /\ run[r].pc = "boot" /\ ~run[r].hung
  /\ Beats
  /\ IF ready = "none"
     THEN ready' = "empty" /\ run' = [run EXCEPT ![r].pc = "created"]
     ELSE run' = [run EXCEPT ![r] = Ended(@)] /\ UNCHANGED ready
  /\ UNCHANGED <<record, task, marker, fence, checkpoint, exitFile, control, used>>

(* ... fill it with this process's identity and install the signal handlers. *)
RunnerReady(r) ==
  /\ run[r].pc = "created" /\ ~run[r].hung
  /\ ready' = r
  /\ run' = [run EXCEPT ![r].pc = "loop"]
  /\ UNCHANGED <<record, task, marker, fence, checkpoint, exitFile, control, beat, used>>

(* The outcome the loop ends with, "none" while it goes on. *)
Verdict(r) ==
  IF run[r].verdict # "none" THEN run[r].verdict
  ELSE IF Len(run[r].done) = NSteps THEN "succeeded"
  ELSE IF fence THEN "cancelled" ELSE "none"

(* Top of the step loop: spawn the next step. *)
RunnerNextStep(r) ==
  /\ run[r].pc = "loop" /\ ~run[r].hung /\ Verdict(r) = "none"
  /\ Beats
  /\ run' = [run EXCEPT ![r].pc = "step"]
  /\ UNCHANGED <<record, task, files, control, used>>

(* onSignal runs while a step is awaited. *)
RunnerHandleTerm(r) ==
  /\ run[r].pc = "step" /\ ~run[r].hung /\ run[r].term = "pending"
  /\ run' = [run EXCEPT ![r].term = "handled"]
  /\ UNCHANGED <<record, task, files, control, beat, used>>

(* The step closes with result res: checkpoint, then the break conditions. *)
RunnerStepEnds(r, res) ==
  /\ run[r].pc = "step" /\ ~run[r].hung
  /\ LET done == Append(run[r].done, res)
         verdict == IF run[r].term = "handled" THEN "cancelled"
                    ELSE IF res = "ok" THEN "none" ELSE res
     IN  /\ checkpoint' = done
         /\ run' = [run EXCEPT ![r].pc = "loop", ![r].done = done, ![r].verdict = verdict]
  /\ UNCHANGED <<record, task, marker, ready, fence, exitFile, control, beat, used>>

(* exit.json is published atomically, then the handlers are removed. *)
RunnerWriteExit(r) ==
  /\ run[r].pc = "loop" /\ ~run[r].hung /\ Verdict(r) # "none"
  /\ exitFile' = Verdict(r)
  /\ run' = [run EXCEPT ![r].pc = "exiting"]
  /\ UNCHANGED <<record, task, marker, ready, fence, checkpoint, control, beat, used>>

RunnerExit(r) ==
  /\ run[r].pc = "exiting" /\ ~run[r].hung
  /\ run' = [run EXCEPT ![r] = Ended(@)]
  /\ UNCHANGED <<record, task, files, control, beat, used>>

(* An uncaught error or a kill from outside: no exit.json is written. *)
RunnerDies(r) ==
  /\ Running(r)
  /\ run' = [run EXCEPT ![r] = Ended(@)]
  /\ UNCHANGED <<record, task, files, control, beat, used>>

(* The heartbeat interval fires while a step is awaited. *)
RunnerBeats(r) ==
  /\ run[r].pc = "step" /\ ~run[r].hung
  /\ Beats
  /\ UNCHANGED <<record, task, files, control, run, used>>

(* The process stops making progress (suspended, or blocked) and may resume. *)
RunnerHangs(r) ==
  /\ run[r].pc \in {"loop", "step"} /\ ~run[r].hung /\ Spend("hang", MaxHangs)
  /\ run' = [run EXCEPT ![r].hung = TRUE]
  /\ UNCHANGED <<record, task, files, control, beat>>

RunnerResumes(r) ==
  /\ run[r].hung
  /\ run' = [run EXCEPT ![r].hung = FALSE]
  /\ UNCHANGED <<record, task, files, control, beat, used>>

(* HEARTBEAT_STALE_MS pass without a heartbeat. *)
HeartbeatAges(r) ==
  /\ run[r].hung /\ ~stale
  /\ stale' = TRUE
  /\ UNCHANGED <<record, task, files, control, run, beatNew, beatBehind, used>>

RunnerStep(r) ==
  \/ RunnerBoot(r) \/ RunnerReady(r) \/ RunnerNextStep(r)
  \/ (\E res \in StepResult : RunnerStepEnds(r, res))
  \/ RunnerWriteExit(r) \/ RunnerExit(r)

Environment ==
  \/ Crash \/ RequestCancel \/ StopTask \/ StartTask \/ ChangeAuthority \/ Acknowledge
  \/ \E r \in Runner : RunnerDies(r) \/ RunnerBeats(r) \/ RunnerHangs(r) \/ RunnerResumes(r)

Next ==
  \/ BeginQueued \/ BeginRunning \/ ConfirmQueued \/ ConfirmRunning
  \/ PassStep \/ GraceExpires \/ Restart
  \/ \E r \in Runner : RunnerStep(r) \/ RunnerHandleTerm(r) \/ HeartbeatAges(r) \/ Reap(r)
  \/ Environment

Spec == Init /\ [][Next]_vars

(***************************************************************************)
(* Fairness.  A synchronous pass runs to its end (WF); the periodic pass   *)
(* gets its turn however many RPCs are served in between (SF); a crashed   *)
(* Controller is restarted; the operating system runs, reaps and times     *)
(* out processes; every step of a job has a timeout with a SIGKILL, so it  *)
(* closes.  Nothing is assumed of hung runners, crashes or callers.        *)
(***************************************************************************)
Fairness ==
  /\ WF_vars(PassStep) /\ WF_vars(Restart) /\ WF_vars(GraceExpires)
  /\ SF_vars(BeginQueued) /\ SF_vars(BeginRunning)
  /\ \A r \in Runner : /\ WF_vars(RunnerStep(r)) /\ WF_vars(RunnerHandleTerm(r))
                       /\ WF_vars(HeartbeatAges(r)) /\ SF_vars(Reap(r))

FairSpec == Spec /\ Fairness

-----------------------------------------------------------------------------
(* Every variable keeps the shape the record, the files and the processes have. *)
TypeOK ==
  /\ status \in Status /\ effect \in {"none", "possible", "confirmed"}
  /\ cancelRequested \in BOOLEAN /\ process \in Runner \cup {None}
  /\ source \in Source /\ acknowledged \in BOOLEAN /\ wakes \in Nat
  /\ gate \in {"enabled", "stopped"} /\ auth \in {"granted"} \cup AuthFaults
  /\ marker \in {"none", "pending"} \cup Runner /\ ready \in {"none", "empty"} \cup Runner
  /\ fence \in BOOLEAN /\ checkpoint \in Seq(StepResult) /\ exitFile \in {"none"} \cup Outcome
  /\ pc \in PC /\ seen \in Runner \cup {None} /\ sawCancel \in BOOLEAN
  /\ sigkill \in {"off", "armed", "due"}
  /\ run \in [Runner -> [pc : RunnerPC, done : Seq(StepResult),
                         term : {"none", "pending", "handled"},
                         verdict : {"none"} \cup Outcome, hung : BOOLEAN, own : BOOLEAN]]
  /\ stale \in BOOLEAN /\ beatNew \in BOOLEAN /\ beatBehind \in BOOLEAN
  /\ used \in [Bound -> Nat]

(* The durable intent comes first: while the record says no effect was attempted,
   no runner, handshake, marker or exit file exists, whatever crashed in between. *)
IntentPrecedesEffect ==
  effect = "none" =>
    /\ \A r \in Runner : run[r].pc = "none"
    /\ marker = "none" /\ ready = "none" /\ exitFile = "none" /\ checkpoint = <<>>

(* A job never has a second runner: restart, retry of the pass and explicit
   confirmation all adopt or give up, they never spawn again. *)
OneRunner ==
  \A r, s \in Runner : run[r].pc # "none" /\ run[s].pc # "none" => r = s

(* Succeeded is never guessed: a runner really executed every step successfully. *)
SuccessIsTruthful ==
  status = "succeeded" =>
    \E r \in Runner : Len(run[r].done) = NSteps /\ \A i \in 1..NSteps : run[r].done[i] = "ok"

(* The Leader is woken exactly once per job, at its terminal transition. *)
OneWakePerOutcome == wakes = IF Active THEN 0 ELSE 1

(* A job settled as "its process is dead" has no process left that still works. *)
DeadMeansGone ==
  source \in {"checkpoint", "no-exit"} => \A r \in Runner : ~Running(r)

(* Once a job is terminal its outcome, evidence and wakeup never change again. *)
TerminalIsFinal ==
  [][~Active => status' = status /\ source' = source /\ wakes' = wakes]_vars

(* No start is attempted once cancellation has been requested, although the pass
   decided on a snapshot and a CLI process may stop and start the Task meanwhile. *)
NoStartAfterCancel ==
  [][effect = "none" /\ effect' = "possible" => ~cancelRequested]_vars

(* A queued or running job reaches a terminal status, across crashes, a stopped Task and a
   hung runner; excepted is the runner that hangs in a cancelled job. *)
JobsTerminate ==
  Active ~> (~Active \/ (cancelRequested /\ \E r \in Runner : run[r].hung))

(* ... which is escalated from SIGTERM to SIGKILL as long as the job is not cancelled: a
   stale heartbeat ends the runner or the runner resumes. *)
UncancelledRunnerEscalates ==
  \A r \in Runner :
    (status = "running" /\ process = r /\ run[r].hung /\ stale)
      ~> (~run[r].hung \/ cancelRequested)

(* A running job whose runner hangs with a stale heartbeat is escalated from
   SIGTERM to SIGKILL: it does not stay hung for ever. *)
StaleRunnerEscalates ==
  \A r \in Runner :
    (status = "running" /\ process = r /\ run[r].hung /\ stale) ~> ~run[r].hung

(* The evidence ladder puts exit.json first: the job is reported to have ended
   "without writing exit.json" only if there is no exit.json. *)
ExitFileIsHonoured == source = "no-exit" => exitFile = "none"

=============================================================================
