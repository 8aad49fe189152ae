-------------------------- MODULE DurableJobProofs --------------------------
(***************************************************************************)
(* Proofs about DurableJob for any set of possible runners, any number of  *)
(* steps and any number of crashes, cancels, stops and hangs.              *)
(***************************************************************************)
EXTENDS DurableJob, WellFoundedInduction, TLAPS

RunnerRecord ==
  [pc : RunnerPC, done : Seq(StepResult), term : {"none", "pending", "handled"},
   verdict : {"none"} \cup Outcome, hung : BOOLEAN, own : BOOLEAN]

(* Where a pass may be, given the record it works on. *)
PassFlow ==
  /\ pc \notin {"down", "idle"} => Active
  /\ pc = "fence" => sawCancel
  /\ pc = "attempt" => seen = None /\ ~sawCancel
  /\ pc \in {"mark-pending", "spawn"} => effect # "none" /\ \A r \in Runner : run[r].pc = "none"
  /\ pc \in {"term", "mark-real", "adopted", "probe"} => seen # None
  /\ pc \in {"alive", "beat", "kill"} => status = "running"
  /\ pc = "harvest" => exitFile # "none"
  /\ pc = "dead" => (\A r \in Runner : ~Running(r)) /\ \E r \in Runner : run[r].pc # "none"
  /\ status = "running" => process # None
  /\ source # "none" => ~Active

(* Every name of a process, in memory, in the record or in a file, is of one that was spawned. *)
NamesAreSpawned ==
  /\ seen # None => run[seen].pc # "none"
  /\ process # None => run[process].pc # "none"
  /\ marker \in Runner => run[marker].pc # "none"
  /\ ready \in Runner => run[ready].pc # "none"

(* A pass that did not see a cancel request may only miss one that closed the gate. *)
CancelIsSeenOrGated ==
  pc \in {"decide", "attempt"} /\ seen = None /\ Active /\ cancelRequested =>
    sawCancel \/ gate = "stopped"

Main ==
  /\ IntentPrecedesEffect /\ OneRunner /\ OneWakePerOutcome /\ DeadMeansGone
  /\ PassFlow /\ NamesAreSpawned /\ CancelIsSeenOrGated

(* Runner r finished every planned step with success and left its loop. *)
Finished(r) ==
  /\ run[r].pc \in {"exiting", "zombie", "gone"}
  /\ Len(run[r].done) = NSteps /\ \A i \in 1..NSteps : run[r].done[i] = "ok"

(* What the runner's loop, its checkpoint and exit.json say about each other. *)
LoopFacts ==
  /\ \A r \in Runner : run[r].pc = "none" => run[r].done = <<>> /\ run[r].verdict = "none"
  /\ \A r \in Runner : run[r].pc # "none" => run[r].done = checkpoint
  /\ (\A r \in Runner : run[r].pc = "none") => checkpoint = <<>>
  /\ \A r \in Runner : run[r].pc = "step" => run[r].verdict = "none"
  /\ \A r \in Runner : run[r].verdict # "succeeded"
  /\ \A r \in Runner : run[r].verdict = "none" =>
       \A i \in 1..Len(run[r].done) : run[r].done[i] = "ok"
  /\ exitFile = "succeeded" => \E r \in Runner : Finished(r)
  /\ status = "succeeded" => \E r \in Runner : Finished(r)

(* The inductive invariant. *)
Inv == TypeOK /\ Main /\ LoopFacts

-----------------------------------------------------------------------------
(* A nonempty set of naturals has a least element. *)
LEMMA LeastElement ==
  ASSUME NEW T, T \subseteq Nat, T # {}
  PROVE  \E x \in T : \A y \in T : ~(y < x)
<1> DEFINE R == OpToRel(<, Nat)
<1>1. IsWellFoundedOn(R, Nat)
  BY Zenon, NatLessThanWellFounded
<1>2. \A x, y \in Nat : y < x => <<y, x>> \in R
  BY DEF OpToRel
<1> HIDE DEF R
<1>3. \E x \in T : \A y \in T : ~(<<y, x>> \in R)
  BY Zenon, <1>1, WFMin
<1> QED BY Zenon, <1>2, <1>3

(* What a checkpoint proves is an outcome, or nothing; success only if it is complete. *)
LEMMA CheckpointProves ==
  ASSUME NEW cp \in Seq(StepResult)
  PROVE  /\ ProveOutcome(cp) \in {"none", "succeeded", "failed", "timed-out"}
         /\ ProveOutcome(cp) = "succeeded" =>
              Len(cp) = NSteps /\ \A i \in 1..NSteps : cp[i] = "ok"
<1>1. CASE Len(cp) # NSteps \/ \A i \in 1..Len(cp) : cp[i] = "ok"
  BY <1>1 DEF ProveOutcome
<1>2. CASE Len(cp) = NSteps /\ ~ \A i \in 1..Len(cp) : cp[i] = "ok"
  <2> DEFINE Bad   == {i \in 1..Len(cp) : cp[i] # "ok"}
             first == CHOOSE i \in 1..Len(cp) :
                        cp[i] # "ok" /\ \A j \in 1..(i - 1) : cp[j] = "ok"
  <2>1. PICK i \in Bad : \A j \in Bad : ~(j < i)
    <3>1. Bad \subseteq Nat /\ Bad # {}
      BY <1>2
    <3> QED BY Zenon, <3>1, LeastElement
  <2>2. i \in 1..Len(cp) /\ cp[i] # "ok" /\ \A j \in 1..(i - 1) : cp[j] = "ok"
    BY <2>1
  <2>3. first \in 1..Len(cp) /\ cp[first] # "ok"
    BY <2>2
  <2>4. ProveOutcome(cp) = cp[first]
    BY <1>2 DEF ProveOutcome
  <2> HIDE DEF first
  <2>5. cp[first] \in StepResult
    BY <2>3
  <2> QED BY <2>3, <2>4, <2>5 DEF StepResult
<1> QED BY <1>1, <1>2

(* The initial states satisfy the inductive invariant. *)
LEMMA InitInv == Init => Inv
<1> SUFFICES ASSUME Init PROVE Inv
  OBVIOUS
<1>1. run \in [Runner -> RunnerRecord]
  BY DEF Init, RunnerRecord, RunnerPC
<1>2. used \in [Bound -> Nat]
  BY DEF Init
<1>3. TypeOK
  <2>1. <<>> \in Seq(StepResult)
    OBVIOUS
  <2>2. /\ status \in Status /\ source \in Source /\ pc \in PC
        /\ effect \in {"none", "possible", "confirmed"} /\ sigkill \in {"off", "armed", "due"}
        /\ checkpoint \in Seq(StepResult) /\ wakes \in Nat
    BY <2>1 DEF Init, Status, Source, PC
  <2> QED BY Zenon, <1>1, <1>2, <2>2 DEF Init, TypeOK, RunnerRecord
<1>4. IntentPrecedesEffect /\ OneRunner /\ OneWakePerOutcome /\ DeadMeansGone
  BY DEF Init, IntentPrecedesEffect, OneRunner, OneWakePerOutcome, DeadMeansGone, Active, Terminal
<1>5. PassFlow /\ NamesAreSpawned /\ CancelIsSeenOrGated
  BY RunnersAreNotMarks DEF Init, PassFlow, NamesAreSpawned, CancelIsSeenOrGated, Active
<1>6. LoopFacts
  BY DEF Init, LoopFacts
<1> QED BY <1>3, <1>4, <1>5, <1>6 DEF Inv, Main

-----------------------------------------------------------------------------
(* A process that ends keeps a well-formed record, and so does one that only
   changes its place, hangs or resumes. *)
LEMMA RecordType ==
  ASSUME run \in [Runner -> RunnerRecord], NEW r \in Runner
  PROVE  /\ \A p \in RunnerPC : [run EXCEPT ![r].pc = p] \in [Runner -> RunnerRecord]
         /\ \A b \in BOOLEAN : [run EXCEPT ![r].hung = b] \in [Runner -> RunnerRecord]
         /\ \A t \in {"none", "pending", "handled"} :
              [run EXCEPT ![r].term = t] \in [Runner -> RunnerRecord]
         /\ [run EXCEPT ![r] = Ended(@)] \in [Runner -> RunnerRecord]
<1>1. run[r] \in RunnerRecord
  OBVIOUS
<1>2. \A x \in RunnerRecord : [run EXCEPT ![r] = x] \in [Runner -> RunnerRecord]
  OBVIOUS
<1>3. \A x \in RunnerRecord, p \in RunnerPC : [x EXCEPT !.pc = p] \in RunnerRecord
  BY Zenon DEF RunnerRecord
<1>4. \A x \in RunnerRecord, b \in BOOLEAN : [x EXCEPT !.hung = b] \in RunnerRecord
  BY Zenon DEF RunnerRecord
<1>5. Ended(run[r]) \in RunnerRecord
  <2> DEFINE p == IF run[r].own THEN "zombie" ELSE "gone"
             x == [run[r] EXCEPT !.pc = p]
  <2>1. p \in RunnerPC
    BY DEF RunnerPC
  <2>2. x \in RunnerRecord
    BY <1>1, <1>3, <2>1
  <2>3. Ended(run[r]) = [x EXCEPT !.hung = FALSE]
    BY <1>1, Zenon DEF Ended, RunnerRecord
  <2> HIDE DEF x
  <2> QED BY Zenon, <1>4, <2>2, <2>3
<1>6. \A p \in RunnerPC : [run EXCEPT ![r].pc = p] \in [Runner -> RunnerRecord]
  BY <1>1, <1>2, <1>3
<1>7. \A b \in BOOLEAN : [run EXCEPT ![r].hung = b] \in [Runner -> RunnerRecord]
  BY <1>1, <1>2, <1>4
<1>8. \A x \in RunnerRecord, t \in {"none", "pending", "handled"} :
        [x EXCEPT !.term = t] \in RunnerRecord
  BY Zenon DEF RunnerRecord
<1>9. \A t \in {"none", "pending", "handled"} :
        [run EXCEPT ![r].term = t] \in [Runner -> RunnerRecord]
  BY Zenon, <1>1, <1>2, <1>8
<1> QED BY <1>2, <1>5, <1>6, <1>7, <1>9

(* Signals leave the records well formed. *)
LEMMA SignalType ==
  ASSUME run \in [Runner -> RunnerRecord], NEW r
  PROVE  SigTerm(r) \in [Runner -> RunnerRecord] /\ SigKill(r) \in [Runner -> RunnerRecord]
<1>1. CASE Visible(r)
  <2>1. r \in Runner
    BY <1>1 DEF Visible
  <2>2. [run EXCEPT ![r] = Ended(@)] \in [Runner -> RunnerRecord]
    BY Zenon, <2>1, RecordType
  <2>3. [run EXCEPT ![r].term = "pending"] \in [Runner -> RunnerRecord]
    BY Zenon, <2>1, RecordType
  <2> QED BY <2>2, <2>3 DEF SigTerm, SigKill
<1>2. CASE ~Visible(r)
  BY <1>2 DEF SigTerm, SigKill
<1> QED BY <1>1, <1>2

(* Every step leaves each runner with a well-formed process record. *)
LEMMA RunType ==
  ASSUME TypeOK, Next
  PROVE  run' \in [Runner -> RunnerRecord]
<1>1. run \in [Runner -> RunnerRecord]
  BY DEF TypeOK, RunnerRecord
<1>2. CASE SignalCancel \/ CheckHeartbeat \/ Escalate
  BY Zenon, <1>1, <1>2, SignalType DEF SignalCancel, CheckHeartbeat, Escalate
<1>3. CASE \E r \in Runner : Spawn(r)
  <2> DEFINE Child(x) == [x EXCEPT !.pc = "boot", !.own = TRUE]
  <2>1. ASSUME NEW x \in RunnerRecord PROVE Child(x) \in RunnerRecord
    <3>1. "boot" \in RunnerPC
      BY DEF RunnerPC
    <3> QED BY <3>1, Zenon DEF RunnerRecord
  <2>2. PICK r \in Runner : run' = [run EXCEPT ![r] = Child(run[r])]
    BY Zenon, <1>3 DEF Spawn
  <2> HIDE DEF Child
  <2> QED BY <1>1, <2>1, <2>2
<1>4. CASE \E r \in Runner : RunnerReady(r)
  <2>1. PICK r \in Runner : run' = [run EXCEPT ![r].pc = "loop"]
    BY Zenon, <1>4 DEF RunnerReady
  <2>2. "loop" \in RunnerPC
    BY DEF RunnerPC
  <2> QED BY Zenon, <1>1, <2>1, <2>2, RecordType
<1>5. CASE \E r \in Runner : RunnerNextStep(r)
  <2>1. PICK r \in Runner : run' = [run EXCEPT ![r].pc = "step"]
    BY Zenon, <1>5 DEF RunnerNextStep
  <2>2. "step" \in RunnerPC
    BY DEF RunnerPC
  <2> QED BY Zenon, <1>1, <2>1, <2>2, RecordType
<1>6. CASE \E r \in Runner : RunnerWriteExit(r)
  <2>1. PICK r \in Runner : run' = [run EXCEPT ![r].pc = "exiting"]
    BY Zenon, <1>6 DEF RunnerWriteExit
  <2>2. "exiting" \in RunnerPC
    BY DEF RunnerPC
  <2> QED BY Zenon, <1>1, <2>1, <2>2, RecordType
<1>7. CASE \E r \in Runner : Reap(r)
  <2>1. PICK r \in Runner : run' = [run EXCEPT ![r].pc = "gone"]
    BY Zenon, <1>7 DEF Reap
  <2>2. "gone" \in RunnerPC
    BY DEF RunnerPC
  <2> QED BY Zenon, <1>1, <2>1, <2>2, RecordType
<1>8. CASE \E r \in Runner : RunnerBoot(r)
  <2>1. PICK r \in Runner : \/ run' = [run EXCEPT ![r].pc = "created"]
                            \/ run' = [run EXCEPT ![r] = Ended(@)]
    BY <1>8 DEF RunnerBoot
  <2>2. "created" \in RunnerPC
    BY DEF RunnerPC
  <2>3. /\ [run EXCEPT ![r].pc = "created"] \in [Runner -> RunnerRecord]
        /\ [run EXCEPT ![r] = Ended(@)] \in [Runner -> RunnerRecord]
    BY Zenon, <1>1, <2>2, RecordType
  <2> QED BY <2>1, <2>3
<1>9. CASE \E r \in Runner : RunnerExit(r) \/ RunnerDies(r)
  BY Zenon, <1>1, <1>9, RecordType DEF RunnerExit, RunnerDies
<1>10. CASE \E r \in Runner : RunnerHangs(r) \/ RunnerResumes(r)
  <2>1. PICK r \in Runner, b \in BOOLEAN : run' = [run EXCEPT ![r].hung = b]
    BY <1>10, Zenon DEF RunnerHangs, RunnerResumes
  <2>2. [run EXCEPT ![r].hung = b] \in [Runner -> RunnerRecord]
    BY Zenon, <1>1, RecordType
  <2> QED BY <2>1, <2>2
<1>11. CASE \E r \in Runner : RunnerHandleTerm(r)
  BY Zenon, <1>1, <1>11, RecordType DEF RunnerHandleTerm
<1>12. CASE \E r \in Runner, res \in StepResult : RunnerStepEnds(r, res)
  <2>1. PICK r \in Runner, res \in StepResult : RunnerStepEnds(r, res)
    BY <1>12
  <2> DEFINE done    == Append(run[r].done, res)
             verdict == IF run[r].term = "handled" THEN "cancelled"
                        ELSE IF res = "ok" THEN "none" ELSE res
             x       == [run[r] EXCEPT !.pc = "loop", !.done = done, !.verdict = verdict]
  <2>2. run[r] \in RunnerRecord
    BY <1>1
  <2>3. done \in Seq(StepResult)
    BY <2>2 DEF RunnerRecord
  <2>4. verdict \in {"none"} \cup Outcome /\ "loop" \in RunnerPC
    BY DEF StepResult, Outcome, RunnerPC
  <2>5. run' = [run EXCEPT ![r] = x]
    BY Zenon, <2>1 DEF RunnerStepEnds
  <2> HIDE DEF done, verdict
  <2>6. x \in RunnerRecord
    BY <2>2, <2>3, <2>4, Zenon DEF RunnerRecord
  <2> HIDE DEF x
  <2> QED BY <1>1, <2>5, <2>6
<1>13. CASE Crash
  <2> DEFINE Left(x) == [x EXCEPT !.own = FALSE, !.pc = IF @ = "zombie" THEN "gone" ELSE @]
  <2>1. ASSUME NEW x \in RunnerRecord PROVE Left(x) \in RunnerRecord
    <3>1. x.pc \in RunnerPC /\ "gone" \in RunnerPC
      BY DEF RunnerRecord, RunnerPC
    <3>2. (IF x.pc = "zombie" THEN "gone" ELSE x.pc) \in RunnerPC
      BY <3>1
    <3> QED BY <3>2, Zenon DEF RunnerRecord
  <2>2. run' = [r \in Runner |-> Left(run[r])]
    BY Zenon, <1>13 DEF Crash
  <2> HIDE DEF Left
  <2> QED BY <1>1, <2>1, <2>2
<1>14. CASE run' = run
  BY <1>1, <1>14
<1> QED
  BY Zenon, <1>2, <1>3, <1>4, <1>5, <1>6, <1>7, <1>8, <1>9, <1>10, <1>11, <1>12, <1>13, <1>14
     DEF Next, PassStep, RunnerStep, Environment, AcceptanceUnknown, Acknowledge, Adopt,
         AdoptedReadExit, Attempt, BeginQueued, BeginRunning, CancelQueued, ChangeAuthority,
         ConfirmQueued, ConfirmRunning, Finish, GraceExpires, HandleDeadProcess, HarvestExit,
         HeartbeatAges, MarkPending, MarkReal, Probe, ReadAlive, RejectStart, RequestCancel,
         Restart, RunnerBeats, StartJob, StartTask, StopTask, WriteFence

(* The type invariant without the process records: Boolean variables, and the others. *)
Flags ==
  /\ cancelRequested \in BOOLEAN /\ acknowledged \in BOOLEAN /\ fence \in BOOLEAN
  /\ sawCancel \in BOOLEAN
  /\ stale \in BOOLEAN /\ beatNew \in BOOLEAN /\ beatBehind \in BOOLEAN

Data ==
  /\ status \in Status /\ effect \in {"none", "possible", "confirmed"}
  /\ process \in Runner \cup {None} /\ source \in Source /\ wakes \in Nat
  /\ gate \in {"enabled", "stopped"} /\ auth \in {"granted"} \cup AuthFaults
  /\ marker \in {"none", "pending"} \cup Runner /\ ready \in {"none", "empty"} \cup Runner
  /\ checkpoint \in Seq(StepResult) /\ exitFile \in {"none"} \cup Outcome
  /\ pc \in PC /\ seen \in Runner \cup {None} /\ sigkill \in {"off", "armed", "due"}
  /\ used \in [Bound -> Nat]

(* The type invariant splits into its Booleans, the rest of the data and the process table. *)
LEMMA TypeParts == TypeOK <=> Flags /\ Data /\ run \in [Runner -> RunnerRecord]
  BY DEF TypeOK, Flags, Data, RunnerRecord

(* A spent environment bound stays a natural number. *)
LEMMA SpendType ==
  ASSUME used \in [Bound -> Nat], NEW b \in Bound, NEW limit, Spend(b, limit)
  PROVE  used' \in [Bound -> Nat]
  BY DEF Spend

(* Every step leaves the Boolean variables Boolean. *)
LEMMA FlagsStep ==
  ASSUME Flags, Next
  PROVE  Flags'
<1> USE DEF Flags, record, task, files, control, beat
<1>1. CASE BeginQueued
  BY <1>1, Zenon DEF BeginQueued
<1>2. CASE BeginRunning
  BY <1>2, Zenon DEF BeginRunning
<1>3. CASE ConfirmQueued
  BY <1>3, Zenon DEF ConfirmQueued
<1>4. CASE ConfirmRunning
  BY <1>4, Zenon DEF ConfirmRunning
<1>5. CASE WriteFence
  BY <1>5, Zenon DEF WriteFence
<1>6. CASE SignalCancel
  BY <1>6, Zenon DEF SignalCancel
<1>7. CASE Adopt
  BY <1>7, Zenon DEF Adopt
<1>8. CASE AcceptanceUnknown
  BY <1>8, Zenon DEF AcceptanceUnknown, Finish
<1>9. CASE CancelQueued
  BY <1>9, Zenon DEF CancelQueued, Finish
<1>10. CASE StartJob
  BY <1>10, Zenon DEF StartJob
<1>11. CASE Attempt
  BY <1>11, Zenon DEF Attempt
<1>12. CASE RejectStart
  BY <1>12, Zenon DEF RejectStart, Finish
<1>13. CASE MarkPending
  BY <1>13, Zenon DEF MarkPending
<1>14. CASE \E r \in Runner : Spawn(r)
  BY <1>14, Zenon DEF Spawn
<1>15. CASE MarkReal
  BY <1>15, Zenon DEF MarkReal
<1>16. CASE AdoptedReadExit
  BY <1>16, Zenon DEF AdoptedReadExit
<1>17. CASE Probe
  BY <1>17, Zenon DEF Probe
<1>18. CASE ReadAlive
  BY <1>18, Zenon DEF ReadAlive
<1>19. CASE CheckHeartbeat
  BY <1>19, Zenon DEF CheckHeartbeat
<1>20. CASE Escalate
  BY <1>20, Zenon DEF Escalate
<1>21. CASE HarvestExit
  BY <1>21, Zenon DEF HarvestExit, Finish
<1>22. CASE HandleDeadProcess
  BY <1>22, Zenon DEF HandleDeadProcess, Finish
<1>23. CASE GraceExpires
  BY <1>23, Zenon DEF GraceExpires
<1>24. CASE Restart
  BY <1>24, Zenon DEF Restart
<1>25. CASE \E r \in Runner : RunnerBoot(r)
  BY <1>25, Zenon DEF RunnerBoot, Beats
<1>26. CASE \E r \in Runner : RunnerReady(r)
  BY <1>26, Zenon DEF RunnerReady
<1>27. CASE \E r \in Runner : RunnerNextStep(r)
  BY <1>27, Zenon DEF RunnerNextStep, Beats
<1>28. CASE \E r \in Runner, res \in StepResult : RunnerStepEnds(r, res)
  BY <1>28, Zenon DEF RunnerStepEnds
<1>29. CASE \E r \in Runner : RunnerWriteExit(r)
  BY <1>29, Zenon DEF RunnerWriteExit
<1>30. CASE \E r \in Runner : RunnerExit(r)
  BY <1>30, Zenon DEF RunnerExit
<1>31. CASE \E r \in Runner : RunnerHandleTerm(r)
  BY <1>31, Zenon DEF RunnerHandleTerm
<1>32. CASE \E r \in Runner : HeartbeatAges(r)
  BY <1>32, Zenon DEF HeartbeatAges
<1>33. CASE \E r \in Runner : Reap(r)
  BY <1>33, Zenon DEF Reap
<1>34. CASE Crash
  BY <1>34, Zenon DEF Crash
<1>35. CASE RequestCancel
  BY <1>35, Zenon DEF RequestCancel
<1>36. CASE StopTask
  BY <1>36, Zenon DEF StopTask
<1>37. CASE StartTask
  BY <1>37, Zenon DEF StartTask
<1>38. CASE ChangeAuthority
  BY <1>38, Zenon DEF ChangeAuthority
<1>39. CASE Acknowledge
  BY <1>39, Zenon DEF Acknowledge
<1>40. CASE \E r \in Runner : RunnerDies(r)
  BY <1>40, Zenon DEF RunnerDies
<1>41. CASE \E r \in Runner : RunnerBeats(r)
  BY <1>41, Zenon DEF RunnerBeats, Beats
<1>42. CASE \E r \in Runner : RunnerHangs(r)
  BY <1>42, Zenon DEF RunnerHangs
<1>43. CASE \E r \in Runner : RunnerResumes(r)
  BY <1>43, Zenon DEF RunnerResumes
<1> QED
  BY Zenon, <1>1, <1>2, <1>3, <1>4, <1>5, <1>6, <1>7, <1>8, <1>9, <1>10, <1>11, <1>12, <1>13, <1>14,
     <1>15, <1>16, <1>17, <1>18, <1>19, <1>20, <1>21, <1>22, <1>23, <1>24, <1>25, <1>26,
     <1>27, <1>28, <1>29, <1>30, <1>31, <1>32, <1>33, <1>34, <1>35, <1>36, <1>37, <1>38,
     <1>39, <1>40, <1>41, <1>42, <1>43
     DEF Next, PassStep, RunnerStep, Environment

(* Every step leaves the record, the files and the pass's place well formed. *)
LEMMA DataStep ==
  ASSUME TypeOK, Main, Next
  PROVE  Data'
<1>1. Data /\ run \in [Runner -> RunnerRecord] /\ PassFlow
  BY TypeParts DEF Main
<1> USE DEF Data, PC, record, task, files, control, beat
<1>2. CASE BeginQueued
  BY <1>1, <1>2 DEF BeginQueued, SpawnedFromEvidence
<1>3. CASE BeginRunning
  BY <1>1, <1>3 DEF BeginRunning
<1>4. CASE ConfirmQueued
  BY <1>1, <1>4 DEF ConfirmQueued, SpawnedFromEvidence
<1>5. CASE ConfirmRunning
  BY <1>1, <1>5 DEF ConfirmRunning
<1>6. CASE WriteFence
  BY <1>1, <1>6 DEF WriteFence
<1>7. CASE SignalCancel
  BY <1>1, <1>7 DEF SignalCancel
<1>8. CASE Adopt
  BY <1>1, <1>8 DEF Adopt, Status
<1>9. CASE AcceptanceUnknown
  BY <1>1, <1>9 DEF AcceptanceUnknown, Finish, Status, Terminal, Source
<1>10. CASE CancelQueued
  BY <1>1, <1>10 DEF CancelQueued, Finish, Status, Terminal, Source
<1>11. CASE StartJob
  BY <1>1, <1>11 DEF StartJob
<1>12. CASE Attempt
  BY SMTT(30), <1>1, <1>12 DEF Attempt
<1>13. CASE RejectStart
  BY <1>1, <1>13 DEF RejectStart, Finish, Status, Terminal, Source
<1>14. CASE MarkPending
  BY <1>1, <1>14 DEF MarkPending
<1>15. CASE \E r \in Runner : Spawn(r)
  BY <1>1, <1>15 DEF Spawn
<1>16. CASE MarkReal
  BY <1>1, <1>16 DEF MarkReal, PassFlow
<1>17. CASE AdoptedReadExit
  BY <1>1, <1>17 DEF AdoptedReadExit
<1>18. CASE Probe
  BY <1>1, <1>18 DEF Probe
<1>19. CASE ReadAlive
  BY <1>1, <1>19 DEF ReadAlive
<1>20. CASE CheckHeartbeat
  <2>1. /\ sigkill' \in {sigkill, "armed"} /\ pc' \in {"idle", "kill"}
        /\ UNCHANGED <<record, task, files, seen, used>>
    BY <1>20, Zenon DEF CheckHeartbeat
  <2> QED BY <1>1, <2>1
<1>21. CASE Escalate
  BY <1>1, <1>21 DEF Escalate
<1>22. CASE HarvestExit
  BY <1>1, <1>22 DEF HarvestExit, Finish, Status, Terminal, Source, Outcome, PassFlow
<1>23. CASE HandleDeadProcess
  BY <1>1, <1>23, CheckpointProves DEF HandleDeadProcess, Finish, Status, Terminal, Source
<1>24. CASE GraceExpires
  BY <1>1, <1>24 DEF GraceExpires
<1>25. CASE Restart
  BY <1>1, <1>25 DEF Restart
<1>26. CASE \E r \in Runner : RunnerBoot(r)
  BY <1>1, <1>26 DEF RunnerBoot
<1>27. CASE \E r \in Runner : RunnerReady(r)
  BY <1>1, <1>27 DEF RunnerReady
<1>28. CASE \E r \in Runner : RunnerNextStep(r)
  BY <1>1, <1>28 DEF RunnerNextStep
<1>29. CASE \E r \in Runner, res \in StepResult : RunnerStepEnds(r, res)
  BY <1>1, <1>29 DEF RunnerStepEnds, RunnerRecord
<1>30. CASE \E r \in Runner : RunnerWriteExit(r)
  BY <1>1, <1>30 DEF RunnerWriteExit, Verdict, Outcome, RunnerRecord
<1>31. CASE \E r \in Runner : RunnerExit(r)
  BY <1>1, <1>31 DEF RunnerExit
<1>32. CASE \E r \in Runner : RunnerHandleTerm(r)
  BY <1>1, <1>32 DEF RunnerHandleTerm
<1>33. CASE \E r \in Runner : HeartbeatAges(r)
  BY <1>1, <1>33 DEF HeartbeatAges
<1>34. CASE \E r \in Runner : Reap(r)
  BY <1>1, <1>34 DEF Reap
<1>35. CASE Crash
  BY Zenon, <1>1, <1>35, SpendType DEF Crash, Bound
<1>36. CASE RequestCancel
  BY <1>1, <1>36, SpendType DEF RequestCancel, Bound
<1>37. CASE StopTask
  BY <1>1, <1>37, SpendType DEF StopTask, Bound
<1>38. CASE StartTask
  BY <1>1, <1>38 DEF StartTask
<1>39. CASE ChangeAuthority
  BY <1>1, <1>39 DEF ChangeAuthority
<1>40. CASE Acknowledge
  BY <1>1, <1>40 DEF Acknowledge
<1>41. CASE \E r \in Runner : RunnerDies(r)
  BY <1>1, <1>41 DEF RunnerDies
<1>42. CASE \E r \in Runner : RunnerBeats(r)
  BY <1>1, <1>42 DEF RunnerBeats
<1>43. CASE \E r \in Runner : RunnerHangs(r)
  BY <1>1, <1>43, SpendType DEF RunnerHangs, Bound
<1>44. CASE \E r \in Runner : RunnerResumes(r)
  BY <1>1, <1>44 DEF RunnerResumes
<1> QED
  BY Zenon, <1>2, <1>3, <1>4, <1>5, <1>6, <1>7, <1>8, <1>9, <1>10, <1>11, <1>12, <1>13, <1>14,
     <1>15, <1>16, <1>17, <1>18, <1>19, <1>20, <1>21, <1>22, <1>23, <1>24, <1>25, <1>26,
     <1>27, <1>28, <1>29, <1>30, <1>31, <1>32, <1>33, <1>34, <1>35, <1>36, <1>37, <1>38,
     <1>39, <1>40, <1>41, <1>42, <1>43, <1>44
     DEF Next, PassStep, RunnerStep, Environment

(* How a step may change the processes, as far as the invariant can tell: nobody is
   spawned, and nobody starts to run. *)
Quiet ==
  \A r \in Runner : /\ run'[r].pc = "none" <=> run[r].pc = "none"
                    /\ Running(r)' => Running(r)

(* Every step but Spawn is quiet. *)
LEMMA QuietStep ==
  ASSUME TypeOK, Next, ~ \E r \in Runner : Spawn(r)
  PROVE  Quiet
<1>1. run \in [Runner -> RunnerRecord]
  BY TypeParts
<1> USE DEF Quiet, Running, RunnerRecord
<1>2. CASE SignalCancel
  BY <1>1, <1>2 DEF SignalCancel, SigTerm, Visible, Ended
<1>3. CASE CheckHeartbeat
  BY <1>1, <1>3 DEF CheckHeartbeat, SigTerm, Visible, Ended
<1>4. CASE Escalate
  BY <1>1, <1>4 DEF Escalate, SigKill, Visible, Ended
<1>5. CASE \E r \in Runner : RunnerBoot(r)
  <2>1. PICK r \in Runner : /\ run[r].pc = "boot"
                            /\ \/ run' = [run EXCEPT ![r].pc = "created"]
                               \/ run' = [run EXCEPT ![r] = Ended(@)]
    BY <1>5 DEF RunnerBoot
  <2>2. CASE run' = [run EXCEPT ![r].pc = "created"]
    BY <1>1, <2>1, <2>2
  <2>3. CASE run' = [run EXCEPT ![r] = Ended(@)]
    BY <1>1, <2>1, <2>3 DEF Ended
  <2> QED BY <2>1, <2>2, <2>3
<1>6. CASE \E r \in Runner : RunnerReady(r)
  BY <1>1, <1>6 DEF RunnerReady
<1>7. CASE \E r \in Runner : RunnerNextStep(r)
  BY <1>1, <1>7 DEF RunnerNextStep
<1>8. CASE \E r \in Runner, res \in StepResult : RunnerStepEnds(r, res)
  BY <1>1, <1>8 DEF RunnerStepEnds
<1>9. CASE \E r \in Runner : RunnerWriteExit(r)
  BY <1>1, <1>9 DEF RunnerWriteExit
<1>10. CASE \E r \in Runner : RunnerExit(r)
  BY <1>1, <1>10 DEF RunnerExit, Ended
<1>11. CASE \E r \in Runner : RunnerHandleTerm(r)
  BY <1>1, <1>11 DEF RunnerHandleTerm
<1>12. CASE \E r \in Runner : Reap(r)
  BY <1>1, <1>12 DEF Reap
<1>13. CASE Crash
  BY Zenon, <1>1, <1>13 DEF Crash
<1>14. CASE \E r \in Runner : RunnerDies(r)
  BY <1>1, <1>14 DEF RunnerDies, Ended
<1>15. CASE \E r \in Runner : RunnerHangs(r)
  BY <1>1, <1>15 DEF RunnerHangs
<1>16. CASE \E r \in Runner : RunnerResumes(r)
  BY <1>1, <1>16 DEF RunnerResumes
<1>17. CASE run' = run
  BY <1>17
<1> QED
  BY Zenon, <1>2, <1>3, <1>4, <1>5, <1>6, <1>7, <1>8, <1>9, <1>10, <1>11, <1>12, <1>13, <1>14,
     <1>15, <1>16, <1>17
     DEF Next, PassStep, RunnerStep, Environment, AcceptanceUnknown, Acknowledge, Adopt,
         AdoptedReadExit, Attempt, BeginQueued, BeginRunning, CancelQueued, ChangeAuthority,
         ConfirmQueued, ConfirmRunning, Finish, GraceExpires, HandleDeadProcess, HarvestExit,
         HeartbeatAges, MarkPending, MarkReal, Probe, ReadAlive, RejectStart, RequestCancel,
         Restart, RunnerBeats, StartJob, StartTask, StopTask, WriteFence

(* Every step keeps the facts about intents, runners, wakes, dead processes and cancellation. *)
LEMMA MainStep ==
  ASSUME TypeOK, Main, Next
  PROVE  Main'
<1>1. Flags /\ Data /\ run \in [Runner -> RunnerRecord]
  BY TypeParts
<1>2. CASE \E r \in Runner : Spawn(r)
  BY <1>1, <1>2, RunnersAreNotMarks, NoneNotRunner
     DEF Spawn, Main, IntentPrecedesEffect, OneRunner, OneWakePerOutcome, DeadMeansGone, PassFlow,
         NamesAreSpawned, CancelIsSeenOrGated, Data, Active, Running, RunnerRecord, record, task,
         files
<1> SUFFICES ASSUME ~ \E r \in Runner : Spawn(r) PROVE Main'
  BY <1>2
<1>3. Quiet
  BY QuietStep
<1> USE RunnersAreNotMarks, NoneNotRunner
    DEF Main, IntentPrecedesEffect, OneRunner, OneWakePerOutcome, DeadMeansGone, PassFlow,
        NamesAreSpawned, CancelIsSeenOrGated, Data, Active, Terminal, Quiet, record, task, files,
        control, beat
<1>4. CASE BeginQueued
  BY <1>1, <1>3, <1>4 DEF BeginQueued, SpawnedFromEvidence
<1>5. CASE BeginRunning
  BY <1>1, <1>3, <1>5 DEF BeginRunning, Status
<1>6. CASE ConfirmQueued
  BY <1>1, <1>3, <1>6 DEF ConfirmQueued, SpawnedFromEvidence
<1>7. CASE ConfirmRunning
  BY <1>1, <1>3, <1>7 DEF ConfirmRunning
<1>8. CASE WriteFence
  BY <1>1, <1>3, <1>8 DEF WriteFence
<1>9. CASE SignalCancel
  BY <1>1, <1>3, <1>9 DEF SignalCancel, Status
<1>10. CASE Adopt
  BY <1>1, <1>3, <1>10 DEF Adopt
<1>11. CASE AcceptanceUnknown
  BY <1>1, <1>3, <1>11 DEF AcceptanceUnknown, Finish
<1>12. CASE CancelQueued
  BY <1>1, <1>3, <1>12 DEF CancelQueued, Finish
<1>13. CASE StartJob
  BY <1>1, <1>3, <1>13 DEF StartJob
<1>14. CASE Attempt
  BY <1>1, <1>3, <1>14 DEF Attempt, Authorisation
<1>15. CASE RejectStart
  BY <1>1, <1>3, <1>15 DEF RejectStart, Finish
<1>16. CASE MarkPending
  BY <1>1, <1>3, <1>16 DEF MarkPending
<1>17. CASE MarkReal
  BY <1>1, <1>3, <1>17 DEF MarkReal
<1>18. CASE AdoptedReadExit
  BY <1>1, <1>3, <1>18 DEF AdoptedReadExit
<1>19. CASE Probe
  BY <1>1, <1>3, <1>19 DEF Probe, Visible, Running
<1>20. CASE ReadAlive
  BY <1>1, <1>3, <1>20 DEF ReadAlive, Visible, Running
<1>21. CASE CheckHeartbeat
  BY Zenon, <1>1, <1>3, <1>21 DEF CheckHeartbeat
<1>22. CASE Escalate
  BY <1>1, <1>3, <1>22 DEF Escalate
<1>23. CASE HarvestExit
  BY <1>1, <1>3, <1>23 DEF HarvestExit, Finish, Outcome
<1>24. CASE HandleDeadProcess
  <2>1. PICK st, src : Finish(st, src) /\ st \in Terminal /\ src \in {"checkpoint", "no-exit"}
    BY <1>1, <1>24, CheckpointProves DEF HandleDeadProcess
  <2> QED BY <1>1, <1>3, <1>24, <2>1 DEF HandleDeadProcess, Finish
<1>25. CASE GraceExpires
  BY <1>1, <1>3, <1>25 DEF GraceExpires
<1>26. CASE Restart
  BY <1>1, <1>3, <1>26 DEF Restart
<1>27. CASE \E r \in Runner : RunnerBoot(r)
  BY <1>1, <1>3, <1>27 DEF RunnerBoot
<1>28. CASE \E r \in Runner : RunnerReady(r)
  BY <1>1, <1>3, <1>28 DEF RunnerReady
<1>29. CASE \E r \in Runner : RunnerNextStep(r)
  BY <1>1, <1>3, <1>29 DEF RunnerNextStep
<1>30. CASE \E r \in Runner, res \in StepResult : RunnerStepEnds(r, res)
  BY <1>1, <1>3, <1>30 DEF RunnerStepEnds
<1>31. CASE \E r \in Runner : RunnerWriteExit(r)
  BY <1>1, <1>3, <1>31 DEF RunnerWriteExit
<1>32. CASE \E r \in Runner : RunnerExit(r)
  BY <1>1, <1>3, <1>32 DEF RunnerExit
<1>33. CASE \E r \in Runner : RunnerHandleTerm(r)
  BY <1>1, <1>3, <1>33 DEF RunnerHandleTerm
<1>34. CASE \E r \in Runner : HeartbeatAges(r)
  BY <1>1, <1>3, <1>34 DEF HeartbeatAges
<1>35. CASE \E r \in Runner : Reap(r)
  BY <1>1, <1>3, <1>35 DEF Reap
<1>36. CASE Crash
  <2>1. /\ pc' = "down" /\ seen' = None
        /\ UNCHANGED <<record, task, files>>
    BY Zenon, <1>36 DEF Crash
  <2> QED BY <1>1, <1>3, <2>1
<1>37. CASE RequestCancel
  BY <1>1, <1>3, <1>37 DEF RequestCancel
<1>38. CASE StopTask
  BY <1>1, <1>3, <1>38 DEF StopTask
<1>39. CASE StartTask
  BY <1>1, <1>3, <1>39 DEF StartTask
<1>40. CASE ChangeAuthority
  BY <1>1, <1>3, <1>40 DEF ChangeAuthority
<1>41. CASE Acknowledge
  BY <1>1, <1>3, <1>41 DEF Acknowledge
<1>42. CASE \E r \in Runner : RunnerDies(r)
  BY <1>1, <1>3, <1>42 DEF RunnerDies
<1>43. CASE \E r \in Runner : RunnerBeats(r)
  BY <1>1, <1>3, <1>43 DEF RunnerBeats
<1>44. CASE \E r \in Runner : RunnerHangs(r)
  BY <1>1, <1>3, <1>44 DEF RunnerHangs
<1>45. CASE \E r \in Runner : RunnerResumes(r)
  BY <1>1, <1>3, <1>45 DEF RunnerResumes
<1> QED
  BY Zenon, <1>4, <1>5, <1>6, <1>7, <1>8, <1>9, <1>10, <1>11, <1>12, <1>13, <1>14, <1>15, <1>16,
     <1>17, <1>18, <1>19, <1>20, <1>21, <1>22, <1>23, <1>24, <1>25, <1>26, <1>27, <1>28,
     <1>29, <1>30, <1>31, <1>32, <1>33, <1>34, <1>35, <1>36, <1>37, <1>38, <1>39, <1>40,
     <1>41, <1>42, <1>43, <1>44, <1>45
     DEF Next, PassStep, RunnerStep, Environment

-----------------------------------------------------------------------------
(* A step that changes neither a runner's results nor where its loop is. *)
Still ==
  \A r \in Runner :
    /\ run'[r].done = run[r].done /\ run'[r].verdict = run[r].verdict
    /\ run'[r].pc = "none" <=> run[r].pc = "none"
    /\ run'[r].pc = "step" => run[r].pc = "step"
    /\ run[r].pc \in {"exiting", "zombie", "gone"} => run'[r].pc \in {"exiting", "zombie", "gone"}

(* Every step but a spawn, a loop turn or the end of a job step leaves what a runner recorded as it was. *)
LEMMA StillStep ==
  ASSUME TypeOK, Next,
         ~ \E r \in Runner : \/ Spawn(r) \/ RunnerNextStep(r)
                            \/ \E res \in StepResult : RunnerStepEnds(r, res)
  PROVE  Still
<1>1. run \in [Runner -> RunnerRecord]
  BY TypeParts
<1> USE DEF Still, RunnerRecord
<1>2. CASE SignalCancel
  BY <1>1, <1>2 DEF SignalCancel, SigTerm, Visible, Ended
<1>3. CASE CheckHeartbeat
  BY <1>1, <1>3 DEF CheckHeartbeat, SigTerm, Visible, Ended
<1>4. CASE Escalate
  BY <1>1, <1>4 DEF Escalate, SigKill, Visible, Ended
<1>5. CASE \E r \in Runner : RunnerBoot(r)
  <2>1. PICK r \in Runner : /\ run[r].pc = "boot"
                            /\ \/ run' = [run EXCEPT ![r].pc = "created"]
                               \/ run' = [run EXCEPT ![r] = Ended(@)]
    BY <1>5 DEF RunnerBoot
  <2>2. CASE run' = [run EXCEPT ![r].pc = "created"]
    BY <1>1, <2>1, <2>2
  <2>3. CASE run' = [run EXCEPT ![r] = Ended(@)]
    BY <1>1, <2>1, <2>3 DEF Ended
  <2> QED BY <2>1, <2>2, <2>3
<1>6. CASE \E r \in Runner : RunnerReady(r)
  BY <1>1, <1>6 DEF RunnerReady
<1>7. CASE \E r \in Runner : RunnerWriteExit(r)
  BY <1>1, <1>7 DEF RunnerWriteExit
<1>8. CASE \E r \in Runner : RunnerExit(r)
  BY <1>1, <1>8 DEF RunnerExit, Ended
<1>9. CASE \E r \in Runner : RunnerHandleTerm(r)
  BY <1>1, <1>9 DEF RunnerHandleTerm
<1>10. CASE \E r \in Runner : Reap(r)
  BY <1>1, <1>10 DEF Reap
<1>11. CASE Crash
  BY Zenon, <1>1, <1>11 DEF Crash
<1>12. CASE \E r \in Runner : RunnerDies(r)
  BY <1>1, <1>12 DEF RunnerDies, Running, Ended
<1>13. CASE \E r \in Runner : RunnerHangs(r)
  BY <1>1, <1>13 DEF RunnerHangs
<1>14. CASE \E r \in Runner : RunnerResumes(r)
  BY <1>1, <1>14 DEF RunnerResumes
<1>15. CASE run' = run
  BY <1>15
<1> QED
  BY Zenon, <1>2, <1>3, <1>4, <1>5, <1>6, <1>7, <1>8, <1>9, <1>10, <1>11, <1>12, <1>13, <1>14, <1>15
     DEF Next, PassStep, RunnerStep, Environment, AcceptanceUnknown, Acknowledge, Adopt,
         AdoptedReadExit, Attempt, BeginQueued, BeginRunning, CancelQueued, ChangeAuthority,
         ConfirmQueued, ConfirmRunning, Finish, GraceExpires, HandleDeadProcess, HarvestExit,
         HeartbeatAges, MarkPending, MarkReal, Probe, ReadAlive, RejectStart, RequestCancel,
         Restart, RunnerBeats, StartJob, StartTask, StopTask, WriteFence

(* Every step keeps the correspondence between a runner's loop, its checkpoint and its exit file. *)
LEMMA LoopStep ==
  ASSUME TypeOK, Main, LoopFacts, Next
  PROVE  LoopFacts'
<1>1. Data /\ run \in [Runner -> RunnerRecord]
  BY TypeParts
<1>2. CASE \E r \in Runner : Spawn(r)
  <2>1. PICK r \in Runner : Spawn(r)
    BY <1>2
  <2>2. /\ \A s \in Runner : run[s].pc = "none"
        /\ UNCHANGED <<checkpoint, exitFile, status>>
    BY <2>1 DEF Spawn, Main, PassFlow, files, record
  <2>3. \A s \in Runner : /\ run'[s].done = run[s].done /\ run'[s].verdict = run[s].verdict
                          /\ run'[s].pc = IF s = r THEN "boot" ELSE "none"
    BY <1>1, <2>1, <2>2 DEF Spawn, RunnerRecord
  <2>4. ~ \E s \in Runner : Finished(s)
    BY <2>2 DEF Finished
  <2> QED BY <2>2, <2>3, <2>4 DEF LoopFacts
<1>3. CASE \E r \in Runner : RunnerNextStep(r)
  <2>1. PICK r \in Runner : RunnerNextStep(r)
    BY <1>3
  <2>2. /\ run[r].pc = "loop" /\ run[r].verdict = "none"
        /\ UNCHANGED <<checkpoint, exitFile, status>>
    BY <2>1 DEF RunnerNextStep, Verdict, files, record
  <2>3. \A s \in Runner : /\ run'[s].done = run[s].done /\ run'[s].verdict = run[s].verdict
                          /\ run'[s].pc = IF s = r THEN "step" ELSE run[s].pc
    BY <1>1, <2>1 DEF RunnerNextStep, RunnerRecord
  <2>4. \A s \in Runner : Finished(s) => Finished(s)'
    BY <2>2, <2>3 DEF Finished
  <2> QED BY <2>2, <2>3, <2>4 DEF LoopFacts
<1>4. CASE \E r \in Runner, res \in StepResult : RunnerStepEnds(r, res)
  <2>1. PICK r \in Runner, res \in StepResult : RunnerStepEnds(r, res)
    BY <1>4
  <2> DEFINE done    == Append(run[r].done, res)
             verdict == IF run[r].term = "handled" THEN "cancelled"
                        ELSE IF res = "ok" THEN "none" ELSE res
  <2>2. /\ run[r].pc = "step" /\ checkpoint' = done
        /\ UNCHANGED <<exitFile, status>>
    BY <2>1 DEF RunnerStepEnds, record
  <2>3. \A s \in Runner : /\ run'[s].done = IF s = r THEN done ELSE run[s].done
                          /\ run'[s].verdict = IF s = r THEN verdict ELSE run[s].verdict
                          /\ run'[s].pc = IF s = r THEN "loop" ELSE run[s].pc
    BY <1>1, <2>1 DEF RunnerStepEnds, RunnerRecord
  <2>4. \A s \in Runner : s # r => run[s].pc = "none"
    BY <2>2 DEF Main, OneRunner
  <2>5. /\ verdict # "succeeded"
        /\ verdict = "none" => res = "ok" /\ \A i \in 1..Len(run[r].done) : run[r].done[i] = "ok"
    BY <2>2 DEF LoopFacts, StepResult
  <2>6. verdict = "none" => \A i \in 1..Len(done) : done[i] = "ok"
    <3>1. run[r].done \in Seq(StepResult)
      BY <1>1 DEF RunnerRecord
    <3> QED BY <2>5, <3>1
  <2>7. \A s \in Runner : Finished(s) => Finished(s)'
    BY <2>2, <2>3 DEF Finished
  <2> HIDE DEF done, verdict
  <2> QED BY <2>1, <2>2, <2>3, <2>4, <2>5, <2>6, <2>7 DEF LoopFacts
<1>5. ASSUME ~ \E r \in Runner : \/ Spawn(r) \/ RunnerNextStep(r)
                                \/ \E res \in StepResult : RunnerStepEnds(r, res)
      PROVE  LoopFacts'
  <2>1. Still
    BY <1>5, StillStep
  <2>2. \A r \in Runner : Finished(r) => Finished(r)'
    BY <2>1 DEF Still, Finished
  <2>3. /\ checkpoint' = checkpoint
        /\ exitFile' = "succeeded" => \E r \in Runner : Finished(r)'
        /\ status' = "succeeded" => \E r \in Runner : Finished(r)'
    <3>1. CASE \E r \in Runner : RunnerWriteExit(r)
      <4>1. PICK r \in Runner : RunnerWriteExit(r)
        BY <3>1
      <4>2. run'[r].pc = "exiting" /\ run'[r].done = run[r].done
        BY <1>1, <4>1 DEF RunnerWriteExit, RunnerRecord
      <4>3. Verdict(r) = "succeeded" =>
              Len(run[r].done) = NSteps /\ \A i \in 1..NSteps : run[r].done[i] = "ok"
        BY DEF Verdict, LoopFacts
      <4>4. exitFile' = Verdict(r) /\ UNCHANGED <<checkpoint, status>>
        BY <4>1 DEF RunnerWriteExit, record
      <4> QED BY <2>2, <4>2, <4>3, <4>4 DEF Finished, LoopFacts
    <3>2. CASE HarvestExit
      BY <2>2, <3>2 DEF HarvestExit, Finish, files, LoopFacts
    <3>3. CASE HandleDeadProcess
      <4>1. UNCHANGED <<checkpoint, exitFile>> /\ pc = "dead"
        BY <3>3 DEF HandleDeadProcess, files
      <4>2. status' = "succeeded" => ProveOutcome(checkpoint) = "succeeded"
        BY <3>3 DEF HandleDeadProcess, Finish
      <4>3. ProveOutcome(checkpoint) = "succeeded" =>
              Len(checkpoint) = NSteps /\ \A i \in 1..NSteps : checkpoint[i] = "ok"
        BY <1>1, CheckpointProves DEF Data
      <4>4. \E r \in Runner : run[r].pc # "none" /\ run[r].pc \in {"zombie", "gone"}
        BY <1>1, <4>1 DEF Main, PassFlow, Running, RunnerRecord, RunnerPC
      <4>5. status' = "succeeded" => \E r \in Runner : Finished(r)
        BY <4>2, <4>3, <4>4 DEF LoopFacts, Finished
      <4> QED BY <2>2, <4>1, <4>5 DEF LoopFacts
    <3>4. CASE /\ UNCHANGED <<checkpoint, exitFile>>
               /\ status' \in {status} \cup (Status \ {"succeeded"})
      BY <2>2, <3>4 DEF LoopFacts
    <3> QED
      BY Zenon, <1>5, <3>1, <3>2, <3>3, <3>4
         DEF Next, PassStep, RunnerStep, Environment, record, files, AcceptanceUnknown,
         Acknowledge, Adopt, AdoptedReadExit, Attempt, BeginQueued, BeginRunning, CancelQueued,
         ChangeAuthority, CheckHeartbeat, ConfirmQueued, ConfirmRunning, Crash, Escalate,
         Finish, GraceExpires, HeartbeatAges, MarkPending, MarkReal, Probe, ReadAlive, Reap,
         RejectStart, RequestCancel, Restart, RunnerBeats, RunnerBoot, RunnerDies, RunnerExit,
         RunnerHandleTerm, RunnerHangs, RunnerReady, RunnerResumes, SignalCancel, StartJob,
         StartTask, StopTask, WriteFence, Status, Terminal
  <2> QED BY <2>1, <2>3 DEF Still, LoopFacts
<1> QED BY <1>2, <1>3, <1>4, <1>5

-----------------------------------------------------------------------------
(* The invariant is inductive: every step of the Controller, of a runner, of a client and
   of the operating system keeps it. *)
THEOREM Invariance == Spec => []Inv
<1>1. Inv /\ [Next]_vars => Inv'
  <2> SUFFICES ASSUME Inv, [Next]_vars PROVE Inv'
    OBVIOUS
  <2>1. CASE Next
    <3>1. Flags' /\ Data' /\ run' \in [Runner -> RunnerRecord]
      BY <2>1, TypeParts, FlagsStep, DataStep, RunType DEF Inv
    <3>2. TypeOK'
      BY <3>1 DEF TypeOK, Flags, Data, RunnerRecord
    <3> QED BY <2>1, <3>2, MainStep, LoopStep DEF Inv
  <2>2. CASE UNCHANGED vars
    <3>1. UNCHANGED <<status, effect, cancelRequested, process, source, acknowledged, wakes>>
      BY <2>2 DEF vars, record
    <3>2. UNCHANGED <<gate, auth, marker, ready, fence, checkpoint, exitFile>>
      BY <2>2 DEF vars, task, files
    <3>3. UNCHANGED <<pc, seen, sawCancel, sigkill, run, stale, beatNew, beatBehind, used>>
      BY <2>2 DEF vars, control, beat
    <3>4. TypeOK'
      BY <3>1, <3>2, <3>3 DEF Inv, TypeOK
    <3>5. /\ (IntentPrecedesEffect /\ OneRunner /\ OneWakePerOutcome)'
          /\ DeadMeansGone'
      BY <3>1, <3>2, <3>3 DEF Inv, Main, IntentPrecedesEffect, OneRunner, OneWakePerOutcome,
           DeadMeansGone, Active, Running
    <3>6. (PassFlow /\ NamesAreSpawned /\ CancelIsSeenOrGated)'
      BY <3>1, <3>2, <3>3 DEF Inv, Main, PassFlow, NamesAreSpawned, CancelIsSeenOrGated, Active,
           Running
    <3>7. LoopFacts'
      BY <3>1, <3>2, <3>3 DEF Inv, LoopFacts, Finished
    <3> QED BY <3>4, <3>5, <3>6, <3>7 DEF Inv, Main
  <2> QED BY <2>1, <2>2
<1> QED BY <1>1, InitInv, PTL DEF Spec

(* The record, the files and the processes keep their shape. *)
THEOREM TypeCorrect == Spec => []TypeOK
<1>1. Inv => TypeOK
  BY DEF Inv
<1> QED BY <1>1, Invariance, PTL

(* Before the durable intent to start is committed, no runner and no trace of one exists,
   whatever number of crashes interrupts the start. *)
THEOREM EffectHasIntent == Spec => []IntentPrecedesEffect
<1>1. Inv => IntentPrecedesEffect
  BY DEF Inv, Main
<1> QED BY <1>1, Invariance, PTL

(* A job never gets a second runner. *)
THEOREM SingleRunner == Spec => []OneRunner
<1>1. Inv => OneRunner
  BY DEF Inv, Main
<1> QED BY <1>1, Invariance, PTL

(* The Leader is woken once, by the transaction that ends the job. *)
THEOREM WokenOnce == Spec => []OneWakePerOutcome
<1>1. Inv => OneWakePerOutcome
  BY DEF Inv, Main
<1> QED BY <1>1, Invariance, PTL

(* A job settled because its process is dead has no working process. *)
THEOREM DeadIsGone == Spec => []DeadMeansGone
<1>1. Inv => DeadMeansGone
  BY DEF Inv, Main
<1> QED BY <1>1, Invariance, PTL

(* A job recorded as succeeded ran all its steps successfully, whether exit.json or the
   checkpoint said so. *)
THEOREM SuccessTruth == Spec => []SuccessIsTruthful
<1>1. Inv => SuccessIsTruthful
  BY DEF Inv, LoopFacts, Finished, SuccessIsTruthful
<1> QED BY <1>1, Invariance, PTL

(* Once a job is terminal, no later step of anybody changes its outcome. *)
THEOREM TerminalFinality == Spec => TerminalIsFinal
<1>1. Inv /\ [Next]_vars =>
        [~Active => status' = status /\ source' = source /\ wakes' = wakes]_vars
  <2> SUFFICES ASSUME Inv, Next, ~Active
               PROVE  status' = status /\ source' = source /\ wakes' = wakes
    BY Zenon
  <2>1. pc \in {"down", "idle"}
    BY DEF Inv, Main, PassFlow
  <2>2. ~PassStep
    BY Zenon, <2>1
       DEF PassStep, WriteFence, SignalCancel, Adopt, AcceptanceUnknown, CancelQueued, StartJob,
           Attempt, RejectStart, MarkPending, Spawn, MarkReal, AdoptedReadExit, Probe,
           ReadAlive, CheckHeartbeat, Escalate, HarvestExit, HandleDeadProcess
  <2> QED
    BY Zenon, <2>2
       DEF Next, Environment, RunnerStep, record, BeginQueued, BeginRunning, ConfirmQueued,
           ConfirmRunning, GraceExpires, Restart, RunnerBoot, RunnerReady, RunnerNextStep,
           RunnerStepEnds, RunnerWriteExit, RunnerExit, RunnerHandleTerm, HeartbeatAges, Reap,
           Crash, RequestCancel, StopTask, StartTask, ChangeAuthority, Acknowledge, RunnerDies,
           RunnerBeats, RunnerHangs, RunnerResumes
<1> QED BY <1>1, Invariance, PTL DEF Spec, TerminalIsFinal

(* A cancel request that commits before the start intent prevents it, although the pass
   decides on a snapshot. *)
THEOREM CancelPreventsStart == Spec => NoStartAfterCancel
<1>1. Inv /\ [Next]_vars =>
        [effect = "none" /\ effect' = "possible" => ~cancelRequested]_vars
  <2> SUFFICES ASSUME Inv, Next, effect = "none", effect' = "possible"
               PROVE  ~cancelRequested
    OBVIOUS
  <2>1. Attempt
    BY Zenon DEF Next, PassStep, Environment, RunnerStep, record, Finish, BeginQueued, BeginRunning,
           ConfirmQueued, ConfirmRunning, WriteFence, SignalCancel, Adopt, AcceptanceUnknown,
           CancelQueued, StartJob, RejectStart, MarkPending, Spawn, MarkReal, AdoptedReadExit,
           Probe, ReadAlive, CheckHeartbeat, Escalate, HarvestExit, HandleDeadProcess,
           GraceExpires, Restart, RunnerBoot, RunnerReady, RunnerNextStep, RunnerStepEnds,
           RunnerWriteExit, RunnerExit, RunnerHandleTerm, HeartbeatAges, Reap, Crash,
           RequestCancel, StopTask, StartTask, ChangeAuthority, Acknowledge, RunnerDies,
           RunnerBeats, RunnerHangs, RunnerResumes
  <2>2. pc = "attempt" /\ status = "queued" /\ gate = "enabled"
    BY <2>1 DEF Attempt, Authorisation
  <2>3. seen = None /\ ~sawCancel /\ Active
    BY <2>2 DEF Inv, Main, PassFlow, Active, Terminal
  <2> QED BY <2>2, <2>3 DEF Inv, Main, CancelIsSeenOrGated
<1> QED BY <1>1, Invariance, PTL DEF Spec, NoStartAfterCancel

=============================================================================
