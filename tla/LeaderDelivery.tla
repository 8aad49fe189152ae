--------------------------- MODULE LeaderDelivery ---------------------------
(***************************************************************************)
(* Delivery of notifications to the Leader of one Task, from its durable   *)
(* mailbox to the native Provider.  Four parties share it:                 *)
(*                                                                         *)
(*   - the wakeup processor of the Controller claims a batch, prepares the *)
(*     Session, sends the attempt to the Agent Host, records the outcome   *)
(*     (processLeaderWakeups, claimLeaderNotification,                     *)
(*     settleLeaderNotification);                                          *)
(*   - the Agent Host registers the attempt durably with the Controller,   *)
(*     writes it to the Provider, publishes the acceptance, settles a      *)
(*     failed submission (submitRun and its Controller calls);             *)
(*   - the Controller folds the Host's events and replaces Sessions        *)
(*     (completeRuntimeCleanup);                                           *)
(*   - the user retries a rejected wake or releases an unknown one         *)
(*     (task wake retry, task wake resolve).                               *)
(*                                                                         *)
(* A notification is delivered at most once, with no acknowledgement from  *)
(* the Provider to rely on: every call between the parties can be lost     *)
(* before or after it took effect.  An attempt is its index in attempts, a *)
(* wake its index in wakes; 0 stands for none.                             *)
(*                                                                         *)
(* Scope: an Agent Host that reports no safe same-Session recovery         *)
(* (retrySupport "unsupported": every adapter but codex).  There           *)
(* recordProviderFailure leaves no retry pending and admission refuses a   *)
(* recovery turn, so that how a Turn ended makes no difference here and    *)
(* the branches under providerRetryPending are never taken.  With codex an *)
(* accepted Turn that failed is followed by a recovery Turn that carries   *)
(* the text of the same wake: that path is not modelled.                   *)
(***************************************************************************)
EXTENDS Naturals, Sequences

CONSTANTS Input,            \* messages addressed to the Leader
          SessionReplaced,  \* the runtime.session-replaced event
          MaxAttempts,      \* bound: delivery attempts
          MaxSignals,       \* bound: mailbox signals
          MaxFaults         \* bound: lost calls, refusals, crashes, replacement

ASSUME RefsAreDistinct == SessionReplaced \notin Input
ASSUME BoundsAreNatural == {MaxAttempts, MaxSignals, MaxFaults} \subseteq Nat

VARIABLES pending,   \* refs of the Leader mailbox not yet claimed
          claim,     \* processing batch: [wake, attempt]
          wakes,     \* TaskWake records: refs, status
          attempts,  \* per attempt its wake and its notification.delivery events
          binding,   \* providerBinding.run: [attempt, status]
          observed,  \* attempts with a persisted acceptance or terminal
          inbox,     \* runtime events published by the Host, not yet folded
          host,      \* the Host's serialized submission: step, attempt, result
          held,      \* the Host's activeRunAttemptId
          queue,     \* submissions waiting in the Host, with their Session
          retained,  \* events the Host could not persist and keeps in memory
          ended,     \* the attempt of the last terminal the Host saw
          proc,      \* the wakeup processor: step, attempt, session, reply
          session,   \* current native Session
          cleanup,   \* replace-session obligation of the runtime lifecycle
          late,      \* registrations still in flight after their caller gave up
          accepted,  \* attempts the Provider took as input
          running,   \* the attempt whose native Turn is running
          signals,   \* refs ever signalled, and how often
          faults     \* faults so far

store == <<pending, claim, wakes, attempts>>
hostVars == <<host, held, queue, retained, ended>>
native == <<accepted, running>>
vars == <<store, binding, observed, inbox, hostVars, proc, session, cleanup,
          late, native, signals, faults>>

NoClaim == [wake |-> 0, attempt |-> 0]
NoRun == [attempt |-> 0, status |-> "none"]
HostIdle == [step |-> "idle", attempt |-> 0, result |-> "none"]
ProcIdle == [step |-> "idle", attempt |-> 0, session |-> 0, reply |-> "none"]

Active == {"submitting", "accepted", "delivery-unknown"}

Init ==
    /\ pending = {} /\ claim = NoClaim /\ wakes = <<>> /\ attempts = <<>>
    /\ binding = NoRun /\ observed = {} /\ inbox = {}
    /\ host = HostIdle /\ held = 0 /\ queue = <<>> /\ retained = {} /\ ended = 0
    /\ proc = ProcIdle /\ session = 1 /\ cleanup = "none" /\ late = {}
    /\ accepted = {} /\ running = 0
    /\ signals = [refs |-> {}, count |-> 0] /\ faults = 0

Fault == faults < MaxFaults /\ faults' = faults + 1

-----------------------------------------------------------------------------
(* The mailbox.                                                            *)

\* A message is queued for the Leader; the same message may be signalled again.
Signal(m) ==
    /\ signals.count < MaxSignals
    /\ signals' = [refs |-> signals.refs \union {m}, count |-> signals.count + 1]
    /\ pending' = pending \union {m}
    /\ UNCHANGED <<claim, wakes, attempts, binding, observed, inbox, hostVars,
                   proc, session, cleanup, late, native, faults>>

\* Messages of a wake that was accepted, or released without replay, are never
\* notified again.
NonReplayable ==
    (UNION {wakes[w].refs : w \in {v \in DOMAIN wakes : wakes[v].status # "open"}})
        \ {SessionReplaced}

Outcomes(a) == attempts[a].outcomes
Told(a) == {Outcomes(a)[i] : i \in DOMAIN Outcomes(a)}
Previous(a) == IF Outcomes(a) = <<>> THEN "none" ELSE Outcomes(a)[Len(Outcomes(a))]
NativeStatus(a) == IF binding.attempt = a THEN binding.status ELSE "none"

\* Durable evidence that the Provider took attempt a.
AcceptedEvidence(a) ==
    a \in observed \/ NativeStatus(a) = "accepted" \/ Previous(a) = "accepted"

\* The notification.delivery event is recorded once per attempt and outcome.
Recorded(a, outcome) ==
    IF outcome \in Told(a) THEN attempts
    ELSE [attempts EXCEPT ![a].outcomes = Append(@, outcome)]

\* Mutant: an unknown outcome also completes the claim.
SettleConsumesAny(a, outcome) ==
    IF claim.attempt = a
    THEN /\ attempts' = Recorded(a, outcome)
         /\ IF outcome \in {"accepted", "unknown"}
            THEN claim' = NoClaim
                 /\ wakes' = [wakes EXCEPT ![claim.wake].status = "consumed"]
            ELSE UNCHANGED <<claim, wakes>>
    ELSE UNCHANGED <<claim, wakes, attempts>>

\* settleLeaderNotification: only the current claim is settled, and only an
\* acceptance completes it and consumes its wake.
Settle(a, outcome) ==
    IF claim.attempt = a
    THEN /\ attempts' = Recorded(a, outcome)
         /\ IF outcome = "accepted"
            THEN claim' = NoClaim
                 /\ wakes' = [wakes EXCEPT ![claim.wake].status = "consumed"]
            ELSE UNCHANGED <<claim, wakes>>
    ELSE UNCHANGED <<claim, wakes, attempts>>

-----------------------------------------------------------------------------
(* claimLeaderNotification, at the head of every pass of the processor.    *)

\* Mutant: a claim without any evidence is submitted again.
DispositionHopeful(a) ==
    IF AcceptedEvidence(a) THEN "accepted"
    ELSE IF "rejected" \in {NativeStatus(a), Previous(a)} THEN "rejected"
    ELSE IF binding.status \in Active THEN "pending"
    ELSE "submit"

\* Mutant: a deferred claim waits although nothing runs.
DispositionPatient(a) ==
    IF AcceptedEvidence(a) THEN "accepted"
    ELSE IF "rejected" \in {NativeStatus(a), Previous(a)} THEN "rejected"
    ELSE IF NativeStatus(a) = "submitting" \/ Previous(a) = "deferred" THEN "pending"
    ELSE IF NativeStatus(a) = "deferred" THEN "submit"
    ELSE "unknown"

\* What a claim found by a later pass may do.  No evidence at all is an
\* unknown outcome, never a licence to submit again.
Disposition(a) ==
    IF AcceptedEvidence(a) THEN "accepted"
    ELSE IF "rejected" \in {NativeStatus(a), Previous(a)} THEN "rejected"
    ELSE IF NativeStatus(a) = "submitting" THEN "pending"
    ELSE IF "deferred" \notin {NativeStatus(a), Previous(a)} THEN "unknown"
    ELSE IF binding.attempt # a /\ binding.status \in Active THEN "pending"
    ELSE "submit"

\* A new attempt for wake w, which the processor goes on to deliver.
Submit(w) ==
    /\ Len(attempts) < MaxAttempts
    /\ attempts' = Append(attempts, [wake |-> w, outcomes |-> <<>>])
    /\ claim' = [wake |-> w, attempt |-> Len(attempts) + 1]
    /\ proc' = [ProcIdle EXCEPT !.step = "prepare", !.attempt = Len(attempts) + 1]

ClaimAgain ==
    /\ claim # NoClaim
    /\ \E d \in {Disposition(claim.attempt)} :
         \/ /\ d \in {"accepted", "rejected", "unknown"}
            /\ Settle(claim.attempt, d)
            /\ UNCHANGED proc
         \/ /\ d = "submit"
            /\ Submit(claim.wake)
            /\ UNCHANGED wakes
    /\ UNCHANGED pending

\* The batch a new wake takes: a replaced Session is announced on its own.
Selected(refs) == IF SessionReplaced \in refs THEN {SessionReplaced} ELSE refs

\* Mutant: what is not announced now is dropped.
RemainderForgotten(refs) == {}

\* The remaining refs are queued again behind it.
Remainder(refs) == refs \ Selected(refs)

ClaimPending ==
    /\ claim = NoClaim /\ pending # {}
    /\ binding.status \notin Active
    /\ \E refs \in {pending \ NonReplayable} :
         \/ /\ refs = {}
            /\ pending' = {}
            /\ UNCHANGED <<claim, wakes, attempts, proc>>
         \/ /\ refs # {}
            /\ wakes' = Append(wakes, [refs |-> Selected(refs), status |-> "open"])
            /\ Submit(Len(wakes) + 1)
            /\ pending' = Remainder(refs)

ClaimLeaderNotification ==
    /\ proc.step = "idle" /\ cleanup = "none"
    /\ ClaimAgain \/ ClaimPending
    /\ UNCHANGED <<binding, observed, inbox, hostVars, session, cleanup, late,
                   native, signals, faults>>

-----------------------------------------------------------------------------
(* The rest of a pass: prepare the Session, send once, settle the answer.  *)

\* prepareRoleSession and waitUntilReady bind the delivery to the Session.
Prepare ==
    /\ proc.step = "prepare"
    /\ proc' = [proc EXCEPT !.step = "send", !.session = session]
    /\ UNCHANGED <<store, binding, observed, inbox, hostVars, session, cleanup,
                   late, native, signals, faults>>

\* A failure before the send is a definite non-delivery: typed backpressure is
\* retried, anything else waits for a correction.
PrepareFails ==
    /\ proc.step = "prepare" /\ Fault
    /\ \E outcome \in {"deferred", "rejected"} : Settle(proc.attempt, outcome)
    /\ proc' = ProcIdle
    /\ UNCHANGED <<pending, binding, observed, inbox, hostVars, session,
                   cleanup, late, native, signals>>

\* tryPush: a Host that is gone refuses the connection and provably saw nothing.
Send ==
    /\ proc.step = "send"
    /\ \/ /\ cleanup # "stopped"
          /\ queue' = Append(queue, [attempt |-> proc.attempt, session |-> proc.session])
          /\ proc' = [proc EXCEPT !.step = "wait"]
          /\ UNCHANGED <<claim, wakes, attempts>>
       \/ /\ cleanup = "stopped"
          /\ Settle(proc.attempt, "deferred")
          /\ proc' = ProcIdle
          /\ UNCHANGED queue
    /\ UNCHANGED <<pending, binding, observed, inbox, host, held, retained, ended,
                   session, cleanup, late, native, signals, faults>>

\* The Host's answer; "pending" leaves the claim without an outcome.
Receive ==
    /\ proc.step = "wait" /\ proc.reply # "none"
    /\ IF proc.reply = "pending" THEN UNCHANGED <<claim, wakes, attempts>>
       ELSE Settle(proc.attempt, proc.reply)
    /\ proc' = ProcIdle
    /\ UNCHANGED <<pending, binding, observed, inbox, hostVars, session,
                   cleanup, late, native, signals, faults>>

\* The answer does not come: the Host reports a still pending submission after
\* its timeout, or the connection breaks and the outcome is unknown.
NoAnswer ==
    /\ proc.step = "wait" /\ Fault
    /\ \/ UNCHANGED <<claim, wakes, attempts>>
       \/ Settle(proc.attempt, "unknown")
    /\ proc' = ProcIdle
    /\ UNCHANGED <<pending, binding, observed, inbox, hostVars, session,
                   cleanup, late, native, signals>>

\* The Controller restarts; a pass in flight leaves only its durable writes.
ControllerCrash ==
    /\ proc # ProcIdle /\ Fault
    /\ proc' = ProcIdle
    /\ UNCHANGED <<store, binding, observed, inbox, hostVars, session, cleanup,
                   late, native, signals>>

-----------------------------------------------------------------------------
(* The Controller's side of the Host's calls.                              *)

\* beginTaskAgentHostProviderTurn: one unsettled run per conversation, none
\* while the Session is being replaced.  The same attempt may register again.
CanBegin(a) ==
    /\ cleanup = "none"
    /\ binding = [attempt |-> a, status |-> "submitting"] \/ binding.status \notin Active

Begun(a) == [attempt |-> a, status |-> "submitting"]

\* settleProviderTurnSubmission, fenced on the attempt.
CanResolve(a, status) ==
    /\ binding.attempt = a
    /\ \/ binding.status \in {status, "submitting"}
       \/ binding.status = "delivery-unknown" /\ status = "rejected"

Resolved(a, status) ==
    IF CanResolve(a, status) THEN [attempt |-> a, status |-> status] ELSE binding

-----------------------------------------------------------------------------
(* submitRun in the Host, one submission at a time.                        *)

\* The submission ends; the processor gets the answer if it still waits for it.
Answer(a, reply) ==
    /\ host' = HostIdle
    /\ proc' = IF proc.step = "wait" /\ proc.attempt = a
               THEN [proc EXCEPT !.reply = reply] ELSE proc

HostUp == cleanup # "stopped"

\* A submission for another Session is refused, one behind an unsettled Turn or
\* an unpersisted event is answered busy; otherwise the Host is occupied before anything is registered.
Take ==
    /\ HostUp /\ host = HostIdle /\ queue # <<>>
    /\ queue' = Tail(queue)
    /\ \E a \in {Head(queue).attempt} :
         \/ /\ Head(queue).session # session
            /\ Answer(a, "rejected") /\ UNCHANGED held
         \/ /\ Head(queue).session = session /\ (held # 0 \/ retained # {})
            /\ Answer(a, "deferred") /\ UNCHANGED held
         \/ /\ Head(queue).session = session /\ held = 0 /\ retained = {}
            /\ host' = [step |-> "begin", attempt |-> a, result |-> "none"]
            /\ held' = a
            /\ UNCHANGED proc
    /\ UNCHANGED <<store, binding, observed, inbox, retained, ended, session,
                   cleanup, late, native, signals, faults>>

\* Registration before the Provider write: admitted, refused as busy, or
\* refused by a fence.  A refusal releases the Host.
Begin ==
    /\ HostUp /\ host.step = "begin"
    /\ \E a \in {host.attempt} :
         \/ /\ CanBegin(a)
            /\ binding' = Begun(a)
            /\ host' = [host EXCEPT !.step = "submit"]
            /\ UNCHANGED <<held, proc>>
         \/ /\ ~CanBegin(a)
            /\ Answer(a, IF cleanup = "none" THEN "deferred" ELSE "rejected")
            /\ held' = 0
            /\ UNCHANGED binding
    /\ UNCHANGED <<store, observed, inbox, queue, retained, ended, session,
                   cleanup, late, native, signals, faults>>

\* The acknowledgement of the call and of its replay is lost: the registration
\* was committed, or is still on its way.
BeginUnacknowledged ==
    /\ HostUp /\ host.step = "begin" /\ Fault
    /\ host' = [host EXCEPT !.step = "resolve", !.result = "unregistered"]
    /\ \/ CanBegin(host.attempt) /\ binding' = Begun(host.attempt) /\ UNCHANGED late
       \/ late' = late \union {host.attempt} /\ UNCHANGED binding
    /\ UNCHANGED <<store, observed, inbox, held, queue, retained, ended, proc,
                   session, cleanup, native, signals>>

LateBegin ==
    /\ \E a \in late :
         /\ late' = late \ {a}
         /\ binding' = IF CanBegin(a) THEN Begun(a) ELSE binding
    /\ UNCHANGED <<store, observed, inbox, hostVars, proc, session, cleanup,
                   native, signals, faults>>

\* The native write: the Provider takes the input and starts its Turn.
Write ==
    /\ HostUp /\ host.step = "submit"
    /\ accepted' = accepted \union {host.attempt}
    /\ running' = host.attempt
    /\ host' = [host EXCEPT !.step = "publish"]
    /\ UNCHANGED <<store, binding, observed, inbox, held, queue, retained, ended,
                   proc, session, cleanup, late, signals, faults>>

\* The Provider refuses it, is busy, or its answer is lost with or without the
\* input having been taken.
WriteFails ==
    /\ HostUp /\ host.step = "submit" /\ Fault
    /\ \E result \in {"rejected", "deferred", "delivery-unknown"} :
         host' = [host EXCEPT !.step = "resolve", !.result = result]
    /\ \/ UNCHANGED native
       \/ /\ host'.result = "delivery-unknown"
          /\ accepted' = accepted \union {host.attempt} /\ running' = host.attempt
    /\ UNCHANGED <<store, binding, observed, inbox, held, queue, retained, ended,
                   proc, session, cleanup, late, signals>>

\* persistAndApply: one publication writes out everything retained so far.
Persist(events) ==
    /\ inbox' = inbox \union retained \union events
    /\ retained' = {}

\* A failed publication keeps its events in memory; some of them may have
\* reached the inbox all the same.
PersistFails(events) ==
    /\ retained' = retained \union events
    /\ inbox' \in {inbox, inbox \union retained'}

\* publishStructuredProviderAccepted.  A Provider that only confirms the pipe
\* write gives transport evidence, which proves nothing: the answer is pending.
Publish ==
    /\ HostUp /\ host.step = "publish"
    /\ \/ Persist({<<"accepted", host.attempt>>}) /\ Answer(host.attempt, "accepted")
       \/ Persist({}) /\ Answer(host.attempt, "pending")
    /\ UNCHANGED <<store, binding, observed, held, queue, ended, session, cleanup,
                   late, native, signals, faults>>

\* The acceptance, or the transport evidence, could not be made durable, or not
\* provably.
PublishFailsAs(result) ==
    /\ HostUp /\ host.step = "publish" /\ Fault
    /\ host' = [host EXCEPT !.step = "resolve", !.result = result]
    /\ \/ PersistFails({<<"accepted", host.attempt>>})
       \/ UNCHANGED <<inbox, retained>>
    /\ UNCHANGED <<store, binding, observed, held, queue, ended, proc, session,
                   cleanup, late, native, signals>>

\* Mutant: a failed publication is settled as a rejection.
PublishFailsRejected == PublishFailsAs("rejected")

\* It is settled as unknown, whatever the Provider said.
PublishFails == PublishFailsAs("delivery-unknown")

\* resolveProviderTurnSubmission: the status sent for a host.result, and the
\* answer once it is settled durably.  A registration settled before any write
\* is a definite rejection.
ResolveStatus(result) == IF result = "unregistered" THEN "rejected" ELSE result
ResolvedAnswer(result) ==
    IF result = "delivery-unknown" THEN "unknown" ELSE ResolveStatus(result)

\* Mutant: the Host is free after an unknown submission, too.
ResolveFreesHost ==
    /\ HostUp /\ host.step = "resolve"
    /\ CanResolve(host.attempt, ResolveStatus(host.result))
    /\ binding' = Resolved(host.attempt, ResolveStatus(host.result))
    /\ Answer(host.attempt, ResolvedAnswer(host.result))
    /\ held' = 0
    /\ UNCHANGED <<store, observed, inbox, queue, retained, ended, session, cleanup,
                   late, native, signals, faults>>

\* The settlement is durable; only an unknown submission keeps the Host occupied.
Resolve ==
    /\ HostUp /\ host.step = "resolve"
    /\ CanResolve(host.attempt, ResolveStatus(host.result))
    /\ binding' = Resolved(host.attempt, ResolveStatus(host.result))
    /\ Answer(host.attempt, ResolvedAnswer(host.result))
    /\ held' = IF host.result = "delivery-unknown" THEN held ELSE 0
    /\ UNCHANGED <<store, observed, inbox, queue, retained, ended, session, cleanup,
                   late, native, signals, faults>>

\* The settlement is refused, because the attempt is not the current one or
\* already has another status, or its acknowledgement is lost: the outcome is
\* unknown and the Host stays occupied.
ResolveFails ==
    /\ HostUp /\ host.step = "resolve"
    /\ \/ /\ ~CanResolve(host.attempt, ResolveStatus(host.result))
          /\ UNCHANGED <<binding, faults>>
       \/ /\ Fault
          /\ binding' \in {binding, Resolved(host.attempt, ResolveStatus(host.result))}
    /\ Answer(host.attempt, "unknown")
    /\ UNCHANGED <<store, observed, inbox, held, queue, retained, ended, session,
                   cleanup, late, native, signals>>

\* The native Turn ends.  The Host remembers its terminal and is free again once
\* that is published; if that fails it stays occupied.
Terminal ==
    /\ HostUp /\ host = HostIdle /\ running # 0
    /\ running' = 0
    /\ ended' = IF held = running THEN running ELSE ended
    /\ \/ /\ Persist({<<"terminal", running>>})
          /\ held' = IF held = running THEN 0 ELSE held
          /\ UNCHANGED faults
       \/ /\ Fault
          /\ PersistFails({<<"terminal", running>>})
          /\ UNCHANGED held
    /\ UNCHANGED <<store, binding, observed, host, queue, proc, session,
                   cleanup, late, accepted, signals>>

\* A full pass asks the Host about each binding whose run is still open; in
\* the scope of the model no binding has a recovery pending.
TerminalWanted == proc.step = "idle" /\ binding.status \in Active

\* recoverTaskHostTerminals, in a full pass of the Controller: it asks the Host
\* of an unsettled run to write out what it retained and to publish its terminal
\* again, which frees the Host.
ReconcileTurn ==
    /\ HostUp /\ host = HostIdle /\ TerminalWanted
    /\ Persist(IF ended = binding.attempt THEN {<<"terminal", ended>>} ELSE {})
    /\ held' = IF held = ended /\ ended = binding.attempt THEN 0 ELSE held
    /\ UNCHANGED <<store, binding, observed, host, queue, ended, proc, session,
                   cleanup, late, native, signals, faults>>

-----------------------------------------------------------------------------
(* Observations, Session replacement and the user's commands.              *)

\* An acceptance moves the binding it names; a terminal proves acceptance and
\* settles it as completed, failed or cancelled, which is one here: a failure is
\* noted beside it and starts no recovery.  A rejected or deferred run admits neither.
FoldedBinding(kind, a) ==
    IF binding.attempt # a \/ binding.status \notin Active THEN binding
    ELSE [binding EXCEPT !.status = IF kind = "accepted" THEN "accepted" ELSE "settled"]

Fold ==
    /\ \E e \in inbox :
         /\ inbox' = inbox \ {e}
         /\ NativeStatus(e[2]) \notin {"rejected", "deferred"}
         /\ binding' = FoldedBinding(e[1], e[2])
         /\ observed' = IF e[1] = "accepted" \/ binding.attempt = e[2]
                        THEN observed \union {e[2]} ELSE observed
    /\ UNCHANGED <<store, hostVars, proc, session, cleanup, late, native,
                   signals, faults>>

RequestReplacement ==
    /\ cleanup = "none" /\ session = 1 /\ Fault
    /\ cleanup' = "requested"
    /\ UNCHANGED <<store, binding, observed, inbox, hostVars, proc, session,
                   late, native, signals>>

\* stopOwner: the Host and the native Turn are gone, at whatever step.
StopOwner ==
    /\ cleanup = "requested"
    /\ cleanup' = "stopped"
    /\ host' = HostIdle /\ held' = 0 /\ queue' = <<>> /\ running' = 0
    /\ retained' = {} /\ ended' = 0
    /\ UNCHANGED <<store, binding, observed, inbox, proc, session, late,
                   accepted, signals, faults>>

\* completeRuntimeCleanup: the open claim is released without replay, and the
\* new Session gets its own notification.  A registration still in flight names
\* the old Session and is refused when it arrives.
CompleteRuntimeCleanup ==
    /\ cleanup = "stopped"
    /\ cleanup' = "none" /\ session' = session + 1
    /\ binding' = NoRun /\ late' = {}
    /\ claim' = NoClaim
    /\ wakes' = IF claim = NoClaim THEN wakes
                ELSE [wakes EXCEPT ![claim.wake].status = "released"]
    /\ pending' = pending \union {SessionReplaced}
    /\ signals' = [refs |-> signals.refs \union {SessionReplaced}, count |-> signals.count]
    /\ UNCHANGED <<attempts, observed, inbox, hostVars, proc, native, faults>>

\* The wait of an in-flight send ends when the Host it was sent to is gone.
HostGone ==
    /\ proc.step = "wait" /\ proc.reply = "none"
    /\ cleanup = "stopped" \/ proc.session # session
    /\ Settle(proc.attempt, "unknown")
    /\ proc' = ProcIdle
    /\ UNCHANGED <<pending, binding, observed, inbox, hostVars, session,
                   cleanup, late, native, signals, faults>>

\* yui task wake retry: only a proven rejection, with the Provider quiescent.
TaskWakeRetry ==
    /\ claim # NoClaim
    /\ \E a \in {claim.attempt} :
         /\ Previous(a) = "rejected" /\ a \notin observed
         /\ binding.status \notin Active
         /\ NativeStatus(a) \in {"none", "rejected"}
    /\ pending' = pending \union wakes[claim.wake].refs
    /\ claim' = NoClaim
    /\ UNCHANGED <<wakes, attempts, binding, observed, inbox, hostVars, proc,
                   session, cleanup, late, native, signals, faults>>

\* The last recorded outcome of a wake: of its current attempt while it is
\* claimed, else of the latest attempt that has one.
WakeOutcome(w) ==
    IF claim.wake = w THEN Previous(claim.attempt)
    ELSE LET told == {a \in DOMAIN attempts : attempts[a].wake = w /\ Outcomes(a) # <<>>}
         IN IF told = {} THEN "none"
            ELSE Previous(CHOOSE a \in told : \A b \in told : b <= a)

\* yui task wake resolve: the wake is given up explicitly; nothing is replayed.
TaskWakeResolve(w) ==
    /\ wakes[w].status = "open"
    /\ WakeOutcome(w) \in {"unknown", "rejected"}
    /\ binding.status \notin Active
    /\ wakes' = [wakes EXCEPT ![w].status = "released"]
    /\ claim' = IF claim.wake = w THEN NoClaim ELSE claim
    /\ UNCHANGED <<pending, attempts, binding, observed, inbox, hostVars, proc,
                   session, cleanup, late, native, signals, faults>>

-----------------------------------------------------------------------------
Controller == ClaimLeaderNotification \/ Prepare \/ Send \/ Receive \/ HostGone
AgentHost == Take \/ Begin \/ Write \/ Publish \/ Resolve \/ ResolveFails \/ Terminal
Faults == PrepareFails \/ NoAnswer \/ ControllerCrash \/ BeginUnacknowledged
          \/ WriteFails \/ PublishFails \/ RequestReplacement
User == TaskWakeRetry \/ (\E w \in DOMAIN wakes : TaskWakeResolve(w))

Next == \/ \E m \in Input : Signal(m)
        \/ Controller \/ ReconcileTurn \/ AgentHost \/ Fold \/ LateBegin
        \/ StopOwner \/ CompleteRuntimeCleanup
        \/ Faults \/ User

Spec == Init /\ [][Next]_vars

\* Passes, full ones too, recur on the Controller's interval, the Host works off
\* its queue, a native Turn ends and an obligation is carried out.  No fault is fair, nor is
\* a command of the user or a registration that is still in flight.
FairSpec == /\ Spec
            /\ WF_vars(Controller) /\ WF_vars(ReconcileTurn)
            /\ WF_vars(AgentHost) /\ WF_vars(Fold)
            /\ WF_vars(StopOwner \/ CompleteRuntimeCleanup)

-----------------------------------------------------------------------------
Ref == Input \union {SessionReplaced}
Outcome == {"accepted", "deferred", "rejected", "unknown"}
AttemptOrNone == 0 .. MaxAttempts

\* The stores, the calls in flight and the bookkeeping have their shapes.
TypeOK ==
    /\ pending \subseteq Ref
    /\ claim \in [wake : 0 .. Len(wakes), attempt : 0 .. Len(attempts)]
    /\ \A w \in DOMAIN wakes : /\ wakes[w].refs \in (SUBSET Ref) \ {{}}
                               /\ wakes[w].status \in {"open", "consumed", "released"}
    /\ \A a \in DOMAIN attempts : /\ attempts[a].wake \in DOMAIN wakes
                                  /\ \A i \in DOMAIN Outcomes(a) : Outcomes(a)[i] \in Outcome
    /\ binding \in [attempt : AttemptOrNone,
                    status : Active \union {"none", "rejected", "deferred", "settled"}]
    /\ observed \union late \union accepted \subseteq DOMAIN attempts
    /\ inbox \union retained \subseteq {"accepted", "terminal"} \X DOMAIN attempts
    /\ held \in AttemptOrNone /\ running \in AttemptOrNone

RefsOf(a) == wakes[attempts[a].wake].refs

\* The Provider takes a message as input at most once, over all its wakes and
\* attempts, the deferred and user-retried ones included, Session replacements and
\* repeated signals: as long as no recovery Turn repeats a failed one (see Scope).
AtMostOnce ==
    \A a, b \in accepted : a # b => RefsOf(a) \intersect RefsOf(b) \subseteq {SessionReplaced}

\* A recorded rejection or deferral, in a delivery event or in the binding, is
\* the truth: the Provider never takes that attempt, before or after.
NegativeEvidenceIsTrue ==
    \A a \in accepted : \A no \in {"rejected", "deferred"} :
        NativeStatus(a) # no /\ no \notin Told(a)

\* A wake is marked consumed only if the Provider took one of its attempts.
ConsumedMeansAccepted ==
    \A w \in DOMAIN wakes :
        wakes[w].status = "consumed" => \E a \in accepted : attempts[a].wake = w

\* Every ref ever signalled is still queued, belongs to the open claim, or to a
\* wake that was consumed or explicitly released.
NoInputLost ==
    \A r \in signals.refs :
        \/ r \in pending
        \/ \E w \in DOMAIN wakes :
              r \in wakes[w].refs /\ (claim.wake = w \/ wakes[w].status # "open")

\* While a native Turn runs, the durable binding is occupied by that attempt
\* and so is the Host: no successor can be registered or written beside it.
RunningTurnIsOwned ==
    running # 0 => /\ binding.attempt = running /\ binding.status \in Active
                   /\ held = running

Taken(m) == \E w \in DOMAIN wakes : /\ m \in wakes[w].refs
                                    /\ \/ wakes[w].status # "open"
                                       \/ \E a \in accepted : attempts[a].wake = w
\* The claim waits for the user: rejected or unknown, and recorded as such.
Parked == claim # NoClaim /\ Previous(claim.attempt) \in {"rejected", "unknown"}
\* The Host is occupied by a submission that no native Turn will end, and whose
\* terminal, if it had one, the Controller no longer misses.
HostStranded ==
    /\ held # 0 /\ host = HostIdle /\ running = 0
    /\ ~(held = ended /\ ended = binding.attempt /\ binding.status \in Active)

\* A queued message reaches the Provider, or the queue stops where the user can
\* see it: at a claim recorded as rejected or unknown, or at a Host stranded
\* with an unknown submission until its Session is replaced.
DeliveryIsDecided ==
    \A m \in Input : m \in pending ~> (Taken(m) \/ Parked \/ HostStranded)

=============================================================================
