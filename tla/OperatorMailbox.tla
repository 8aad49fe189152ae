--------------------------- MODULE OperatorMailbox ---------------------------
(***************************************************************************)
(* How durable facts reach the Operator: producers enqueue one ref per     *)
(* fact on the Operator mailbox (src/scheduler/operatorEvent.ts); the      *)
(* Operator lane of the Controller claims a bounded prefix                 *)
(* (claimOperatorAttention), resolves its refs and transfers them to the   *)
(* Global Message queue (src/scheduler/operatorInputNotificationProcessor  *)
(* .ts, src/controller/operatorNotification.ts).                           *)
(*                                                                         *)
(* Each store transaction is one action.  CLI processes enqueue between    *)
(* any two of them, and the Controller may crash there; the mailbox and    *)
(* the messages are durable, the lane's variables are not.                 *)
(***************************************************************************)
EXTENDS WorkMailbox, FiniteSets

CONSTANTS
  Fact,         \* facts for the Operator: events, input requests, global Job runs
  Input,        \* the facts that are input requests: they may be answered
  ClaimLimit,   \* 64: the facts one claim may take
  MaxCrashes,   \* bound: Controller crashes
  MaxDisturbances  \* bound: transactions that roll back, notices of the message
                   \* health check and losses of the Operator session, together

ASSUME InputsAreFacts == Input \subseteq Fact
ASSUME ClaimLimitPositive == ClaimLimit \in Nat \ {0}
ASSUME BoundsAreNat == {MaxCrashes, MaxDisturbances} \subseteq Nat

(* A batch of facts; the id of a claimed one is its envelope at some earlier time. *)
Batch == [from : Nat, to : Nat, count : Nat, refs : Seq(Fact), keys : Seq(Fact)]
Processing == [id : Nat \X Nat, batch : Batch]

ASSUME NullIsNoBatch == Null \notin Batch /\ Null \notin Processing

VARIABLES
  mailbox,      \* the Operator WorkMailbox
  notices,      \* Global Messages with an operator-notice request id
  raised,       \* facts committed with their signal
  answered,     \* input requests no longer open
  available,    \* an active Operator session with a provider binding
  pc,           \* the Operator lane: idle, claim, resolve, complete, queue, release
  hint,         \* the batch id computed before the claim
  job,          \* the claimed batch in memory
  live,         \* the refs that still need attention
  laneSignal,   \* #operatorSignalScheduler holds the key
  lastSignal,   \* #lastOperatorSignalIdentity
  refused,      \* ghost: a claim threw "cannot be safely partitioned"
  used

lane == <<pc, hint, job, live>>
vars == <<mailbox, notices, raised, answered, available, lane, laneSignal, lastSignal, refused,
          used>>

Spend(b, limit) == used[b] < limit /\ used' = [used EXCEPT ![b] = @ + 1]

Init ==
  /\ mailbox = EmptyMailbox /\ notices = <<>>
  /\ raised = {} /\ answered = {} /\ available = TRUE
  /\ pc = "idle" /\ hint = Null /\ job = Null /\ live = {}
  /\ laneSignal = FALSE /\ lastSignal = Null /\ refused = FALSE
  /\ used = [b \in {"crash", "disturbance"} |-> 0]

(* The pass returns and its locals are gone. *)
LaneEnds == pc' = "idle" /\ hint' = Null /\ job' = Null /\ live' = {}

Unsent == {i \in 1..Len(notices) : notices[i].state = "pending"}

-----------------------------------------------------------------------------
(***************************************************************************)
(* A producer commits a fact.  Saving the event enqueues it                *)
(* (enqueueDurableOperatorFact) and most producers enqueue it again, under *)
(* the same key, in the same transaction.  The notify call that follows    *)
(* (Notify) may be lost.                                                   *)
(***************************************************************************)
Raise(f) ==
  /\ f \notin raised
  /\ raised' = raised \cup {f}
  /\ mailbox' = Enqueue(Enqueue(mailbox, f, <<f>>), f, <<f>>)
  /\ UNCHANGED <<notices, answered, available, lane, laneSignal, lastSignal, refused, used>>

(* External: the user answers an input request, or it times out. *)
Answer(f) ==
  /\ f \in (raised \cap Input) \ answered
  /\ answered' = answered \cup {f}
  /\ UNCHANGED <<mailbox, notices, raised, available, lane, laneSignal, lastSignal, refused,
                 used>>

-----------------------------------------------------------------------------
(* operatorMailboxBatchIdentity *)
Identity ==
  LET b == IF mailbox.processing # Null THEN mailbox.processing.batch ELSE mailbox.pending
  IN  IF b = Null THEN Null ELSE <<b.from, b.to>>

(* Mutant: an unchanged batch is never signalled again. *)
MainPassOnlyNew(retryReady) ==
  /\ LET due == Identity # Null /\ Identity # lastSignal IN
       /\ laneSignal' = (laneSignal \/ due)
       /\ lastSignal' = IF due \/ Identity = Null THEN Identity ELSE lastSignal
  /\ UNCHANGED <<mailbox, notices, raised, answered, available, lane, refused, used>>

(* #signalOperatorMailbox at the end of a main-lane pass; a full pass, or one that
   applied runtime events, is retryReady. *)
MainPass(retryReady) ==
  /\ LET due == Identity # Null /\ (Identity # lastSignal \/ (retryReady /\ available)) IN
       /\ laneSignal' = (laneSignal \/ due)
       /\ lastSignal' = IF due \/ Identity = Null THEN Identity ELSE lastSignal
  /\ UNCHANGED <<mailbox, notices, raised, answered, available, lane, refused, used>>

(* signal("operator"): a notify call of a client, or a delivery retry timer. *)
Notify ==
  /\ laneSignal' = TRUE
  /\ UNCHANGED <<mailbox, notices, raised, answered, available, lane, lastSignal, refused, used>>

(* Mutant: every claim gets the same batch id. *)
LaneStartFixedId ==
  /\ pc = "idle" /\ laneSignal
  /\ laneSignal' = FALSE
  /\ IF HasWork(mailbox) THEN pc' = "claim" /\ hint' = <<"recovery">>
     ELSE UNCHANGED <<pc, hint>>
  /\ UNCHANGED <<mailbox, notices, raised, answered, available, job, live, lastSignal, refused,
                 used>>

(* The Operator pass begins: the batch id is computed from a read of the mailbox. *)
LaneStart ==
  /\ pc = "idle" /\ laneSignal
  /\ laneSignal' = FALSE
  /\ IF HasWork(mailbox)
     THEN /\ pc' = "claim"
          /\ hint' = IF mailbox.pending = Null THEN <<"recovery">>
                     ELSE <<mailbox.pending.from, mailbox.pending.to>>
     ELSE UNCHANGED <<pc, hint>>
  /\ UNCHANGED <<mailbox, notices, raised, answered, available, job, live, lastSignal, refused,
                 used>>

(* The alignment claimOperatorAttention requires before it splits a batch. *)
Partitionable(b) ==
  /\ Len(b.keys) = b.count /\ Len(b.refs) = b.count
  /\ b.to - b.from + 1 = b.count
  /\ \A i \in 1..b.count : b.keys[i] = b.refs[i]

(* Mutant: the refs of the suffix are sliced one place too early. *)
ClaimKeepsLastRef(mb, id) ==
  LET b == mb.pending
      k == ClaimLimit
      prefix == [from |-> b.from, to |-> b.from + k - 1, count |-> k,
                 refs |-> SubSeq(b.refs, 1, k), keys |-> SubSeq(b.keys, 1, k)]
      suffix == [from |-> b.from + k, to |-> b.to, count |-> b.count - k,
                 refs |-> SubSeq(b.refs, k, b.count),
                 keys |-> SubSeq(b.keys, k + 1, b.count)]
  IN  IF b.count <= k THEN Claim(mb, id)
      ELSE [Claim([mb EXCEPT !.pending = prefix], <<prefix.from, prefix.to>>)
              EXCEPT !.pending = suffix]

(* claimOperatorAttention: the first ClaimLimit facts; the suffix stays pending. *)
ClaimAttention(mb, id) ==
  LET b == mb.pending
      k == ClaimLimit
      prefix == [from |-> b.from, to |-> b.from + k - 1, count |-> k,
                 refs |-> SubSeq(b.refs, 1, k), keys |-> SubSeq(b.keys, 1, k)]
      suffix == [from |-> b.from + k, to |-> b.to, count |-> b.count - k,
                 refs |-> SubSeq(b.refs, k + 1, b.count),
                 keys |-> SubSeq(b.keys, k + 1, b.count)]
  IN  IF b.count <= k THEN Claim(mb, id)
      ELSE [Claim([mb EXCEPT !.pending = prefix], <<prefix.from, prefix.to>>)
              EXCEPT !.pending = suffix]

(* The claimWorkMailbox transaction; a batch claimed before a crash is taken up again. *)
LaneClaim ==
  /\ pc = "claim"
  /\ LET fits == CanClaim(mailbox) => mailbox.pending.count <= ClaimLimit
                                        \/ Partitionable(mailbox.pending)
     IN  IF fits /\ HasWork(mailbox)
         THEN /\ mailbox' = IF CanClaim(mailbox) THEN ClaimAttention(mailbox, hint) ELSE mailbox
              /\ job' = mailbox'.processing
              /\ pc' = "resolve" /\ hint' = Null
              /\ UNCHANGED <<live, refused>>
         ELSE /\ LaneEnds /\ refused' = (refused \/ ~fits)
              /\ UNCHANGED mailbox
  /\ UNCHANGED <<notices, raised, answered, available, laneSignal, lastSignal, used>>

(* The refs are read back; answered input requests need no attention. *)
LaneResolve ==
  /\ pc = "resolve"
  /\ live' = Range(job.batch.refs) \ answered
  /\ pc' = IF live' = {} THEN "complete" ELSE "queue"
  /\ UNCHANGED <<mailbox, notices, raised, answered, available, hint, job, laneSignal, lastSignal,
                 refused, used>>

LaneComplete ==
  /\ pc = "complete"
  /\ mailbox' = IF Owns(mailbox, job.id) THEN Complete(mailbox) ELSE mailbox
  /\ LaneEnds
  /\ UNCHANGED <<notices, raised, answered, available, laneSignal, lastSignal, refused, used>>

(* A message for the Operator queue, in the state it is created with. *)
Notice(receipt, refs) == [receipt |-> receipt, refs |-> refs, state |-> "pending"]

(* The message is created and the claim completed in one transaction. *)
Transfer ==
  /\ notices' = Append(notices, Notice(job.id, live))
  /\ mailbox' = Complete(mailbox)
  /\ LaneEnds

(* At most one unsent notice, and an Operator to send it to. *)
MayTransfer == Unsent = {} /\ available

(* queueOperatorNotification *)
LaneQueue ==
  /\ pc = "queue"
  /\ IF \E i \in 1..Len(notices) : notices[i].receipt = job.id
     THEN /\ mailbox' = IF Owns(mailbox, job.id) THEN Complete(mailbox) ELSE mailbox
          /\ LaneEnds /\ UNCHANGED notices
     ELSE IF Owns(mailbox, job.id) /\ MayTransfer THEN Transfer
     ELSE pc' = "release" /\ UNCHANGED <<mailbox, notices, hint, job, live>>
  /\ UNCHANGED <<raised, answered, available, laneSignal, lastSignal, refused, used>>

(* The transaction throws and rolls back. *)
LaneQueueFails ==
  /\ pc = "queue" /\ Spend("disturbance", MaxDisturbances)
  /\ pc' = "release"
  /\ UNCHANGED <<mailbox, notices, raised, answered, available, hint, job, live, laneSignal,
                 lastSignal, refused>>

LaneRelease ==
  /\ pc = "release"
  /\ mailbox' = IF Owns(mailbox, job.id) THEN Release(mailbox) ELSE mailbox
  /\ LaneEnds
  /\ UNCHANGED <<notices, raised, answered, available, laneSignal, lastSignal, refused, used>>

-----------------------------------------------------------------------------
(* The message health check adds its own notice under the same rule. *)
HealthNotice ==
  /\ MayTransfer /\ Spend("disturbance", MaxDisturbances)
  /\ notices' = Append(notices, Notice(<<"health">>, {}))
  /\ UNCHANGED <<mailbox, raised, answered, available, lane, laneSignal, lastSignal, refused>>

(* deliverGlobalInputs settles a notice: sent, or bound to a session that is gone. *)
SettleNotice ==
  /\ \E i \in Unsent, s \in {"delivered", "not-delivered"} :
       notices' = [notices EXCEPT ![i].state = s]
  /\ UNCHANGED <<mailbox, raised, answered, available, lane, laneSignal, lastSignal, refused,
                 used>>

(* External: the Operator session ends, and a new one starts. *)
SessionEnds ==
  /\ available /\ Spend("disturbance", MaxDisturbances)
  /\ available' = FALSE
  /\ UNCHANGED <<mailbox, notices, raised, answered, lane, laneSignal, lastSignal, refused>>

SessionStarts ==
  /\ ~available /\ available' = TRUE
  /\ UNCHANGED <<mailbox, notices, raised, answered, lane, laneSignal, lastSignal, refused, used>>

(* The Controller dies; its successor signals the lane for work that is pending. *)
Crash ==
  /\ Spend("crash", MaxCrashes)
  /\ LaneEnds
  /\ laneSignal' = (Identity # Null) /\ lastSignal' = Identity
  /\ UNCHANGED <<mailbox, notices, raised, answered, available, refused>>

LaneStep == LaneClaim \/ LaneResolve \/ LaneComplete \/ LaneQueue \/ LaneRelease

Next ==
  \/ \E f \in Fact : Raise(f) \/ Answer(f)
  \/ \E r \in BOOLEAN : MainPass(r)
  \/ Notify
  \/ LaneStart \/ LaneStep \/ LaneQueueFails
  \/ HealthNotice \/ SettleNotice \/ SessionEnds \/ SessionStarts \/ Crash

Spec == Init /\ [][Next]_vars

(***************************************************************************)
(* Fairness: the periodic full pass goes on; a signalled lane starts and   *)
(* ends, a queued message is settled and a lost session replaced.  The     *)
(* last four are weak fairness of steps that end their own cause.          *)
(***************************************************************************)
FairSpec ==
  /\ Spec
  /\ WF_vars(MainPass(TRUE))
  /\ []<>~(pc = "idle" /\ laneSignal) /\ []<>(pc = "idle")
  /\ []<>(Unsent = {}) /\ []<>available

-----------------------------------------------------------------------------
Noticed(f) == \E i \in 1..Len(notices) : f \in notices[i].refs

(* The lane and the messages keep their shape, and the stored mailbox always passes
   validateWorkMailbox: no operation on it can throw on its own result. *)
TypeOK ==
  /\ Valid(mailbox)
  /\ \A b \in Batches(mailbox) : Range(b.refs) \subseteq raised
  /\ pc \in {"idle", "claim", "resolve", "complete", "queue", "release"}
  /\ pc \in {"resolve", "complete", "queue", "release"} => job # Null
  /\ raised \subseteq Fact /\ answered \subseteq Input /\ live \subseteq Fact
  /\ {available, laneSignal, refused} \subseteq BOOLEAN

(* A backlog larger than one claim can always be split: coalescing, releases and
   partial claims keep keys, refs and sequence numbers aligned, so the Operator lane
   is never blocked by its own mailbox. *)
BacklogIsSplittable == ~refused

(* No fact is lost: until it is in a message, or its question was answered, a committed
   fact is in the mailbox, whatever crashed or failed. *)
NoFactLost ==
  \A f \in raised \ answered :
    Noticed(f) \/ \E b \in Batches(mailbox) : f \in Range(b.refs)

(* No fact is announced twice, although a claim is retried after a crash. *)
OneNoticePerFact ==
  \A i, j \in 1..Len(notices) : notices[i].refs \cap notices[j].refs # {} => i = j

(* No claim has the id of a notice that is queued already, although its id is computed
   from a read before the claim and a batch comes back after a crash: the transfer takes
   an id it finds for a batch it has announced, and completes the claim unannounced. *)
ClaimIsNew ==
  mailbox.processing # Null =>
    \A i \in 1..Len(notices) : notices[i].receipt # mailbox.processing.id

(* Every fact is eventually announced, or answered first. *)
FactsAreNoticed == \A f \in Fact : (f \in raised) ~> (Noticed(f) \/ f \in answered)

=============================================================================
