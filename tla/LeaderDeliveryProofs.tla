------------------------ MODULE LeaderDeliveryProofs ------------------------
(***************************************************************************)
(* A notification reaches the Provider at most once, what is recorded as   *)
(* not delivered was not, what is consumed was accepted, no input          *)
(* vanishes, and a running Turn is owned: for any messages and any number  *)
(* of signals, attempts, lost calls, crashes and refusals, in the scope    *)
(* LeaderDelivery states (no recovery Turns).  The steps of the Agent Host *)
(* and of its events are proved here, those of the Controller and of the   *)
(* user in LeaderDeliveryInvariant.                                        *)
(***************************************************************************)
EXTENDS LeaderDeliveryInvariant

Reply == {"accepted", "pending", "deferred", "rejected", "unknown"}

(* The end of a submission moves no attempt; the processor hears of its own only, and the
   truth if the reply is true. *)
LEMMA AnswerFacts ==
  ASSUME Inv, NEW a, NEW reply \in Reply, Answer(a, reply)
  PROVE  /\ host' = HostIdle /\ host'.step = "idle" /\ host' \in Submission /\ proc' \in Proc
         /\ \A b \in Nat : InProc(b)' = InProc(b) /\ ~InHost(b)'
         /\ Submitted'
         /\ Shrinks /\ UNCHANGED <<attempts, accepted>>
            /\ (reply \in No => ~Possible(a)') /\ (reply = "accepted" => a \in accepted)
            => Answered'
<1>1. host' = HostIdle /\ host'.step = "idle" /\ host' \in Submission
  BY DEF Answer, HostIdle, Submission
<1>2. /\ proc' \in Proc /\ proc'.step = proc.step /\ proc'.attempt = proc.attempt
      /\ \/ proc'.reply = proc.reply
         \/ proc.step = "wait" /\ proc.attempt = a /\ proc'.reply = reply
  BY DEF Inv, Types, Proc, Answer, Reply
<1>3. \A b \in Nat : InProc(b)' = InProc(b) /\ ~InHost(b)'
  BY <1>1, <1>2 DEF InProc, InHost
<1>4. Submitted'
  BY <1>1 DEF Submitted
<1>5. ASSUME Shrinks, UNCHANGED <<attempts, accepted>>,
             reply \in No => ~Possible(a)', reply = "accepted" => a \in accepted
      PROVE  Answered'
  <2>1. Answered
    BY DEF Inv, Evidence
  <2>2. PICK b : b = proc.attempt
    OBVIOUS
  <2>3. proc.reply \in No => ~Possible(b)'
    BY <1>5, <2>1, <2>2 DEF Answered, Shrinks, No
  <2>4. proc'.reply \in No => ~Possible(b)'
    BY <1>2, <1>5, <2>2, <2>3
  <2>5. proc'.attempt = b
    BY <1>2, <2>2
  <2> QED BY <1>2, <1>5, <2>1, <2>2, <2>4, <2>5 DEF Answered
<1> QED BY <1>1, <1>2, <1>3, <1>4, <1>5

(* The head of the queue leaves it, and is nowhere else. *)
LEMMA HeadLeaves ==
  ASSUME Inv, queue # <<>>, queue' = Tail(queue), NEW a, a = Head(queue).attempt
  PROVE  /\ queue' \in Seq(Request) /\ a \in DOMAIN attempts /\ a \in Nat
         /\ \A b \in Nat : InQueue(b)' <=> InQueue(b) /\ b # a
         /\ \A i, j \in DOMAIN queue' : queue'[i].attempt = queue'[j].attempt => i = j
         /\ InQueue(a) /\ ~InProc(a) /\ ~InHost(a) /\ a \notin accepted
<1>1. queue \in Seq(Request)
  BY DEF Inv, Types
<1>2. /\ 1 \in DOMAIN queue /\ queue[1].attempt = a
      /\ queue' \in Seq(Request)
      /\ \A i \in DOMAIN queue' : i + 1 \in DOMAIN queue /\ i + 1 # 1 /\ queue'[i] = queue[i + 1]
      /\ \A i \in DOMAIN queue : i # 1 => i - 1 \in DOMAIN queue' /\ queue'[i - 1] = queue[i]
      /\ \A i, j \in DOMAIN queue' : i + 1 = j + 1 => i = j
  BY <1>1
<1>3. \A i, j \in DOMAIN queue : queue[i].attempt = queue[j].attempt => i = j
  BY DEF Inv, Travel, OnePlace
<1>4. a \in Nat /\ InQueue(a)
  BY <1>2, Numbers DEF InQueue, Inv
<1>5. ~InProc(a) /\ ~InHost(a) /\ a \notin accepted /\ a \in DOMAIN attempts
  BY <1>4 DEF Inv, Travel, OnePlace, Known, Live, Possible
<1>6. \A b \in Nat : InQueue(b)' <=> InQueue(b) /\ b # a
  <2>1. ASSUME NEW b \in Nat, InQueue(b)' PROVE InQueue(b) /\ b # a
    <3>1. PICK i \in DOMAIN queue' : queue'[i].attempt = b
      BY <2>1 DEF InQueue
    <3>2. i + 1 \in DOMAIN queue /\ i + 1 # 1 /\ queue[i + 1].attempt = b
      BY <1>2, <3>1
    <3> QED BY <1>2, <1>3, <3>2 DEF InQueue
  <2>2. ASSUME NEW b \in Nat, InQueue(b), b # a PROVE InQueue(b)'
    <3>1. PICK i \in DOMAIN queue : queue[i].attempt = b
      BY <2>2 DEF InQueue
    <3>2. i - 1 \in DOMAIN queue' /\ queue'[i - 1].attempt = b
      BY <1>2, <2>2, <3>1
    <3> QED BY <3>2 DEF InQueue
  <2> QED BY <2>1, <2>2
<1>7. \A i, j \in DOMAIN queue' : queue'[i].attempt = queue'[j].attempt => i = j
  BY <1>2, <1>3
<1> QED BY <1>2, <1>4, <1>5, <1>6, <1>7

(* The Host takes a request: it answers, or becomes occupied. *)
LEMMA TakeStep ==
  ASSUME Inv, Take PROVE Inv'
<1>1. UNCHANGED <<binding, observed, inbox, retained, ended, session, cleanup, late,
                  accepted, running, pending, claim, wakes, attempts, signals>>
  BY DEF Take, store, native
<1>2. UNCHANGED store /\ queue # <<>> /\ queue' = Tail(queue) /\ cleanup # "stopped" /\ host = HostIdle
  BY DEF Take, HostUp
<1>3. PICK a : a = Head(queue).attempt
  OBVIOUS
<1>4. /\ queue' \in Seq(Request) /\ a \in DOMAIN attempts /\ a \in Nat
      /\ \A b \in Nat : InQueue(b)' <=> InQueue(b) /\ b # a
      /\ \A i, j \in DOMAIN queue' : queue'[i].attempt = queue'[j].attempt => i = j
      /\ InQueue(a) /\ ~InProc(a) /\ ~InHost(a) /\ a \notin accepted
  BY <1>2, <1>3, HeadLeaves
<1>5. ASSUME NEW reply \in {"rejected", "deferred"}, Answer(a, reply), UNCHANGED held PROVE Inv'
  <2>1. reply \in Reply
    BY DEF Reply
  <2>2. /\ host' = HostIdle /\ host' \in Submission /\ proc' \in Proc /\ host'.step = "idle"
        /\ \A b \in Nat : InProc(b)' = InProc(b) /\ ~InHost(b)'
        /\ Submitted'
    BY <1>5, <2>1, AnswerFacts
  <2>3. Types'
    BY <1>1, <1>4, <2>2 DEF Inv, Types
  <2>4. Retreat
    BY <1>1, <1>4, <2>2 DEF Retreat
  <2>5. Shrinks /\ Known' /\ Travel'
    BY <1>1, <2>4, RetreatFacts
  <2>6. ~Possible(a)'
    BY <1>1, <1>4, <2>2 DEF Possible, Live
  <2>7. Answered'
    BY <1>1, <1>5, <2>1, <2>5, <2>6, AnswerFacts
  <2>8. Delivered' /\ Bound' /\ Observed'
    BY <1>1, <2>5, EvidenceKept
  <2>9. Turn' /\ RunningTurnIsOwned'
    BY <1>1, <1>2, <1>5, <2>2 DEF Inv, Turn, RunningTurnIsOwned
  <2> QED BY <1>1, <1>2, <2>2, <2>3, <2>5, <2>7, <2>8, <2>9, StoreStands DEF Inv, Evidence
<1>6. ASSUME held = 0, host' = [step |-> "begin", attempt |-> a, result |-> "none"],
             held' = a, UNCHANGED proc
      PROVE  Inv'
  <2>1. host' \in Submission /\ host'.step = "begin" /\ host'.attempt = a
    BY <1>4, <1>6 DEF Submission
  <2>2. Types'
    BY <1>1, <1>4, <1>6, <2>1 DEF Inv, Types
  <2>3. \A b \in Nat : InProc(b)' = InProc(b) /\ ~InHost(b) /\ (InHost(b)' <=> b = a)
    BY <1>2, <1>6, <2>1 DEF InProc, InHost, HostIdle
  <2>4. \A b \in Nat : Possible(b)' <=> Possible(b)
    BY <1>1, <1>4, <2>3 DEF Possible, Live
  <2>5. Shrinks /\ Known'
    BY <1>1, <2>4, Numbers DEF Inv, Shrinks, Travel, Known
  <2>6. OnePlace'
    BY <1>1, <1>4, <2>3 DEF Inv, Travel, OnePlace, Live
  <2>7. Submitted'
    BY <1>1, <1>4, <2>1 DEF Submitted
  <2>8. Delivered' /\ Bound' /\ Answered' /\ Observed'
    BY <1>1, <1>6, <2>5, EvidenceKept
  <2>9. running = 0
    BY <1>6 DEF Inv, RunningTurnIsOwned
  <2>10. Turn' /\ RunningTurnIsOwned'
    BY <1>1, <1>2, <1>6, <2>1, <2>9 DEF Turn, RunningTurnIsOwned
  <2> QED BY <1>1, <1>2, <2>2, <2>5, <2>6, <2>7, <2>8, <2>10, StoreStands DEF Inv, Evidence, Travel
<1> QED BY <1>3, <1>5, <1>6 DEF Take

(* A submission that ends before its write cannot reach the Provider any more. *)
LEMMA EndsUnwritten ==
  ASSUME Inv, host.step \in {"begin", "submit"}, NEW a, a = host.attempt,
         \A b \in Nat : InProc(b)' = InProc(b) /\ ~InHost(b)',
         UNCHANGED <<queue, accepted, attempts>>
  PROVE  Shrinks /\ Known' /\ Travel' /\ ~Possible(a)'
<1>1. a \in Nat /\ InHost(a)
  BY Numbers DEF Inv, InHost
<1>2. ~InProc(a) /\ ~InQueue(a) /\ a \notin accepted
  BY <1>1 DEF Inv, Travel, OnePlace, Live
<1>3. \A b \in Nat : InQueue(b)' = InQueue(b)
  BY DEF InQueue
<1>4. ~Possible(a)'
  BY <1>1, <1>2, <1>3 DEF Possible, Live
<1>5. Retreat
  BY <1>3 DEF Retreat, Inv, Travel, OnePlace
<1> QED BY <1>4, <1>5, RetreatFacts

(* The Host holds the attempt of its submission, and before the write nothing runs. *)
LEMMA Occupied ==
  ASSUME Inv, host.step # "idle"
  PROVE  /\ host.attempt \in DOMAIN attempts /\ host.attempt \in Nat /\ host.attempt # 0
         /\ held = host.attempt
         /\ host.step \in {"begin", "submit"} => running = 0
BY Numbers DEF Inv, Evidence, Submitted, Turn

(* A registration touches neither a Turn that runs nor another submission. *)
LEMMA RegistrationIsSafe ==
  ASSUME Inv, NEW a \in DOMAIN attempts, CanBegin(a), binding' = Begun(a), UNCHANGED attempts
  PROVE  /\ binding' \in Binding /\ Bound'
         /\ running # 0 => binding' = binding
         /\ host.step = "submit" => binding' = binding
<1>1. a \in Nat
  BY Numbers DEF Inv
<1>2. binding'.attempt = a /\ binding'.status = "submitting" /\ binding' \in Binding
  BY <1>1 DEF Begun, Binding, Active
<1>3. Bound'
  BY <1>2 DEF Bound, No
<1>4. binding.status \in Active => binding' = binding
  BY DEF CanBegin, Begun
<1>5. running # 0 => binding' = binding
  BY <1>4 DEF Inv, RunningTurnIsOwned
<1>6. host.step = "submit" => binding.status = "submitting"
  BY DEF Inv, Turn, Begun
<1>7. host.step = "submit" => binding' = binding
  BY <1>4, <1>6 DEF Active
<1> QED BY <1>2, <1>3, <1>5, <1>7

(* The attempt is registered, or refused and gone. *)
LEMMA BeginStep ==
  ASSUME Inv, Begin PROVE Inv'
<1>1. UNCHANGED <<observed, inbox, queue, retained, ended, session, cleanup, late,
                  accepted, running, pending, claim, wakes, attempts, signals>>
  BY DEF Begin, store, native
<1>2. UNCHANGED store /\ host.step = "begin" /\ cleanup # "stopped"
  BY DEF Begin, HostUp
<1>3. PICK a \in DOMAIN attempts : a = host.attempt /\ a \in Nat /\ a # 0
  BY <1>2, Occupied
<1>4. held = a /\ running = 0
  BY <1>2, <1>3, Occupied
<1>5. ASSUME CanBegin(a), binding' = Begun(a), host' = [host EXCEPT !.step = "submit"],
             UNCHANGED <<held, proc>>
      PROVE  Inv'
  <2>1. host' \in Submission /\ host'.step = "submit" /\ host'.attempt = a
    BY <1>3, <1>5 DEF Inv, Types, Submission
  <2>2. binding' \in Binding /\ Bound'
    BY <1>1, <1>5, RegistrationIsSafe
  <2>3. Types'
    BY <1>1, <1>5, <2>1, <2>2 DEF Inv, Types
  <2>4. \A b \in Nat : InProc(b)' = InProc(b) /\ InQueue(b)' = InQueue(b) /\ InHost(b)' = InHost(b)
    BY <1>1, <1>2, <1>3, <1>5, <2>1 DEF InProc, InQueue, InHost
  <2>5. Retreat
    BY <1>1, <2>4 DEF Retreat, Inv, Travel, OnePlace
  <2>6. Shrinks /\ Known' /\ Travel'
    BY <1>1, <2>5, RetreatFacts
  <2>7. Submitted'
    BY <1>1, <2>1 DEF Submitted
  <2>8. Delivered' /\ Answered' /\ Observed'
    BY <1>1, <1>5, <2>6, EvidenceKept
  <2>9. Turn' /\ RunningTurnIsOwned'
    BY <1>1, <1>2, <1>4, <1>5, <2>1 DEF Turn, RunningTurnIsOwned
  <2> QED BY <1>1, <1>2, <2>2, <2>3, <2>6, <2>7, <2>8, <2>9, StoreStands DEF Inv, Evidence
<1>6. ASSUME NEW reply \in {"rejected", "deferred"}, Answer(a, reply), held' = 0, UNCHANGED binding
      PROVE  Inv'
  <2>1. reply \in Reply
    BY DEF Reply
  <2>2. /\ host' = HostIdle /\ host' \in Submission /\ proc' \in Proc /\ host'.step = "idle"
        /\ \A b \in Nat : InProc(b)' = InProc(b) /\ ~InHost(b)'
        /\ Submitted'
    BY <1>6, <2>1, AnswerFacts
  <2>3. Types'
    BY <1>1, <1>6, <2>2 DEF Inv, Types
  <2>4. Shrinks /\ Known' /\ Travel' /\ ~Possible(a)'
    BY <1>1, <1>2, <1>3, <2>2, EndsUnwritten
  <2>5. Answered'
    BY <1>1, <1>6, <2>1, <2>4, AnswerFacts
  <2>6. Delivered' /\ Bound' /\ Observed'
    BY <1>1, <1>6, <2>4, EvidenceKept
  <2>7. Turn' /\ RunningTurnIsOwned'
    BY <1>1, <1>2, <1>4, <2>2 DEF Turn, RunningTurnIsOwned
  <2> QED BY <1>1, <1>2, <2>2, <2>3, <2>4, <2>5, <2>6, <2>7, StoreStands DEF Inv, Evidence
<1>7. \/ /\ CanBegin(a) /\ binding' = Begun(a) /\ host' = [host EXCEPT !.step = "submit"]
         /\ UNCHANGED <<held, proc>>
      \/ \E reply \in {"rejected", "deferred"} : Answer(a, reply) /\ held' = 0 /\ UNCHANGED binding
  BY <1>3 DEF Begin
<1> QED BY <1>5, <1>6, <1>7

(* The registration may have been made, but nothing was written for it. *)
LEMMA BeginUnacknowledgedStep ==
  ASSUME Inv, BeginUnacknowledged PROVE Inv'
<1>1. UNCHANGED <<observed, inbox, held, queue, retained, ended, proc, session, cleanup,
                  accepted, running, pending, claim, wakes, attempts, signals>>
  BY DEF BeginUnacknowledged, store, native
<1>2. UNCHANGED store /\ host.step = "begin" /\ cleanup # "stopped"
  BY DEF BeginUnacknowledged, HostUp
<1>3. PICK a \in DOMAIN attempts : a = host.attempt /\ a \in Nat /\ a # 0
  BY <1>2, Occupied
<1>4. held = a /\ running = 0
  BY <1>2, <1>3, Occupied
<1>5. host' \in Submission /\ host'.step = "resolve" /\ host'.attempt = a /\ host'.result = "unregistered"
  BY Zenon, <1>3 DEF BeginUnacknowledged, Inv, Types, Submission
<1>6. \A b \in Nat : InProc(b)' = InProc(b) /\ ~InHost(b)'
  BY <1>1, <1>5 DEF InProc, InHost
<1>7. Shrinks /\ Known' /\ Travel' /\ ~Possible(a)'
  BY <1>1, <1>2, <1>3, <1>6, EndsUnwritten
<1>8. \/ CanBegin(a) /\ binding' = Begun(a) /\ UNCHANGED late
      \/ late' = late \union {a} /\ UNCHANGED binding
  BY <1>3 DEF BeginUnacknowledged
<1>9. binding' \in Binding /\ Bound'
  <2>1. CASE CanBegin(a) /\ binding' = Begun(a)
    BY <1>1, <2>1, RegistrationIsSafe
  <2>2. CASE UNCHANGED binding
    BY <1>1, <1>7, <2>2, EvidenceKept DEF Inv, Types
  <2> QED BY <1>8, <2>1, <2>2
<1>10. Types'
  BY <1>1, <1>5, <1>9 DEF Inv, Types
<1>11. Submitted'
  BY <1>1, <1>5, <1>7 DEF Submitted
<1>12. Observed'
  BY <1>1, <1>8 DEF Inv, Evidence, Observed
<1>13. Delivered' /\ Answered'
  BY <1>1, <1>7, EvidenceKept
<1>14. Turn' /\ RunningTurnIsOwned'
  BY <1>1, <1>2, <1>4, <1>5 DEF Turn, RunningTurnIsOwned
<1> QED BY <1>1, <1>2, <1>7, <1>9, <1>10, <1>11, <1>12, <1>13, <1>14, StoreStands DEF Inv, Evidence

(* A registration that arrives late waits behind whatever is active. *)
LEMMA LateBeginStep ==
  ASSUME Inv, LateBegin PROVE Inv'
<1>1. UNCHANGED <<observed, inbox, host, held, queue, retained, ended, proc, session, cleanup,
                  accepted, running, pending, claim, wakes, attempts, signals>>
  BY DEF LateBegin, store, hostVars, native
<1>2. UNCHANGED store
  BY DEF LateBegin
<1>3. PICK a \in late : /\ late' = late \ {a}
                        /\ binding' = IF CanBegin(a) THEN Begun(a) ELSE binding
  BY DEF LateBegin
<1>4. a \in DOMAIN attempts
  BY DEF Inv, Evidence, Observed
<1>5. /\ Shrinks /\ Known' /\ Travel'
      /\ Delivered' /\ Answered' /\ Submitted' /\ (UNCHANGED binding => Bound')
  BY <1>1, PlacesStand
<1>6. /\ binding' \in Binding /\ Bound'
      /\ running # 0 => binding' = binding
      /\ host.step = "submit" => binding' = binding
  <2>1. CASE CanBegin(a)
    BY <1>1, <1>3, <1>4, <2>1, RegistrationIsSafe
  <2>2. CASE ~CanBegin(a)
    BY <1>3, <1>5, <2>2 DEF Inv, Types
  <2> QED BY <2>1, <2>2
<1>7. Types'
  BY <1>1, <1>6 DEF Inv, Types
<1>8. Observed'
  BY <1>1, <1>3 DEF Inv, Evidence, Observed
<1>9. Turn' /\ RunningTurnIsOwned'
  BY <1>1, <1>6 DEF Inv, Turn, RunningTurnIsOwned
<1> QED BY <1>1, <1>2, <1>5, <1>6, <1>7, <1>8, <1>9, StoreStands DEF Inv, Evidence

(* The Provider takes the attempt in the Host, for the first time, and no other Turn runs. *)
LEMMA TakenStep ==
  ASSUME Inv, host.step = "submit", HostUp, NEW a, a = host.attempt,
         accepted' = accepted \union {a}, running' = a,
         host' \in Submission, host'.attempt = a,
         \/ host'.step = "publish"
         \/ host'.step = "resolve" /\ host'.result = "delivery-unknown",
         UNCHANGED store,
         UNCHANGED <<binding, observed, inbox, held, queue, retained, ended, proc, session,
                     cleanup, late, signals>>
  PROVE  Inv'
<1>1. UNCHANGED <<pending, claim, wakes, attempts>>
  BY DEF store
<1>2. a \in DOMAIN attempts /\ a \in Nat /\ a # 0 /\ held = a
  BY Occupied
<1>3. InHost(a)
  BY DEF InHost
<1>4. ~InProc(a) /\ ~InQueue(a) /\ a \notin accepted
  BY <1>2, <1>3 DEF Inv, Travel, OnePlace, Live
<1>5. \A b \in Nat : /\ InProc(b)' = InProc(b) /\ InQueue(b)' = InQueue(b)
                     /\ ~InHost(b)' /\ (InHost(b) <=> b = a)
  BY DEF InProc, InQueue, InHost
<1>6. \A b \in Nat : Possible(b)' <=> Possible(b)
  BY <1>5 DEF Possible, Live
<1>7. Shrinks /\ Known'
  BY <1>1, <1>6, Numbers DEF Inv, Shrinks, Travel, Known
<1>8. OnePlace'
  BY <1>4, <1>5 DEF Inv, Travel, OnePlace, Live
<1>9. Types'
  BY Zenon, <1>1, <1>2 DEF Inv, Types
<1>10. Submitted'
  BY <1>1, <1>2 DEF Submitted
<1>11. Observed'
  BY <1>1 DEF Inv, Evidence, Observed
<1>12. Delivered' /\ Bound' /\ Answered'
  BY <1>1, <1>7, EvidenceKept
<1>13. ended # a /\ <<"terminal", a>> \notin inbox \union retained
  <2>1. ended # a
    BY <1>2, <1>4 DEF Inv, Evidence, Observed
  <2>2. ASSUME <<"terminal", a>> \in inbox \union retained PROVE FALSE
    <3>1. PICK kind \in {"accepted", "terminal"}, b \in accepted : <<"terminal", a>> = <<kind, b>>
      BY <2>2 DEF Inv, Evidence, Observed
    <3> QED BY <1>4, <3>1
  <2> QED BY <2>1, <2>2
<1>14. binding.attempt = a /\ binding.status \in Active
  BY DEF Inv, Turn, Begun, Active
<1>15. Turn' /\ RunningTurnIsOwned'
  BY <1>2, <1>13, <1>14 DEF Turn, RunningTurnIsOwned, HostUp
<1>16. Current' /\ Disjoint' /\ Journal' /\ ConsumedMeansAccepted' /\ NoInputLost'
  BY <1>7, StoreStands
<1> QED BY <1>7, <1>8, <1>9, <1>10, <1>11, <1>12, <1>15, <1>16 DEF Inv, Evidence, Travel

(* The native write. *)
LEMMA WriteStep ==
  ASSUME Inv, Write PROVE Inv'
<1>1. PICK a : a = host.attempt
  OBVIOUS
<1>2. host' \in Submission /\ host'.attempt = a /\ host'.step = "publish"
  BY <1>1 DEF Write, Inv, Types, Submission
<1>3. /\ UNCHANGED <<binding, observed, inbox, held, queue, retained, ended, proc, session,
                     cleanup, late, signals>>
      /\ UNCHANGED store /\ HostUp /\ host.step = "submit"
  BY DEF Write
<1>4. accepted' = accepted \union {a} /\ running' = a
  BY <1>1 DEF Write
<1> QED BY <1>1, <1>2, <1>3, <1>4, TakenStep

(* The write fails: definitely not taken, or taken or not with an unknown answer. *)
LEMMA WriteFailsStep ==
  ASSUME Inv, WriteFails PROVE Inv'
<1>1. PICK a : a = host.attempt
  OBVIOUS
<1>2. /\ UNCHANGED <<binding, observed, inbox, held, queue, retained, ended, proc, session,
                     cleanup, late, signals>>
      /\ UNCHANGED store /\ HostUp /\ host.step = "submit"
  BY DEF WriteFails
<1>3. PICK result \in {"rejected", "deferred", "delivery-unknown"} :
         host' = [host EXCEPT !.step = "resolve", !.result = result]
  BY Zenon DEF WriteFails
<1>4. /\ host' \in Submission /\ host'.attempt = a /\ host'.step = "resolve"
      /\ host'.result = result
  BY Zenon, <1>1, <1>3 DEF Inv, Types, Submission
<1>5. CASE host'.result = "delivery-unknown" /\ accepted' = accepted \union {a} /\ running' = a
  BY <1>1, <1>2, <1>4, <1>5, TakenStep
<1>6. CASE UNCHANGED native
  <2>1. UNCHANGED <<pending, claim, wakes, attempts, accepted, running>>
    BY <1>2, <1>6 DEF store, native
  <2>2. a \in DOMAIN attempts /\ held = a /\ running = 0
    BY <1>1, <1>2, Occupied
  <2>3. \A b \in Nat : InProc(b)' = InProc(b) /\ ~InHost(b)'
    BY <1>2, <1>4 DEF InProc, InHost
  <2>4. Shrinks /\ Known' /\ Travel' /\ ~Possible(a)'
    BY <1>1, <1>2, <2>1, <2>3, EndsUnwritten
  <2>5. Types'
    BY <1>2, <1>4, <2>1 DEF Inv, Types
  <2>6. Submitted'
    BY <1>3, <1>4, <2>1, <2>2, <2>4 DEF Submitted
  <2>7. Delivered' /\ Bound' /\ Answered' /\ Observed'
    BY <1>2, <2>1, <2>4, EvidenceKept
  <2>8. Turn' /\ RunningTurnIsOwned'
    BY <1>2, <1>4, <2>1, <2>2 DEF Turn, RunningTurnIsOwned, HostUp
  <2> QED BY <1>2, <2>1, <2>4, <2>5, <2>6, <2>7, <2>8, StoreStands DEF Inv, Evidence
<1> QED BY <1>1, <1>5, <1>6 DEF WriteFails

-----------------------------------------------------------------------------
(* Events that tell of accepted attempts, and of the end of no Turn that runs, may be added
   to the inbox and to what the Host retains. *)
LEMMA EventsFacts ==
  ASSUME Inv, NEW events,
         \A e \in inbox' \union retained' : e \in inbox \union retained \union events,
         \A e \in events : \E kind \in {"accepted", "terminal"}, a \in accepted : e = <<kind, a>>,
         running' # 0 => running' = running /\ <<"terminal", running>> \notin events,
         ended' = ended \/ ended' = running,
         UNCHANGED <<observed, late, accepted, attempts>>
  PROVE  /\ Observed'
         /\ running' # 0 => <<"terminal", running'>> \notin inbox' \union retained'
<1>1. Observed
  BY DEF Inv, Evidence
<1>2. \A e \in inbox' \union retained' :
         \E kind \in {"accepted", "terminal"}, a \in accepted' : e = <<kind, a>>
  BY <1>1 DEF Observed
<1>3. (ended' # 0 => ended' \in accepted') /\ (running' # 0 => running' \in accepted')
  BY <1>1 DEF Observed
<1>4. Observed'
  BY <1>1, <1>2, <1>3 DEF Observed
<1>5. running' # 0 => <<"terminal", running'>> \notin inbox' \union retained'
  BY DEF Inv, Turn
<1> QED BY <1>4, <1>5

(* What a publication, or a failed one, may leave behind. *)
LEMMA Persisted ==
  ASSUME NEW events, Persist(events) \/ PersistFails(events)
  PROVE  \A e \in inbox' \union retained' : e \in inbox \union retained \union events
BY DEF Persist, PersistFails

(* The Host tells what it knows of an accepted attempt. *)
LEMMA PublishStep ==
  ASSUME Inv, Publish PROVE Inv'
<1>1. UNCHANGED <<binding, observed, held, queue, ended, session, cleanup, late,
                  accepted, running, pending, claim, wakes, attempts, signals>>
  BY DEF Publish, store, native
<1>2. UNCHANGED store /\ host.step = "publish" /\ cleanup # "stopped"
  BY DEF Publish, HostUp
<1>3. PICK a \in accepted : a = host.attempt
  BY <1>2 DEF Inv, Evidence, Submitted
<1>4. PICK reply \in Reply, events \in {{}, {<<"accepted", a>>}} :
         Answer(a, reply) /\ Persist(events) /\ reply \in {"accepted", "pending"}
  BY <1>3 DEF Publish, Reply
<1>5. /\ host' = HostIdle /\ host' \in Submission /\ proc' \in Proc /\ host'.step = "idle"
      /\ \A b \in Nat : InProc(b)' = InProc(b) /\ ~InHost(b)'
      /\ Submitted'
  BY <1>4, AnswerFacts
<1>6. Types'
  BY <1>1, <1>5 DEF Inv, Types
<1>7. Retreat
  BY <1>1, <1>5 DEF Retreat, InQueue, Inv, Travel, OnePlace
<1>8. Shrinks /\ Known' /\ Travel'
  BY <1>1, <1>7, RetreatFacts
<1>9. Answered'
  BY <1>1, <1>4, <1>8, AnswerFacts DEF No
<1>10. Delivered' /\ Bound'
  BY <1>1, <1>8, EvidenceKept
<1>11. /\ Observed'
       /\ running' # 0 => <<"terminal", running'>> \notin inbox' \union retained'
  <2>1. \A e \in events : e = <<"accepted", a>>
    BY <1>4
  <2>2. \A e \in events : \E kind \in {"accepted", "terminal"}, b \in accepted : e = <<kind, b>>
    BY <2>1
  <2>3. <<"terminal", running>> \notin events
    BY <2>1
  <2> QED BY <1>1, <1>4, <2>2, <2>3, EventsFacts, Persisted
<1>12. Turn' /\ RunningTurnIsOwned'
  BY <1>1, <1>2, <1>5, <1>11 DEF Inv, Turn, RunningTurnIsOwned
<1> QED BY <1>1, <1>2, <1>5, <1>6, <1>8, <1>9, <1>10, <1>11, <1>12, StoreStands DEF Inv, Evidence

(* The publication fails, and the outcome stays unknown. *)
LEMMA PublishFailsStep ==
  ASSUME Inv, PublishFails PROVE Inv'
<1>1. UNCHANGED <<binding, observed, held, queue, ended, proc, session, cleanup, late,
                  accepted, running, pending, claim, wakes, attempts, signals>>
  BY DEF PublishFails, PublishFailsAs, store, native
<1>2. UNCHANGED store /\ host.step = "publish" /\ cleanup # "stopped"
  BY DEF PublishFails, PublishFailsAs, HostUp
<1>3. PICK a \in accepted : a = host.attempt
  BY <1>2 DEF Inv, Evidence, Submitted
<1>4. /\ host' \in Submission /\ host'.step = "resolve" /\ host'.attempt = a
      /\ host'.result = "delivery-unknown"
  BY Zenon, <1>3 DEF PublishFails, PublishFailsAs, Inv, Types, Submission
<1>5. PersistFails({<<"accepted", a>>}) \/ UNCHANGED <<inbox, retained>>
  BY <1>3 DEF PublishFails, PublishFailsAs
<1>6. Types'
  BY <1>1, <1>4 DEF Inv, Types
<1>7. Retreat
  BY <1>1, <1>4 DEF Retreat, InProc, InQueue, InHost, Inv, Travel, OnePlace
<1>8. Shrinks /\ Known' /\ Travel'
  BY <1>1, <1>7, RetreatFacts
<1>9. Delivered' /\ Bound' /\ Answered'
  BY <1>1, <1>8, EvidenceKept
<1>10. a \in DOMAIN attempts /\ held = a
  BY <1>2, <1>3, Occupied
<1>11. Submitted'
  BY <1>1, <1>4, <1>10 DEF Submitted
<1>12. /\ Observed'
       /\ running' # 0 => <<"terminal", running'>> \notin inbox' \union retained'
  <2> DEFINE events == {<<"accepted", a>>}
  <2>1. \A e \in inbox' \union retained' : e \in inbox \union retained \union events
    BY <1>5, Persisted
  <2>2. /\ \A e \in events : \E kind \in {"accepted", "terminal"}, b \in accepted : e = <<kind, b>>
        /\ <<"terminal", running>> \notin events
    OBVIOUS
  <2> HIDE DEF events
  <2> QED BY <1>1, <2>1, <2>2, EventsFacts
<1>13. Turn' /\ RunningTurnIsOwned'
  BY <1>1, <1>2, <1>4, <1>10, <1>12 DEF Inv, Turn, RunningTurnIsOwned
<1> QED BY <1>1, <1>2, <1>6, <1>8, <1>9, <1>11, <1>12, <1>13, StoreStands DEF Inv, Evidence

(* The settlement of a submission: a negative one is of an attempt the Provider neither took
   nor runs, an unknown one leaves its Turn owned. *)
LEMMA SettlementIsTrue ==
  ASSUME Inv, host.step = "resolve", Shrinks,
         binding' \in {binding, Resolved(host.attempt, ResolveStatus(host.result))},
         UNCHANGED <<attempts, accepted, running>>,
         held' = held \/ (held' = 0 /\ host.result # "delivery-unknown")
  PROVE  binding' \in Binding /\ Bound' /\ RunningTurnIsOwned'
<1>1. PICK a \in DOMAIN attempts : a = host.attempt /\ a \in Nat /\ held = a
  BY Occupied
<1>2. PICK s : s = ResolveStatus(host.result)
  OBVIOUS
<1>3. /\ s \in {"rejected", "deferred", "delivery-unknown"}
      /\ s \in No <=> host.result # "delivery-unknown"
  BY <1>2 DEF Inv, Types, Submission, Evidence, Submitted, ResolveStatus, No
<1>4. host.result # "delivery-unknown" => ~Possible(a)
  BY <1>1 DEF Inv, Evidence, Submitted
<1>5. host.result # "delivery-unknown" => ~Possible(a)' /\ running = 0
  <2>1. a \notin accepted => running # a \/ running = 0
    BY DEF Inv, Evidence, Observed
  <2>2. running # 0 => held = running
    BY DEF Inv, RunningTurnIsOwned
  <2> QED BY <1>1, <1>4, <2>1, <2>2 DEF Shrinks, Possible
<1>6. CASE binding' = binding
  <2>1. Bound' /\ binding' \in Binding
    BY <1>6, EvidenceKept DEF Inv, Types
  <2> QED BY <1>5, <1>6, <2>1 DEF Inv, RunningTurnIsOwned
<1>7. CASE binding' = [attempt |-> a, status |-> s] /\ CanResolve(a, s)
  <2>1. binding'.attempt = a /\ binding'.status = s /\ binding' \in Binding
    BY <1>1, <1>3, <1>7 DEF Binding, Active
  <2>2. Bound'
    BY <1>3, <1>5, <2>1 DEF Bound, No
  <2>3. RunningTurnIsOwned'
    BY <1>1, <1>3, <1>5, <2>1 DEF Inv, RunningTurnIsOwned, Active, No
  <2> QED BY <2>1, <2>2, <2>3
<1> QED BY Zenon, <1>1, <1>2, <1>6, <1>7 DEF Resolved

(* The settlement is durable, refused, or its acknowledgement is lost. *)
LEMMA ResolveStep ==
  ASSUME Inv, Resolve \/ ResolveFails PROVE Inv'
<1>1. UNCHANGED <<observed, inbox, queue, retained, ended, session, cleanup, late,
                  accepted, running, pending, claim, wakes, attempts, signals>>
  BY DEF Resolve, ResolveFails, store, native
<1>2. UNCHANGED store /\ host.step = "resolve" /\ cleanup # "stopped"
  BY DEF Resolve, ResolveFails, HostUp
<1>3. PICK a : a = host.attempt
  OBVIOUS
<1>4. /\ host.result \in {"unregistered", "rejected", "deferred", "delivery-unknown"}
      /\ host.result # "delivery-unknown" => ~Possible(a)
      /\ a \in DOMAIN attempts
  BY <1>2, <1>3 DEF Inv, Types, Submission, Evidence, Submitted
<1>5. binding' \in {binding, Resolved(host.attempt, ResolveStatus(host.result))}
  BY DEF Resolve, ResolveFails
<1>6. held' = held \/ (held' = 0 /\ host.result # "delivery-unknown")
  <2>1. CASE Resolve
    <3>1. held' = IF host.result = "delivery-unknown" THEN held ELSE 0
      BY <2>1 DEF Resolve
    <3> QED BY <3>1
  <2>2. CASE ResolveFails
    BY <2>2 DEF ResolveFails
  <2> QED BY <2>1, <2>2
<1>7. PICK reply \in Reply : /\ Answer(a, reply) /\ reply # "accepted"
                             /\ reply \in No => host.result # "delivery-unknown"
  <2>1. CASE Resolve
    <3>1. PICK reply : reply = ResolvedAnswer(host.result)
      OBVIOUS
    <3>2. /\ reply \in Reply /\ reply # "accepted"
          /\ reply \in No => host.result # "delivery-unknown"
      BY <1>4, <3>1 DEF ResolvedAnswer, ResolveStatus, Reply, No
    <3> QED BY <1>3, <2>1, <3>1, <3>2 DEF Resolve
  <2>2. CASE ResolveFails
    BY <1>3, <2>2 DEF ResolveFails, Reply, No
  <2> QED BY <2>1, <2>2
<1>8. /\ host' = HostIdle /\ host' \in Submission /\ proc' \in Proc /\ host'.step = "idle"
      /\ \A b \in Nat : InProc(b)' = InProc(b) /\ ~InHost(b)'
      /\ Submitted'
  BY <1>7, AnswerFacts
<1>9. Retreat
  BY <1>1, <1>8 DEF Retreat, InQueue, Inv, Travel, OnePlace
<1>10. Shrinks /\ Known' /\ Travel'
  BY <1>1, <1>9, RetreatFacts
<1>11. Answered'
  BY <1>1, <1>4, <1>7, <1>10, AnswerFacts DEF Shrinks
<1>12. Delivered' /\ Observed'
  BY <1>1, <1>10, EvidenceKept
<1>13. binding' \in Binding /\ Bound' /\ RunningTurnIsOwned'
  BY <1>1, <1>2, <1>5, <1>6, <1>10, SettlementIsTrue
<1>14. Types'
  BY <1>1, <1>8, <1>13 DEF Inv, Types
<1>15. Turn'
  BY <1>1, <1>2, <1>8 DEF Inv, Turn
<1> QED BY <1>1, <1>2, <1>8, <1>10, <1>11, <1>12, <1>13, <1>14, <1>15, StoreStands DEF Inv, Evidence

(* A Turn ends; its terminal is published or retained. *)
LEMMA TerminalStep ==
  ASSUME Inv, Terminal PROVE Inv'
<1>1. UNCHANGED <<binding, observed, host, queue, proc, session, cleanup, late,
                  accepted, pending, claim, wakes, attempts, signals>>
  BY DEF Terminal, store
<1>2. UNCHANGED store /\ host = HostIdle /\ host.step = "idle" /\ cleanup # "stopped"
  BY DEF Terminal, HostUp, HostIdle
<1>3. running # 0 /\ running' = 0 /\ (ended' = ended \/ ended' = running)
  BY DEF Terminal
<1>4. Persist({<<"terminal", running>>}) \/ PersistFails({<<"terminal", running>>})
  BY DEF Terminal
<1>5. /\ Shrinks /\ Known' /\ Travel'
      /\ Delivered' /\ Answered' /\ Submitted' /\ Bound'
  BY <1>1, PlacesStand
<1>6. Observed'
  <2>1. PICK events : events = {<<"terminal", running>>}
    BY Zenon
  <2>2. \A e \in inbox' \union retained' : e \in inbox \union retained \union events
    BY <1>4, <2>1, Persisted
  <2>3. running \in accepted
    BY <1>3 DEF Inv, Evidence, Observed
  <2>4. \A e \in events : \E kind \in {"accepted", "terminal"}, b \in accepted : e = <<kind, b>>
    BY <2>1, <2>3
  <2> QED BY <1>1, <1>3, <2>2, <2>4, EventsFacts
<1>7. Types'
  BY <1>1 DEF Inv, Types
<1>8. Turn' /\ RunningTurnIsOwned'
  BY <1>1, <1>2, <1>3 DEF Turn, RunningTurnIsOwned
<1> QED BY <1>1, <1>2, <1>5, <1>6, <1>7, <1>8, StoreStands DEF Inv, Evidence

(* The terminal that is asked for again is of a Turn that ended. *)
LEMMA ReconcileTurnStep ==
  ASSUME Inv, ReconcileTurn PROVE Inv'
<1>1. UNCHANGED <<binding, observed, host, queue, ended, proc, session, cleanup, late,
                  accepted, running, pending, claim, wakes, attempts, signals>>
  BY DEF ReconcileTurn, store, native
<1>2. /\ UNCHANGED store /\ host = HostIdle /\ host.step = "idle" /\ cleanup # "stopped"
      /\ binding.status \in Active
  BY DEF ReconcileTurn, HostUp, HostIdle, TerminalWanted
<1>3. PICK events : /\ events = IF ended = binding.attempt THEN {<<"terminal", ended>>} ELSE {}
                    /\ Persist(events)
  BY DEF ReconcileTurn
<1>4. ended = binding.attempt => ended # 0 /\ ended \in accepted /\ running = 0
  <2>1. binding.attempt \in DOMAIN attempts /\ 0 \notin DOMAIN attempts
    BY <1>2, Numbers DEF Inv, Evidence, Bound, Active
  <2>2. ended # 0 => ended \in accepted
    BY DEF Inv, Evidence, Observed
  <2>3. running # 0 => ended # running /\ binding.attempt = running
    BY DEF Inv, Turn, RunningTurnIsOwned
  <2> QED BY <2>1, <2>2, <2>3
<1>5. /\ Shrinks /\ Known' /\ Travel'
      /\ Delivered' /\ Answered' /\ Submitted' /\ Bound'
  BY <1>1, PlacesStand
<1>6. /\ Observed'
      /\ running' # 0 => <<"terminal", running'>> \notin inbox' \union retained'
  <2>1. \A e \in inbox' \union retained' : e \in inbox \union retained \union events
    BY <1>3, Persisted
  <2>2. \A e \in events : \E kind \in {"accepted", "terminal"}, b \in accepted : e = <<kind, b>>
    BY <1>3, <1>4
  <2>3. running # 0 => events = {}
    BY <1>3, <1>4
  <2> QED BY <1>1, <2>1, <2>2, <2>3, EventsFacts
<1>7. running # 0 => held' = held
  BY <1>4 DEF ReconcileTurn
<1>8. Types'
  BY <1>1 DEF Inv, Types
<1>9. Turn' /\ RunningTurnIsOwned'
  BY <1>1, <1>2, <1>6, <1>7 DEF Inv, Turn, RunningTurnIsOwned
<1> QED BY <1>1, <1>2, <1>5, <1>6, <1>8, <1>9, StoreStands DEF Inv, Evidence

(* An event settles the run it names, which the Provider took; the terminal of a Turn that
   still runs does not exist yet. *)
LEMMA FoldStep ==
  ASSUME Inv, Fold PROVE Inv'
<1>1. UNCHANGED <<host, held, queue, retained, ended, proc, session, cleanup, late,
                  accepted, running, pending, claim, wakes, attempts, signals>>
  BY DEF Fold, store, hostVars, native
<1>2. UNCHANGED store
  BY DEF Fold
<1>3. PICK e \in inbox : /\ inbox' = inbox \ {e}
                         /\ binding' = FoldedBinding(e[1], e[2])
                         /\ observed' = IF e[1] = "accepted" \/ binding.attempt = e[2]
                                        THEN observed \union {e[2]} ELSE observed
  BY Zenon DEF Fold
<1>4. PICK kind \in {"accepted", "terminal"}, a \in accepted : e = <<kind, a>>
  BY DEF Inv, Evidence, Observed
<1>5. binding' = FoldedBinding(kind, a) /\ observed' \subseteq observed \union {a}
  BY <1>3, <1>4
<1>6. running # 0 /\ running = a => kind = "accepted"
  BY <1>4 DEF Inv, Turn
<1>7. binding' \in Binding /\ binding'.attempt = binding.attempt
  BY <1>5 DEF Inv, Types, Binding, FoldedBinding, Active
<1>8. \/ binding' = binding
      \/ /\ binding.attempt = a /\ binding.status \in Active
         /\ binding'.status = IF kind = "accepted" THEN "accepted" ELSE "settled"
  BY <1>5 DEF Inv, Types, Binding, FoldedBinding
<1>9. /\ Shrinks /\ Known' /\ Travel'
      /\ Delivered' /\ Answered' /\ Submitted' /\ (UNCHANGED binding => Bound')
  BY <1>1, PlacesStand
<1>10. Bound'
  <2>1. CASE binding' # binding
    <3>1. a \in DOMAIN attempts
      BY <1>8, <2>1 DEF Inv, Evidence, Bound, Active
    <3> QED BY <1>1, <1>7, <1>8, <2>1, <3>1 DEF Bound, No
  <2> QED BY <1>9, <2>1
<1>11. Observed'
  BY Zenon, <1>1, <1>3, <1>5 DEF Inv, Evidence, Observed
<1>12. Types'
  BY <1>1, <1>7 DEF Inv, Types
<1>13. RunningTurnIsOwned'
  BY <1>1, <1>6, <1>7, <1>8 DEF Inv, RunningTurnIsOwned, Active
<1>14. host.step = "submit" => binding' = binding
  <2>1. host.step = "submit" => InHost(host.attempt) /\ host.attempt \in Nat
    BY Numbers DEF Inv, InHost
  <2>2. host.step = "submit" => host.attempt \notin accepted
    BY <2>1 DEF Inv, Travel, OnePlace, Live
  <2>3. host.step = "submit" => binding.attempt = host.attempt
    BY DEF Inv, Turn, Begun
  <2> QED BY <1>8, <2>2, <2>3
<1>15. Turn'
  BY <1>1, <1>3, <1>14 DEF Inv, Turn
<1> QED BY <1>1, <1>2, <1>9, <1>10, <1>11, <1>12, <1>13, <1>15, StoreStands DEF Inv, Evidence

(* A replacement is requested. *)
LEMMA RequestReplacementStep ==
  ASSUME Inv, RequestReplacement PROVE Inv'
<1>1. UNCHANGED <<binding, observed, inbox, host, held, queue, retained, ended, proc, session,
                  late, accepted, running, pending, claim, wakes, attempts, signals>>
  BY DEF RequestReplacement, store, hostVars, native
<1>2. UNCHANGED store /\ cleanup' = "requested"
  BY DEF RequestReplacement
<1>3. /\ Shrinks /\ Known' /\ Travel'
      /\ Delivered' /\ Answered' /\ Submitted' /\ Bound' /\ Observed'
  BY <1>1, PlacesStand
<1>4. Types'
  BY <1>1 DEF Inv, Types
<1>5. Turn' /\ RunningTurnIsOwned'
  BY <1>1, <1>2 DEF Inv, Turn, RunningTurnIsOwned
<1> QED BY Zenon, <1>1, <1>2, <1>3, <1>4, <1>5, StoreStands DEF Inv, Evidence

(* The Host stops, and what was in it or queued for it is gone. *)
LEMMA StopOwnerStep ==
  ASSUME Inv, StopOwner PROVE Inv'
<1>1. UNCHANGED <<binding, observed, inbox, proc, session, late, accepted,
                  pending, claim, wakes, attempts, signals>>
  BY DEF StopOwner, store
<1>2. /\ UNCHANGED store /\ host' = HostIdle /\ queue' = <<>> /\ running' = 0
      /\ retained' = {} /\ ended' = 0
  BY DEF StopOwner
<1>3. host' \in Submission /\ host'.step = "idle" /\ queue' \in Seq(Request) /\ DOMAIN queue' = {}
  BY <1>2 DEF HostIdle, Submission
<1>4. Retreat
  BY <1>1, <1>3 DEF Retreat, InProc, InQueue, InHost
<1>5. Shrinks /\ Known' /\ Travel'
  BY <1>1, <1>4, RetreatFacts
<1>6. Delivered' /\ Bound' /\ Answered'
  BY <1>1, <1>5, EvidenceKept
<1>7. Submitted'
  BY <1>3 DEF Submitted
<1>8. Observed'
  BY <1>1, <1>2 DEF Inv, Evidence, Observed
<1>9. Types'
  BY <1>1, <1>3 DEF Inv, Types
<1>10. Turn' /\ RunningTurnIsOwned'
  BY <1>2, <1>3 DEF Turn, RunningTurnIsOwned
<1> QED BY <1>1, <1>2, <1>5, <1>6, <1>7, <1>8, <1>9, <1>10, StoreStands DEF Inv, Evidence

-----------------------------------------------------------------------------
(* Nothing has been signalled, sent or accepted. *)
LEMMA InitHolds ==
  Init => Inv
<1> SUFFICES ASSUME Init PROVE Inv
  OBVIOUS
<1>1. Types
  <2>1. claim \in Claim /\ binding \in Binding /\ host \in Submission /\ proc \in Proc
    BY DEF Init, Claim, NoClaim, Binding, NoRun, Submission, HostIdle, Proc, ProcIdle
  <2>2. wakes \in Seq(WakeRecord) /\ attempts \in Seq(AttemptRecord) /\ queue \in Seq(Request)
    BY DEF Init
  <2> QED BY <2>1, <2>2 DEF Init, Types
<1>2. /\ DOMAIN queue = {} /\ DOMAIN attempts = {} /\ DOMAIN wakes = {}
      /\ proc.step = "idle" /\ proc.reply = "none" /\ host.step = "idle" /\ binding.status = "none"
  <2>1. queue = <<>> /\ attempts = <<>> /\ wakes = <<>>
    BY DEF Init
  <2>2. proc.step = "idle" /\ proc.reply = "none"
    BY DEF Init, ProcIdle
  <2>3. host.step = "idle" /\ binding.status = "none"
    BY DEF Init, HostIdle, NoRun
  <2> QED BY <2>1, <2>2, <2>3
<1>3. \A a \in Nat : ~InProc(a) /\ ~InQueue(a) /\ ~InHost(a) /\ ~Live(a) /\ ~Possible(a)
  BY <1>2 DEF Init, InProc, InQueue, InHost, Live, Possible
<1>4. Journal /\ Travel /\ Current /\ Disjoint
  BY Zenon, <1>2, <1>3 DEF Init, Journal, WakesOfAttempts, ClaimIsOpen, Travel, Known, OnePlace, Current,
                    Disjoint
<1>5. Evidence
  BY <1>2 DEF Init, Evidence, Delivered, Bound, Answered, Submitted, Observed, No
<1>6. ConsumedMeansAccepted /\ NoInputLost
  BY <1>2 DEF Init, ConsumedMeansAccepted, NoInputLost
<1>7. Turn /\ RunningTurnIsOwned
  BY <1>2 DEF Init, Turn, RunningTurnIsOwned
<1> QED BY <1>1, <1>4, <1>5, <1>6, <1>7 DEF Inv

(* A step that changes nothing. *)
LEMMA StutterStep ==
  ASSUME Inv, UNCHANGED vars PROVE Inv'
<1>1. UNCHANGED <<binding, observed, inbox, host, held, queue, retained, ended, proc, session,
                  cleanup, late, accepted, running, pending, claim, wakes, attempts, signals>>
  BY DEF vars, store, hostVars, native
<1>2. UNCHANGED store
  BY <1>1 DEF store
<1>3. /\ Shrinks /\ Known' /\ Travel'
      /\ Delivered' /\ Answered' /\ Submitted' /\ Bound' /\ Observed'
  BY <1>1, PlacesStand
<1>4. Types'
  BY <1>1 DEF Inv, Types
<1>5. Turn' /\ RunningTurnIsOwned'
  BY <1>1 DEF Inv, Turn, RunningTurnIsOwned
<1> QED BY <1>1, <1>2, <1>3, <1>4, <1>5, StoreStands DEF Inv, Evidence

(* Every step of the Controller, the Host, the Provider and the user keeps the invariant. *)
LEMMA NextKeeps ==
  ASSUME Inv, Next PROVE Inv'
<1>1. CASE \E m \in Input : Signal(m)
  BY <1>1, SignalStep
<1>2. CASE Controller
  <2>1. ASSUME ClaimLeaderNotification PROVE ClaimAgain \/ ClaimPending
    BY <2>1 DEF ClaimLeaderNotification
  <2> QED BY <1>2, <2>1, ClaimAgainStep, ClaimPendingStep, PrepareStep, SendStep, ReceiveStep,
             NoAnswerStep DEF Controller
<1>3. CASE AgentHost
  BY <1>3, TakeStep, BeginStep, WriteStep, PublishStep, ResolveStep, TerminalStep DEF AgentHost
<1>4. CASE Faults
  BY <1>4, PrepareFailsStep, NoAnswerStep, ControllerCrashStep, BeginUnacknowledgedStep,
     WriteFailsStep, PublishFailsStep, RequestReplacementStep DEF Faults
<1>5. CASE User
  BY <1>5, TaskWakeRetryStep, TaskWakeResolveStep DEF User
<1>6. CASE ReconcileTurn \/ Fold \/ LateBegin \/ StopOwner \/ CompleteRuntimeCleanup
  BY <1>6, ReconcileTurnStep, FoldStep, LateBeginStep, StopOwnerStep, CompleteRuntimeCleanupStep
<1> QED BY <1>1, <1>2, <1>3, <1>4, <1>5, <1>6 DEF Next


(* The invariant of the delivery. *)
THEOREM Invariance ==
  Spec => []Inv
<1>1. Inv /\ [Next]_vars => Inv'
  BY NextKeeps, StutterStep
<1> QED BY InitHolds, <1>1, PTL DEF Spec

(* With a Host that offers no recovery Turns, the Provider takes a message as input at most
   once, over all its wakes and attempts, the deferred and user-retried ones included,
   Session replacements and repeated signals: what it took was possible, and no two
   possible attempts share a message. *)
THEOREM DeliveredAtMostOnce ==
  Spec => []AtMostOnce
<1>1. Inv => AtMostOnce
  BY Zenon DEF Inv, Types, Disjoint, Apart, Possible, AtMostOnce
<1> QED BY <1>1, Invariance, PTL

(* A recorded rejection or deferral, in a delivery event or in the binding, is the truth: the
   Provider neither took that attempt nor takes it later. *)
THEOREM NegativeEvidenceHolds ==
  Spec => []NegativeEvidenceIsTrue
<1>1. ASSUME Inv, NEW a \in accepted, NEW no \in {"rejected", "deferred"}
      PROVE  NativeStatus(a) # no /\ no \notin Told(a)
  <2>1. a \in Nat /\ Possible(a)
    BY <1>1 DEF Inv, Types, Possible
  <2>2. a \in DOMAIN attempts
    BY <1>1, <2>1 DEF Inv, Travel, Known
  <2>3. Delivered /\ Bound
    BY <1>1 DEF Inv, Evidence
  <2> QED BY <2>1, <2>2, <2>3 DEF Delivered, Bound, NativeStatus, No
<1>2. Inv => NegativeEvidenceIsTrue
  BY <1>1 DEF NegativeEvidenceIsTrue
<1> QED BY <1>2, Invariance, PTL

(* A wake is consumed only if the Provider took one of its attempts. *)
THEOREM ConsumedWakesWereAccepted ==
  Spec => []ConsumedMeansAccepted
<1>1. Inv => ConsumedMeansAccepted
  BY DEF Inv
<1> QED BY <1>1, Invariance, PTL

(* No message signalled to the Leader vanishes from the mailbox, the claim and the wakes. *)
THEOREM InputsAreKept ==
  Spec => []NoInputLost
<1>1. Inv => NoInputLost
  BY DEF Inv
<1> QED BY <1>1, Invariance, PTL

(* While a native Turn runs, binding and Host belong to its attempt. *)
THEOREM TurnsAreOwned ==
  Spec => []RunningTurnIsOwned
<1>1. Inv => RunningTurnIsOwned
  BY DEF Inv
<1> QED BY <1>1, Invariance, PTL

-----------------------------------------------------------------------------
(* The records of the Task only grow: a wake keeps its messages, one that was consumed or
   released stays what it is, and of an attempt no recorded outcome is taken back. *)
JournalGrows ==
  /\ \A w \in DOMAIN wakes : /\ w \in DOMAIN wakes' /\ wakes'[w].refs = wakes[w].refs
                             /\ wakes[w].status # "open" => wakes'[w].status = wakes[w].status
  /\ \A a \in DOMAIN attempts : /\ a \in DOMAIN attempts' /\ attempts'[a].wake = attempts[a].wake
                                /\ Told(a) \subseteq Told(a)'

(* A wake announces something, and attempts stay within their bound. *)
Bounded ==
  /\ Len(attempts) <= MaxAttempts
  /\ \A w \in DOMAIN wakes : wakes[w].refs # {}

(* Neither wakes nor attempts change. *)
LEMMA JournalStands ==
  ASSUME Inv, Bounded, UNCHANGED <<wakes, attempts>> PROVE JournalGrows /\ Bounded'
  BY DEF JournalGrows, Bounded, Told, Outcomes

(* The status of an open wake is replaced. *)
LEMMA WakeCloses ==
  ASSUME Inv, Bounded, NEW w \in DOMAIN wakes, wakes[w].status = "open",
         NEW x \in {"consumed", "released"}, wakes' = [wakes EXCEPT ![w].status = x]
  PROVE  /\ \A v \in DOMAIN wakes :
              /\ v \in DOMAIN wakes' /\ wakes'[v].refs = wakes[v].refs
              /\ wakes[v].status # "open" => wakes'[v].status = wakes[v].status
         /\ \A v \in DOMAIN wakes' : wakes'[v].refs # {}
<1>1. /\ DOMAIN wakes' = DOMAIN wakes
      /\ \A v \in DOMAIN wakes :
           /\ wakes'[v].refs = wakes[v].refs
           /\ wakes'[v].status = IF v = w THEN x ELSE wakes[v].status
  BY Zenon, CloseWake DEF Inv
<1> QED BY Zenon, <1>1 DEF Bounded

(* An outcome is added to those of an attempt. *)
LEMMA OutcomeIsAdded ==
  ASSUME Inv, Bounded, NEW a \in DOMAIN attempts, NEW o \in Outcome, attempts' = Recorded(a, o)
  PROVE  /\ \A b \in DOMAIN attempts : /\ b \in DOMAIN attempts'
                                       /\ attempts'[b].wake = attempts[b].wake
                                       /\ Told(b) \subseteq Told(b)'
         /\ Len(attempts') <= MaxAttempts
<1>1. /\ attempts' \in Seq(AttemptRecord) /\ DOMAIN attempts' = DOMAIN attempts
      /\ \A b \in DOMAIN attempts : attempts'[b].wake = attempts[b].wake
  BY Zenon, RecordOutcome DEF Inv, AttemptsKept
<1>2. Len(attempts') = Len(attempts)
  <2>1. attempts \in Seq(AttemptRecord)
    BY DEF Inv, Types
  <2> QED BY <1>1, <2>1
<1>3. ASSUME NEW b \in DOMAIN attempts PROVE Told(b) \subseteq Told(b)'
  <2>1. CASE o \in Told(a)
    BY Zenon, <2>1 DEF Recorded, Told, Outcomes
  <2>2. CASE o \notin Told(a)
    <3>1. attempts[a].outcomes \in Seq(Outcome) /\ attempts[b] \in AttemptRecord
      BY Numbers DEF Inv, AttemptRecord
    <3>2. attempts'[b].outcomes =
             IF b = a THEN Append(attempts[a].outcomes, o) ELSE attempts[b].outcomes
      BY <2>2, <3>1 DEF Recorded, Outcomes, AttemptRecord
    <3>3. CASE b = a
      <4>1. \A i \in DOMAIN attempts[a].outcomes :
               /\ i \in DOMAIN Append(attempts[a].outcomes, o)
               /\ Append(attempts[a].outcomes, o)[i] = attempts[a].outcomes[i]
        BY <3>1
      <4> QED BY Zenon, <3>2, <3>3, <4>1 DEF Told, Outcomes
    <3>4. CASE b # a
      BY Zenon, <3>2, <3>4 DEF Told, Outcomes
    <3> QED BY <3>3, <3>4
  <2> QED BY <2>1, <2>2
<1> QED BY Zenon, <1>1, <1>2, <1>3 DEF Bounded

(* settleLeaderNotification closes the claimed wake at most, which is open. *)
LEMMA SettleGrows ==
  ASSUME Inv, Bounded, NEW a \in DOMAIN attempts, NEW o \in Outcome, Settle(a, o)
  PROVE  JournalGrows /\ Bounded'
<1>1. CASE claim.attempt # a
  BY <1>1, JournalStands DEF Settle
<1>2. CASE claim.attempt = a
  <2>1. claim.wake \in DOMAIN wakes /\ wakes[claim.wake].status = "open"
    BY <1>2, ClaimNumbers DEF Inv, Journal, ClaimIsOpen
  <2>2. attempts' = Recorded(a, o)
    BY <1>2 DEF Settle
  <2>3. /\ \A b \in DOMAIN attempts : /\ b \in DOMAIN attempts'
                                      /\ attempts'[b].wake = attempts[b].wake
                                      /\ Told(b) \subseteq Told(b)'
        /\ Len(attempts') <= MaxAttempts
    BY Zenon, <2>2, OutcomeIsAdded
  <2>4. wakes' = wakes \/ wakes' = [wakes EXCEPT ![claim.wake].status = "consumed"]
    BY <1>2 DEF Settle
  <2>5. CASE wakes' = wakes
    BY <2>3, <2>5 DEF JournalGrows, Bounded
  <2>6. CASE wakes' = [wakes EXCEPT ![claim.wake].status = "consumed"]
    BY Zenon, <2>1, <2>3, <2>6, WakeCloses DEF JournalGrows, Bounded
  <2> QED BY <2>4, <2>5, <2>6
<1> QED BY <1>1, <1>2

(* A new attempt is recorded, for a claimed wake or for a new one. *)
LEMMA SubmitGrows ==
  ASSUME Inv, Bounded, NEW w, Submit(w)
  PROVE  /\ \A a \in DOMAIN attempts : /\ a \in DOMAIN attempts'
                                       /\ attempts'[a].wake = attempts[a].wake
                                       /\ Told(a) \subseteq Told(a)'
         /\ Len(attempts') <= MaxAttempts
<1>1. attempts \in Seq(AttemptRecord) /\ MaxAttempts \in Nat
  BY BoundsAreNatural DEF Inv, Types
<1>2. PICK e : attempts' = Append(attempts, e) /\ Len(attempts) < MaxAttempts
  BY Zenon DEF Submit
<1>3. /\ \A a \in DOMAIN attempts : a \in DOMAIN attempts' /\ attempts'[a] = attempts[a]
      /\ Len(attempts') = Len(attempts) + 1 /\ Len(attempts) \in Nat
  BY <1>1, <1>2
<1>4. Len(attempts') <= MaxAttempts
  BY <1>1, <1>2, <1>3
<1> QED BY Zenon, <1>3, <1>4 DEF Told, Outcomes

(* The processor's claim: an outcome, another attempt for its wake, or a new wake. *)
LEMMA ClaimGrows ==
  ASSUME Inv, Bounded, ClaimLeaderNotification PROVE JournalGrows /\ Bounded'
<1>1. CASE ClaimAgain
  <2>1. claim.attempt \in DOMAIN attempts
    BY <1>1 DEF ClaimAgain, Inv, Journal, ClaimIsOpen
  <2>2. \/ \E d \in Outcome : Settle(claim.attempt, d)
        \/ Submit(claim.wake) /\ UNCHANGED wakes
    BY <1>1 DEF ClaimAgain, Outcome
  <2>3. CASE \E d \in Outcome : Settle(claim.attempt, d)
    BY <2>1, <2>3, SettleGrows
  <2>4. CASE Submit(claim.wake) /\ UNCHANGED wakes
    BY Zenon, <2>4, SubmitGrows DEF JournalGrows, Bounded
  <2> QED BY <2>2, <2>3, <2>4
<1>2. CASE ClaimPending
  <2>1. PICK refs : refs = pending \ NonReplayable
    BY Zenon
  <2>2. CASE UNCHANGED <<claim, wakes, attempts, proc>>
    BY <2>2, JournalStands
  <2>3. CASE /\ refs # {}
             /\ wakes' = Append(wakes, [refs |-> Selected(refs), status |-> "open"])
             /\ Submit(Len(wakes) + 1)
    <3> DEFINE e == [refs |-> Selected(refs), status |-> "open"]
    <3>1. Selected(refs) # {} /\ Selected(refs) \subseteq refs /\ refs \subseteq Ref
      BY <2>1, <2>3 DEF Selected, Inv, Types
    <3>2. e \in WakeRecord /\ e.refs # {} /\ wakes \in Seq(WakeRecord) /\ wakes' = Append(wakes, e)
      BY <2>3, <3>1 DEF WakeRecord, Inv, Types
    <3> HIDE DEF e
    <3>3. /\ DOMAIN wakes' = DOMAIN wakes \union {Len(wakes) + 1} /\ wakes'[Len(wakes) + 1] = e
          /\ \A v \in DOMAIN wakes : wakes'[v] = wakes[v]
      BY <3>2, Added
    <3>4. \A v \in DOMAIN wakes' : wakes'[v].refs # {}
      BY Zenon, <3>2, <3>3 DEF Bounded
    <3>5. /\ \A a \in DOMAIN attempts : /\ a \in DOMAIN attempts'
                                        /\ attempts'[a].wake = attempts[a].wake
                                        /\ Told(a) \subseteq Told(a)'
          /\ Len(attempts') <= MaxAttempts
      BY Zenon, <2>3, SubmitGrows
    <3> QED BY Zenon, <3>3, <3>4, <3>5 DEF JournalGrows, Bounded
  <2> QED BY Zenon, <1>2, <2>1, <2>2, <2>3 DEF ClaimPending
<1> QED BY <1>1, <1>2 DEF ClaimLeaderNotification

(* The replacement of the Session and the user close wakes that are open. *)
LEMMA ReleaseGrows ==
  ASSUME Inv, Bounded, \/ CompleteRuntimeCleanup
                       \/ \E w \in DOMAIN wakes : TaskWakeResolve(w)
  PROVE  JournalGrows /\ Bounded'
<1>1. PICK w : \/ UNCHANGED <<wakes, attempts>>
               \/ /\ w \in DOMAIN wakes /\ wakes[w].status = "open" /\ UNCHANGED attempts
                  /\ wakes' = [wakes EXCEPT ![w].status = "released"]
  <2>1. claim # NoClaim => claim.wake \in DOMAIN wakes /\ wakes[claim.wake].status = "open"
    BY ClaimNumbers DEF Inv, Journal, ClaimIsOpen
  <2>2. CASE CompleteRuntimeCleanup
    <3>1. /\ UNCHANGED attempts
          /\ wakes' = IF claim = NoClaim THEN wakes
                      ELSE [wakes EXCEPT ![claim.wake].status = "released"]
      BY <2>2 DEF CompleteRuntimeCleanup
    <3> QED BY Zenon, <2>1, <3>1
  <2>3. CASE \E w \in DOMAIN wakes : TaskWakeResolve(w)
    BY Zenon, <2>3 DEF TaskWakeResolve
  <2> QED BY <2>2, <2>3
<1>2. CASE UNCHANGED <<wakes, attempts>>
  BY <1>2, JournalStands
<1>3. CASE /\ w \in DOMAIN wakes /\ wakes[w].status = "open" /\ UNCHANGED attempts
           /\ wakes' = [wakes EXCEPT ![w].status = "released"]
  <2>1. /\ \A v \in DOMAIN wakes :
             /\ v \in DOMAIN wakes' /\ wakes'[v].refs = wakes[v].refs
             /\ wakes[v].status # "open" => wakes'[v].status = wakes[v].status
        /\ \A v \in DOMAIN wakes' : wakes'[v].refs # {}
    BY Zenon, <1>3, WakeCloses
  <2> QED BY <1>3, <2>1 DEF JournalGrows, Bounded, Told, Outcomes
<1> QED BY <1>1, <1>2, <1>3

(* The steps that settle an attempt of the processor. *)
LEMMA OutcomeGrows ==
  ASSUME Inv, Bounded, PrepareFails \/ Send \/ Receive \/ NoAnswer \/ HostGone
  PROVE  JournalGrows /\ Bounded'
<1>1. proc.attempt \in DOMAIN attempts
  BY DEF PrepareFails, Send, Receive, NoAnswer, HostGone, Inv, Evidence, Answered
<1>2. proc.reply \in {"none", "pending"} \union Outcome
  BY DEF Inv, Types, Proc, Outcome
<1>3. UNCHANGED <<claim, wakes, attempts>> \/ \E o \in Outcome : Settle(proc.attempt, o)
  BY <1>2 DEF PrepareFails, Send, Receive, NoAnswer, HostGone, Outcome
<1>4. CASE UNCHANGED <<claim, wakes, attempts>>
  BY Zenon, <1>4, JournalStands
<1> QED BY <1>1, <1>3, <1>4, SettleGrows

(* Every step of the Controller, the Host, the Provider and the user. *)
LEMMA NextGrows ==
  ASSUME Inv, Bounded, Next PROVE JournalGrows /\ Bounded'
<1>1. CASE ClaimLeaderNotification
  BY <1>1, ClaimGrows
<1>2. CASE PrepareFails \/ Send \/ Receive \/ NoAnswer \/ HostGone
  BY <1>2, OutcomeGrows
<1>3. CASE CompleteRuntimeCleanup \/ \E w \in DOMAIN wakes : TaskWakeResolve(w)
  BY <1>3, ReleaseGrows
<1>4. CASE (\E m \in Input : Signal(m)) \/ Prepare \/ ControllerCrash \/ TaskWakeRetry
           \/ RequestReplacement \/ ReconcileTurn \/ Fold \/ LateBegin \/ StopOwner
  <2>1. UNCHANGED <<wakes, attempts>>
    BY Zenon, <1>4 DEF Signal, Prepare, ControllerCrash, TaskWakeRetry, RequestReplacement,
                ReconcileTurn, Fold, LateBegin, StopOwner, store
  <2> QED BY <2>1, JournalStands
<1>5. CASE AgentHost \/ BeginUnacknowledged \/ WriteFails \/ PublishFails
  <2>1. UNCHANGED <<wakes, attempts>>
    BY Zenon, <1>5 DEF AgentHost, Take, Begin, Write, Publish, Resolve, ResolveFails, Terminal,
                BeginUnacknowledged, WriteFails, PublishFails, PublishFailsAs, store
  <2> QED BY <2>1, JournalStands
<1> QED BY Zenon, <1>1, <1>2, <1>3, <1>4, <1>5 DEF Next, Controller, Faults, User

(* No step removes a wake or an attempt, changes the messages of a wake, reopens or
   reclassifies one that was consumed or released, or takes back a recorded outcome: what
   task wake shows the user of a closed wake is final. *)
THEOREM RecordsAreFinal ==
  Spec => [][JournalGrows]_vars
<1>1. Init => Bounded
  BY BoundsAreNatural DEF Init, Bounded
<1>2. ASSUME Inv, Bounded, [Next]_vars PROVE Bounded' /\ [JournalGrows]_vars
  <2>1. CASE Next
    BY <2>1, <1>2, NextGrows
  <2>2. CASE UNCHANGED vars
    BY <2>2, <1>2 DEF vars, store, Bounded
  <2> QED BY <1>2, <2>1, <2>2
<1> QED BY Invariance, <1>1, <1>2, PTL DEF Spec

-----------------------------------------------------------------------------
(* Outside a submission the Host is held by a recorded attempt, if at all, and a binding
   without a run is empty. *)
Owners ==
  /\ held # 0 => held \in DOMAIN attempts
  /\ binding.status = "none" => binding = NoRun

(* The Host is occupied by the submission it begins, and the binding by a registered run. *)
OwnersMove ==
  /\ held' \in {0, held} \/ (host'.step # "idle" /\ held' = host'.attempt)
  /\ binding' \in {binding, NoRun} \/ binding'.status # "none"

LEMMA HostMoves ==
  ASSUME Inv, AgentHost \/ BeginUnacknowledged \/ WriteFails \/ PublishFails PROVE OwnersMove
<1>1. CASE Take
  <2>1. UNCHANGED binding
    BY <1>1 DEF Take
  <2>2. held' = held \/ (host'.step # "idle" /\ held' = host'.attempt)
    BY <1>1 DEF Take
  <2> QED BY <2>1, <2>2 DEF OwnersMove
<1>2. CASE Begin \/ BeginUnacknowledged
  BY <1>2 DEF Begin, BeginUnacknowledged, Begun, OwnersMove
<1>3. CASE Write \/ WriteFails \/ Publish \/ PublishFails
  BY <1>3 DEF Write, WriteFails, Publish, PublishFails, PublishFailsAs, OwnersMove
<1>4. CASE Resolve \/ ResolveFails
  <2>1. host.result # "none"
    BY Zenon, <1>4 DEF Resolve, ResolveFails, Inv, Evidence, Submitted
  <2>2. Resolved(host.attempt, ResolveStatus(host.result)) = binding
        \/ Resolved(host.attempt, ResolveStatus(host.result)).status # "none"
    BY <2>1 DEF Resolved, ResolveStatus
  <2>3. /\ held' \in {0, held}
        /\ binding' \in {binding, Resolved(host.attempt, ResolveStatus(host.result))}
    BY <1>4 DEF Resolve, ResolveFails
  <2> QED BY <2>2, <2>3 DEF OwnersMove
<1>5. CASE Terminal
  BY <1>5 DEF Terminal, OwnersMove
<1> QED BY Zenon, <1>1, <1>2, <1>3, <1>4, <1>5 DEF AgentHost

LEMMA NextMoves ==
  ASSUME Inv, Next PROVE OwnersMove
<1>1. CASE AgentHost \/ BeginUnacknowledged \/ WriteFails \/ PublishFails
  BY <1>1, HostMoves
<1>2. CASE Controller \/ User \/ (\E m \in Input : Signal(m)) \/ PrepareFails \/ NoAnswer
           \/ ControllerCrash \/ RequestReplacement
  <2>1. UNCHANGED <<held, binding>>
    BY Zenon, <1>2 DEF Controller, ClaimLeaderNotification, Prepare, Send, Receive, HostGone, User,
                TaskWakeRetry, TaskWakeResolve, Signal, PrepareFails, NoAnswer, ControllerCrash,
                RequestReplacement, hostVars
  <2> QED BY <2>1 DEF OwnersMove
<1>3. CASE ReconcileTurn \/ StopOwner \/ CompleteRuntimeCleanup
  BY <1>3 DEF ReconcileTurn, StopOwner, CompleteRuntimeCleanup, hostVars, OwnersMove
<1>4. CASE Fold
  <2>1. PICK e \in inbox : binding' = FoldedBinding(e[1], e[2])
    BY <1>4 DEF Fold
  <2>2. binding' = binding \/ binding'.status # "none"
    BY <2>1 DEF FoldedBinding, Inv, Types, Binding
  <2> QED BY <1>4, <2>2 DEF Fold, hostVars, OwnersMove
<1>5. CASE LateBegin
  BY <1>5 DEF LateBegin, Begun, hostVars, OwnersMove
<1> QED BY Zenon, <1>1, <1>2, <1>3, <1>4, <1>5 DEF Next, Faults

LEMMA OwnersKept ==
  ASSUME Inv, Inv', Bounded, Owners, Next PROVE Owners'
<1>1. OwnersMove /\ JournalGrows
  BY NextMoves, NextGrows
<1>2. host'.step # "idle" => host'.attempt \in DOMAIN attempts'
  BY DEF Inv, Evidence, Submitted
<1>3. \A a \in DOMAIN attempts : a \in DOMAIN attempts'
  BY <1>1 DEF JournalGrows
<1>4. held' # 0 => held' \in DOMAIN attempts'
  BY <1>1, <1>2, <1>3 DEF Owners, OwnersMove
<1> QED BY <1>1, <1>4 DEF Owners, OwnersMove

(* The records, the calls in flight and the bookkeeping keep their shapes: every claim names
   a wake, every attempt a wake, every evidence an attempt, and no wake is empty. *)
THEOREM ShapesAreKept ==
  Spec => []TypeOK
<1>1. Init => Bounded /\ Owners
  BY BoundsAreNatural DEF Init, Bounded, Owners
<1>2. ASSUME Inv, Inv', Bounded, Owners, [Next]_vars PROVE Bounded' /\ Owners'
  <2>1. CASE Next
    BY <2>1, <1>2, NextGrows, OwnersKept
  <2>2. CASE UNCHANGED vars
    BY <2>2, <1>2 DEF vars, store, hostVars, Bounded, Owners
  <2> QED BY <1>2, <2>1, <2>2
<1>3. ASSUME Inv, Bounded, Owners PROVE TypeOK
  <2>1. /\ attempts \in Seq(AttemptRecord) /\ wakes \in Seq(WakeRecord)
        /\ Len(attempts) \in Nat /\ Len(wakes) \in Nat /\ MaxAttempts \in Nat
    BY <1>3, BoundsAreNatural DEF Inv, Types
  <2>2. /\ DOMAIN attempts = 1 .. Len(attempts) /\ DOMAIN wakes = 1 .. Len(wakes)
        /\ DOMAIN attempts \subseteq AttemptOrNone /\ 0 \in AttemptOrNone
    BY <1>3, <2>1 DEF Bounded, AttemptOrNone
  <2>3. pending \subseteq Ref
    BY <1>3 DEF Inv, Types
  <2>4. claim \in [wake : 0 .. Len(wakes), attempt : 0 .. Len(attempts)]
    <3>1. CASE claim = NoClaim
      BY <2>1, <3>1 DEF NoClaim
    <3>2. CASE claim # NoClaim
      <4>1. claim.wake \in 0 .. Len(wakes) /\ claim.attempt \in 0 .. Len(attempts)
        BY <1>3, <2>1, <2>2, <3>2, ClaimNumbers DEF Inv, Journal, ClaimIsOpen
      <4> QED BY <1>3, <4>1 DEF Inv, Types, Claim
    <3> QED BY <3>1, <3>2
  <2>5. \A w \in DOMAIN wakes : /\ wakes[w].refs \in (SUBSET Ref) \ {{}}
                                /\ wakes[w].status \in {"open", "consumed", "released"}
    <3>1. \A w \in DOMAIN wakes : /\ wakes[w].refs \in SUBSET Ref
                                  /\ wakes[w].status \in {"open", "consumed", "released"}
      BY <1>3, Numbers DEF Inv, WakeRecord
    <3> QED BY <1>3, <3>1 DEF Bounded
  <2>6. \A a \in DOMAIN attempts : /\ attempts[a].wake \in DOMAIN wakes
                                   /\ \A i \in DOMAIN Outcomes(a) : Outcomes(a)[i] \in Outcome
    <3>1. \A a \in DOMAIN attempts : attempts[a].outcomes \in Seq(Outcome)
      BY <1>3, Numbers DEF Inv, AttemptRecord
    <3> QED BY <1>3, <3>1 DEF Inv, Journal, WakesOfAttempts, Outcomes
  <2>7. binding \in [attempt : AttemptOrNone,
                     status : Active \union {"none", "rejected", "deferred", "settled"}]
    <3>1. binding.attempt \in AttemptOrNone
      BY <1>3, <2>2 DEF Inv, Evidence, Bound, Owners, NoRun
    <3> QED BY <1>3, <3>1 DEF Inv, Types, Binding
  <2>8. accepted \subseteq DOMAIN attempts
    BY Zenon, <1>3 DEF Inv, Types, Travel, Known, Possible
  <2>9. /\ observed \union late \union accepted \subseteq DOMAIN attempts
        /\ inbox \union retained \subseteq {"accepted", "terminal"} \X DOMAIN attempts
        /\ running # 0 => running \in DOMAIN attempts
    BY <1>3, <2>8 DEF Inv, Evidence, Observed
  <2>10. held \in AttemptOrNone /\ running \in AttemptOrNone
    BY <1>3, <2>2, <2>9 DEF Owners
  <2> QED BY Zenon, <2>3, <2>4, <2>5, <2>6, <2>7, <2>9, <2>10 DEF TypeOK
<1> QED BY Invariance, <1>1, <1>2, <1>3, PTL DEF Spec
=============================================================================
