----------------------- MODULE LeaderDeliveryInvariant -----------------------
(***************************************************************************)
(* The inductive invariant behind the theorems of LeaderDeliveryProofs,    *)
(* and its proof for the steps of the Controller and of the user.  In one  *)
(* sentence: an attempt travels in one place at a time, only the claimed   *)
(* attempt of an open wake can still reach the Provider, attempts that can *)
(* share no message, and every record of an outcome is true.               *)
(***************************************************************************)
EXTENDS LeaderDelivery, TLAPS

No == {"rejected", "deferred"}

Claim == [wake : Nat, attempt : Nat]
WakeRecord == [refs : SUBSET Ref, status : {"open", "consumed", "released"}]
AttemptRecord == [wake : Nat, outcomes : Seq(Outcome)]
Binding ==
  [attempt : Nat, status : Active \union {"none", "rejected", "deferred", "settled"}]
Submission ==
  [step : {"idle", "begin", "submit", "publish", "resolve"}, attempt : Nat,
   result : {"none", "unregistered", "rejected", "deferred", "delivery-unknown"}]
Request == [attempt : Nat, session : Nat]
Proc ==
  [step : {"idle", "prepare", "send", "wait"}, attempt : Nat, session : Nat,
   reply : {"none", "accepted", "pending", "deferred", "rejected", "unknown"}]

Types ==
  /\ pending \subseteq Ref
  /\ claim \in Claim /\ wakes \in Seq(WakeRecord) /\ attempts \in Seq(AttemptRecord)
  /\ binding \in Binding
  /\ host \in Submission /\ queue \in Seq(Request)
  /\ proc \in Proc /\ session \in Nat
  /\ accepted \subseteq Nat

-----------------------------------------------------------------------------
(* Where an attempt can be on its way to the Provider. *)
InProc(a) == proc.step \in {"prepare", "send"} /\ proc.attempt = a
InQueue(a) == \E i \in DOMAIN queue : queue[i].attempt = a
InHost(a) == host.step \in {"begin", "submit"} /\ host.attempt = a
Live(a) == InProc(a) \/ InQueue(a) \/ InHost(a)

(* The Provider took it, or still may. *)
Possible(a) == Live(a) \/ a \in accepted

(* What is on its way, or taken, is an attempt of a wake; the claim names an open wake. *)
Known == \A a \in Nat : Possible(a) => a \in DOMAIN attempts
WakesOfAttempts == \A a \in DOMAIN attempts : attempts[a].wake \in DOMAIN wakes
ClaimIsOpen ==
  claim # NoClaim => /\ claim.attempt \in DOMAIN attempts
                     /\ claim.wake = attempts[claim.attempt].wake
                     /\ wakes[claim.wake].status = "open"

(* An attempt travels in one place, and is not taken twice.  Without it a refusal at one
   place would prove nothing about another. *)
OnePlace ==
  /\ \A a \in Nat : Live(a) => a \notin accepted
  /\ \A a \in Nat : InProc(a) => ~InQueue(a) /\ ~InHost(a)
  /\ \A a \in Nat : InQueue(a) => ~InHost(a)
  /\ \A i, j \in DOMAIN queue : queue[i].attempt = queue[j].attempt => i = j

(* Only the claimed attempt of an open wake can reach the Provider; no two attempts that can
   share a message, and none that can shares one with the claimed wake. *)
Current == \A a \in Nat : Possible(a) => \/ claim.attempt = a
                                         \/ wakes[attempts[a].wake].status # "open"
Apart(refs, others) == refs \intersect others \subseteq {SessionReplaced}
Disjoint ==
  /\ \A a, b \in Nat : Possible(a) /\ Possible(b) /\ a # b => Apart(RefsOf(a), RefsOf(b))
  /\ claim # NoClaim => \A a \in Nat : Possible(a) /\ a # claim.attempt =>
                                        Apart(RefsOf(a), wakes[claim.wake].refs)

-----------------------------------------------------------------------------
(* Evidence is true wherever it is kept: what says that an attempt failed says so of one that
   the Provider neither took nor can take any more, what says that it was accepted says so of
   one it took. *)
Delivered ==
  \A a \in DOMAIN attempts : /\ \A no \in No : no \in Told(a) => ~Possible(a)
                             /\ "accepted" \in Told(a) => a \in accepted
Bound ==
  /\ binding.status # "none" => binding.attempt \in DOMAIN attempts
  /\ binding.status \in No => ~Possible(binding.attempt)
  /\ binding.status = "accepted" => binding.attempt \in accepted
Answered ==
  /\ proc.step # "idle" => proc.attempt \in DOMAIN attempts
  /\ proc.step # "wait" => proc.reply = "none"
  /\ proc.reply \in No => ~Possible(proc.attempt)
  /\ proc.reply = "accepted" => proc.attempt \in accepted
Submitted ==
  /\ host.step # "idle" => host.attempt \in DOMAIN attempts
  /\ host.step = "resolve" /\ host.result # "delivery-unknown" => ~Possible(host.attempt)
  /\ host.step = "resolve" => host.result # "none"
  /\ host.step = "publish" => host.attempt \in accepted
Observed ==
  /\ observed \subseteq accepted
  /\ \A e \in inbox \union retained :
        \E kind \in {"accepted", "terminal"}, a \in accepted : e = <<kind, a>>
  /\ ended # 0 => ended \in accepted
  /\ running # 0 => running \in accepted
  /\ late \subseteq DOMAIN attempts

(* The submission in the Host and the running Turn. *)
Turn ==
  /\ host.step # "idle" => held = host.attempt
  /\ host.step = "submit" => binding = Begun(host.attempt)
  /\ host.step \in {"begin", "submit"} => running = 0
  /\ host.step = "publish" => running = host.attempt
  /\ running # 0 => /\ ended # running
                    /\ <<"terminal", running>> \notin inbox \union retained
  /\ cleanup = "stopped" => host = HostIdle /\ running = 0 /\ queue = <<>>

Journal == WakesOfAttempts /\ ClaimIsOpen
Travel == Known /\ OnePlace
Evidence == Delivered /\ Bound /\ Answered /\ Submitted /\ Observed

Inv ==
  /\ Types /\ Journal /\ Travel /\ Current /\ Disjoint
  /\ Evidence /\ ConsumedMeansAccepted
  /\ Turn /\ RunningTurnIsOwned
  /\ NoInputLost

-----------------------------------------------------------------------------
(* What a step may do to the records. *)
Shrinks == \A a \in DOMAIN attempts : Possible(a)' => Possible(a)

AttemptsKept ==
  /\ DOMAIN attempts' = DOMAIN attempts
  /\ \A a \in DOMAIN attempts : attempts'[a].wake = attempts[a].wake

WakesKept ==
  /\ DOMAIN wakes' = DOMAIN wakes
  /\ \A w \in DOMAIN wakes : /\ wakes'[w].refs = wakes[w].refs
                             /\ wakes[w].status # "open" => wakes'[w].status # "open"

(* The claim stays, or is given up with its wake closed. *)
ClaimKept ==
  \/ claim' = claim /\ (claim # NoClaim => wakes'[claim.wake].status = "open")
  \/ claim' = NoClaim /\ (claim # NoClaim => wakes'[claim.wake].status # "open")

(* The numbers of wakes and attempts. *)
LEMMA Numbers ==
  ASSUME Types
  PROVE  /\ DOMAIN attempts \subseteq Nat /\ 0 \notin DOMAIN attempts
         /\ 0 \notin DOMAIN wakes /\ DOMAIN wakes \subseteq Nat
         /\ \A a \in DOMAIN attempts : attempts[a] \in AttemptRecord
         /\ \A w \in DOMAIN wakes : wakes[w] \in WakeRecord
         /\ \A i \in DOMAIN queue : queue[i].attempt \in Nat
         /\ claim.attempt \in Nat /\ claim.wake \in Nat
         /\ binding.attempt \in Nat /\ host.attempt \in Nat /\ proc.attempt \in Nat
<1>1. attempts \in Seq(AttemptRecord) /\ wakes \in Seq(WakeRecord) /\ queue \in Seq(Request)
  BY DEF Types
<1>2. /\ DOMAIN attempts \subseteq Nat /\ 0 \notin DOMAIN attempts
      /\ \A a \in DOMAIN attempts : attempts[a] \in AttemptRecord
  BY <1>1
<1>3. /\ DOMAIN wakes \subseteq Nat /\ 0 \notin DOMAIN wakes
      /\ \A w \in DOMAIN wakes : wakes[w] \in WakeRecord
  BY <1>1
<1>4. \A i \in DOMAIN queue : queue[i].attempt \in Nat
  <2>1. \A i \in DOMAIN queue : queue[i] \in Request
    BY <1>1
  <2> QED BY <2>1 DEF Request
<1>5. claim.attempt \in Nat /\ claim.wake \in Nat
  BY DEF Types, Claim
<1>6. binding.attempt \in Nat /\ host.attempt \in Nat /\ proc.attempt \in Nat
  BY DEF Types, Binding, Submission, Proc
<1> QED BY <1>2, <1>3, <1>4, <1>5, <1>6

(* What has no wake has no claim. *)
LEMMA ClaimNumbers ==
  ASSUME Types, Journal
  PROVE  /\ claim = NoClaim => claim.attempt = 0 /\ claim.wake = 0
         /\ claim.attempt \in DOMAIN attempts => claim # NoClaim
         /\ claim # NoClaim => claim.wake \in DOMAIN wakes
<1>1. claim = NoClaim => claim.attempt = 0 /\ claim.wake = 0
  BY DEF NoClaim
<1> QED BY <1>1, Numbers DEF Journal, WakesOfAttempts, ClaimIsOpen

(* An element of a sequence is replaced by another of its kind. *)
LEMMA Replaced ==
  ASSUME NEW S, NEW s \in Seq(S), NEW i \in DOMAIN s, NEW e \in S
  PROVE  /\ [s EXCEPT ![i] = e] \in Seq(S)
         /\ DOMAIN [s EXCEPT ![i] = e] = DOMAIN s
         /\ \A j \in DOMAIN s : [s EXCEPT ![i] = e][j] = IF j = i THEN e ELSE s[j]
  OBVIOUS

(* An element is added to a sequence. *)
LEMMA Added ==
  ASSUME NEW S, NEW s \in Seq(S), NEW e \in S
  PROVE  /\ Append(s, e) \in Seq(S) /\ Len(s) + 1 \in Nat /\ Len(s) + 1 \notin DOMAIN s
         /\ DOMAIN Append(s, e) = DOMAIN s \union {Len(s) + 1}
         /\ Append(s, e)[Len(s) + 1] = e
         /\ \A j \in DOMAIN s : Append(s, e)[j] = s[j]
  OBVIOUS

(* The status of a wake is replaced. *)
LEMMA CloseWake ==
  ASSUME Types, NEW w \in DOMAIN wakes, NEW x \in {"consumed", "released"},
         wakes' = [wakes EXCEPT ![w].status = x]
  PROVE  /\ wakes' \in Seq(WakeRecord) /\ DOMAIN wakes' = DOMAIN wakes
         /\ \A v \in DOMAIN wakes :
              /\ wakes'[v].refs = wakes[v].refs
              /\ wakes'[v].status = IF v = w THEN x ELSE wakes[v].status
         /\ WakesKept
<1> DEFINE e == [wakes[w] EXCEPT !.status = x]
<1>1. wakes \in Seq(WakeRecord) /\ wakes[w] \in WakeRecord
  BY Numbers DEF Types
<1>2. e \in WakeRecord /\ e.refs = wakes[w].refs /\ e.status = x
  BY <1>1 DEF WakeRecord
<1>3. wakes' = [wakes EXCEPT ![w] = e]
  OBVIOUS
<1> HIDE DEF e
<1>4. /\ wakes' \in Seq(WakeRecord) /\ DOMAIN wakes' = DOMAIN wakes
      /\ \A v \in DOMAIN wakes : wakes'[v] = IF v = w THEN e ELSE wakes[v]
  BY <1>1, <1>2, <1>3, Replaced
<1>5. \A v \in DOMAIN wakes :
              /\ wakes'[v].refs = wakes[v].refs
              /\ wakes'[v].status = IF v = w THEN x ELSE wakes[v].status
  BY <1>2, <1>4
<1> QED BY <1>4, <1>5 DEF WakesKept

(* An outcome is recorded, once. *)
LEMMA RecordOutcome ==
  ASSUME Types, NEW a \in DOMAIN attempts, NEW o \in Outcome, attempts' = Recorded(a, o)
  PROVE  /\ attempts' \in Seq(AttemptRecord) /\ AttemptsKept
         /\ \A b \in DOMAIN attempts : Told(b)' \subseteq Told(b) \union (IF b = a THEN {o} ELSE {})
<1> DEFINE e == [attempts[a] EXCEPT !.outcomes = Append(attempts[a].outcomes, o)]
<1>1. attempts \in Seq(AttemptRecord) /\ attempts[a] \in AttemptRecord
  BY Numbers DEF Types
<1>2. CASE o \in Told(a)
  <2>1. attempts' = attempts
    BY <1>2 DEF Recorded
  <2> QED BY <1>1, <2>1 DEF AttemptsKept, Told, Outcomes
<1>3. CASE o \notin Told(a)
  <2>1. attempts[a].outcomes \in Seq(Outcome) /\ attempts[a].wake \in Nat
    BY <1>1 DEF AttemptRecord
  <2>2. e.wake = attempts[a].wake /\ e.outcomes = Append(attempts[a].outcomes, o) /\ e \in AttemptRecord
    <3>1. Append(attempts[a].outcomes, o) \in Seq(Outcome)
      BY <2>1
    <3>2. attempts[a] = [wake |-> attempts[a].wake, outcomes |-> attempts[a].outcomes]
      BY <1>1 DEF AttemptRecord
    <3>3. e = [wake |-> attempts[a].wake, outcomes |-> Append(attempts[a].outcomes, o)]
      BY <3>2
    <3> QED BY Zenon, <2>1, <3>1, <3>3 DEF AttemptRecord
  <2>3. attempts' = [attempts EXCEPT ![a] = e]
    BY <1>3 DEF Recorded, Outcomes
  <2> HIDE DEF e
  <2>4. /\ attempts' \in Seq(AttemptRecord) /\ DOMAIN attempts' = DOMAIN attempts
        /\ \A b \in DOMAIN attempts : attempts'[b] = IF b = a THEN e ELSE attempts[b]
    BY <1>1, <2>2, <2>3, Replaced
  <2>5. \A i \in DOMAIN e.outcomes : e.outcomes[i] = o \/ e.outcomes[i] \in Told(a)
    BY <2>1, <2>2 DEF Told, Outcomes
  <2>6. \A b \in DOMAIN attempts : Told(b)' \subseteq Told(b) \union (IF b = a THEN {o} ELSE {})
    BY <2>4, <2>5 DEF Told, Outcomes
  <2> QED BY <2>2, <2>4, <2>6 DEF AttemptsKept
<1> QED BY <1>2, <1>3

(* settleLeaderNotification touches the claimed attempt only: it adds one outcome to it,
   and gives the claim up only with its wake consumed. *)
LEMMA SettleFacts ==
  ASSUME Types, Journal, NEW a \in DOMAIN attempts, NEW o \in Outcome, Settle(a, o)
  PROVE  /\ claim' \in Claim /\ wakes' \in Seq(WakeRecord) /\ attempts' \in Seq(AttemptRecord)
         /\ AttemptsKept /\ WakesKept /\ ClaimKept
         /\ \A b \in DOMAIN attempts : Told(b)' \subseteq Told(b) \union (IF b = a THEN {o} ELSE {})
         /\ \A w \in DOMAIN wakes :
              wakes'[w].status = "consumed" =>
                 \/ wakes[w].status = "consumed"
                 \/ o = "accepted" /\ w = attempts[a].wake
<1>1. CASE claim.attempt # a
  <2>1. UNCHANGED <<claim, wakes, attempts>>
    BY <1>1 DEF Settle
  <2>2. AttemptsKept /\ WakesKept /\ ClaimKept
    BY <2>1 DEF Journal, ClaimIsOpen, AttemptsKept, WakesKept, ClaimKept
  <2> QED BY <2>1, <2>2 DEF Types, Told, Outcomes
<1>2. CASE claim.attempt = a
  <2>1. /\ claim # NoClaim /\ claim.wake \in DOMAIN wakes /\ claim.wake = attempts[a].wake
        /\ wakes[claim.wake].status = "open"
    BY <1>2, ClaimNumbers DEF Journal, ClaimIsOpen
  <2>2. /\ attempts' \in Seq(AttemptRecord) /\ AttemptsKept
        /\ \A b \in DOMAIN attempts : Told(b)' \subseteq Told(b) \union (IF b = a THEN {o} ELSE {})
    BY <1>2, RecordOutcome DEF Settle
  <2>3. CASE o = "accepted"
    <3>1. claim' = NoClaim
      BY <1>2, <2>3 DEF Settle
    <3>2. wakes' = [wakes EXCEPT ![claim.wake].status = "consumed"]
      BY <1>2, <2>3 DEF Settle
    <3>3. /\ wakes' \in Seq(WakeRecord) /\ WakesKept
          /\ \A v \in DOMAIN wakes :
                wakes'[v].status = IF v = claim.wake THEN "consumed" ELSE wakes[v].status
      BY Zenon, <2>1, <3>2, CloseWake
    <3>4. claim' \in Claim /\ ClaimKept
      BY <2>1, <3>1, <3>3 DEF ClaimKept, NoClaim, Claim
    <3> QED BY <2>1, <2>2, <2>3, <3>3, <3>4
  <2>4. CASE o # "accepted"
    <3>1. UNCHANGED <<claim, wakes>>
      BY <1>2, <2>4 DEF Settle
    <3> QED BY <2>1, <2>2, <3>1 DEF Types, ClaimKept, WakesKept
  <2> QED BY <2>3, <2>4
<1> QED BY <1>1, <1>2

-----------------------------------------------------------------------------
(* No attempt becomes possible, and the claim goes only with its wake closed: the claimed
   attempts stay the only ones of open wakes, and disjoint. *)
LEMMA RecordsKept ==
  ASSUME Inv, Shrinks, Known', AttemptsKept, WakesKept, ClaimKept
  PROVE  Current' /\ Disjoint' /\ Journal'
<1>1. \A a \in Nat : Possible(a)' => /\ Possible(a) /\ a \in DOMAIN attempts
                                     /\ attempts[a].wake \in DOMAIN wakes
  BY DEF Inv, Journal, WakesOfAttempts, Known, Shrinks, AttemptsKept
<1>2. \A a \in DOMAIN attempts : attempts[a].wake \in DOMAIN wakes => RefsOf(a)' = RefsOf(a)
  BY DEF AttemptsKept, WakesKept, RefsOf
<1>3. claim # NoClaim => /\ claim.wake \in DOMAIN wakes /\ claim.attempt \in DOMAIN attempts
                         /\ claim.wake = attempts[claim.attempt].wake
  BY ClaimNumbers DEF Inv, Journal, ClaimIsOpen
<1>4. Disjoint'
  <2>1. \A a, b \in Nat : Possible(a)' /\ Possible(b)' /\ a # b => Apart(RefsOf(a)', RefsOf(b)')
    BY <1>1, <1>2 DEF Inv, Disjoint
  <2>2. ASSUME claim' # NoClaim, NEW a \in Nat, Possible(a)', a # claim'.attempt
        PROVE  Apart(RefsOf(a)', wakes'[claim'.wake].refs)
    <3>1. claim' = claim
      BY <2>2 DEF ClaimKept
    <3>2. Apart(RefsOf(a), wakes[claim.wake].refs)
      BY <1>1, <2>2, <3>1 DEF Inv, Disjoint
    <3> QED BY <1>1, <1>2, <1>3, <2>2, <3>1, <3>2 DEF WakesKept
  <2> QED BY <2>1, <2>2 DEF Disjoint, Apart, NoClaim
<1>5. ASSUME NEW a \in Nat, Possible(a)'
      PROVE  claim'.attempt = a \/ wakes'[attempts'[a].wake].status # "open"
  <2>1. CASE claim.attempt = a
    <3>1. claim # NoClaim
      BY <1>1, <1>5, <2>1, ClaimNumbers DEF Inv
    <3> QED BY <1>1, <1>3, <1>5, <2>1, <3>1 DEF ClaimKept, AttemptsKept
  <2>2. CASE wakes[attempts[a].wake].status # "open"
    BY <1>1, <1>5, <2>2 DEF WakesKept, AttemptsKept
  <2> QED BY <1>1, <1>5, <2>1, <2>2 DEF Inv, Current
<1>6. Journal'
  <2>1. WakesOfAttempts'
    BY DEF Inv, Journal, WakesOfAttempts, AttemptsKept, WakesKept
  <2>2. claim' # NoClaim => /\ claim'.attempt \in DOMAIN attempts'
                            /\ claim'.wake = attempts'[claim'.attempt].wake
                            /\ wakes'[claim'.wake].status = "open"
    BY <1>3 DEF ClaimKept, AttemptsKept
  <2> QED BY <2>1, <2>2 DEF Journal, ClaimIsOpen, NoClaim
<1> QED BY <1>4, <1>5, <1>6 DEF Current

(* A ref stays where it was found: queued, claimed, or in a closed wake. *)
LEMMA InputsKept ==
  ASSUME Inv, WakesKept, ClaimKept, pending \subseteq pending', signals'.refs = signals.refs
  PROVE  NoInputLost'
<1>1. SUFFICES ASSUME NEW r \in signals.refs, r \notin pending
               PROVE  \E w \in DOMAIN wakes' :
                         r \in wakes'[w].refs /\ (claim'.wake = w \/ wakes'[w].status # "open")
  BY DEF NoInputLost
<1>2. PICK w \in DOMAIN wakes : r \in wakes[w].refs /\ (claim.wake = w \/ wakes[w].status # "open")
  BY <1>1 DEF Inv, NoInputLost
<1>3. claim.wake = w => claim # NoClaim
  BY ClaimNumbers, Numbers DEF Inv
<1>4. /\ w \in DOMAIN wakes' /\ r \in wakes'[w].refs
      /\ claim'.wake = w \/ wakes'[w].status # "open"
  BY <1>2, <1>3 DEF WakesKept, ClaimKept
<1> QED BY <1>4

(* A wake is consumed only for an attempt that was accepted. *)
LEMMA ConsumedKept ==
  ASSUME Inv, AttemptsKept, WakesKept, accepted \subseteq accepted',
         \A w \in DOMAIN wakes : wakes'[w].status = "consumed" =>
            wakes[w].status = "consumed" \/ \E a \in accepted : attempts[a].wake = w
  PROVE  ConsumedMeansAccepted'
<1>1. \A a \in accepted : a \in DOMAIN attempts
  BY DEF Inv, Types, Travel, Known, Possible
<1>2. ASSUME NEW w \in DOMAIN wakes, wakes'[w].status = "consumed"
      PROVE  \E a \in accepted' : attempts'[a].wake = w
  BY <1>1, <1>2 DEF Inv, ConsumedMeansAccepted, AttemptsKept
<1> QED BY <1>2 DEF ConsumedMeansAccepted, WakesKept

(* The steps of the Host and of the Provider leave the Leader's records alone. *)
LEMMA StoreStands ==
  ASSUME Inv, UNCHANGED store, UNCHANGED signals, Shrinks, Known', accepted \subseteq accepted'
  PROVE  Current' /\ Disjoint' /\ Journal' /\ ConsumedMeansAccepted' /\ NoInputLost'
<1>1. AttemptsKept /\ WakesKept /\ ClaimKept /\ pending \subseteq pending'
  BY DEF Inv, Journal, ClaimIsOpen, store, AttemptsKept, WakesKept, ClaimKept
<1>2. \A w \in DOMAIN wakes : wakes'[w].status = "consumed" => wakes[w].status = "consumed"
  BY DEF store
<1> QED BY <1>1, <1>2, RecordsKept, InputsKept, ConsumedKept

(* Evidence that a step does not touch stays true. *)
LEMMA EvidenceKept ==
  ASSUME Inv, Shrinks, accepted \subseteq accepted', DOMAIN attempts \subseteq DOMAIN attempts'
  PROVE  /\ UNCHANGED attempts => Delivered'
         /\ UNCHANGED binding => Bound'
         /\ UNCHANGED proc => Answered'
         /\ UNCHANGED host => Submitted'
         /\ UNCHANGED <<observed, inbox, retained, ended, running, late>> => Observed'
<1>1. Delivered /\ Bound /\ Answered /\ Submitted /\ Observed
  BY DEF Inv, Evidence
<1>2. ASSUME UNCHANGED attempts PROVE Delivered'
  <2>1. \A a \in DOMAIN attempts : Told(a)' = Told(a)
    BY <1>2 DEF Told, Outcomes
  <2> QED BY <1>1, <1>2, <2>1 DEF Delivered, Shrinks
<1>3. ASSUME UNCHANGED binding PROVE Bound'
  BY <1>1, <1>3 DEF Bound, Shrinks, No
<1>4. ASSUME UNCHANGED proc PROVE Answered'
  BY <1>1, <1>4 DEF Answered, Shrinks, No
<1>5. ASSUME UNCHANGED host PROVE Submitted'
  BY <1>1, <1>5 DEF Submitted, Shrinks
<1>6. ASSUME UNCHANGED <<observed, inbox, retained, ended, running, late>> PROVE Observed'
  BY <1>1, <1>6 DEF Observed
<1> QED BY <1>2, <1>3, <1>4, <1>5, <1>6

(* No attempt advances, though some may be dropped. *)
Retreat ==
  /\ \A a \in Nat : /\ InProc(a)' => InProc(a)
                    /\ InQueue(a)' => InQueue(a)
                    /\ InHost(a)' => InHost(a)
  /\ \A i, j \in DOMAIN queue' : queue'[i].attempt = queue'[j].attempt => i = j
  /\ accepted' = accepted

(* Then each attempt is still in one place, and none became possible. *)
LEMMA RetreatFacts ==
  ASSUME Inv, Retreat, DOMAIN attempts' = DOMAIN attempts
  PROVE  Shrinks /\ Known' /\ Travel'
<1>1. \A a \in Nat : (Live(a)' => Live(a)) /\ (Possible(a)' => Possible(a))
  BY DEF Retreat, Live, Possible
<1>2. Shrinks
  BY <1>1, Numbers DEF Shrinks, Inv
<1>3. Known'
  BY <1>1 DEF Inv, Travel, Known
<1>4. OnePlace'
  BY <1>1 DEF Inv, Travel, OnePlace, Retreat
<1> QED BY <1>2, <1>3, <1>4 DEF Travel

(* The commands of the user, and whatever else leaves processor, queue and Host alone. *)
LEMMA PlacesStand ==
  ASSUME Inv, UNCHANGED <<proc, host, queue, accepted, attempts>>
  PROVE  /\ Shrinks /\ Known' /\ Travel' /\ AttemptsKept
         /\ Delivered' /\ Answered' /\ Submitted'
         /\ UNCHANGED binding => Bound'
         /\ UNCHANGED <<observed, inbox, retained, ended, running, late>> => Observed'
         /\ \A a \in Nat : Possible(a)' = Possible(a)
<1>1. Retreat
  BY DEF Retreat, InProc, InQueue, InHost, Inv, Travel, OnePlace
<1>2. Shrinks /\ Known' /\ Travel'
  BY <1>1, RetreatFacts
<1>3. \A a \in Nat : Possible(a)' = Possible(a)
  BY DEF Possible, Live, InProc, InQueue, InHost
<1>4. AttemptsKept
  BY DEF AttemptsKept
<1> QED BY <1>2, <1>3, <1>4, EvidenceKept

-----------------------------------------------------------------------------
(* The state that a step of the wakeup processor leaves alone. *)
Elsewhere == <<binding, observed, inbox, hostVars, session, cleanup, late, native>>

(* Those steps leave the Host and its Turn as they are. *)
LEMMA HostStands ==
  ASSUME Inv, UNCHANGED Elsewhere
  PROVE  /\ UNCHANGED <<binding, observed, inbox, host, held, queue, retained, ended, session,
                        cleanup, late, accepted, running>>
         /\ Turn' /\ RunningTurnIsOwned'
         /\ (proc' = proc \/ proc' = ProcIdle) => Retreat
<1>1. UNCHANGED <<binding, observed, inbox, host, held, queue, retained, ended, session,
                  cleanup, late, accepted, running>>
  BY DEF Elsewhere, hostVars, native
<1>2. Turn' /\ RunningTurnIsOwned'
  BY <1>1 DEF Inv, Turn, RunningTurnIsOwned
<1>3. ASSUME proc' = proc \/ proc' = ProcIdle PROVE Retreat
  BY <1>1, <1>3 DEF Retreat, InProc, InQueue, InHost, Inv, Travel, OnePlace, ProcIdle
<1> QED BY <1>1, <1>2, <1>3

(* Any settlement of the processor is sound if a negative one is of an attempt that cannot
   reach the Provider any more, and a positive one of an attempt that has. *)
LEMMA SettleStep ==
  ASSUME Inv, NEW a \in DOMAIN attempts, NEW o \in Outcome, Settle(a, o),
         proc' = proc \/ proc' = ProcIdle,
         o \in No => ~Possible(a)', o = "accepted" => a \in accepted,
         UNCHANGED <<pending, signals>>, UNCHANGED Elsewhere
  PROVE  Inv'
<1>0. Types /\ Journal /\ Delivered
  BY DEF Inv, Evidence
<1>1. /\ claim' \in Claim /\ wakes' \in Seq(WakeRecord) /\ attempts' \in Seq(AttemptRecord)
      /\ AttemptsKept /\ WakesKept /\ ClaimKept
  BY <1>0, SettleFacts
<1>2. /\ UNCHANGED <<binding, observed, inbox, host, queue, retained, ended, session,
                     late, accepted, running>>
      /\ Turn' /\ RunningTurnIsOwned' /\ Retreat
  BY HostStands
<1>3. DOMAIN attempts' = DOMAIN attempts
  BY <1>1 DEF AttemptsKept
<1>4. Shrinks /\ Known' /\ Travel'
  BY <1>2, <1>3, RetreatFacts
<1>5. Types'
  <2>1. proc' \in Proc
    BY DEF Inv, Types, Proc, ProcIdle
  <2> QED BY <1>1, <1>2, <2>1 DEF Inv, Types
<1>6. Bound' /\ Submitted' /\ Observed'
  BY <1>2, <1>3, <1>4, EvidenceKept
<1>7. Answered'
  <2>1. CASE proc' = ProcIdle
    BY <2>1 DEF Answered, ProcIdle, No
  <2> QED BY <1>2, <1>3, <1>4, <2>1, EvidenceKept
<1>8. Delivered'
  <2>1. ASSUME NEW b \in DOMAIN attempts, NEW x \in Told(b)' PROVE x \in Told(b) \/ (b = a /\ x = o)
    BY <1>0, SettleFacts
  <2>2. ASSUME NEW b \in DOMAIN attempts, NEW no \in No, no \in Told(b)' PROVE ~Possible(b)'
    BY <1>0, <1>4, <2>1, <2>2 DEF Delivered, Shrinks
  <2>3. ASSUME NEW b \in DOMAIN attempts, "accepted" \in Told(b)' PROVE b \in accepted'
    BY <1>0, <1>2, <2>1, <2>3 DEF Delivered
  <2> QED BY <1>3, <2>2, <2>3 DEF Delivered
<1>9. Current' /\ Disjoint' /\ Journal' /\ NoInputLost'
  BY <1>1, <1>4, RecordsKept, InputsKept
<1>10. ConsumedMeansAccepted'
  <2>1. ASSUME NEW w \in DOMAIN wakes, wakes'[w].status = "consumed"
        PROVE  wakes[w].status = "consumed" \/ \E b \in accepted : attempts[b].wake = w
    BY <1>0, <2>1, SettleFacts
  <2> QED BY <1>1, <1>2, <2>1, ConsumedKept
<1> QED BY <1>2, <1>4, <1>5, <1>6, <1>7, <1>8, <1>9, <1>10 DEF Inv, Evidence

(* A pass that ends without a settlement leaves at most an attempt that goes nowhere. *)
LEMMA RestStep ==
  ASSUME Inv, proc' = ProcIdle, UNCHANGED store, UNCHANGED signals, UNCHANGED Elsewhere
  PROVE  Inv'
<1>1. /\ UNCHANGED <<binding, observed, inbox, host, queue, retained, ended, session,
                     late, accepted, running>>
      /\ Turn' /\ RunningTurnIsOwned' /\ Retreat
  BY HostStands
<1>2. UNCHANGED <<pending, claim, wakes, attempts>>
  BY DEF store
<1>3. Shrinks /\ Known' /\ Travel'
  BY <1>1, <1>2, RetreatFacts
<1>4. Types'
  <2>1. proc' \in Proc
    BY DEF Proc, ProcIdle
  <2> QED BY <1>1, <1>2, <2>1 DEF Inv, Types
<1>5. Delivered' /\ Bound' /\ Submitted' /\ Observed'
  BY <1>1, <1>2, <1>3, EvidenceKept
<1>6. Answered'
  BY DEF Answered, ProcIdle, No
<1>7. Current' /\ Disjoint' /\ Journal' /\ ConsumedMeansAccepted' /\ NoInputLost'
  BY <1>1, <1>3, StoreStands
<1> QED BY <1>1, <1>3, <1>4, <1>5, <1>6, <1>7 DEF Inv, Evidence

(* A new attempt for wake w, made when no attempt of an open wake can reach the Provider and
   none that can shares a message with w. *)
LEMMA SubmitStep ==
  ASSUME Inv, proc.step = "idle", NEW w \in Nat, Submit(w),
         UNCHANGED Elsewhere, pending' \subseteq Ref, NoInputLost',
         wakes' \in Seq(WakeRecord), DOMAIN wakes \subseteq DOMAIN wakes', w \in DOMAIN wakes',
         \A v \in DOMAIN wakes : wakes'[v] = wakes[v],
         \A v \in DOMAIN wakes' : v \notin DOMAIN wakes => wakes'[v].status = "open",
         wakes'[w].status = "open",
         \A a \in Nat : Possible(a) => /\ wakes[attempts[a].wake].status # "open"
                                       /\ Apart(RefsOf(a), wakes'[w].refs)
  PROVE  Inv'
<1> DEFINE e == [wake |-> w, outcomes |-> <<>>]
<1>0. PICK n : n = Len(attempts) + 1
  OBVIOUS
<1>1. attempts' = Append(attempts, e) /\ attempts \in Seq(AttemptRecord)
  BY DEF Submit, Inv, Types
<1>2. claim' = [wake |-> w, attempt |-> n] /\ proc' = [ProcIdle EXCEPT !.step = "prepare", !.attempt = n]
  BY <1>0 DEF Submit
<1>3. e \in AttemptRecord /\ e.wake = w /\ e.outcomes = <<>>
  BY DEF AttemptRecord
<1> HIDE DEF e
<1>4. /\ attempts' \in Seq(AttemptRecord) /\ n \in Nat /\ n \notin DOMAIN attempts
      /\ DOMAIN attempts' = DOMAIN attempts \union {n}
      /\ attempts'[n] = e /\ \A a \in DOMAIN attempts : attempts'[a] = attempts[a]
  BY <1>0, <1>1, <1>3, Added
<1>5. /\ proc' \in Proc /\ proc'.step = "prepare" /\ proc'.attempt = n /\ proc'.reply = "none"
      /\ claim' \in Claim /\ claim'.wake = w /\ claim'.attempt = n
  BY Zenon, <1>2, <1>4 DEF ProcIdle, Proc, Claim
<1>6. /\ UNCHANGED <<binding, observed, inbox, host, queue, retained, ended, session,
                     late, accepted, running>>
      /\ Turn' /\ RunningTurnIsOwned'
  BY HostStands
<1>7. Types'
  BY <1>4, <1>5, <1>6 DEF Inv, Types
<1>8. \A a \in Nat : /\ ~InProc(a) /\ (InProc(a)' <=> a = n)
                     /\ InQueue(a)' = InQueue(a) /\ InHost(a)' = InHost(a)
  BY <1>5, <1>6 DEF InProc, InQueue, InHost
<1>9. ~Possible(n)
  BY <1>4 DEF Inv, Travel, Known
<1>10. \A a \in Nat : Possible(a)' <=> Possible(a) \/ a = n
  BY <1>6, <1>8 DEF Possible, Live
<1>11. \A a \in Nat : Possible(a) => a \in DOMAIN attempts /\ attempts[a].wake \in DOMAIN wakes
  BY DEF Inv, Travel, Known, Journal, WakesOfAttempts
<1>12. Journal'
  <2>1. WakesOfAttempts'
    BY <1>3, <1>4 DEF Inv, Journal, WakesOfAttempts
  <2>2. ClaimIsOpen'
    BY <1>3, <1>4, <1>5 DEF ClaimIsOpen
  <2> QED BY <2>1, <2>2 DEF Journal
<1>13. Travel'
  <2>1. Known'
    BY <1>4, <1>10, <1>11 DEF Known
  <2>2. OnePlace'
    BY Zenon, <1>6, <1>8, <1>9 DEF Inv, Travel, OnePlace, Live, Possible
  <2> QED BY <2>1, <2>2 DEF Travel
<1>14. Shrinks /\ DOMAIN attempts \subseteq DOMAIN attempts'
  BY <1>4, <1>10, Numbers DEF Shrinks, Inv
<1>15. Bound' /\ Submitted' /\ Observed'
  BY <1>6, <1>14, EvidenceKept
<1>16. Answered'
  BY <1>4, <1>5 DEF Answered, No
<1>17. Delivered'
  <2>1. attempts'[n].outcomes = <<>> /\ \A a \in DOMAIN attempts : attempts'[a] = attempts[a]
    BY <1>3, <1>4
  <2>2. Told(n)' = {}
    BY <2>1 DEF Told, Outcomes
  <2>3. \A a \in DOMAIN attempts : Told(a)' = Told(a)
    BY <2>1 DEF Told, Outcomes
  <2> QED BY Zenon, <1>4, <1>6, <1>14, <2>2, <2>3 DEF Inv, Evidence, Delivered, Shrinks
<1>18. \A a \in Nat : Possible(a) => RefsOf(a)' = RefsOf(a)
  BY <1>4, <1>11 DEF RefsOf
<1>19. RefsOf(n)' = wakes'[w].refs
  BY <1>3, <1>4 DEF RefsOf
<1>20. Current'
  <2>1. SUFFICES ASSUME NEW a \in Nat, Possible(a)'
                 PROVE  claim'.attempt = a \/ wakes'[attempts'[a].wake].status # "open"
    BY DEF Current
  <2>2. a = n \/ Possible(a)
    BY <1>10, <2>1
  <2>3. Possible(a) => wakes'[attempts'[a].wake].status # "open"
    BY <1>4, <1>11
  <2> QED BY <1>5, <2>2, <2>3
<1>21. Disjoint'
  <2>1. ASSUME NEW a \in Nat, NEW b \in Nat, Possible(a)', Possible(b)', a # b
        PROVE  Apart(RefsOf(a)', RefsOf(b)')
    <3>1. CASE a # n /\ b # n
      BY Zenon, <1>10, <1>18, <2>1, <3>1 DEF Inv, Disjoint
    <3>2. CASE a = n
      BY <1>10, <1>18, <1>19, <2>1, <3>2 DEF Apart
    <3>3. CASE b = n
      BY <1>10, <1>18, <1>19, <2>1, <3>3 DEF Apart
    <3> QED BY <3>1, <3>2, <3>3
  <2>2. ASSUME NEW a \in Nat, Possible(a)', a # claim'.attempt
        PROVE  Apart(RefsOf(a)', wakes'[claim'.wake].refs)
    BY <1>5, <1>10, <1>18, <2>2
  <2> QED BY <2>1, <2>2 DEF Disjoint, Apart, NoClaim
<1>22. ConsumedMeansAccepted'
  <2>1. \A a \in accepted : a \in DOMAIN attempts
    BY <1>11 DEF Inv, Types, Possible
  <2>2. ASSUME NEW v \in DOMAIN wakes', wakes'[v].status = "consumed"
        PROVE  \E a \in accepted' : attempts'[a].wake = v
    <3>1. v \in DOMAIN wakes /\ wakes[v].status = "consumed"
      BY <2>2
    <3>2. PICK a \in accepted : attempts[a].wake = v
      BY <3>1 DEF Inv, ConsumedMeansAccepted
    <3> QED BY <1>4, <1>6, <2>1, <3>2
  <2> QED BY <2>2 DEF ConsumedMeansAccepted
<1> QED BY <1>6, <1>7, <1>12, <1>13, <1>15, <1>16, <1>17, <1>20, <1>21, <1>22 DEF Inv, Evidence

-----------------------------------------------------------------------------
(* A signal queues a ref and touches nothing else. *)
LEMMA SignalStep ==
  ASSUME Inv, NEW m \in Input, Signal(m) PROVE Inv'
<1>1. UNCHANGED <<binding, observed, inbox, host, queue, retained, ended, session,
                  late, accepted, running, claim, wakes, attempts, proc>>
  BY DEF Signal, hostVars, native
<1>2. pending' = pending \union {m} /\ signals'.refs = signals.refs \union {m}
  BY DEF Signal
<1>3. Types'
  BY Zenon, <1>1, <1>2 DEF Inv, Types, Ref
<1>4. /\ Shrinks /\ Known' /\ Travel' /\ AttemptsKept
      /\ Delivered' /\ Answered' /\ Submitted' /\ Bound' /\ Observed'
  BY <1>1, PlacesStand
<1>5. WakesKept /\ ClaimKept
  BY <1>1 DEF Inv, Journal, ClaimIsOpen, WakesKept, ClaimKept
<1>6. ConsumedMeansAccepted' /\ NoInputLost'
  BY <1>1, <1>2 DEF Inv, ConsumedMeansAccepted, NoInputLost
<1>7. UNCHANGED Elsewhere
  BY DEF Signal, Elsewhere
<1> QED BY <1>3, <1>4, <1>5, <1>6, <1>7, RecordsKept, HostStands DEF Inv, Evidence

(* The last outcome of an attempt is one of those recorded. *)
LEMMA LastIsTold ==
  ASSUME Types, NEW a \in DOMAIN attempts
  PROVE  Previous(a) = "none" \/ Previous(a) \in Told(a)
<1>1. attempts[a] \in AttemptRecord
  BY Numbers
<1>2. attempts[a].outcomes \in Seq(Outcome)
  BY <1>1 DEF AttemptRecord
<1>3. \A s \in Seq(Outcome) : s # <<>> => Len(s) \in DOMAIN s
  OBVIOUS
<1>4. attempts[a].outcomes # <<>> => Len(attempts[a].outcomes) \in DOMAIN attempts[a].outcomes
  BY <1>2, <1>3
<1> QED BY <1>4 DEF Previous, Outcomes, Told

(* The disposition of a claim rests on evidence about its attempt. *)
LEMMA DispositionIsSound ==
  ASSUME Inv, NEW a \in DOMAIN attempts
  PROVE  /\ Disposition(a) = "accepted" => a \in accepted
         /\ Disposition(a) \in {"rejected", "submit"} => ~Possible(a)
<1>1. Delivered /\ Bound /\ Observed
  BY DEF Inv, Evidence
<1>2. Previous(a) = "none" \/ Previous(a) \in Told(a)
  BY LastIsTold DEF Inv
<1>3. AcceptedEvidence(a) => a \in accepted
  BY <1>1, <1>2 DEF AcceptedEvidence, NativeStatus, Delivered, Bound, Observed
<1>4. ASSUME NEW no \in No, no \in {NativeStatus(a), Previous(a)} PROVE ~Possible(a)
  BY <1>1, <1>2, <1>4 DEF NativeStatus, Delivered, Bound, No
<1>5. Disposition(a) = "accepted" => AcceptedEvidence(a)
  BY DEF Disposition
<1>6. Disposition(a) = "rejected" => "rejected" \in {NativeStatus(a), Previous(a)}
  BY DEF Disposition
<1>7. Disposition(a) = "submit" => "deferred" \in {NativeStatus(a), Previous(a)}
  BY DEF Disposition
<1> QED BY <1>3, <1>4, <1>5, <1>6, <1>7 DEF No

(* A claim found by a later pass is settled on evidence, or submitted anew once its attempt
   is known to have failed. *)
LEMMA ClaimAgainStep ==
  ASSUME Inv, ClaimLeaderNotification, ClaimAgain PROVE Inv'
<1>1. proc.step = "idle" /\ claim # NoClaim /\ UNCHANGED <<pending, signals>>
  BY DEF ClaimLeaderNotification, ClaimAgain
<1>2. UNCHANGED Elsewhere
  BY DEF ClaimLeaderNotification, Elsewhere
<1>3. PICK a \in DOMAIN attempts : a = claim.attempt
  BY <1>1 DEF Inv, Journal, ClaimIsOpen
<1>4. PICK d : d = Disposition(a)
  OBVIOUS
<1>5. (d = "accepted" => a \in accepted) /\ (d \in {"rejected", "submit"} => ~Possible(a))
  BY <1>4, DispositionIsSound
<1>6. CASE d \in {"accepted", "rejected", "unknown"} /\ Settle(a, d) /\ UNCHANGED proc
  <2>1. Possible(a)' = Possible(a)
    BY <1>2, <1>6 DEF Possible, Live, InProc, InQueue, InHost, Elsewhere, hostVars, native
  <2>2. d \in Outcome
    BY <1>6 DEF Outcome
  <2>3. (d \in No => ~Possible(a)') /\ (d = "accepted" => a \in accepted)
    BY <1>5, <1>6, <2>1 DEF No
  <2> QED BY <1>1, <1>2, <1>6, <2>2, <2>3, SettleStep
<1>7. CASE d = "submit" /\ Submit(claim.wake) /\ UNCHANGED wakes
  <2>1. PICK w \in Nat : w = claim.wake
    BY Numbers DEF Inv
  <2>2. w \in DOMAIN wakes /\ wakes[w].status = "open" /\ UNCHANGED wakes
    BY <1>1, <1>7, <2>1, ClaimNumbers DEF Inv, Journal, ClaimIsOpen
  <2>3. Submit(w)
    BY <1>7, <2>1
  <2>4. claim'.wake = w
    BY <2>3 DEF Submit
  <2>5. pending' \subseteq Ref /\ wakes' \in Seq(WakeRecord)
    BY <1>1, <2>2 DEF Inv, Types
  <2>6. NoInputLost'
    BY <1>1, <2>1, <2>2, <2>4 DEF Inv, NoInputLost
  <2>7. \A b \in Nat : Possible(b) => /\ wakes[attempts[b].wake].status # "open"
                                      /\ Apart(RefsOf(b), wakes'[w].refs)
    BY <1>1, <1>3, <1>5, <1>7, <2>1, <2>2 DEF Inv, Current, Disjoint
  <2> QED BY <1>1, <1>2, <2>2, <2>3, <2>5, <2>6, <2>7, SubmitStep
<1>8. \/ d \in {"accepted", "rejected", "unknown"} /\ Settle(a, d) /\ UNCHANGED proc
      \/ d = "submit" /\ Submit(claim.wake) /\ UNCHANGED wakes
  BY <1>3, <1>4 DEF ClaimAgain
<1> QED BY <1>6, <1>7, <1>8

(* What is not replayed is in a closed wake, and all of a closed wake is not replayed. *)
LEMMA ClosedWakes ==
  /\ \A r \in NonReplayable : \E w \in DOMAIN wakes : r \in wakes[w].refs /\ wakes[w].status # "open"
  /\ \A w \in DOMAIN wakes : wakes[w].status # "open" =>
        wakes[w].refs \subseteq NonReplayable \union {SessionReplaced}
<1> DEFINE closed == {v \in DOMAIN wakes : wakes[v].status # "open"}
<1>1. \A r \in NonReplayable : \E w \in DOMAIN wakes : r \in wakes[w].refs /\ wakes[w].status # "open"
  BY DEF NonReplayable
<1>2. ASSUME NEW w \in closed, NEW r \in wakes[w].refs, r # SessionReplaced PROVE r \in NonReplayable
  <2>1. r \in UNION {wakes[v].refs : v \in closed}
    BY <1>2
  <2> QED BY <1>2, <2>1 DEF NonReplayable
<1>3. \A w \in DOMAIN wakes : wakes[w].status # "open" => w \in closed
  OBVIOUS
<1> HIDE DEF closed
<1> QED BY <1>1, <1>2, <1>3

(* A pass finds nothing to notify: what was queued is in closed wakes already. *)
LEMMA ForgetStep ==
  ASSUME Inv, pending \subseteq NonReplayable, pending' = {},
         UNCHANGED <<claim, wakes, attempts, proc, signals>>, UNCHANGED Elsewhere
  PROVE  Inv'
<1>1. UNCHANGED <<binding, observed, inbox, host, queue, retained, ended, session,
                  late, accepted, running>>
  BY HostStands
<1>2. Types'
  BY <1>1 DEF Inv, Types
<1>3. /\ Shrinks /\ Known' /\ Travel' /\ AttemptsKept
      /\ Delivered' /\ Answered' /\ Submitted' /\ Bound' /\ Observed'
  BY <1>1, PlacesStand
<1>4. WakesKept /\ ClaimKept
  BY DEF Inv, Journal, ClaimIsOpen, WakesKept, ClaimKept
<1>5. ConsumedMeansAccepted' /\ NoInputLost'
  BY <1>1, ClosedWakes DEF Inv, ConsumedMeansAccepted, NoInputLost
<1> QED BY <1>2, <1>3, <1>4, <1>5, RecordsKept, HostStands DEF Inv, Evidence

(* A new wake takes no message of a wake that was accepted or released, and the others have
   no attempt left that could be accepted. *)
LEMMA ClaimPendingStep ==
  ASSUME Inv, ClaimLeaderNotification, ClaimPending PROVE Inv'
<1>1. proc.step = "idle" /\ claim = NoClaim /\ UNCHANGED signals
  BY DEF ClaimLeaderNotification, ClaimPending
<1>2. UNCHANGED Elsewhere
  BY DEF ClaimLeaderNotification, Elsewhere
<1>3. PICK refs : refs = pending \ NonReplayable
  BY Zenon
<1>4. CASE refs = {} /\ pending' = {} /\ UNCHANGED <<claim, wakes, attempts, proc>>
  BY <1>1, <1>2, <1>3, <1>4, ForgetStep
<1>5. CASE /\ refs # {}
           /\ wakes' = Append(wakes, [refs |-> Selected(refs), status |-> "open"])
           /\ Submit(Len(wakes) + 1)
           /\ pending' = Remainder(refs)
  <2> DEFINE e == [refs |-> Selected(refs), status |-> "open"]
  <2>1. PICK w : w = Len(wakes) + 1
    OBVIOUS
  <2>2. Selected(refs) \subseteq refs /\ refs \subseteq pending /\ refs \subseteq Ref
    BY <1>3 DEF Selected, Inv, Types
  <2>3. e \in WakeRecord /\ e.refs = Selected(refs) /\ e.status = "open"
    BY <2>2 DEF WakeRecord
  <2>4. wakes' = Append(wakes, e) /\ wakes \in Seq(WakeRecord)
    BY <1>5 DEF Inv, Types
  <2> HIDE DEF e
  <2>5. /\ wakes' \in Seq(WakeRecord) /\ DOMAIN wakes' = DOMAIN wakes \union {w}
        /\ w \in Nat /\ w \notin DOMAIN wakes /\ wakes'[w] = e
        /\ \A v \in DOMAIN wakes : wakes'[v] = wakes[v]
    BY <2>1, <2>3, <2>4, Added
  <2>6. claim.attempt = 0 /\ claim.wake = 0 /\ 0 \notin DOMAIN attempts /\ 0 \notin DOMAIN wakes
    BY <1>1, Numbers, ClaimNumbers DEF Inv
  <2>7. \A a \in Nat : Possible(a) => /\ a \in DOMAIN attempts /\ attempts[a].wake \in DOMAIN wakes
                                      /\ wakes[attempts[a].wake].status # "open"
    BY <2>6 DEF Inv, Travel, Known, Journal, WakesOfAttempts, Current
  <2>8. \A a \in Nat : Possible(a) => Apart(RefsOf(a), wakes'[w].refs)
    <3>1. \A a \in Nat : Possible(a) => RefsOf(a) \subseteq NonReplayable \union {SessionReplaced}
      BY <2>7, ClosedWakes DEF RefsOf
    <3> QED BY <1>3, <2>2, <2>3, <2>5, <3>1 DEF Apart
  <2>9. Submit(w)
    BY <1>5, <2>1
  <2>10. claim'.wake = w
    BY <2>9 DEF Submit
  <2>11. NoInputLost'
    <3>1. SUFFICES ASSUME NEW r \in signals.refs, r \notin pending'
                   PROVE  \E v \in DOMAIN wakes' :
                             r \in wakes'[v].refs /\ (claim'.wake = v \/ wakes'[v].status # "open")
      BY <1>1 DEF NoInputLost
    <3>2. CASE r \in refs
      <4>1. r \in Selected(refs)
        BY <1>5, <3>1, <3>2 DEF Remainder
      <4> QED BY <2>3, <2>5, <2>10, <4>1
    <3>3. CASE r \notin refs
      <4>1. r \in pending => r \in NonReplayable
        BY <1>3, <3>3
      <4>2. PICK v \in DOMAIN wakes : r \in wakes[v].refs /\ wakes[v].status # "open"
        BY <2>6, <4>1, ClosedWakes DEF Inv, NoInputLost
      <4> QED BY <2>5, <4>2
    <3> QED BY <3>2, <3>3
  <2>12. pending' \subseteq Ref
    BY <1>5, <2>2 DEF Remainder
  <2> QED BY <1>1, <1>2, <2>3, <2>5, <2>7, <2>8, <2>9, <2>11, <2>12, SubmitStep
<1> QED BY Zenon, <1>3, <1>4, <1>5 DEF ClaimPending

(* The attempt moves on to the send. *)
LEMMA PrepareStep ==
  ASSUME Inv, Prepare PROVE Inv'
<1>1. UNCHANGED Elsewhere /\ UNCHANGED store /\ UNCHANGED signals
  BY DEF Prepare, Elsewhere
<1>2. /\ proc.step = "prepare" /\ proc' \in Proc
      /\ proc'.step = "send" /\ proc'.attempt = proc.attempt /\ proc'.reply = proc.reply
  BY Zenon DEF Prepare, Inv, Types, Proc
<1>3. /\ UNCHANGED <<binding, observed, inbox, host, queue, retained, ended, session,
                     late, accepted, running, pending, claim, wakes, attempts>>
      /\ Turn' /\ RunningTurnIsOwned'
  BY <1>1, HostStands DEF store
<1>4. Types'
  BY <1>2, <1>3 DEF Inv, Types
<1>5. Retreat
  BY <1>2, <1>3 DEF Retreat, InProc, InQueue, InHost, Inv, Travel, OnePlace
<1>6. Shrinks /\ Known' /\ Travel'
  BY <1>3, <1>5, RetreatFacts
<1>7. Delivered' /\ Bound' /\ Submitted' /\ Observed'
  BY <1>3, <1>6, EvidenceKept
<1>8. Answered'
  BY <1>2, <1>3 DEF Inv, Evidence, Answered, No
<1> QED BY <1>1, <1>3, <1>4, <1>6, <1>7, <1>8, StoreStands DEF Inv, Evidence

(* A delivery that fails before its send has left no trace. *)
LEMMA PrepareFailsStep ==
  ASSUME Inv, PrepareFails PROVE Inv'
<1>1. UNCHANGED Elsewhere /\ UNCHANGED <<pending, signals>> /\ proc' = ProcIdle /\ proc.step = "prepare"
  BY DEF PrepareFails, Elsewhere
<1>2. PICK a \in DOMAIN attempts : a = proc.attempt
  BY <1>1 DEF Inv, Evidence, Answered
<1>3. PICK o \in {"deferred", "rejected"} : Settle(a, o)
  BY <1>2 DEF PrepareFails
<1>4. ~Possible(a)'
  <2>1. a \in Nat /\ InProc(a)
    BY <1>1, <1>2, Numbers DEF Inv, InProc
  <2>2. ~InQueue(a) /\ ~InHost(a) /\ a \notin accepted
    BY <2>1 DEF Inv, Travel, OnePlace, Live
  <2>3. UNCHANGED <<host, queue, accepted>>
    BY <1>1, HostStands
  <2> QED BY <1>1, <2>2, <2>3 DEF Possible, Live, InProc, InQueue, InHost, ProcIdle
<1>5. o \in Outcome /\ o # "accepted"
  BY DEF Outcome
<1> QED BY <1>1, <1>3, <1>4, <1>5, SettleStep

(* The attempt goes from the processor to the queue of the Host, or to a Host that is gone. *)
LEMMA SendStep ==
  ASSUME Inv, Send PROVE Inv'
<1>1. /\ UNCHANGED <<binding, observed, inbox, host, held, retained, ended, session, cleanup,
                     late, accepted, running, pending, signals>>
      /\ proc.step = "send"
  BY DEF Send, native
<1>2. PICK a \in DOMAIN attempts : a = proc.attempt
  BY <1>1 DEF Inv, Evidence, Answered
<1>3. a \in Nat /\ InProc(a)
  BY <1>1, <1>2, Numbers DEF Inv, InProc
<1>4. ~InQueue(a) /\ ~InHost(a) /\ a \notin accepted
  BY <1>3 DEF Inv, Travel, OnePlace, Live
<1>5. CASE Settle(a, "deferred") /\ proc' = ProcIdle /\ UNCHANGED queue
  <2>1. UNCHANGED Elsewhere
    BY <1>1, <1>5 DEF Elsewhere, hostVars, native
  <2>2. ~Possible(a)'
    BY <1>1, <1>4, <1>5 DEF Possible, Live, InProc, InQueue, InHost, ProcIdle
  <2>3. PICK o \in Outcome : o = "deferred"
    BY DEF Outcome
  <2> QED BY <1>1, <1>5, <2>1, <2>2, <2>3, SettleStep
<1>6. CASE /\ cleanup # "stopped"
           /\ queue' = Append(queue, [attempt |-> proc.attempt, session |-> proc.session])
           /\ proc' = [proc EXCEPT !.step = "wait"]
           /\ UNCHANGED <<claim, wakes, attempts>>
  <2> DEFINE e == [attempt |-> proc.attempt, session |-> proc.session]
  <2>1. e \in Request /\ e.attempt = a
    BY <1>2 DEF Inv, Types, Proc, Request
  <2>2. queue' = Append(queue, e) /\ queue \in Seq(Request)
    BY <1>6 DEF Inv, Types
  <2> HIDE DEF e
  <2>3. PICK n : n = Len(queue) + 1
    OBVIOUS
  <2>4. /\ queue' \in Seq(Request) /\ n \notin DOMAIN queue
        /\ DOMAIN queue' = DOMAIN queue \union {n} /\ queue'[n] = e
        /\ \A i \in DOMAIN queue : queue'[i] = queue[i]
    BY <2>1, <2>2, <2>3, Added
  <2>5. proc' \in Proc /\ proc'.step = "wait" /\ proc'.attempt = a /\ proc'.reply = proc.reply
    BY <1>2, <1>6 DEF Inv, Types, Proc
  <2>6. UNCHANGED store /\ UNCHANGED <<claim, wakes, attempts>>
    BY <1>1, <1>6 DEF store
  <2>7. Types'
    BY Zenon, <1>1, <2>4, <2>5, <2>6 DEF Inv, Types
  <2>8. \A b \in Nat : /\ ~InProc(b)' /\ (InProc(b) <=> b = a) /\ InHost(b)' = InHost(b)
                       /\ InQueue(b)' <=> InQueue(b) \/ b = a
    BY Zenon, <1>1, <1>2, <2>1, <2>4, <2>5 DEF InProc, InQueue, InHost
  <2>9. \A b \in Nat : Possible(b)' <=> Possible(b)
    BY <1>1, <2>8 DEF Possible, Live
  <2>10. Shrinks /\ Known'
    BY Zenon, <2>6, <2>9, Numbers DEF Inv, Shrinks, Travel, Known
  <2>11. OnePlace'
    <3>1. \A i, j \in DOMAIN queue' : queue'[i].attempt = queue'[j].attempt => i = j
      BY <1>4, <2>1, <2>4 DEF Inv, Travel, OnePlace, InQueue
    <3> QED BY <1>1, <1>4, <2>8, <3>1 DEF Inv, Travel, OnePlace, Live
  <2>12. Answered'
    BY Zenon, <1>1, <2>5, <2>6 DEF Inv, Evidence, Answered, No
  <2>13. Delivered' /\ Bound' /\ Submitted' /\ Observed'
    BY <1>1, <2>6, <2>10, EvidenceKept
  <2>14. Turn' /\ RunningTurnIsOwned'
    BY <1>1, <1>6 DEF Inv, Turn, RunningTurnIsOwned
  <2> QED BY <1>1, <2>6, <2>7, <2>10, <2>11, <2>12, <2>13, <2>14, StoreStands DEF Inv, Evidence, Travel
<1> QED BY <1>2, <1>5, <1>6 DEF Send

(* The answer of the Host, which is true of the attempt; a pending one settles nothing. *)
LEMMA ReceiveStep ==
  ASSUME Inv, Receive PROVE Inv'
<1>1. /\ UNCHANGED Elsewhere /\ UNCHANGED <<pending, signals>> /\ proc' = ProcIdle
      /\ proc.step = "wait" /\ proc.reply # "none"
  BY DEF Receive, Elsewhere
<1>2. CASE proc.reply = "pending"
  <2>1. UNCHANGED store
    BY <1>1, <1>2 DEF Receive, store
  <2> QED BY <1>1, <2>1, RestStep
<1>3. CASE proc.reply # "pending"
  <2>1. PICK a \in DOMAIN attempts : a = proc.attempt
    BY <1>1 DEF Inv, Evidence, Answered
  <2>2. PICK o \in Outcome : o = proc.reply
    BY <1>1, <1>3 DEF Inv, Types, Proc, Outcome
  <2>3. Settle(a, o)
    BY <1>3, <2>1, <2>2 DEF Receive
  <2>4. (o \in No => ~Possible(a)) /\ (o = "accepted" => a \in accepted)
    BY <2>1, <2>2 DEF Inv, Evidence, Answered
  <2>5. Possible(a)' => Possible(a)
    BY <1>1, HostStands DEF Possible, Live, InProc, InQueue, InHost, ProcIdle
  <2> QED BY <1>1, <2>3, <2>4, <2>5, SettleStep
<1> QED BY <1>2, <1>3

(* Without an answer the outcome is open or unknown, never negative. *)
LEMMA NoAnswerStep ==
  ASSUME Inv, NoAnswer \/ HostGone PROVE Inv'
<1>1. /\ UNCHANGED Elsewhere /\ UNCHANGED <<pending, signals>> /\ proc' = ProcIdle
      /\ proc.step = "wait"
      /\ UNCHANGED <<claim, wakes, attempts>> \/ Settle(proc.attempt, "unknown")
  BY DEF NoAnswer, HostGone, Elsewhere
<1>2. CASE UNCHANGED <<claim, wakes, attempts>>
  <2>1. UNCHANGED store
    BY <1>1, <1>2 DEF store
  <2> QED BY <1>1, <2>1, RestStep
<1>3. CASE Settle(proc.attempt, "unknown")
  <2>1. PICK a \in DOMAIN attempts : a = proc.attempt
    BY <1>1 DEF Inv, Evidence, Answered
  <2>2. PICK o \in Outcome : o = "unknown"
    BY DEF Outcome
  <2>3. Settle(a, o) /\ o \notin No /\ o # "accepted"
    BY <1>3, <2>1, <2>2 DEF No
  <2> QED BY <1>1, <2>3, SettleStep
<1> QED BY <1>1, <1>2, <1>3

(* A crash of the Controller loses the pass, not its records. *)
LEMMA ControllerCrashStep ==
  ASSUME Inv, ControllerCrash PROVE Inv'
<1>1. UNCHANGED Elsewhere /\ UNCHANGED signals /\ UNCHANGED store /\ proc' = ProcIdle
  BY DEF ControllerCrash, Elsewhere
<1> QED BY <1>1, RestStep

-----------------------------------------------------------------------------
(* task wake retry: the wake is left open, but its last attempt was rejected and none of the
   others could be accepted either. *)
LEMMA TaskWakeRetryStep ==
  ASSUME Inv, TaskWakeRetry PROVE Inv'
<1>1. UNCHANGED <<binding, observed, inbox, host, queue, retained, ended, session,
                  late, accepted, running, wakes, attempts, proc, signals>>
  BY DEF TaskWakeRetry, hostVars, native
<1>2. /\ claim # NoClaim /\ claim' = NoClaim /\ Previous(claim.attempt) = "rejected"
      /\ pending' = pending \union wakes[claim.wake].refs
  BY Zenon DEF TaskWakeRetry
<1>3. PICK a \in DOMAIN attempts : a = claim.attempt
  BY <1>2 DEF Inv, Journal, ClaimIsOpen
<1>4. PICK w \in DOMAIN wakes : w = claim.wake
  BY <1>2, ClaimNumbers DEF Inv
<1>5. wakes[w].refs \subseteq Ref
  <2>1. wakes[w] \in WakeRecord
    BY Numbers DEF Inv
  <2> QED BY <2>1 DEF WakeRecord
<1>6. Types'
  <2>1. pending' \subseteq Ref /\ claim' \in Claim
    BY <1>2, <1>4, <1>5 DEF Inv, Types, NoClaim, Claim
  <2> QED BY <1>1, <2>1 DEF Inv, Types
<1>7. ~Possible(a)
  <2>1. Previous(a) \in Told(a)
    BY <1>2, <1>3, LastIsTold DEF Inv
  <2> QED BY <1>2, <1>3, <2>1 DEF Inv, Evidence, Delivered, No
<1>8. /\ \A b \in Nat : Possible(b)' = Possible(b)
      /\ Travel' /\ Delivered' /\ Answered' /\ Submitted' /\ Bound' /\ Observed'
  BY <1>1, PlacesStand
<1>9. Journal'
  BY <1>1, <1>2 DEF Inv, Journal, WakesOfAttempts, ClaimIsOpen
<1>10. Current'
  BY <1>1, <1>3, <1>7, <1>8 DEF Inv, Current
<1>11. Disjoint'
  <2>1. \A b \in Nat : RefsOf(b)' = RefsOf(b)
    BY <1>1 DEF RefsOf
  <2> QED BY <1>2, <1>8, <2>1 DEF Inv, Disjoint, Apart, NoClaim
<1>12. ConsumedMeansAccepted' /\ NoInputLost'
  BY <1>1, <1>2 DEF Inv, ConsumedMeansAccepted, NoInputLost
<1>13. UNCHANGED Elsewhere
  BY Zenon DEF TaskWakeRetry, Elsewhere
<1> QED BY <1>6, <1>8, <1>9, <1>10, <1>11, <1>12, <1>13, HostStands DEF Inv, Evidence

(* task wake resolve: the wake is closed, and the claim with it. *)
LEMMA TaskWakeResolveStep ==
  ASSUME Inv, NEW w \in DOMAIN wakes, TaskWakeResolve(w) PROVE Inv'
<1>1. UNCHANGED <<binding, observed, inbox, host, queue, retained, ended, session,
                  late, accepted, running, pending, attempts, proc, signals>>
  BY DEF TaskWakeResolve, hostVars, native
<1>2. claim' = IF claim.wake = w THEN NoClaim ELSE claim
  BY DEF TaskWakeResolve
<1>3. wakes' = [wakes EXCEPT ![w].status = "released"]
  BY DEF TaskWakeResolve
<1>4. /\ wakes' \in Seq(WakeRecord) /\ WakesKept
      /\ \A v \in DOMAIN wakes : wakes'[v].status = IF v = w THEN "released" ELSE wakes[v].status
  BY Zenon, <1>3, CloseWake DEF Inv
<1>5. Types'
  <2>1. claim' \in Claim
    BY <1>2 DEF Inv, Types, NoClaim, Claim
  <2> QED BY Zenon, <1>1, <1>4, <2>1 DEF Inv, Types
<1>6. ClaimKept
  <2>1. claim # NoClaim => claim.wake \in DOMAIN wakes /\ wakes[claim.wake].status = "open"
    BY Zenon, ClaimNumbers DEF Inv, Journal, ClaimIsOpen
  <2> QED BY <1>2, <1>4, <2>1 DEF ClaimKept
<1>7. /\ Shrinks /\ Known' /\ Travel' /\ AttemptsKept
      /\ Delivered' /\ Answered' /\ Submitted' /\ Bound' /\ Observed'
  BY <1>1, PlacesStand
<1>8. ConsumedMeansAccepted'
  BY <1>1, <1>4, <1>7, ConsumedKept
<1>9. UNCHANGED Elsewhere
  BY DEF TaskWakeResolve, Elsewhere
<1> QED BY Zenon, <1>1, <1>4, <1>5, <1>6, <1>7, <1>8, <1>9, RecordsKept, InputsKept, HostStands DEF Inv, Evidence

(* completeRuntimeCleanup: the claim is released with its wake; the Host is gone. *)
LEMMA CompleteRuntimeCleanupStep ==
  ASSUME Inv, CompleteRuntimeCleanup PROVE Inv'
<1>1. UNCHANGED <<attempts, observed, inbox, host, held, queue, retained, ended, proc,
                  accepted, running>>
  BY DEF CompleteRuntimeCleanup, hostVars, native
<1>2. /\ cleanup = "stopped" /\ cleanup' = "none" /\ session' = session + 1
      /\ binding' = NoRun /\ late' = {} /\ claim' = NoClaim
      /\ pending' = pending \union {SessionReplaced}
  BY DEF CompleteRuntimeCleanup
<1>3. signals'.refs = signals.refs \union {SessionReplaced}
  BY DEF CompleteRuntimeCleanup
<1>4. /\ wakes' \in Seq(WakeRecord) /\ WakesKept
      /\ claim # NoClaim => wakes'[claim.wake].status # "open"
      /\ \A v \in DOMAIN wakes : wakes'[v].status = "consumed" => wakes[v].status = "consumed"
  <2>1. CASE claim = NoClaim
    <3>1. wakes' = wakes
      BY <2>1 DEF CompleteRuntimeCleanup
    <3> QED BY <2>1, <3>1 DEF Inv, Types, WakesKept
  <2>2. CASE claim # NoClaim
    <3>1. PICK w \in DOMAIN wakes : w = claim.wake
      BY <2>2, ClaimNumbers DEF Inv
    <3>2. wakes' = [wakes EXCEPT ![w].status = "released"]
      BY <2>2, <3>1 DEF CompleteRuntimeCleanup
    <3>3. /\ wakes' \in Seq(WakeRecord) /\ WakesKept
          /\ \A v \in DOMAIN wakes : wakes'[v].status = IF v = w THEN "released" ELSE wakes[v].status
      BY Zenon, <3>2, CloseWake DEF Inv
    <3> QED BY <3>1, <3>3
  <2> QED BY <2>1, <2>2
<1>5. Types'
  <2>1. claim' \in Claim /\ binding' \in Binding /\ pending' \subseteq Ref /\ session' \in Nat
    BY <1>2 DEF Inv, Types, NoClaim, Claim, NoRun, Binding, Ref
  <2> QED BY <1>1, <1>4, <2>1 DEF Inv, Types
<1>6. ClaimKept
  BY <1>2, <1>4 DEF ClaimKept
<1>7. /\ Shrinks /\ Known' /\ Travel' /\ AttemptsKept
      /\ Delivered' /\ Answered' /\ Submitted'
  BY <1>1, PlacesStand
<1>8. Bound' /\ Observed'
  BY <1>1, <1>2 DEF Inv, Evidence, Bound, Observed, NoRun, No
<1>9. ConsumedMeansAccepted'
  BY <1>1, <1>4, <1>7, ConsumedKept
<1>10. NoInputLost'
  <2>1. SUFFICES ASSUME NEW r \in signals'.refs, r \notin pending'
                 PROVE  \E w \in DOMAIN wakes' : r \in wakes'[w].refs /\ wakes'[w].status # "open"
    BY DEF NoInputLost
  <2>2. r \in signals.refs /\ r \notin pending
    BY <1>2, <1>3, <2>1
  <2>3. PICK w \in DOMAIN wakes : r \in wakes[w].refs /\ (claim.wake = w \/ wakes[w].status # "open")
    BY <2>2 DEF Inv, NoInputLost
  <2>4. claim.wake = w => claim # NoClaim
    BY ClaimNumbers, Numbers DEF Inv
  <2>5. w \in DOMAIN wakes' /\ r \in wakes'[w].refs /\ wakes'[w].status # "open"
    BY <1>4, <2>3, <2>4 DEF WakesKept
  <2> QED BY <2>5
<1>11. Turn' /\ RunningTurnIsOwned'
  <2>1. host = HostIdle /\ running = 0 /\ queue = <<>>
    BY <1>2 DEF Inv, Turn
  <2>2. host.step = "idle"
    BY <2>1 DEF HostIdle
  <2> QED BY <1>1, <2>1, <2>2 DEF Turn, RunningTurnIsOwned
<1> QED BY Zenon, <1>4, <1>5, <1>6, <1>7, <1>8, <1>9, <1>10, <1>11, RecordsKept DEF Inv, Evidence

=============================================================================
