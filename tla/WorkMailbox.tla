----------------------------- MODULE WorkMailbox -----------------------------
(***************************************************************************)
(* The durable mailbox record of src/coordination/workMailbox.ts and its   *)
(* pure operations.  A batch keeps its sequence envelope, its request      *)
(* count, its refs and its dedupe keys, in insertion order; reasons,       *)
(* sources and timestamps are left out.  An operation of the source that   *)
(* throws is guarded by the predicate named after it.                      *)
(***************************************************************************)
EXTENDS Naturals, Sequences, Functions

CONSTANTS
  RecentLimit,  \* RECENT_DEDUPE_KEY_LIMIT
  Null          \* no batch

ASSUME RecentLimitPositive == RecentLimit \in Nat \ {0}

EmptyMailbox == [next |-> 1, processing |-> Null, pending |-> Null, recent |-> <<>>]

(* mailboxHasWork *)
HasWork(mb) == mb.processing # Null \/ mb.pending # Null

(* appendUnique: result[n] is the list after the first n incoming values. *)
AppendUnique(existing, incoming) ==
  LET result[n \in 0..Len(incoming)] ==
        IF n = 0 THEN existing
        ELSE IF incoming[n] \in Range(result[n - 1]) THEN result[n - 1]
        ELSE Append(result[n - 1], incoming[n])
  IN  result[Len(incoming)]

(* rememberDedupeKeys: the latest RecentLimit keys. *)
RememberKeys(existing, keys) ==
  LET all == AppendUnique(existing, keys)
      n   == Len(all)
  IN  IF n <= RecentLimit THEN all ELSE SubSeq(all, n - RecentLimit + 1, n)

Batches(mb) ==
  (IF mb.processing = Null THEN {} ELSE {mb.processing.batch})
    \cup (IF mb.pending = Null THEN {} ELSE {mb.pending})

(* The checks of parseBatch. *)
ValidBatch(b) ==
  /\ 1 <= b.from /\ b.from <= b.to
  /\ 1 <= b.count /\ b.count <= b.to - b.from + 1
  /\ IsInjective(b.refs) /\ IsInjective(b.keys)

(* The checks of validateWorkMailbox; every operation ends with them. *)
Valid(mb) ==
  /\ Len(mb.recent) <= RecentLimit /\ IsInjective(mb.recent)
  /\ \A b \in Batches(mb) :
       /\ ValidBatch(b) /\ b.to < mb.next
       /\ Range(b.keys) \cap Range(mb.recent) = {}
  /\ mb.processing # Null /\ mb.pending # Null =>
       Range(mb.processing.batch.keys) \cap Range(mb.pending.keys) = {}

(* mailboxContainsDedupeKey *)
ContainsKey(mb, key) ==
  key \in Range(mb.recent) \/ \E b \in Batches(mb) : key \in Range(b.keys)

(* mergeBatches *)
Merge(left, right) ==
  [from  |-> IF left.from <= right.from THEN left.from ELSE right.from,
   to    |-> IF left.to >= right.to THEN left.to ELSE right.to,
   count |-> left.count + right.count,
   refs  |-> AppendUnique(left.refs, right.refs),
   keys  |-> AppendUnique(left.keys, right.keys)]

(* Mutant: a signal whose key is already known is counted again. *)
EnqueueAlways(mb, key, refs) ==
  LET incoming == [from |-> mb.next, to |-> mb.next, count |-> 1, refs |-> refs,
                   keys |-> <<key>>]
  IN  [mb EXCEPT !.next = @ + 1,
                 !.pending = IF @ = Null THEN incoming ELSE Merge(@, incoming)]

(* enqueueSignal: a key already queued, claimed or recently consumed adds nothing. *)
Enqueue(mb, key, refs) ==
  LET incoming == [from |-> mb.next, to |-> mb.next, count |-> 1, refs |-> refs,
                   keys |-> <<key>>]
  IN  IF ContainsKey(mb, key) THEN mb
      ELSE [mb EXCEPT !.next = @ + 1,
                      !.pending = IF @ = Null THEN incoming ELSE Merge(@, incoming)]

(* claimPending *)
CanClaim(mb) == mb.processing = Null /\ mb.pending # Null
Claim(mb, id) ==
  [mb EXCEPT !.processing = [id |-> id, batch |-> mb.pending], !.pending = Null]

(* Is the batch being processed the one called id? *)
Owns(mb, id) == mb.processing # Null /\ mb.processing.id = id

(* completeProcessing *)
Complete(mb) ==
  [mb EXCEPT !.processing = Null, !.recent = RememberKeys(@, mb.processing.batch.keys)]

(* Mutant: the released batch replaces what was queued behind it. *)
ReleaseOverPending(mb) ==
  [mb EXCEPT !.processing = Null, !.pending = mb.processing.batch]

(* releaseProcessing: the batch goes back in front of what was queued behind it. *)
Release(mb) ==
  [mb EXCEPT !.processing = Null,
             !.pending = IF @ = Null THEN mb.processing.batch
                         ELSE Merge(mb.processing.batch, @)]

=============================================================================
