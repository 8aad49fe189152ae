------------------------ MODULE OperatorMailboxProofs ------------------------
(***************************************************************************)
(* Facts on their way to the Operator: none is lost, none is announced     *)
(* twice, a claim is never mistaken for one already announced, and the     *)
(* mailbox can always be split and validated, for any facts, limits and    *)
(* number of crashes and disturbances.                                     *)
(***************************************************************************)
EXTENDS OperatorMailbox, SequenceTheorems, WellFoundedInduction, TLAPS

(* A batch of consecutive signals, one ref and one key for each. *)
Aligned(b) ==
  /\ b \in Batch
  /\ b.keys = b.refs /\ b.count = Len(b.refs) /\ 1 <= b.count
  /\ 1 <= b.from /\ b.to + 1 = b.from + b.count
  /\ IsInjective(b.refs)

(* The facts claimed and the facts queued, and the number of the first signal among them. *)
InHand(mb) == IF mb.processing = Null THEN {} ELSE Range(mb.processing.batch.refs)
Waiting(mb) == IF mb.pending = Null THEN {} ELSE Range(mb.pending.refs)
PendingFront(mb) == IF mb.pending = Null THEN mb.next ELSE mb.pending.from
Front(mb) == IF mb.processing = Null THEN PendingFront(mb) ELSE mb.processing.batch.from

Box ==
  [next : Nat, processing : Processing \cup {Null}, pending : Batch \cup {Null},
   recent : Seq(Fact)]

(* The stored mailbox: the claimed batch, the queued one and the next number follow each other,
   and a key is claimed, queued or remembered in one place only.  Without the first a merge
   could leave a gap that no claim can split, without the second it could drop a ref. *)
Sound(mb) ==
  /\ mb \in Box /\ 1 <= mb.next
  /\ mb.pending # Null => Aligned(mb.pending) /\ mb.pending.to + 1 = mb.next
  /\ mb.processing # Null =>
       /\ Aligned(mb.processing.batch)
       /\ mb.processing.batch.to + 1 = PendingFront(mb)
       /\ mb.processing.id[1] = mb.processing.batch.from
  /\ IsInjective(mb.recent) /\ Len(mb.recent) <= RecentLimit
  /\ InHand(mb) \cap Waiting(mb) = {}
  /\ Range(mb.recent) \cap (InHand(mb) \cup Waiting(mb)) = {}

Messages ==
  [receipt : (Nat \X Nat) \cup {<<"health">>}, refs : SUBSET Fact,
   state : {"pending", "delivered", "not-delivered"}]

Working == pc \in {"resolve", "complete", "queue", "release"}

Shapes ==
  /\ notices \in Seq(Messages)
  /\ raised \subseteq Fact /\ answered \subseteq Input /\ live \subseteq Fact
  /\ {available, laneSignal, refused} \subseteq BOOLEAN
  /\ pc \in {"idle", "claim"} \/ Working

(* Only what was raised is in the mailbox or in a message, and never in both. *)
Raised ==
  /\ Range(mailbox.recent) \cup InHand(mailbox) \cup Waiting(mailbox) \subseteq raised
  /\ \A i \in 1..Len(notices) :
       /\ notices[i].refs \subseteq raised
       /\ notices[i].refs \cap (InHand(mailbox) \cup Waiting(mailbox)) = {}

(* A receipt numbers a batch in front of all that is still in the mailbox. *)
Receipts ==
  \A i \in 1..Len(notices) :
    notices[i].receipt # <<"health">> => notices[i].receipt[1] < Front(mailbox)

(* The lane: the id it computed is of the batch it will claim, the batch in its memory is the
   claimed one, and what it leaves out was answered. *)
Lane ==
  /\ pc = "claim" /\ mailbox.processing = Null =>
       mailbox.pending # Null /\ hint \in Nat \X Nat /\ hint[1] = mailbox.pending.from
  /\ Working => job = mailbox.processing /\ job # Null
  /\ pc = "complete" => InHand(mailbox) \subseteq answered
  /\ pc = "queue" => InHand(mailbox) \subseteq live \cup answered /\ live \subseteq InHand(mailbox)

(* NoFactLost, by where the fact is. *)
Kept ==
  \A f \in raised \ answered : Noticed(f) \/ f \in InHand(mailbox) \cup Waiting(mailbox)

Inv ==
  /\ Sound(mailbox) /\ Shapes /\ Raised /\ Receipts /\ Lane
  /\ BacklogIsSplittable /\ Kept /\ OneNoticePerFact

-----------------------------------------------------------------------------
(* A set of numbers that is not empty has a least one. *)
LEMMA Smallest ==
  ASSUME NEW S \in SUBSET Nat, S # {}
  PROVE  \E n \in S : \A m \in S : n <= m
<1> DEFINE R == OpToRel(<, Nat)
<1>1. IsWellFoundedOn(R, Nat)
  BY Zenon, NatLessThanWellFounded
<1>2. R = {p \in Nat \X Nat : p[1] < p[2]}
  BY Zenon DEF OpToRel
<1> HIDE DEF R
<1>3. PICK n \in S : \A m \in S : ~(<<m, n>> \in R)
  BY Zenon, <1>1, WFMin
<1>4. \A m \in S : <<m, n>> \in Nat \X Nat /\ <<m, n>>[1] = m /\ <<m, n>>[2] = n
  OBVIOUS
<1>5. \A m \in S : ~(m < n)
  BY Zenon, <1>2, <1>3, <1>4
<1> QED BY <1>5

LEMMA ConcatFacts ==
  ASSUME NEW S, NEW a \in Seq(S), NEW b \in Seq(S)
  PROVE  /\ a \o b \in Seq(S) /\ Len(a \o b) = Len(a) + Len(b)
         /\ Range(a \o b) = Range(a) \cup Range(b)
         /\ IsInjective(a) /\ IsInjective(b) /\ Range(a) \cap Range(b) = {} =>
              IsInjective(a \o b)
<1>1. a \o b \in Seq(S) /\ Len(a \o b) = Len(a) + Len(b)
  OBVIOUS
<1>2. /\ \A i \in 1..Len(a) : (a \o b)[i] = a[i]
      /\ \A i \in 1..Len(b) : (a \o b)[Len(a) + i] = b[i]
  OBVIOUS
<1>3. \A i \in 1..(Len(a) + Len(b)) :
        i \in 1..Len(a) \/ (i - Len(a) \in 1..Len(b) /\ i = Len(a) + (i - Len(a)))
  OBVIOUS
<1>4. Range(a \o b) = Range(a) \cup Range(b)
  BY RangeConcatenation
<1>5. ASSUME IsInjective(a), IsInjective(b), Range(a) \cap Range(b) = {},
             NEW c, c = a \o b,
             NEW i \in 1..(Len(a) + Len(b)), NEW j \in 1..(Len(a) + Len(b)), c[i] = c[j]
      PROVE  i = j
  <2>1. \A x \in 1..Len(a), y \in 1..Len(b) : c[x] # c[Len(a) + y]
    <3>1. \A x \in 1..Len(a), y \in 1..Len(b) : a[x] \in Range(a) /\ b[y] \in Range(b)
      BY DEF Range
    <3> QED BY Zenon, <1>2, <1>5, <3>1
  <2>2. \A x, y \in 1..Len(a) : c[x] = c[y] => x = y
    BY <1>2, <1>5 DEF IsInjective
  <2>3. \A x, y \in 1..Len(b) : c[Len(a) + x] = c[Len(a) + y] => x = y
    BY <1>2, <1>5 DEF IsInjective
  <2> QED BY <1>3, <1>5, <2>1, <2>2, <2>3
<1>6. DOMAIN (a \o b) = 1..(Len(a) + Len(b))
  BY <1>1
<1> QED BY Zenon, <1>1, <1>4, <1>5, <1>6 DEF IsInjective

(* A part of a sequence without repetitions has none, and the parts share nothing. *)
LEMMA SplitFacts ==
  ASSUME NEW S, NEW s \in Seq(S), NEW k \in 0..Len(s), IsInjective(s)
  PROVE  LET l == SubSeq(s, 1, k)  r == SubSeq(s, k + 1, Len(s)) IN
         /\ l \in Seq(S) /\ r \in Seq(S) /\ Len(l) = k /\ Len(r) = Len(s) - k
         /\ IsInjective(l) /\ IsInjective(r)
         /\ Range(l) \cap Range(r) = {} /\ Range(l) \cup Range(r) = Range(s)
<1> DEFINE l == SubSeq(s, 1, k)
           r == SubSeq(s, k + 1, Len(s))
<1>1. l \in Seq(S) /\ r \in Seq(S) /\ Len(l) = k /\ Len(r) = Len(s) - k
  OBVIOUS
<1>2. (\A i \in 1..k : l[i] = s[i]) /\ (\A i \in 1..(Len(s) - k) : r[i] = s[k + i])
  OBVIOUS
<1>3. s = l \o r
  <2>1. s = SubSeq(s, 1, Len(s))
    BY SubSeqFull
  <2>2. 1 \in 1..(Len(s) + 1) /\ k \in (1 - 1)..Len(s) /\ Len(s) \in k..Len(s)
    OBVIOUS
  <2>3. SubSeq(s, 1, k) \o SubSeq(s, k + 1, Len(s)) = SubSeq(s, 1, Len(s))
    BY Zenon, <2>2, ConcatAdjacentSubSeq
  <2> QED BY Zenon, <2>1, <2>3
<1> HIDE DEF l, r
<1>4. Range(l) \cup Range(r) = Range(s)
  BY <1>1, <1>3, ConcatFacts
<1>5. IsInjective(l) /\ IsInjective(r)
  <2>1. DOMAIN l = 1..k /\ DOMAIN r = 1..(Len(s) - k) /\ DOMAIN s = 1..Len(s)
    BY <1>1
  <2>2. ASSUME NEW i \in 1..k, NEW j \in 1..k, l[i] = l[j] PROVE i = j
    BY <1>2, <2>1, <2>2 DEF IsInjective
  <2>3. ASSUME NEW i \in 1..(Len(s) - k), NEW j \in 1..(Len(s) - k), r[i] = r[j] PROVE i = j
    <3>1. k + i \in 1..Len(s) /\ k + j \in 1..Len(s)
      OBVIOUS
    <3>2. s[k + i] = s[k + j]
      BY <1>2, <2>3
    <3>3. k + i = k + j
      BY Zenon, <2>1, <3>1, <3>2 DEF IsInjective
    <3> QED BY <3>3
  <2> QED BY Zenon, <2>1, <2>2, <2>3 DEF IsInjective
<1>6. Range(l) \cap Range(r) = {}
  <2>1. ASSUME NEW i \in 1..k, NEW j \in 1..(Len(s) - k), l[i] = r[j] PROVE FALSE
    BY <1>2, <2>1 DEF IsInjective
  <2> QED BY <1>1, <2>1 DEF Range
<1> QED BY <1>1, <1>4, <1>5, <1>6 DEF l, r

Reassociates(a, b, x) == Append(a \o b, x) = a \o Append(b, x)

LEMMA AppendConcat ==
  ASSUME NEW S, NEW a \in Seq(S), NEW b \in Seq(S), NEW x \in S
  PROVE  Reassociates(a, b, x)
<1> DEFINE c == Append(a \o b, x)
           d == a \o Append(b, x)
<1>1. c \in Seq(S) /\ Len(c) = Len(a) + Len(b) + 1
  OBVIOUS
<1>2. d \in Seq(S) /\ Len(d) = Len(a) + Len(b) + 1
  OBVIOUS
<1>3. ASSUME NEW i \in 1..(Len(a) + Len(b) + 1) PROVE c[i] = d[i]
  OBVIOUS
<1> HIDE DEF c, d
<1>4. c = d
  BY <1>1, <1>2, <1>3, SeqEqual
<1> QED BY Zenon, <1>4 DEF c, d, Reassociates

(* appendUnique of two lists that share nothing: their concatenation.  The list after n values
   is the first list and the first n values; by least counterexample. *)
LEMMA AppendDisjoint ==
  ASSUME NEW S, NEW a \in Seq(S), NEW b \in Seq(S), IsInjective(b), Range(a) \cap Range(b) = {}
  PROVE  AppendUnique(a, b) = a \o b
<1> DEFINE upto(n) == a \o SubSeq(b, 1, n)
           Grown(f, n) == IF n = 0 THEN a
                          ELSE IF b[n] \in Range(f[n - 1]) THEN f[n - 1]
                          ELSE Append(f[n - 1], b[n])
           Loop(f) == f = [n \in 0..Len(b) |-> Grown(f, n)]
           result == CHOOSE f : Loop(f)
           known == [n \in 0..Len(b) |-> upto(n)]
<1>1. upto(0) = a /\ upto(Len(b)) = a \o b
  OBVIOUS
<1>2. ASSUME NEW n \in 1..Len(b)
      PROVE  b[n] \notin Range(upto(n - 1)) /\ Append(upto(n - 1), b[n]) = upto(n)
  <2> DEFINE l == SubSeq(b, 1, n - 1)
  <2>1. l \in Seq(S) /\ Len(l) = n - 1 /\ \A i \in 1..(n - 1) : l[i] = b[i]
    OBVIOUS
  <2>2. SubSeq(b, 1, n) = Append(l, b[n])
    OBVIOUS
  <2> HIDE DEF l
  <2>3. b[n] \in S /\ b[n] \notin Range(a)
    BY DEF Range
  <2>4. b[n] \notin Range(l)
    BY <2>1 DEF Range, IsInjective
  <2>5. b[n] \notin Range(a \o l)
    BY <2>1, <2>3, <2>4, ConcatFacts
  <2>6. Append(a \o l, b[n]) = a \o Append(l, b[n])
    <3>1. l \in Seq(S) /\ b[n] \in S
      BY Zenon, <2>1, <2>3
    <3>2. Reassociates(a, l, b[n])
      BY Zenon, <3>1, AppendConcat
    <3> QED BY Zenon, <3>2 DEF Reassociates
  <2> QED BY Zenon, <2>2, <2>5, <2>6 DEF l
<1> HIDE DEF upto
<1>3. Loop(known)
  <2>1. ASSUME NEW n \in 0..Len(b) PROVE upto(n) = Grown(known, n)
    BY <1>1, <1>2, <2>1
  <2> QED BY <2>1
<1>4. Loop(result)
  BY Zenon, <1>3
<1>5. AppendUnique(a, b) = result[Len(b)]
  BY Zenon DEF AppendUnique
<1> HIDE DEF result
<1>6. ASSUME NEW n \in 0..Len(b) PROVE result[n] = Grown(result, n)
  BY Zenon, <1>4
<1>7. ASSUME NEW n \in 0..Len(b) PROVE result[n] = upto(n)
  <2> DEFINE Wrong == {m \in 0..Len(b) : result[m] # upto(m)}
  <2>1. SUFFICES ASSUME Wrong # {} PROVE FALSE
    OBVIOUS
  <2>2. PICK m \in Wrong : \A k \in Wrong : m <= k
    <3>1. Wrong \in SUBSET Nat
      OBVIOUS
    <3> QED BY Zenon, <2>1, <3>1, Smallest
  <2>3. m # 0
    BY <1>1, <1>6, <2>2
  <2>4. m \in 1..Len(b) /\ m - 1 \in 0..Len(b) /\ m - 1 \notin Wrong
    BY <2>2, <2>3
  <2>5. result[m - 1] = upto(m - 1)
    BY <2>4
  <2>6. result[m] = upto(m)
    BY Zenon, <1>2, <1>6, <2>3, <2>4, <2>5
  <2> QED BY <2>2, <2>6
<1>8. Len(b) \in 0..Len(b)
  OBVIOUS
<1> QED BY Zenon, <1>1, <1>5, <1>7, <1>8

-----------------------------------------------------------------------------
(* The operations on the mailbox *)

(* mergeBatches of two batches that follow each other and share no key. *)
LEMMA MergeFacts ==
  ASSUME NEW l, NEW r, Aligned(l), Aligned(r), l.to + 1 = r.from,
         Range(l.refs) \cap Range(r.refs) = {}
  PROVE  /\ Aligned(Merge(l, r)) /\ Merge(l, r).from = l.from /\ Merge(l, r).to = r.to
         /\ Range(Merge(l, r).refs) = Range(l.refs) \cup Range(r.refs)
<1> DEFINE refs == l.refs \o r.refs
           m == Merge(l, r)
<1>1. /\ l.refs \in Seq(Fact) /\ r.refs \in Seq(Fact)
      /\ l.keys = l.refs /\ r.keys = r.refs /\ l.count = Len(l.refs) /\ r.count = Len(r.refs)
      /\ IsInjective(l.refs) /\ IsInjective(r.refs)
  BY DEF Aligned, Batch
<1>2. /\ l.from \in Nat /\ l.to \in Nat /\ l.count \in Nat
      /\ r.from \in Nat /\ r.to \in Nat /\ r.count \in Nat
      /\ 1 <= l.count /\ 1 <= r.count /\ 1 <= l.from
      /\ l.to + 1 = l.from + l.count /\ r.to + 1 = r.from + r.count
  BY DEF Aligned, Batch
<1>3. AppendUnique(l.refs, r.refs) = refs
  BY Zenon, <1>1, AppendDisjoint
<1>4. /\ refs \in Seq(Fact) /\ Len(refs) = Len(l.refs) + Len(r.refs) /\ IsInjective(refs)
      /\ Range(refs) = Range(l.refs) \cup Range(r.refs)
  BY <1>1, ConcatFacts
<1> HIDE DEF refs
<1>5. /\ l.from <= r.from /\ ~(l.to >= r.to) /\ l.count + r.count \in Nat
      /\ 1 <= l.count + r.count /\ r.to + 1 = l.from + (l.count + r.count)
  <2>1. ASSUME NEW lf \in Nat, NEW lt \in Nat, NEW lc \in Nat,
               NEW rf \in Nat, NEW rt \in Nat, NEW rc \in Nat,
               1 <= lc, 1 <= rc, lt + 1 = lf + lc, rt + 1 = rf + rc, lt + 1 = rf
        PROVE  /\ lf <= rf /\ ~(lt >= rt) /\ lc + rc \in Nat
               /\ 1 <= lc + rc /\ rt + 1 = lf + (lc + rc)
    BY <2>1
  <2> QED BY <1>2, <2>1
<1>6. m = [from |-> l.from, to |-> r.to, count |-> l.count + r.count, refs |-> refs, keys |-> refs]
  BY Zenon, <1>1, <1>3, <1>5 DEF Merge
<1> HIDE DEF m
<1>7. /\ m.from = l.from /\ m.to = r.to /\ m.count = l.count + r.count
      /\ m.refs = refs /\ m.keys = refs
  BY <1>6
<1>8. m \in Batch
  BY <1>2, <1>4, <1>5, <1>6 DEF Batch
<1>9. Len(refs) = l.count + r.count
  BY <1>1, <1>4
<1>10. Aligned(m)
  BY Zenon, <1>2, <1>4, <1>5, <1>7, <1>8, <1>9 DEF Aligned
<1> QED BY <1>4, <1>7, <1>10 DEF m

(* What Sound says of each field. *)
LEMMA SoundFacts ==
  ASSUME NEW mb, Sound(mb)
  PROVE  /\ mb.next \in Nat /\ 1 <= mb.next /\ mb.recent \in Seq(Fact)
         /\ mb.pending # Null => mb.pending \in Batch
         /\ mb.processing # Null =>
              mb.processing \in Processing /\ mb.processing.id \in Nat \X Nat
         /\ PendingFront(mb) \in Nat /\ PendingFront(mb) <= mb.next
         /\ Front(mb) \in Nat /\ Front(mb) <= PendingFront(mb)
         /\ mb = [next |-> mb.next, processing |-> mb.processing, pending |-> mb.pending,
                  recent |-> mb.recent]
<1>1. mb \in Box
  BY DEF Sound
<1>2. /\ mb.next \in Nat /\ mb.recent \in Seq(Fact)
      /\ mb.processing \in Processing \cup {Null} /\ mb.pending \in Batch \cup {Null}
      /\ mb = [next |-> mb.next, processing |-> mb.processing, pending |-> mb.pending,
               recent |-> mb.recent]
  BY <1>1 DEF Box
<1>3. mb.processing # Null => mb.processing.id \in Nat \X Nat
  BY <1>2 DEF Processing
<1>4. ASSUME NEW b, Aligned(b) PROVE b.from \in Nat /\ b.to \in Nat /\ b.from < b.to + 1
  BY <1>4 DEF Aligned, Batch
<1>5. PendingFront(mb) \in Nat /\ PendingFront(mb) <= mb.next
  BY <1>2, <1>4 DEF Sound, PendingFront
<1>6. Front(mb) \in Nat /\ Front(mb) <= PendingFront(mb)
  BY <1>4, <1>5 DEF Sound, Front
<1> QED BY <1>2, <1>3, <1>5, <1>6 DEF Sound

(* mailboxContainsDedupeKey: each key is also a ref. *)
LEMMA KeyFacts ==
  ASSUME NEW mb, Sound(mb), NEW f
  PROVE  ContainsKey(mb, f) <=> f \in Range(mb.recent) \cup InHand(mb) \cup Waiting(mb)
<1>1. mb.pending # Null => mb.pending.keys = mb.pending.refs
  BY Zenon DEF Sound, Aligned
<1>2. mb.processing # Null => mb.processing.batch.keys = mb.processing.batch.refs
  BY Zenon DEF Sound, Aligned
<1> QED BY Zenon, <1>1, <1>2 DEF ContainsKey, Batches, InHand, Waiting

(* enqueueSignal of a new key: the claim is untouched, the fact is queued last, and a second
   signal of the same key adds nothing. *)
LEMMA EnqueueFacts ==
  ASSUME NEW mb, Sound(mb), NEW f \in Fact,
         f \notin Range(mb.recent) \cup InHand(mb) \cup Waiting(mb)
  PROVE  LET e == Enqueue(mb, f, <<f>>) IN
         /\ Sound(e) /\ Enqueue(e, f, <<f>>) = e
         /\ e.processing = mb.processing /\ e.recent = mb.recent /\ e.pending # Null
         /\ mb.pending # Null => e.pending.from = mb.pending.from
         /\ InHand(e) = InHand(mb) /\ Waiting(e) = Waiting(mb) \cup {f} /\ Front(e) = Front(mb)
<1> DEFINE e == Enqueue(mb, f, <<f>>)
           one == [from |-> mb.next, to |-> mb.next, count |-> 1, refs |-> <<f>>, keys |-> <<f>>]
           q == IF mb.pending = Null THEN one ELSE Merge(mb.pending, one)
<1>1. /\ mb.next \in Nat /\ 1 <= mb.next /\ mb.recent \in Seq(Fact)
      /\ mb = [next |-> mb.next, processing |-> mb.processing, pending |-> mb.pending,
               recent |-> mb.recent]
  BY Zenon, SoundFacts
<1>2. /\ Aligned(one) /\ one.from = mb.next /\ one.to = mb.next /\ Range(one.refs) = {f}
  <2>1. <<f>> \in Seq(Fact) /\ Len(<<f>>) = 1 /\ DOMAIN <<f>> = 1..1 /\ <<f>>[1] = f
    OBVIOUS
  <2>2. IsInjective(<<f>>)
    BY <2>1 DEF IsInjective
  <2>3. Range(<<f>>) = {f}
    BY <2>1 DEF Range
  <2>4. one \in Batch
    BY <1>1, <2>1 DEF Batch
  <2> QED BY <1>1, <2>1, <2>2, <2>3, <2>4 DEF Aligned
<1> HIDE DEF one
<1>3. /\ Aligned(q) /\ q.from = PendingFront(mb) /\ q.to = mb.next
      /\ Range(q.refs) = Waiting(mb) \cup {f}
  <2>1. CASE mb.pending = Null
    BY Zenon, <1>2, <2>1 DEF PendingFront, Waiting
  <2>2. CASE mb.pending # Null
    <3>1. /\ Aligned(mb.pending) /\ mb.pending.to + 1 = one.from
          /\ Range(mb.pending.refs) \cap Range(one.refs) = {}
      BY Zenon, <1>2, <2>2 DEF Sound, Waiting
    <3>2. LET m == Merge(mb.pending, one) IN
          /\ Aligned(m) /\ m.from = mb.pending.from /\ m.to = one.to
          /\ Range(m.refs) = Range(mb.pending.refs) \cup Range(one.refs)
      BY Zenon, <1>2, <3>1, MergeFacts
    <3> QED BY Zenon, <1>2, <2>2, <3>2 DEF PendingFront, Waiting
  <2> QED BY Zenon, <2>1, <2>2
<1>4. q # Null /\ q \in Batch
  BY Zenon, <1>3, NullIsNoBatch DEF Aligned
<1>5. e = [next |-> mb.next + 1, processing |-> mb.processing, pending |-> q,
           recent |-> mb.recent]
  <2>1. ~ContainsKey(mb, f)
    BY Zenon, KeyFacts
  <2>2. e = [mb EXCEPT !.next = @ + 1, !.pending = q]
    BY Zenon, <2>1 DEF Enqueue, one
  <2> HIDE DEF q, e
  <2> QED BY Zenon, <1>1, <2>2
<1> HIDE DEF e, q
<1>6. /\ e.next = mb.next + 1 /\ e.processing = mb.processing /\ e.pending = q
      /\ e.recent = mb.recent
  BY <1>5
<1>7. e \in Box
  <2>1. mb.processing \in Processing \cup {Null}
    BY DEF Sound, Box
  <2> QED BY <1>1, <1>4, <1>5, <2>1 DEF Box
<1>8. /\ InHand(e) = InHand(mb) /\ Waiting(e) = Waiting(mb) \cup {f}
      /\ PendingFront(e) = PendingFront(mb)
  BY Zenon, <1>3, <1>4, <1>6 DEF InHand, Waiting, PendingFront
<1>9. Front(e) = Front(mb)
  BY Zenon, <1>6, <1>8 DEF Front
<1>10. Sound(e)
  <2>1. 1 <= e.next /\ e.pending.to + 1 = e.next
    BY <1>1, <1>3, <1>6
  <2>2. Aligned(e.pending)
    BY Zenon, <1>3, <1>6
  <2>3. e.processing # Null =>
          /\ Aligned(e.processing.batch)
          /\ e.processing.batch.to + 1 = PendingFront(e)
          /\ e.processing.id[1] = e.processing.batch.from
    BY Zenon, <1>6, <1>8 DEF Sound
  <2>4. IsInjective(e.recent) /\ Len(e.recent) <= RecentLimit
    BY Zenon, <1>6 DEF Sound
  <2>5. /\ InHand(e) \cap Waiting(e) = {}
        /\ Range(e.recent) \cap (InHand(e) \cup Waiting(e)) = {}
    BY Zenon, <1>6, <1>8 DEF Sound
  <2> QED BY Zenon, <1>7, <2>1, <2>2, <2>3, <2>4, <2>5 DEF Sound
<1>11. Enqueue(e, f, <<f>>) = e
  <2>1. ContainsKey(e, f)
    BY Zenon, <1>8, <1>10, KeyFacts
  <2> QED BY Zenon, <2>1 DEF Enqueue
<1>12. e.pending # Null /\ (mb.pending # Null => e.pending.from = mb.pending.from)
  BY Zenon, <1>3, <1>4, <1>6 DEF PendingFront
<1> QED BY Zenon, <1>6, <1>8, <1>9, <1>10, <1>11, <1>12 DEF e

(* claimOperatorAttention: the claim takes the first facts and leaves the rest queued, and its id
   starts at its first signal. *)
LEMMA ClaimFacts ==
  ASSUME NEW mb, Sound(mb), CanClaim(mb), NEW id \in Nat \X Nat, id[1] = mb.pending.from
  PROVE  LET c == ClaimAttention(mb, id) IN
         /\ Sound(c) /\ c.processing # Null /\ c.recent = mb.recent
         /\ InHand(c) \cup Waiting(c) = Waiting(mb) /\ Front(c) = Front(mb)
<1> DEFINE c == ClaimAttention(mb, id)
           b == mb.pending
<1>1. /\ mb.next \in Nat /\ 1 <= mb.next /\ mb.recent \in Seq(Fact)
      /\ mb = [next |-> mb.next, processing |-> mb.processing, pending |-> mb.pending,
               recent |-> mb.recent]
  BY Zenon, SoundFacts
<1>2. /\ mb.processing = Null /\ b # Null /\ Aligned(b) /\ b.to + 1 = mb.next
      /\ IsInjective(mb.recent) /\ Len(mb.recent) <= RecentLimit
      /\ Range(mb.recent) \cap Range(b.refs) = {}
      /\ Waiting(mb) = Range(b.refs) /\ Front(mb) = b.from
  BY Zenon DEF Sound, CanClaim, Waiting, Front, PendingFront
<1>3. /\ b.from \in Nat /\ b.to \in Nat /\ b.count \in Nat /\ b.refs \in Seq(Fact)
      /\ b.keys = b.refs /\ b.count = Len(b.refs) /\ IsInjective(b.refs)
      /\ 1 <= b.from /\ 1 <= b.count /\ b.to + 1 = b.from + b.count /\ b \in Batch
  BY <1>2 DEF Aligned, Batch
<1>4. ASSUME NEW d, NEW x, NEW y, NEW l, NEW r, NEW z \in Nat \X Nat,
             x = [id |-> z, batch |-> l], z[1] = l.from,
             d = [next |-> mb.next, processing |-> x, pending |-> y, recent |-> mb.recent],
             Aligned(l), l.from = b.from, r = IF y = Null THEN {} ELSE Range(y.refs),
             \/ y = Null /\ l.to + 1 = mb.next
             \/ y # Null /\ Aligned(y) /\ l.to + 1 = y.from /\ y.to + 1 = mb.next,
             Range(l.refs) \cup r = Range(b.refs), Range(l.refs) \cap r = {}
      PROVE  /\ Sound(d) /\ d.processing # Null /\ d.recent = mb.recent
             /\ InHand(d) \cup Waiting(d) = Waiting(mb) /\ Front(d) = Front(mb)
  <2>1. x.batch = l /\ x.id = z
    BY <1>4
  <2>2. x \in Processing /\ x # Null
    BY <1>4, NullIsNoBatch DEF Processing, Aligned
  <2>3. y = Null \/ y \in Batch
    BY Zenon, <1>4 DEF Aligned
  <2>4. d.next = mb.next /\ d.processing = x /\ d.pending = y /\ d.recent = mb.recent
    BY <1>4
  <2>5. d \in Box
    BY <1>1, <1>4, <2>2, <2>3 DEF Box
  <2>6. /\ InHand(d) = Range(l.refs) /\ Waiting(d) = r /\ Front(d) = b.from
        /\ PendingFront(d) = IF y = Null THEN mb.next ELSE y.from
    BY Zenon, <1>4, <2>1, <2>2, <2>4 DEF InHand, Waiting, Front, PendingFront
  <2>7. /\ d.pending # Null => Aligned(d.pending) /\ d.pending.to + 1 = d.next
        /\ Aligned(d.processing.batch) /\ d.processing.batch.to + 1 = PendingFront(d)
        /\ d.processing.id[1] = d.processing.batch.from
    BY Zenon, <1>4, <2>1, <2>4, <2>6
  <2>8. /\ InHand(d) \cap Waiting(d) = {} /\ Range(d.recent) \cap (InHand(d) \cup Waiting(d)) = {}
    BY Zenon, <1>2, <1>4, <2>4, <2>6
  <2>9. Sound(d)
    BY Zenon, <1>1, <1>2, <2>4, <2>5, <2>7, <2>8 DEF Sound
  <2> QED BY Zenon, <1>2, <1>4, <2>2, <2>4, <2>6, <2>9
<1>5. CASE b.count <= ClaimLimit
  <2>1. c = Claim(mb, id)
    BY Zenon, <1>5 DEF ClaimAttention
  <2>2. c = [next |-> mb.next, processing |-> [id |-> id, batch |-> b], pending |-> Null,
             recent |-> mb.recent]
    <3> HIDE DEF c
    <3> QED BY Zenon, <1>1, <2>1 DEF Claim
  <2> HIDE DEF c
  <2>3. Range(b.refs) \cup {} = Range(b.refs) /\ Range(b.refs) \cap {} = {}
    OBVIOUS
  <2> QED BY Zenon, <1>2, <1>4, <2>2, <2>3 DEF c
<1>6. CASE ~(b.count <= ClaimLimit)
  <2> DEFINE k == ClaimLimit
             l == SubSeq(b.refs, 1, k)
             r == SubSeq(b.refs, k + 1, Len(b.refs))
             prefix == [from |-> b.from, to |-> b.from + k - 1, count |-> k,
                        refs |-> l, keys |-> l]
             suffix == [from |-> b.from + k, to |-> b.to, count |-> b.count - k,
                        refs |-> r, keys |-> r]
  <2>1. k \in Nat /\ 1 <= k /\ k < b.count /\ k \in 0..Len(b.refs)
    BY <1>3, <1>6, ClaimLimitPositive
  <2>2. /\ l \in Seq(Fact) /\ r \in Seq(Fact) /\ Len(l) = k /\ Len(r) = Len(b.refs) - k
        /\ IsInjective(l) /\ IsInjective(r)
        /\ Range(l) \cap Range(r) = {} /\ Range(l) \cup Range(r) = Range(b.refs)
    BY Zenon, <1>3, <2>1, SplitFacts
  <2>3. c = [Claim([mb EXCEPT !.pending = prefix], <<prefix.from, prefix.to>>)
               EXCEPT !.pending = suffix]
    BY Zenon, <1>3, <1>6 DEF ClaimAttention
  <2> HIDE DEF l, r
  <2>4. /\ prefix.from = b.from /\ prefix.to = b.from + k - 1 /\ prefix.refs = l
        /\ suffix.from = b.from + k /\ suffix.to = b.to /\ suffix.refs = r
    OBVIOUS
  <2>5. Aligned(prefix)
    <3>1. prefix \in Batch
      BY <1>3, <2>1, <2>2 DEF Batch
    <3> QED BY <1>3, <2>1, <2>2, <3>1 DEF Aligned
  <2>6. Aligned(suffix)
    <3>1. suffix \in Batch
      BY <1>3, <2>1, <2>2 DEF Batch
    <3>2. suffix.keys = r /\ suffix.count = b.count - k
      OBVIOUS
    <3>3. /\ b.count - k = Len(r) /\ 1 <= b.count - k /\ 1 <= b.from + k
          /\ b.to + 1 = b.from + k + (b.count - k)
      <4> HIDE DEF k
      <4>1. b.count - k = Len(r)
        BY Zenon, <1>3, <2>2
      <4>2. /\ b.from \in Nat /\ b.to \in Nat /\ b.count \in Nat /\ k \in Nat
            /\ 1 <= b.from /\ k < b.count /\ b.to + 1 = b.from + b.count
        BY Zenon, <1>3, <2>1
      <4> HIDE DEF b
      <4>3. 1 <= b.count - k /\ 1 <= b.from + k /\ b.to + 1 = b.from + k + (b.count - k)
        BY <4>2
      <4> QED BY Zenon, <4>1, <4>3
    <3> HIDE DEF suffix
    <3> QED BY Zenon, <2>2, <2>4, <3>1, <3>2, <3>3 DEF Aligned
  <2>7. prefix.to + 1 = suffix.from /\ suffix.to + 1 = mb.next
    BY <1>2, <1>3, <2>1, <2>4
  <2>8. <<prefix.from, prefix.to>> \in Nat \X Nat /\ <<prefix.from, prefix.to>>[1] = prefix.from
    BY <1>3, <2>1, <2>4
  <2>9. suffix # Null
    BY Zenon, <2>6, NullIsNoBatch DEF Aligned
  <2> HIDE DEF prefix, suffix, c
  <2>10. c = [next |-> mb.next,
              processing |-> [id |-> <<prefix.from, prefix.to>>, batch |-> prefix],
              pending |-> suffix, recent |-> mb.recent]
    BY Zenon, <1>1, <2>3 DEF Claim
  <2> QED BY Zenon, <1>4, <2>2, <2>4, <2>5, <2>6, <2>7, <2>8, <2>9, <2>10 DEF c
<1> QED BY Zenon, <1>5, <1>6

(* rememberDedupeKeys of keys not remembered yet: no repetition, nothing else, and no more than
   the limit. *)
LEMMA RememberFacts ==
  ASSUME NEW S, NEW a \in Seq(S), NEW b \in Seq(S), IsInjective(a), IsInjective(b),
         Range(a) \cap Range(b) = {}
  PROVE  LET r == RememberKeys(a, b) IN
         /\ r \in Seq(S) /\ IsInjective(r) /\ Len(r) <= RecentLimit
         /\ Range(r) \subseteq Range(a) \cup Range(b)
<1> DEFINE all == a \o b
<1>1. /\ all \in Seq(S) /\ Len(all) \in Nat /\ IsInjective(all)
      /\ Range(all) = Range(a) \cup Range(b)
  BY ConcatFacts
<1>2. AppendUnique(a, b) = all
  BY Zenon, AppendDisjoint
<1> HIDE DEF all
<1>3. RememberKeys(a, b) = IF Len(all) <= RecentLimit THEN all
                           ELSE SubSeq(all, Len(all) - RecentLimit + 1, Len(all))
  BY Zenon, <1>2 DEF RememberKeys
<1>4. CASE Len(all) <= RecentLimit
  BY Zenon, <1>1, <1>3, <1>4
<1>5. CASE ~(Len(all) <= RecentLimit)
  <2> DEFINE k == Len(all) - RecentLimit
             l == SubSeq(all, 1, k)
             r == SubSeq(all, k + 1, Len(all))
  <2>1. k \in 0..Len(all) /\ Len(all) - k <= RecentLimit
    BY <1>1, <1>5, RecentLimitPositive
  <2> HIDE DEF k
  <2>2. /\ l \in Seq(S) /\ r \in Seq(S) /\ Len(l) = k /\ Len(r) = Len(all) - k
        /\ IsInjective(l) /\ IsInjective(r)
        /\ Range(l) \cap Range(r) = {} /\ Range(l) \cup Range(r) = Range(all)
    BY Zenon, <1>1, <2>1, SplitFacts
  <2>3. RememberKeys(a, b) = r
    BY Zenon, <1>3, <1>5 DEF k
  <2> HIDE DEF l, r
  <2> QED BY Zenon, <1>1, <2>1, <2>2, <2>3
<1> QED BY Zenon, <1>4, <1>5

(* completeProcessing: the claimed facts are gone and what is left starts behind them. *)
LEMMA CompleteFacts ==
  ASSUME NEW mb, Sound(mb), mb.processing # Null
  PROVE  LET c == Complete(mb) IN
         /\ Sound(c) /\ c.processing = Null /\ c.pending = mb.pending
         /\ InHand(c) = {} /\ Waiting(c) = Waiting(mb)
         /\ Range(c.recent) \subseteq Range(mb.recent) \cup InHand(mb)
         /\ mb.processing.id[1] < Front(c)
<1> DEFINE c == Complete(mb)
           b == mb.processing.batch
           keys == RememberKeys(mb.recent, b.keys)
<1>1. /\ mb.next \in Nat /\ 1 <= mb.next /\ mb.recent \in Seq(Fact)
      /\ mb = [next |-> mb.next, processing |-> mb.processing, pending |-> mb.pending,
               recent |-> mb.recent]
      /\ mb.pending # Null => mb.pending \in Batch
      /\ PendingFront(mb) \in Nat
  BY Zenon, SoundFacts
<1>2. /\ Aligned(b) /\ b.to + 1 = PendingFront(mb) /\ mb.processing.id[1] = b.from
      /\ IsInjective(mb.recent) /\ InHand(mb) = Range(b.refs)
      /\ Range(mb.recent) \cap Range(b.refs) = {}
  BY Zenon DEF Sound, InHand
<1>3. /\ b.refs \in Seq(Fact) /\ b.keys = b.refs /\ IsInjective(b.refs)
      /\ b.from \in Nat /\ b.from < b.to + 1
  BY <1>2 DEF Aligned, Batch
<1>4. /\ keys \in Seq(Fact) /\ IsInjective(keys) /\ Len(keys) <= RecentLimit
      /\ Range(keys) \subseteq Range(mb.recent) \cup InHand(mb)
  BY Zenon, <1>1, <1>2, <1>3, RememberFacts
<1>5. c = [mb EXCEPT !.processing = Null, !.recent = keys]
  BY Zenon DEF Complete
<1> HIDE DEF keys, c
<1>6. c = [next |-> mb.next, processing |-> Null, pending |-> mb.pending, recent |-> keys]
  BY Zenon, <1>1, <1>5
<1>7. c.next = mb.next /\ c.processing = Null /\ c.pending = mb.pending /\ c.recent = keys
  BY <1>6
<1>8. c \in Box
  BY <1>1, <1>4, <1>6 DEF Box
<1>9. /\ InHand(c) = {} /\ Waiting(c) = Waiting(mb) /\ Front(c) = PendingFront(mb)
  BY Zenon, <1>7 DEF InHand, Waiting, Front, PendingFront
<1>10. mb.processing.id[1] < Front(c)
  BY <1>2, <1>3, <1>9
<1>11. /\ InHand(mb) \cap Waiting(mb) = {}
       /\ Range(mb.recent) \cap (InHand(mb) \cup Waiting(mb)) = {}
       /\ c.pending # Null => Aligned(c.pending) /\ c.pending.to + 1 = c.next
  BY Zenon, <1>7 DEF Sound
<1>12. /\ InHand(c) \cap Waiting(c) = {} /\ Range(c.recent) \cap (InHand(c) \cup Waiting(c)) = {}
  BY Zenon, <1>4, <1>7, <1>9, <1>11
<1>13. Sound(c)
  BY Zenon, <1>1, <1>4, <1>7, <1>8, <1>11, <1>12 DEF Sound
<1> QED BY Zenon, <1>4, <1>7, <1>9, <1>10, <1>13 DEF c

(* releaseProcessing: all the facts are queued, in the order of their signals. *)
LEMMA ReleaseFacts ==
  ASSUME NEW mb, Sound(mb), mb.processing # Null
  PROVE  LET r == Release(mb) IN
         /\ Sound(r) /\ r.processing = Null /\ r.pending # Null /\ r.recent = mb.recent
         /\ InHand(r) = {} /\ Waiting(r) = InHand(mb) \cup Waiting(mb) /\ Front(r) = Front(mb)
<1> DEFINE r == Release(mb)
           b == mb.processing.batch
           q == IF mb.pending = Null THEN b ELSE Merge(b, mb.pending)
<1>1. /\ mb.next \in Nat /\ 1 <= mb.next /\ mb.recent \in Seq(Fact)
      /\ mb = [next |-> mb.next, processing |-> mb.processing, pending |-> mb.pending,
               recent |-> mb.recent]
  BY Zenon, SoundFacts
<1>2. /\ Aligned(b) /\ b.to + 1 = PendingFront(mb)
      /\ IsInjective(mb.recent) /\ Len(mb.recent) <= RecentLimit
      /\ InHand(mb) = Range(b.refs) /\ Front(mb) = b.from
      /\ InHand(mb) \cap Waiting(mb) = {}
      /\ Range(mb.recent) \cap (InHand(mb) \cup Waiting(mb)) = {}
  BY Zenon DEF Sound, InHand, Front
<1>3. /\ Aligned(q) /\ q.from = b.from /\ q.to + 1 = mb.next
      /\ Range(q.refs) = InHand(mb) \cup Waiting(mb)
  <2>1. CASE mb.pending = Null
    <3>1. PendingFront(mb) = mb.next /\ Waiting(mb) = {} /\ q = b
      BY Zenon, <2>1 DEF PendingFront, Waiting
    <3>2. Range(q.refs) = InHand(mb) \cup Waiting(mb)
      BY Zenon, <1>2, <3>1
    <3> QED BY Zenon, <1>2, <3>1, <3>2
  <2>2. CASE mb.pending # Null
    <3>1. /\ Aligned(mb.pending) /\ mb.pending.to + 1 = mb.next
          /\ PendingFront(mb) = mb.pending.from /\ Waiting(mb) = Range(mb.pending.refs)
      BY Zenon, <2>2 DEF Sound, PendingFront, Waiting
    <3>2. b.to + 1 = mb.pending.from /\ Range(b.refs) \cap Range(mb.pending.refs) = {}
      BY Zenon, <1>2, <3>1
    <3>3. LET m == Merge(b, mb.pending) IN
          /\ Aligned(m) /\ m.from = b.from /\ m.to = mb.pending.to
          /\ Range(m.refs) = Range(b.refs) \cup Range(mb.pending.refs)
      BY Zenon, <1>2, <3>1, <3>2, MergeFacts
    <3> QED BY Zenon, <1>2, <2>2, <3>1, <3>3
  <2> QED BY Zenon, <2>1, <2>2
<1>4. r = [mb EXCEPT !.processing = Null, !.pending = q]
  BY Zenon DEF Release
<1> HIDE DEF q, r
<1>5. q # Null /\ q \in Batch
  BY Zenon, <1>3, NullIsNoBatch DEF Aligned
<1>6. r = [next |-> mb.next, processing |-> Null, pending |-> q, recent |-> mb.recent]
  BY Zenon, <1>1, <1>4
<1>7. r.next = mb.next /\ r.processing = Null /\ r.pending = q /\ r.recent = mb.recent
  BY <1>6
<1>8. r \in Box
  BY <1>1, <1>5, <1>6 DEF Box
<1>9. InHand(r) = {} /\ Waiting(r) = InHand(mb) \cup Waiting(mb) /\ Front(r) = Front(mb)
  BY Zenon, <1>2, <1>3, <1>5, <1>7 DEF InHand, Waiting, Front, PendingFront
<1>10. InHand(r) \cap Waiting(r) = {} /\ Range(r.recent) \cap (InHand(r) \cup Waiting(r)) = {}
  BY Zenon, <1>2, <1>7, <1>9
<1>11. Sound(r)
  BY Zenon, <1>1, <1>2, <1>3, <1>7, <1>8, <1>10 DEF Sound
<1> QED BY Zenon, <1>5, <1>7, <1>9, <1>11 DEF r

-----------------------------------------------------------------------------
(* The steps *)

(* A step that touches neither the mailbox nor the messages. *)
LEMMA QuietStep ==
  ASSUME Inv, UNCHANGED <<mailbox, notices, raised, refused>>, answered \subseteq answered',
         Shapes', Lane'
  PROVE  Inv'
<1>1. /\ mailbox' = mailbox /\ notices' = notices /\ raised' = raised /\ refused' = refused
  OBVIOUS
<1>2. Sound(mailbox') /\ Raised' /\ Receipts'
  BY Zenon, <1>1 DEF Inv, Raised, Receipts
<1>3. BacklogIsSplittable' /\ OneNoticePerFact'
  BY Zenon DEF Inv, BacklogIsSplittable, OneNoticePerFact
<1>4. Kept'
  BY Zenon, <1>1 DEF Inv, Kept, Noticed
<1> QED BY Zenon, <1>2, <1>3, <1>4 DEF Inv

(* The lane ends: nothing is said of an idle one. *)
LEMMA IdleFacts ==
  ASSUME Inv, LaneEnds,
         notices' \in Seq(Messages), raised' \subseteq Fact, answered' \subseteq Input,
         {available', laneSignal', refused'} \subseteq BOOLEAN
  PROVE  Shapes' /\ Lane'
<1>1. pc' = "idle" /\ live' = {}
  BY DEF LaneEnds
<1> QED BY <1>1 DEF Shapes, Lane, Working

(* A lane that keeps its state, over a mailbox that did not change. *)
LEMMA LaneKept ==
  ASSUME Inv, UNCHANGED <<mailbox, lane>>, answered \subseteq answered'
  PROVE  Lane'
BY Zenon DEF Inv, Lane, lane, Working

LEMMA RaiseStep ==
  ASSUME Inv, NEW f \in Fact, Raise(f)
  PROVE  Inv'
<1> DEFINE e == Enqueue(mailbox, f, <<f>>)
<1>1. /\ Sound(mailbox) /\ f \notin raised /\ raised' = raised \cup {f}
      /\ UNCHANGED <<notices, answered, available, lane, laneSignal, refused>>
  BY Zenon DEF Inv, Raise
<1>2. f \notin Range(mailbox.recent) \cup InHand(mailbox) \cup Waiting(mailbox)
  BY Zenon, <1>1 DEF Inv, Raised
<1>3. /\ Sound(e) /\ Enqueue(e, f, <<f>>) = e
      /\ e.processing = mailbox.processing /\ e.recent = mailbox.recent /\ e.pending # Null
      /\ mailbox.pending # Null => e.pending.from = mailbox.pending.from
      /\ InHand(e) = InHand(mailbox) /\ Waiting(e) = Waiting(mailbox) \cup {f}
      /\ Front(e) = Front(mailbox)
  BY Zenon, <1>1, <1>2, EnqueueFacts
<1>4. mailbox' = e
  BY Zenon, <1>3 DEF Raise
<1> HIDE DEF e
<1>5. /\ Sound(mailbox')
      /\ mailbox'.processing = mailbox.processing /\ mailbox'.recent = mailbox.recent
      /\ mailbox'.pending # Null
      /\ mailbox.pending # Null => mailbox'.pending.from = mailbox.pending.from
      /\ InHand(mailbox') = InHand(mailbox) /\ Waiting(mailbox') = Waiting(mailbox) \cup {f}
      /\ Front(mailbox') = Front(mailbox)
  BY Zenon, <1>3, <1>4
<1>6. Shapes'
  BY <1>1 DEF Inv, Shapes, Working, lane
<1>7. Raised'
  <2>1. Range(mailbox'.recent) \cup InHand(mailbox') \cup Waiting(mailbox') \subseteq raised'
    BY Zenon, <1>1, <1>5 DEF Inv, Raised
  <2>2. ASSUME NEW i \in 1..Len(notices)
        PROVE  /\ notices[i].refs \subseteq raised'
               /\ notices[i].refs \cap (InHand(mailbox') \cup Waiting(mailbox')) = {}
    BY Zenon, <1>1, <1>5 DEF Inv, Raised
  <2> QED BY Zenon, <1>1, <2>1, <2>2 DEF Raised
<1>8. Receipts'
  BY Zenon, <1>1, <1>5 DEF Inv, Receipts
<1>9. Lane'
  BY Zenon, <1>1, <1>5 DEF Inv, Lane, lane, Working
<1>10. BacklogIsSplittable' /\ OneNoticePerFact'
  BY Zenon, <1>1 DEF Inv, BacklogIsSplittable, OneNoticePerFact
<1>11. Kept'
  BY Zenon, <1>1, <1>5 DEF Inv, Kept, Noticed
<1> QED BY Zenon, <1>5, <1>6, <1>7, <1>8, <1>9, <1>10, <1>11 DEF Inv

LEMMA AnswerStep ==
  ASSUME Inv, NEW f \in Fact, Answer(f)
  PROVE  Inv'
<1>1. /\ f \in Input /\ answered' = answered \cup {f}
      /\ UNCHANGED <<mailbox, notices, raised, available, lane, laneSignal, refused>>
  BY Zenon DEF Answer
<1>2. Shapes'
  BY <1>1 DEF Inv, Shapes, Working, lane
<1>3. answered \subseteq answered'
  BY Zenon, <1>1
<1> QED BY Zenon, <1>1, <1>2, <1>3, LaneKept, QuietStep

LEMMA SignalStep ==
  ASSUME Inv, Notify \/ \E r \in BOOLEAN : MainPass(r)
  PROVE  Inv'
<1>1. /\ laneSignal' \in BOOLEAN
      /\ UNCHANGED <<mailbox, notices, raised, answered, available, lane, refused>>
  <2>1. CASE Notify
    BY Zenon, <2>1 DEF Notify
  <2>2. CASE \E r \in BOOLEAN : MainPass(r)
    BY Zenon, <2>2 DEF MainPass
  <2> QED BY Zenon, <2>1, <2>2
<1>2. Shapes'
  BY <1>1 DEF Inv, Shapes, Working, lane
<1>3. answered \subseteq answered'
  BY Zenon, <1>1
<1> QED BY Zenon, <1>1, <1>2, <1>3, LaneKept, QuietStep

(* The id computed before the claim starts at the first queued signal. *)
LEMMA LaneStartStep ==
  ASSUME Inv, LaneStart
  PROVE  Inv'
<1>1. /\ pc = "idle" /\ laneSignal' = FALSE
      /\ UNCHANGED <<mailbox, notices, raised, answered, available, job, live, refused>>
  BY Zenon DEF LaneStart
<1>2. pc' \in {"idle", "claim"}
  BY Zenon, <1>1 DEF LaneStart
<1>3. Shapes'
  BY Zenon, <1>1, <1>2 DEF Inv, Shapes
<1>4. pc' = "claim" /\ mailbox.processing = Null =>
        mailbox.pending # Null /\ hint' \in Nat \X Nat /\ hint'[1] = mailbox.pending.from
  <2>1. SUFFICES ASSUME pc' = "claim", mailbox.processing = Null
                 PROVE  mailbox.pending # Null /\ hint' \in Nat \X Nat
                          /\ hint'[1] = mailbox.pending.from
    BY Zenon
  <2>2. HasWork(mailbox)
    BY <1>1, <2>1 DEF LaneStart
  <2>3. mailbox.pending # Null
    BY Zenon, <2>1, <2>2 DEF HasWork
  <2>4. hint' = <<mailbox.pending.from, mailbox.pending.to>>
    BY Zenon, <2>2, <2>3 DEF LaneStart
  <2>5. mailbox.pending.from \in Nat /\ mailbox.pending.to \in Nat
    BY <2>3 DEF Inv, Sound, Aligned, Batch
  <2> QED BY <2>3, <2>4, <2>5
<1>5. pc' # "complete" /\ pc' # "queue" /\ ~Working'
  BY <1>2 DEF Working
<1>6. Lane'
  BY Zenon, <1>1, <1>4, <1>5 DEF Lane
<1>7. answered \subseteq answered'
  BY Zenon, <1>1
<1> QED BY Zenon, <1>1, <1>3, <1>6, <1>7, QuietStep

(* A queued batch can be split, whatever its size. *)
LEMMA AlignedIsPartitionable ==
  ASSUME NEW b, Aligned(b)
  PROVE  Partitionable(b)
BY DEF Aligned, Partitionable, Batch

LEMMA LaneClaimStep ==
  ASSUME Inv, LaneClaim
  PROVE  Inv'
<1>1. /\ pc = "claim" /\ Sound(mailbox)
      /\ UNCHANGED <<notices, raised, answered, available, laneSignal>>
  BY Zenon DEF Inv, LaneClaim
<1>2. CanClaim(mailbox) => Partitionable(mailbox.pending)
  BY Zenon, <1>1, AlignedIsPartitionable DEF Sound, CanClaim
<1>3. CASE HasWork(mailbox)
  <2>1. /\ mailbox' = IF CanClaim(mailbox) THEN ClaimAttention(mailbox, hint) ELSE mailbox
        /\ job' = mailbox'.processing /\ pc' = "resolve" /\ UNCHANGED <<live, refused>>
    BY Zenon, <1>2, <1>3 DEF LaneClaim
  <2>2. /\ Sound(mailbox') /\ mailbox'.processing # Null /\ mailbox'.recent = mailbox.recent
        /\ InHand(mailbox') \cup Waiting(mailbox') = InHand(mailbox) \cup Waiting(mailbox)
        /\ Front(mailbox') = Front(mailbox)
    <3>1. CASE CanClaim(mailbox)
      <4> DEFINE c == ClaimAttention(mailbox, hint)
      <4>1. hint \in Nat \X Nat /\ hint[1] = mailbox.pending.from
        BY Zenon, <1>1, <3>1 DEF Inv, Lane, CanClaim
      <4>2. /\ Sound(c) /\ c.processing # Null /\ c.recent = mailbox.recent
            /\ InHand(c) \cup Waiting(c) = Waiting(mailbox) /\ Front(c) = Front(mailbox)
        BY Zenon, <1>1, <3>1, <4>1, ClaimFacts
      <4>3. InHand(mailbox) = {} /\ mailbox' = c
        BY Zenon, <2>1, <3>1 DEF InHand, CanClaim
      <4> HIDE DEF c
      <4> QED BY Zenon, <4>2, <4>3
    <3>2. CASE ~CanClaim(mailbox)
      BY Zenon, <1>1, <1>3, <2>1, <3>2 DEF CanClaim, HasWork
    <3> QED BY Zenon, <3>1, <3>2
  <2>3. Shapes'
    BY <1>1, <2>1 DEF Inv, Shapes, Working
  <2>4. Raised'
    BY Zenon, <1>1, <2>2 DEF Inv, Raised
  <2>5. Receipts'
    BY Zenon, <1>1, <2>2 DEF Inv, Receipts
  <2>6. Lane'
    <3>1. pc' # "claim" /\ pc' # "complete" /\ pc' # "queue"
      BY <2>1
    <3> QED BY Zenon, <2>1, <2>2, <3>1 DEF Lane
  <2>7. Kept'
    BY Zenon, <1>1, <2>2 DEF Inv, Kept, Noticed
  <2>8. BacklogIsSplittable' /\ OneNoticePerFact'
    BY Zenon, <1>1, <2>1 DEF Inv, BacklogIsSplittable, OneNoticePerFact
  <2> QED BY Zenon, <2>2, <2>3, <2>4, <2>5, <2>6, <2>7, <2>8 DEF Inv
<1>4. CASE ~HasWork(mailbox)
  <2>1. LaneEnds /\ mailbox' = mailbox /\ ~refused'
    BY Zenon, <1>2, <1>4 DEF LaneClaim, Inv, BacklogIsSplittable
  <2>2. ~refused /\ {available, laneSignal, refused} \subseteq BOOLEAN
    BY Zenon DEF Inv, BacklogIsSplittable, Shapes
  <2>3. refused' = refused
    BY <1>2, <1>4, <2>2 DEF LaneClaim
  <2>4. Shapes' /\ Lane'
    BY Zenon, <1>1, <2>1, <2>2, <2>3, IdleFacts DEF Inv, Shapes
  <2> QED BY Zenon, <1>1, <2>1, <2>3, <2>4, QuietStep
<1> QED BY Zenon, <1>3, <1>4

LEMMA LaneResolveStep ==
  ASSUME Inv, LaneResolve
  PROVE  Inv'
<1>1. /\ pc = "resolve" /\ live' = Range(job.batch.refs) \ answered
      /\ pc' = IF live' = {} THEN "complete" ELSE "queue"
      /\ UNCHANGED <<mailbox, notices, raised, answered, available, hint, job, laneSignal,
                     refused>>
  BY Zenon DEF LaneResolve
<1>2. job = mailbox.processing /\ job # Null /\ InHand(mailbox) = Range(job.batch.refs)
  BY Zenon, <1>1 DEF Inv, Lane, Working, InHand
<1>3. live' \subseteq Fact
  BY Zenon, <1>1, <1>2 DEF Inv, Raised, Shapes
<1>4. Shapes'
  BY <1>1, <1>3 DEF Inv, Shapes, Working
<1>5. pc' # "claim" /\ (pc' = "complete" => live' = {})
  BY <1>1
<1>6. /\ live' \subseteq InHand(mailbox') /\ InHand(mailbox') \subseteq live' \cup answered'
      /\ job' = mailbox'.processing /\ job' # Null
  BY Zenon, <1>1, <1>2
<1>7. Lane'
  BY Zenon, <1>5, <1>6 DEF Lane
<1>8. answered \subseteq answered'
  BY Zenon, <1>1
<1> QED BY Zenon, <1>1, <1>4, <1>7, <1>8, QuietStep

(* A claim that is completed: its facts were answered, or are in the message that was queued
   with it; the receipts of the messages stay in front. *)
LEMMA CompletionFacts ==
  ASSUME Inv, mailbox.processing # Null, mailbox' = Complete(mailbox)
  PROVE  /\ Sound(mailbox') /\ InHand(mailbox') = {} /\ Waiting(mailbox') = Waiting(mailbox)
         /\ Range(mailbox'.recent) \subseteq raised
         /\ Front(mailbox') \in Nat /\ mailbox.processing.id[1] < Front(mailbox')
         /\ \A i \in 1..Len(notices) :
              notices[i].receipt # <<"health">> => notices[i].receipt[1] < Front(mailbox')
<1> DEFINE c == Complete(mailbox)
<1>1. /\ Sound(c) /\ InHand(c) = {} /\ Waiting(c) = Waiting(mailbox)
      /\ Range(c.recent) \subseteq Range(mailbox.recent) \cup InHand(mailbox)
      /\ mailbox.processing.id[1] < Front(c)
  BY Zenon, CompleteFacts DEF Inv
<1> HIDE DEF c
<1>2. mailbox' = c
  BY Zenon DEF c
<1>3. Range(c.recent) \subseteq raised
  BY Zenon, <1>1 DEF Inv, Raised
<1>4. Front(c) \in Nat /\ Front(mailbox) \in Nat
  BY Zenon, <1>1, SoundFacts DEF Inv
<1>5. mailbox.processing.id[1] = Front(mailbox)
  BY Zenon DEF Inv, Sound, Front
<1>6. ASSUME NEW i \in 1..Len(notices), notices[i].receipt # <<"health">>
      PROVE  notices[i].receipt[1] < Front(c)
  <2>1. notices[i].receipt[1] < Front(mailbox)
    BY Zenon, <1>6 DEF Inv, Receipts
  <2>2. notices[i] \in Messages
    BY Zenon, ElementOfSeq DEF Inv, Shapes
  <2>3. notices[i].receipt \in Nat \X Nat
    BY <1>6, <2>2 DEF Messages
  <2>4. notices[i].receipt[1] \in Nat
    BY <2>3
  <2> QED BY <1>1, <1>4, <1>5, <2>1, <2>4
<1> QED BY Zenon, <1>1, <1>2, <1>3, <1>4, <1>6

LEMMA LaneCompleteStep ==
  ASSUME Inv, LaneComplete
  PROVE  Inv'
<1>1. /\ pc = "complete" /\ LaneEnds
      /\ UNCHANGED <<notices, raised, answered, available, laneSignal, refused>>
  BY Zenon DEF LaneComplete
<1>2. job = mailbox.processing /\ job # Null /\ InHand(mailbox) \subseteq answered
  BY Zenon, <1>1 DEF Inv, Lane, Working
<1>3. mailbox' = Complete(mailbox)
  BY Zenon, <1>2 DEF LaneComplete, Owns
<1>4. /\ Sound(mailbox') /\ InHand(mailbox') = {} /\ Waiting(mailbox') = Waiting(mailbox)
      /\ Range(mailbox'.recent) \subseteq raised
      /\ \A i \in 1..Len(notices) :
           notices[i].receipt # <<"health">> => notices[i].receipt[1] < Front(mailbox')
  BY Zenon, <1>2, <1>3, CompletionFacts
<1>5. Shapes' /\ Lane'
  BY Zenon, <1>1, IdleFacts DEF Inv, Shapes
<1>6. Raised'
  <2>1. Range(mailbox'.recent) \cup InHand(mailbox') \cup Waiting(mailbox') \subseteq raised
    BY Zenon, <1>4 DEF Inv, Raised
  <2>2. ASSUME NEW i \in 1..Len(notices)
        PROVE  /\ notices[i].refs \subseteq raised
               /\ notices[i].refs \cap (InHand(mailbox') \cup Waiting(mailbox')) = {}
    BY Zenon, <1>4 DEF Inv, Raised
  <2> QED BY Zenon, <1>1, <2>1, <2>2 DEF Raised
<1>7. Receipts'
  BY Zenon, <1>1, <1>4 DEF Receipts
<1>8. Kept'
  BY Zenon, <1>1, <1>2, <1>4 DEF Inv, Kept, Noticed
<1>9. BacklogIsSplittable' /\ OneNoticePerFact'
  BY Zenon, <1>1 DEF Inv, BacklogIsSplittable, OneNoticePerFact
<1> QED BY Zenon, <1>4, <1>5, <1>6, <1>7, <1>8, <1>9 DEF Inv

(* The id of a claim is no receipt: the receipts number batches in front of it. *)
LEMMA ClaimHasNoReceipt ==
  ASSUME Inv, mailbox.processing # Null, NEW i \in 1..Len(notices)
  PROVE  notices[i].receipt # mailbox.processing.id
<1>1. mailbox.processing.id \in Nat \X Nat /\ Front(mailbox) \in Nat
  BY Zenon, SoundFacts DEF Inv
<1>2. mailbox.processing.id # <<"health">>
  <2>1. ASSUME NEW z \in Nat \X Nat PROVE z # <<"health">>
    OBVIOUS
  <2> QED BY Zenon, <1>1, <2>1
<1>3. mailbox.processing.id[1] = Front(mailbox)
  BY Zenon DEF Inv, Sound, Front
<1>4. notices[i].receipt # <<"health">> => notices[i].receipt[1] < Front(mailbox)
  BY Zenon DEF Inv, Receipts
<1>5. ~(Front(mailbox) < Front(mailbox))
  BY <1>1
<1> QED BY Zenon, <1>2, <1>3, <1>4, <1>5

(* A message is added behind the others. *)
LEMMA AddedNotice ==
  ASSUME NEW ns \in Seq(Messages), NEW m \in Messages
  PROVE  LET new == Append(ns, m) IN
         /\ new \in Seq(Messages) /\ new[Len(ns) + 1] = m /\ Len(ns) + 1 \in 1..Len(new)
         /\ \A i \in 1..Len(ns) : new[i] = ns[i] /\ i \in 1..Len(new)
         /\ \A i \in 1..Len(new) : i \in 1..Len(ns) \/ i = Len(ns) + 1
OBVIOUS

LEMMA NoticeFacts ==
  ASSUME NEW r \in (Nat \X Nat) \cup {<<"health">>}, NEW refs \in SUBSET Fact
  PROVE  /\ Notice(r, refs) \in Messages
         /\ Notice(r, refs).receipt = r /\ Notice(r, refs).refs = refs
BY DEF Notice, Messages

(* The message takes over the facts of the claim in one transaction. *)
LEMMA TransferStep ==
  ASSUME Inv, pc = "queue", Transfer,
         UNCHANGED <<raised, answered, available, laneSignal, refused>>
  PROVE  Inv'
<1> DEFINE m == Notice(job.id, live)
           new == Append(notices, m)
<1>1. /\ job = mailbox.processing /\ job # Null
      /\ InHand(mailbox) \subseteq live \cup answered /\ live \subseteq InHand(mailbox)
  BY Zenon DEF Inv, Lane, Working
<1>2. notices' = new /\ mailbox' = Complete(mailbox) /\ LaneEnds
  BY Zenon DEF Transfer
<1>3. /\ Sound(mailbox') /\ InHand(mailbox') = {} /\ Waiting(mailbox') = Waiting(mailbox)
      /\ Range(mailbox'.recent) \subseteq raised
      /\ mailbox.processing.id[1] < Front(mailbox')
      /\ \A i \in 1..Len(notices) :
           notices[i].receipt # <<"health">> => notices[i].receipt[1] < Front(mailbox')
  BY Zenon, <1>1, <1>2, CompletionFacts
<1>4. /\ m \in Messages /\ m.receipt = job.id /\ m.refs = live
  <2>1. job.id \in (Nat \X Nat) \cup {<<"health">>}
    BY Zenon, <1>1, SoundFacts DEF Inv
  <2>2. live \in SUBSET Fact
    BY Zenon DEF Inv, Shapes
  <2> QED BY Zenon, <2>1, <2>2, NoticeFacts
<1>5. notices \in Seq(Messages)
  BY Zenon DEF Inv, Shapes
<1>6. /\ new \in Seq(Messages) /\ new[Len(notices) + 1] = m /\ Len(notices) + 1 \in 1..Len(new)
      /\ \A i \in 1..Len(notices) : new[i] = notices[i] /\ i \in 1..Len(new)
      /\ \A i \in 1..Len(new) : i \in 1..Len(notices) \/ i = Len(notices) + 1
  BY Zenon, <1>4, <1>5, AddedNotice
<1> HIDE DEF new, m
<1>7. Shapes' /\ Lane'
  BY Zenon, <1>2, <1>6, IdleFacts DEF Inv, Shapes
<1>8. Raised'
  <2>1. Range(mailbox'.recent) \cup InHand(mailbox') \cup Waiting(mailbox') \subseteq raised
    BY Zenon, <1>3 DEF Inv, Raised
  <2>2. ASSUME NEW i \in 1..Len(new)
        PROVE  /\ new[i].refs \subseteq raised
               /\ new[i].refs \cap (InHand(mailbox') \cup Waiting(mailbox')) = {}
    <3>1. CASE i \in 1..Len(notices)
      BY Zenon, <1>3, <1>6, <3>1 DEF Inv, Raised
    <3>2. CASE i = Len(notices) + 1
      <4>1. live \subseteq raised /\ live \cap Waiting(mailbox) = {}
        BY Zenon, <1>1 DEF Inv, Raised, Sound
      <4> QED BY Zenon, <1>3, <1>4, <1>6, <3>2, <4>1
    <3> QED BY Zenon, <1>6, <3>1, <3>2
  <2> QED BY Zenon, <1>2, <2>1, <2>2 DEF Raised
<1>9. Receipts'
  <2>1. ASSUME NEW i \in 1..Len(new), new[i].receipt # <<"health">>
        PROVE  new[i].receipt[1] < Front(mailbox')
    BY Zenon, <1>1, <1>3, <1>4, <1>6, <2>1
  <2> QED BY Zenon, <1>2, <2>1 DEF Receipts
<1>10. Kept'
  <2>1. ASSUME NEW f \in raised \ answered
        PROVE  \/ \E i \in 1..Len(new) : f \in new[i].refs
               \/ f \in InHand(mailbox') \cup Waiting(mailbox')
    <3>1. CASE Noticed(f)
      BY Zenon, <1>6, <3>1 DEF Noticed
    <3>2. CASE f \in InHand(mailbox)
      BY Zenon, <1>1, <1>4, <1>6, <3>2
    <3>3. CASE f \in Waiting(mailbox)
      BY Zenon, <1>3, <3>3
    <3> QED BY Zenon, <3>1, <3>2, <3>3 DEF Inv, Kept
  <2> QED BY Zenon, <1>2, <2>1 DEF Kept, Noticed
<1>11. OneNoticePerFact'
  <2>1. ASSUME NEW i \in 1..Len(notices) PROVE notices[i].refs \cap live = {}
    BY Zenon, <1>1 DEF Inv, Raised
  <2>2. ASSUME NEW i \in 1..Len(new), NEW j \in 1..Len(new), new[i].refs \cap new[j].refs # {}
        PROVE  i = j
    <3>1. CASE i \in 1..Len(notices) /\ j \in 1..Len(notices)
      BY Zenon, <1>6, <2>2, <3>1 DEF Inv, OneNoticePerFact
    <3>2. CASE i \in 1..Len(notices) /\ j = Len(notices) + 1
      BY Zenon, <1>4, <1>6, <2>1, <2>2, <3>2
    <3>3. CASE i = Len(notices) + 1 /\ j \in 1..Len(notices)
      BY Zenon, <1>4, <1>6, <2>1, <2>2, <3>3
    <3> QED BY Zenon, <1>6, <3>1, <3>2, <3>3
  <2> QED BY Zenon, <1>2, <2>2 DEF OneNoticePerFact
<1>12. BacklogIsSplittable'
  BY Zenon DEF Inv, BacklogIsSplittable
<1> QED BY Zenon, <1>3, <1>7, <1>8, <1>9, <1>10, <1>11, <1>12 DEF Inv

LEMMA LaneQueueStep ==
  ASSUME Inv, LaneQueue
  PROVE  Inv'
<1>1. pc = "queue" /\ UNCHANGED <<raised, answered, available, laneSignal, refused>>
  BY Zenon DEF LaneQueue
<1>2. job = mailbox.processing /\ job # Null
  BY Zenon, <1>1 DEF Inv, Lane, Working
<1>3. ~\E i \in 1..Len(notices) : notices[i].receipt = job.id
  BY Zenon, <1>2, ClaimHasNoReceipt
<1>4. \/ Transfer
      \/ pc' = "release" /\ UNCHANGED <<mailbox, notices, hint, job, live>>
  BY Zenon, <1>3 DEF LaneQueue
<1>5. CASE Transfer
  BY Zenon, <1>1, <1>5, TransferStep
<1>6. CASE pc' = "release" /\ UNCHANGED <<mailbox, notices, hint, job, live>>
  <2>1. Shapes'
    BY <1>1, <1>6 DEF Inv, Shapes, Working
  <2>2. pc' # "claim" /\ pc' # "complete" /\ pc' # "queue"
    BY <1>6
  <2>3. Lane'
    BY Zenon, <1>2, <1>6, <2>2 DEF Lane
  <2> QED BY Zenon, <1>1, <1>6, <2>1, <2>3, QuietStep
<1> QED BY Zenon, <1>4, <1>5, <1>6

LEMMA LaneQueueFailsStep ==
  ASSUME Inv, LaneQueueFails
  PROVE  Inv'
<1>1. /\ pc = "queue" /\ pc' = "release"
      /\ UNCHANGED <<mailbox, notices, raised, answered, available, hint, job, live, laneSignal,
                     refused>>
  BY Zenon DEF LaneQueueFails
<1>2. job = mailbox.processing /\ job # Null
  BY Zenon, <1>1 DEF Inv, Lane, Working
<1>3. Shapes'
  BY <1>1 DEF Inv, Shapes, Working
<1>4. pc' # "claim" /\ pc' # "complete" /\ pc' # "queue"
  BY <1>1
<1>5. Lane'
  BY Zenon, <1>1, <1>2, <1>4 DEF Lane
<1> QED BY Zenon, <1>1, <1>3, <1>5, QuietStep

LEMMA LaneReleaseStep ==
  ASSUME Inv, LaneRelease
  PROVE  Inv'
<1> DEFINE r == Release(mailbox)
<1>1. /\ pc = "release" /\ LaneEnds
      /\ UNCHANGED <<notices, raised, answered, available, laneSignal, refused>>
  BY Zenon DEF LaneRelease
<1>2. job = mailbox.processing /\ job # Null
  BY Zenon, <1>1 DEF Inv, Lane, Working
<1>3. mailbox' = r
  BY Zenon, <1>2 DEF LaneRelease, Owns
<1>4. /\ Sound(r) /\ r.recent = mailbox.recent /\ InHand(r) = {}
      /\ Waiting(r) = InHand(mailbox) \cup Waiting(mailbox) /\ Front(r) = Front(mailbox)
  BY Zenon, <1>2, ReleaseFacts DEF Inv
<1> HIDE DEF r
<1>5. Shapes' /\ Lane'
  BY Zenon, <1>1, IdleFacts DEF Inv, Shapes
<1>6. InHand(r) \cup Waiting(r) = InHand(mailbox) \cup Waiting(mailbox)
  BY Zenon, <1>4
<1>7. Raised'
  BY Zenon, <1>1, <1>3, <1>4, <1>6 DEF Inv, Raised
<1>8. Receipts'
  BY Zenon, <1>1, <1>3, <1>4 DEF Inv, Receipts
<1>9. Kept'
  BY Zenon, <1>1, <1>3, <1>6 DEF Inv, Kept, Noticed
<1>10. BacklogIsSplittable' /\ OneNoticePerFact'
  BY Zenon, <1>1 DEF Inv, BacklogIsSplittable, OneNoticePerFact
<1>11. Sound(mailbox')
  BY Zenon, <1>3, <1>4
<1> QED BY Zenon, <1>5, <1>7, <1>8, <1>9, <1>10, <1>11 DEF Inv

(* The messages change; each old one keeps its receipt and its refs, and a new one has no refs
   and the receipt of the health check. *)
LEMMA MessageStep ==
  ASSUME Inv, UNCHANGED <<mailbox, raised, answered, available, lane, laneSignal, refused>>,
         notices' \in Seq(Messages),
         \A i \in 1..Len(notices) : i \in 1..Len(notices') /\ notices'[i].refs = notices[i].refs,
         \A i \in 1..Len(notices') :
           \/ /\ i \in 1..Len(notices) /\ notices'[i].refs = notices[i].refs
              /\ notices'[i].receipt = notices[i].receipt
           \/ notices'[i].refs = {} /\ notices'[i].receipt = <<"health">>
  PROVE  Inv'
<1>1. Shapes'
  BY DEF Inv, Shapes, Working, lane
<1>2. Lane'
  BY Zenon, LaneKept
<1>3. Raised'
  <2>1. ASSUME NEW i \in 1..Len(notices')
        PROVE  /\ notices'[i].refs \subseteq raised
               /\ notices'[i].refs \cap (InHand(mailbox) \cup Waiting(mailbox)) = {}
    BY Zenon DEF Inv, Raised
  <2> QED BY Zenon, <2>1 DEF Inv, Raised
<1>4. Receipts'
  BY Zenon DEF Inv, Receipts
<1>5. Kept'
  BY Zenon DEF Inv, Kept, Noticed
<1>6. OneNoticePerFact'
  <2>1. ASSUME NEW i \in 1..Len(notices'), NEW j \in 1..Len(notices'),
               notices'[i].refs \cap notices'[j].refs # {}
        PROVE  i = j
    BY Zenon, <2>1 DEF Inv, OneNoticePerFact
  <2> QED BY Zenon, <2>1 DEF OneNoticePerFact
<1>7. Sound(mailbox') /\ BacklogIsSplittable'
  BY Zenon DEF Inv, BacklogIsSplittable
<1> QED BY Zenon, <1>1, <1>2, <1>3, <1>4, <1>5, <1>6, <1>7 DEF Inv

LEMMA HealthNoticeStep ==
  ASSUME Inv, HealthNotice
  PROVE  Inv'
<1> DEFINE m == Notice(<<"health">>, {})
           new == Append(notices, m)
<1>1. notices' = new /\ UNCHANGED <<mailbox, raised, answered, available, lane, laneSignal, refused>>
  BY Zenon DEF HealthNotice
<1>2. m \in Messages /\ m.receipt = <<"health">> /\ m.refs = {}
  <2>1. {} \in SUBSET Fact /\ <<"health">> \in (Nat \X Nat) \cup {<<"health">>}
    BY Zenon
  <2> QED BY Zenon, <2>1, NoticeFacts
<1>3. notices \in Seq(Messages)
  BY Zenon DEF Inv, Shapes
<1>4. /\ new \in Seq(Messages) /\ new[Len(notices) + 1] = m
      /\ \A i \in 1..Len(notices) : new[i] = notices[i] /\ i \in 1..Len(new)
      /\ \A i \in 1..Len(new) : i \in 1..Len(notices) \/ i = Len(notices) + 1
  BY Zenon, <1>2, <1>3, AddedNotice
<1> HIDE DEF m, new
<1>5. /\ \A i \in 1..Len(notices) : i \in 1..Len(new) /\ new[i].refs = notices[i].refs
      /\ \A i \in 1..Len(new) :
           \/ /\ i \in 1..Len(notices) /\ new[i].refs = notices[i].refs
              /\ new[i].receipt = notices[i].receipt
           \/ new[i].refs = {} /\ new[i].receipt = <<"health">>
  BY Zenon, <1>2, <1>4
<1> QED BY Zenon, <1>1, <1>4, <1>5, MessageStep

LEMMA SettleNoticeStep ==
  ASSUME Inv, SettleNotice
  PROVE  Inv'
<1>1. UNCHANGED <<mailbox, raised, answered, available, lane, laneSignal, refused>>
  BY Zenon DEF SettleNotice
<1>2. PICK i \in Unsent, z \in {"delivered", "not-delivered"} :
             notices' = [notices EXCEPT ![i].state = z]
  BY Zenon DEF SettleNotice
<1>3. notices \in Seq(Messages) /\ i \in 1..Len(notices)
  BY Zenon DEF Inv, Shapes, Unsent
<1>4. notices[i] \in Messages
  BY Zenon, <1>3, ElementOfSeq
<1>5. PICK m : m = [notices[i] EXCEPT !.state = z]
  BY Zenon
<1>6. m \in Messages /\ m.refs = notices[i].refs /\ m.receipt = notices[i].receipt
  BY <1>2, <1>4, <1>5 DEF Messages
<1>7. notices' = [notices EXCEPT ![i] = m]
  BY Zenon, <1>2, <1>5
<1>8. /\ notices' \in Seq(Messages) /\ Len(notices') = Len(notices)
      /\ \A j \in 1..Len(notices) : notices'[j] = IF j = i THEN m ELSE notices[j]
  BY <1>3, <1>6, <1>7, ExceptSeq
<1> QED BY Zenon, <1>1, <1>6, <1>8, MessageStep

LEMMA SessionStep ==
  ASSUME Inv, SessionEnds \/ SessionStarts
  PROVE  Inv'
<1>1. /\ available' \in BOOLEAN
      /\ UNCHANGED <<mailbox, notices, raised, answered, lane, laneSignal, refused>>
  BY Zenon DEF SessionEnds, SessionStarts
<1>2. Shapes'
  BY <1>1 DEF Inv, Shapes, Working, lane
<1>3. answered \subseteq answered'
  BY Zenon, <1>1
<1> QED BY Zenon, <1>1, <1>2, <1>3, LaneKept, QuietStep

(* The lane's variables are lost; the mailbox and the messages are not. *)
LEMMA CrashStep ==
  ASSUME Inv, Crash
  PROVE  Inv'
<1>1. /\ LaneEnds /\ laneSignal' \in BOOLEAN
      /\ UNCHANGED <<mailbox, notices, raised, answered, available, refused>>
  BY Zenon DEF Crash
<1>2. Shapes' /\ Lane'
  BY Zenon, <1>1, IdleFacts DEF Inv, Shapes
<1> QED BY Zenon, <1>1, <1>2, QuietStep

LEMMA InitInv ==
  ASSUME Init
  PROVE  Inv
<1>1. /\ mailbox = EmptyMailbox /\ notices = <<>> /\ raised = {} /\ answered = {}
      /\ available = TRUE /\ pc = "idle" /\ live = {} /\ laneSignal = FALSE /\ refused = FALSE
  BY Zenon DEF Init
<1>2. /\ mailbox.next = 1 /\ mailbox.processing = Null /\ mailbox.pending = Null
      /\ mailbox.recent = <<>>
  BY <1>1 DEF EmptyMailbox
<1>3. mailbox \in Box
  BY <1>1 DEF EmptyMailbox, Box
<1>4. InHand(mailbox) = {} /\ Waiting(mailbox) = {}
  BY Zenon, <1>2 DEF InHand, Waiting
<1>5. IsInjective(mailbox.recent) /\ Len(mailbox.recent) <= RecentLimit /\ 1 <= mailbox.next
        /\ Range(mailbox.recent) = {}
  BY <1>2, RecentLimitPositive DEF IsInjective, Range
<1>6. Sound(mailbox)
  BY Zenon, <1>2, <1>3, <1>4, <1>5 DEF Sound
<1>7. notices \in Seq(Messages) /\ 1..Len(notices) = {}
  BY <1>1
<1>8. Shapes
  BY Zenon, <1>1, <1>7 DEF Shapes
<1>9. Raised /\ Receipts /\ OneNoticePerFact /\ Kept
  BY Zenon, <1>1, <1>4, <1>5, <1>7 DEF Raised, Receipts, OneNoticePerFact, Kept
<1>10. Lane
  BY <1>1 DEF Lane, Working
<1>11. BacklogIsSplittable
  BY Zenon, <1>1 DEF BacklogIsSplittable
<1> QED BY Zenon, <1>6, <1>8, <1>9, <1>10, <1>11 DEF Inv

-----------------------------------------------------------------------------
(* What the specification guarantees *)

(* The invariant holds in every reachable state of the Operator lane, its producers and its
   messages. *)
THEOREM Invariance == Spec => []Inv
<1>1. Init => Inv
  BY Zenon, InitInv
<1>2. ASSUME Inv, [Next]_vars PROVE Inv'
  <2>1. CASE Next
    <3>1. CASE \E f \in Fact : Raise(f) \/ Answer(f)
      BY Zenon, <1>2, <3>1, RaiseStep, AnswerStep
    <3>2. CASE Notify \/ \E r \in BOOLEAN : MainPass(r)
      BY Zenon, <1>2, <3>2, SignalStep
    <3>3. CASE LaneStart
      BY Zenon, <1>2, <3>3, LaneStartStep
    <3>4. CASE LaneStep
      BY Zenon, <1>2, <3>4, LaneClaimStep, LaneResolveStep, LaneCompleteStep, LaneQueueStep,
         LaneReleaseStep DEF LaneStep
    <3>5. CASE LaneQueueFails
      BY Zenon, <1>2, <3>5, LaneQueueFailsStep
    <3>6. CASE HealthNotice \/ SettleNotice
      BY Zenon, <1>2, <3>6, HealthNoticeStep, SettleNoticeStep
    <3>7. CASE SessionEnds \/ SessionStarts
      BY Zenon, <1>2, <3>7, SessionStep
    <3>8. CASE Crash
      BY Zenon, <1>2, <3>8, CrashStep
    <3> QED BY Zenon, <2>1, <3>1, <3>2, <3>3, <3>4, <3>5, <3>6, <3>7, <3>8 DEF Next
  <2>2. CASE UNCHANGED vars
    <3>1. UNCHANGED <<mailbox, notices, raised, answered, available, lane, laneSignal, refused>>
      BY Zenon, <2>2 DEF vars
    <3>2. Shapes'
      BY <1>2, <3>1 DEF Inv, Shapes, Working, lane
    <3>3. answered \subseteq answered'
      BY Zenon, <3>1
    <3> QED BY Zenon, <1>2, <3>1, <3>2, <3>3, LaneKept, QuietStep
  <2> QED BY Zenon, <1>2, <2>1, <2>2
<1> QED BY <1>1, <1>2, PTL DEF Spec

(* claimOperatorAttention never refuses the backlog it has to split: enqueues, releases and
   partial claims keep keys, refs and sequence numbers aligned. *)
THEOREM BacklogStaysSplittable == Spec => []BacklogIsSplittable
<1>1. Inv => BacklogIsSplittable
  BY Zenon DEF Inv
<1> QED BY <1>1, Invariance, PTL

(* A fact that was committed is in the mailbox until it is in a message or was answered, over
   any number of crashes, rolled back transactions and lost sessions. *)
THEOREM FactsAreKept == Spec => []NoFactLost
<1>1. Inv => NoFactLost
  BY Zenon DEF Inv, Kept, NoFactLost, Batches, InHand, Waiting
<1> QED BY <1>1, Invariance, PTL

(* No two messages announce the same fact. *)
THEOREM FactsAreAnnouncedOnce == Spec => []OneNoticePerFact
<1>1. Inv => OneNoticePerFact
  BY Zenon DEF Inv
<1> QED BY <1>1, Invariance, PTL

(* queueOperatorNotification completes a claim whose receipt is already queued without looking at
   its refs: no claim ever has the id of a queued message. *)
THEOREM ClaimsAreNew == Spec => []ClaimIsNew
<1>1. Inv => ClaimIsNew
  BY Zenon, ClaimHasNoReceipt DEF ClaimIsNew
<1> QED BY <1>1, Invariance, PTL

(* Every stored mailbox passes validateWorkMailbox, and the lane and the messages keep their
   shape. *)
THEOREM MailboxStaysValid == Spec => []TypeOK
<1>1. ASSUME Inv PROVE TypeOK
  <2>1. ASSUME NEW b, Aligned(b) PROVE ValidBatch(b) /\ b.to \in Nat /\ b.keys = b.refs
    <3>1. /\ b.from \in Nat /\ b.to \in Nat /\ b.count \in Nat /\ 1 <= b.from /\ 1 <= b.count
          /\ b.to + 1 = b.from + b.count /\ IsInjective(b.refs) /\ b.keys = b.refs
      BY <2>1 DEF Aligned, Batch
    <3>2. b.from <= b.to /\ b.count <= b.to - b.from + 1
      BY <3>1
    <3> QED BY Zenon, <3>1, <3>2 DEF ValidBatch
  <2>2. ASSUME NEW b \in Batches(mailbox)
        PROVE  /\ Aligned(b) /\ b.to + 1 <= mailbox.next
               /\ Range(b.refs) \subseteq InHand(mailbox) \cup Waiting(mailbox)
    <3>1. /\ PendingFront(mailbox) <= mailbox.next /\ mailbox.next \in Nat
          /\ PendingFront(mailbox) \in Nat
      BY Zenon, <1>1, SoundFacts DEF Inv
    <3>2. CASE mailbox.processing # Null /\ b = mailbox.processing.batch
      BY Zenon, <1>1, <3>1, <3>2 DEF Inv, Sound, InHand
    <3>3. CASE mailbox.pending # Null /\ b = mailbox.pending
      <4>1. Aligned(b) /\ b.to + 1 = mailbox.next /\ Range(b.refs) = Waiting(mailbox)
        BY Zenon, <1>1, <3>3 DEF Inv, Sound, Waiting
      <4>2. mailbox.next <= mailbox.next
        BY <3>1
      <4> QED BY Zenon, <4>1, <4>2
    <3> QED BY Zenon, <2>2, <3>2, <3>3 DEF Batches
  <2>3. ASSUME NEW b \in Batches(mailbox)
        PROVE  /\ ValidBatch(b) /\ b.to < mailbox.next
               /\ Range(b.keys) \cap Range(mailbox.recent) = {} /\ Range(b.refs) \subseteq raised
    <3>1. ValidBatch(b) /\ b.keys = b.refs /\ b.to \in Nat /\ mailbox.next \in Nat
      BY Zenon, <1>1, <2>1, <2>2, SoundFacts DEF Inv
    <3>2. b.to < mailbox.next
      BY <2>2, <3>1
    <3>3. /\ Range(mailbox.recent) \cap (InHand(mailbox) \cup Waiting(mailbox)) = {}
          /\ InHand(mailbox) \cup Waiting(mailbox) \subseteq raised
      BY Zenon, <1>1 DEF Inv, Sound, Raised
    <3> QED BY Zenon, <2>2, <3>1, <3>2, <3>3
  <2>4. mailbox.processing # Null /\ mailbox.pending # Null =>
          Range(mailbox.processing.batch.keys) \cap Range(mailbox.pending.keys) = {}
    BY Zenon, <1>1 DEF Inv, Sound, Aligned, InHand, Waiting
  <2>5. Valid(mailbox)
    BY Zenon, <1>1, <2>3, <2>4 DEF Valid, Inv, Sound
  <2>6. /\ pc \in {"idle", "claim", "resolve", "complete", "queue", "release"}
        /\ pc \in {"resolve", "complete", "queue", "release"} => job # Null
    BY Zenon, <1>1 DEF Inv, Shapes, Lane, Working
  <2> QED BY Zenon, <1>1, <2>3, <2>5, <2>6 DEF TypeOK, Inv, Shapes
<1> QED BY <1>1, Invariance, PTL

=============================================================================
