----------------------- MODULE WorkflowFileLockProofs -----------------------
(***************************************************************************)
(* As long as no process is killed, the lock of a release workflow has one *)
(* owner and stays reclaimable, for any number of processes, attempts,     *)
(* deadlines and failing renames.                                          *)
(*                                                                         *)
(* The argument: mkdir makes one process the owner of the directory, which *)
(* it stays until its own rmdir.  Nobody else touches a file meanwhile,    *)
(* because a receipt always names a process that is alive, so that no      *)
(* reclaim gets past its first read.                                       *)
(***************************************************************************)
EXTENDS WorkflowFileLock, TLAPS

(* Processes between the mkdir that made the directory and the rmdir of it. *)
Owner(p) == pc[p] \in {"write", "rename", "held", "release", "rm"}

Types ==
  /\ pc \in [Proc -> PC] /\ tries \in [Proc -> Nat]
  /\ DOMAIN list = Proc /\ after \in [Proc -> {"unmark", "done", "failed"}]
  /\ used \in [{"crash", "write", "rename", "deadline"} -> Nat]

(* The files in the directory, by the place of its owner. *)
FilesOf(p) ==
  /\ pc[p] = "write" => receipt = None /\ temps = {}
  /\ pc[p] = "rename" => receipt = None /\ temps = {Temp(p)}
  /\ pc[p] \in {"held", "release"} => receipt = p /\ temps = {}
  /\ pc[p] = "rm" => /\ Listing \subseteq list[p] /\ after[p] \in {"done", "failed"}
                     /\ receipt \in {p, None}

Outside == {"new", "mkdir", "read", "wait", "done", "failed"}

(* One owner at most, who alone has files in the directory; nobody reclaims. *)
Owned ==
  /\ marker = None
  /\ \A p \in Proc : pc[p] \in Outside \/ Owner(p)
  /\ \A p \in Proc : Owner(p) => dir /\ FilesOf(p)
  /\ \A p, q \in Proc : Owner(p) /\ Owner(q) => p = q
  /\ (\A p \in Proc : ~Owner(p)) => receipt = None /\ temps = {}

(* A directory without owner is left behind only by a receipt that cannot be written. *)
Manned == used["write"] = 0 /\ dir => \E p \in Proc : Owner(p)

Inv == Types /\ (used["crash"] = 0 => Owned /\ Manned)

-----------------------------------------------------------------------------
(* Every step keeps the shapes, and the fault counters only grow. *)
LEMMA TypesStep ==
  ASSUME Types, NEW p \in Proc,
         Step(p) \/ WriteFails(p) \/ RenameFails(p) \/ Deadline(p) \/ Crash(p)
  PROVE  /\ Types'
         /\ used'["crash"] = 0 => used["crash"] = 0 /\ ~Crash(p)
         /\ used'["write"] = 0 => used["write"] = 0 /\ ~WriteFails(p)
<1>1. tries' \in [Proc -> Nat]
  BY TriesArePositive DEF Types, Step, Start, Mkdir, WriteTemp, WriteFails, Rename, RenameFails,
     RunEnds, Release, ReadReceipt, MarkerTemp, Link, Stale, UnlinkMarker, Relink, Reread, Unlink,
     Rmdir, Unmark, Wait, Deadline, Crash, local
<1>2. DOMAIN list' = Proc /\ after' \in [Proc -> {"unmark", "done", "failed"}]
  BY DEF Types, Step, Start, Mkdir, WriteTemp, WriteFails, Rename, RenameFails,
     RunEnds, Release, ReadReceipt, MarkerTemp, Link, Stale, UnlinkMarker, Relink, Reread, Unlink,
     Rmdir, Unmark, Wait, Deadline, Crash, local, BeginRemove
<1>3. \/ UNCHANGED used
      \/ WriteFails(p) /\ used' = [used EXCEPT !["write"] = @ + 1]
      \/ Crash(p) /\ used' = [used EXCEPT !["crash"] = @ + 1]
      \/ RenameFails(p) /\ used' = [used EXCEPT !["rename"] = @ + 1]
      \/ Deadline(p) /\ used' = [used EXCEPT !["deadline"] = @ + 1]
  BY DEF Step, Start, Mkdir, WriteTemp, WriteFails, Rename, RenameFails,
     RunEnds, Release, ReadReceipt, MarkerTemp, Link, Stale, UnlinkMarker, Relink, Reread, Unlink,
     Rmdir, Unmark, Wait, Deadline, Crash
<1>4. used' \in [{"crash", "write", "rename", "deadline"} -> Nat]
  BY <1>3 DEF Types
<1>5. pc' \in [Proc -> PC]
  <2>1. PICK l \in PC : Goto(p, l)
    BY DEF Types, PC, Step, Start, Mkdir, WriteTemp, WriteFails, Rename, RenameFails,
       RunEnds, Release, ReadReceipt, MarkerTemp, Link, Stale, UnlinkMarker, Relink, Reread, Unlink,
       Rmdir, Unmark, Wait, Deadline, Crash, BeginRemove, Goto
  <2> QED BY <2>1 DEF Goto, Types
<1>6. /\ used'["crash"] = 0 => used["crash"] = 0 /\ ~Crash(p)
      /\ used'["write"] = 0 => used["write"] = 0 /\ ~WriteFails(p)
  BY <1>3 DEF Types, Crash, WriteFails
<1> QED BY <1>1, <1>2, <1>4, <1>5, <1>6 DEF Types

(* A process that is not the owner moves and touches no file. *)
LEMMA OutsiderMoves ==
  ASSUME Types, Owned, Manned, NEW p \in Proc, NEW l \in Outside, ~Owner(p),
         pc' = [pc EXCEPT ![p] = l], UNCHANGED <<files, list, after>>,
         tries' \in [Proc -> Nat], \A q \in Proc : q # p => tries'[q] = tries[q],
         used'["write"] = 0 => used["write"] = 0
  PROVE  Owned' /\ Manned'
<1>1. \A q \in Proc : q # p => pc'[q] = pc[q]
  BY DEF Types
<1>2. pc'[p] = l /\ ~Owner(p)'
  BY DEF Types, Owner, Outside
<1>3. \A q \in Proc : Owner(q)' <=> Owner(q)
  BY <1>1, <1>2 DEF Owner
<1>4. \A q \in Proc : Owner(q) => FilesOf(q)'
  BY <1>1, <1>2 DEF Owned, FilesOf, Temp, Listing, files
<1>5. Owned'
  BY <1>1, <1>2, <1>3, <1>4 DEF Owned, files
<1> QED BY <1>3, <1>5 DEF Manned, files

(* The owner moves on and its files are as its new place wants them. *)
LEMMA OwnerMoves ==
  ASSUME Types, Owned, NEW p \in Proc, Owner(p), Owner(p)', FilesOf(p)',
         NEW l, pc' = [pc EXCEPT ![p] = l], UNCHANGED <<dir, marker>>
  PROVE  Owned' /\ Manned'
<1>1. \A q \in Proc : q # p => pc'[q] = pc[q]
  BY DEF Types
<1>2. \A q \in Proc : q # p => ~Owner(q)
  BY DEF Owned
<1>3. \A q \in Proc : Owner(q)' <=> q = p
  BY <1>1, <1>2 DEF Owner
<1>4. \A q \in Proc : pc'[q] \in Outside \/ Owner(q)'
  BY <1>1, <1>3 DEF Owned, Owner
<1>5. marker' = None /\ dir'
  BY DEF Owned
<1> QED BY <1>3, <1>4, <1>5 DEF Owned, Manned

(* The owner leaves nothing behind but, at worst, the directory. *)
LEMMA OwnerLeaves ==
  ASSUME Types, Owned, NEW p \in Proc, Owner(p), NEW l \in {"done", "failed"},
         pc' = [pc EXCEPT ![p] = l], marker' = None, receipt' = None, temps' = {},
         ~dir' \/ used'["write"] # 0
  PROVE  Owned' /\ Manned'
<1>1. \A q \in Proc : q # p => pc'[q] = pc[q]
  BY DEF Types
<1>2. \A q \in Proc : q # p => ~Owner(q)
  BY DEF Owned
<1>3. pc'[p] = l
  BY DEF Types
<1>4. \A q \in Proc : ~Owner(q)'
  BY <1>1, <1>2, <1>3 DEF Owner
<1>5. \A q \in Proc : pc'[q] \in Outside
  BY <1>1, <1>2, <1>3 DEF Owned, Outside
<1> QED BY <1>4, <1>5 DEF Owned, Manned

-----------------------------------------------------------------------------
(* A process in line moves without touching a file, or makes the directory. *)
LEMMA WaitingStep ==
  ASSUME Types, Types', Owned, Manned, NEW p \in Proc, used'["write"] = 0 => used["write"] = 0,
         Start(p) \/ Mkdir(p) \/ ReadReceipt(p) \/ Wait(p) \/ Deadline(p)
  PROVE  Owned' /\ Manned'
<1>1. ~Owner(p)
  BY DEF Owner, Start, Mkdir, ReadReceipt, Wait, Deadline
<1>2. CASE Start(p) \/ Wait(p) \/ Deadline(p)
  <2>1. PICK l \in Outside : pc' = [pc EXCEPT ![p] = l]
    BY <1>2 DEF Start, Wait, Deadline, Goto, Outside
  <2>2. UNCHANGED <<files, list, after, tries>>
    BY <1>2 DEF Start, Wait, Deadline, local
  <2> QED BY Zenon, <1>1, <2>1, <2>2, OutsiderMoves DEF Types
<1>3. CASE ReadReceipt(p)
  <2>1. receipt = None \/ Alive(receipt)
    <3>1. ASSUME NEW q \in Proc, Owner(q) PROVE receipt \in {q, None} /\ Alive(q)
      BY <3>1 DEF Owned, FilesOf, Owner, Alive
    <3> QED BY <3>1 DEF Owned
  <2>2. pc' = [pc EXCEPT ![p] = "wait"] /\ UNCHANGED <<files, list, after, tries>>
    BY Zenon, <1>3, <2>1 DEF ReadReceipt, Goto
  <2> QED BY Zenon, <1>1, <2>2, OutsiderMoves DEF Types, Outside
<1>4. CASE Mkdir(p) /\ dir
  <2>1. /\ pc' = [pc EXCEPT ![p] = "read"] /\ UNCHANGED <<receipt, marker, temps, list, after>>
        /\ dir' = TRUE /\ tries' = [tries EXCEPT ![p] = (@ % MaxTries) + 1]
    BY <1>4 DEF Mkdir, Goto
  <2>2. \A q \in Proc : q # p => tries'[q] = tries[q]
    BY <2>1 DEF Types
  <2>3. UNCHANGED <<files, list, after>>
    BY <1>4, <2>1 DEF files, Owned
  <2> QED BY Zenon, <1>1, <2>1, <2>2, <2>3, OutsiderMoves DEF Types, Outside
<1>5. CASE Mkdir(p) /\ ~dir
  <2>1. /\ pc' = [pc EXCEPT ![p] = "write"] /\ UNCHANGED <<receipt, marker, temps>> /\ dir'
    BY <1>5 DEF Mkdir, Goto
  <2>2. \A q \in Proc : ~Owner(q)
    BY <1>5 DEF Owned
  <2>3. pc'[p] = "write" /\ \A q \in Proc : q # p => pc'[q] = pc[q]
    BY <2>1 DEF Types
  <2>4. \A q \in Proc : Owner(q)' <=> q = p
    BY <2>2, <2>3 DEF Owner
  <2>5. FilesOf(p)' /\ marker' = None
    BY <2>1, <2>2, <2>3 DEF Owned, FilesOf
  <2>6. \A q \in Proc : pc'[q] \in Outside \/ Owner(q)'
    BY <2>2, <2>3, <2>4 DEF Owned
  <2> QED BY <2>1, <2>4, <2>5, <2>6 DEF Owned, Manned
<1> QED BY <1>2, <1>3, <1>4, <1>5

(* The owner writes its receipt, holds the lock and removes it. *)
LEMMA OwnerStep ==
  ASSUME Types, Types', Owned, NEW p \in Proc,
         \/ WriteTemp(p) \/ WriteFails(p) \/ Rename(p) \/ RenameFails(p) \/ RunEnds(p)
         \/ Release(p) \/ Unlink(p) \/ Rmdir(p)
  PROVE  Owned' /\ Manned'
<1>1. Owner(p)
  BY DEF Owner, WriteTemp, WriteFails, Rename, RenameFails, RunEnds, Release, Unlink, Rmdir
<1>2. dir /\ FilesOf(p) /\ marker = None
  BY <1>1 DEF Owned
<1>3. ASSUME NEW l, Goto(p, l) PROVE pc' = [pc EXCEPT ![p] = l] /\ pc'[p] = l
  BY <1>3 DEF Goto, Types
<1>4. CASE WriteTemp(p)
  <2>1. /\ pc[p] = "write" /\ temps' = temps \union {Temp(p)} /\ Goto(p, "rename")
        /\ UNCHANGED <<dir, receipt, marker, tries>>
    BY <1>2, <1>4 DEF WriteTemp, local
  <2>2. FilesOf(p)' /\ Owner(p)'
    BY <1>2, <1>3, <2>1 DEF FilesOf, Owner, Temp
  <2> QED BY <1>1, <1>3, <2>1, <2>2, OwnerMoves
<1>5. CASE WriteFails(p)
  <2>1. /\ pc[p] = "write" /\ Goto(p, "failed") /\ UNCHANGED files
        /\ used' = [used EXCEPT !["write"] = @ + 1]
    BY <1>5 DEF WriteFails
  <2>2. used'["write"] # 0
    BY <2>1 DEF Types
  <2> QED BY <1>1, <1>2, <1>3, <2>1, <2>2, OwnerLeaves DEF files, FilesOf
<1>6. CASE Rename(p)
  <2>1. /\ pc[p] = "rename" /\ receipt' = p /\ temps' = temps \ {Temp(p)} /\ Goto(p, "held")
        /\ UNCHANGED <<dir, marker>>
    BY <1>2, <1>6 DEF Rename, FilesOf
  <2>2. FilesOf(p)' /\ Owner(p)'
    BY <1>2, <1>3, <2>1 DEF FilesOf, Owner
  <2> QED BY <1>1, <1>3, <2>1, <2>2, OwnerMoves
<1>7. CASE RenameFails(p) \/ Release(p)
  <2>1. PICK next \in {"done", "failed"} :
           BeginRemove(p, next) /\ UNCHANGED files /\ receipt \in {p, None}
    BY <1>2, <1>7 DEF RenameFails, Release, FilesOf
  <2>2. pc'[p] = "rm" /\ list'[p] = Listing /\ after'[p] = next
    BY <1>2, <1>3, <2>1 DEF BeginRemove, Types
  <2>3. Listing' = Listing
    BY <2>1 DEF Listing, files
  <2>4. FilesOf(p)' /\ Owner(p)'
    BY <2>1, <2>2, <2>3 DEF FilesOf, Owner, files
  <2> QED BY <1>1, <1>3, <2>1, <2>4, OwnerMoves DEF BeginRemove, files
<1>8. CASE RunEnds(p)
  <2>1. pc[p] = "held" /\ Goto(p, "release") /\ UNCHANGED files
    BY <1>8 DEF RunEnds
  <2>2. FilesOf(p)' /\ Owner(p)'
    BY <1>2, <1>3, <2>1 DEF FilesOf, Owner, files
  <2> QED BY <1>1, <1>3, <2>1, <2>2, OwnerMoves DEF files
<1>9. CASE Unlink(p)
  <2>1. PICK n \in list[p] :
           /\ pc[p] = "rm" /\ UNCHANGED <<dir, pc, after>>
           /\ list' = [list EXCEPT ![p] = @ \ {n}]
           /\ receipt' = (IF n = <<"owner">> THEN None ELSE receipt)
           /\ marker' = (IF n = <<"marker">> THEN None ELSE marker)
           /\ temps' = temps \ {n}
    BY Zenon, <1>9 DEF Unlink
  <2>2. Listing' \subseteq Listing \ {n}
    BY <1>2, <2>1 DEF Listing
  <2>3. list'[p] = list[p] \ {n} /\ marker' = marker
    BY <1>2, <2>1 DEF Types
  <2>4. FilesOf(p)' /\ Owner(p)'
    BY <1>1, <1>2, <2>1, <2>2, <2>3 DEF FilesOf, Owner
  <2>5. pc' = [pc EXCEPT ![p] = pc[p]]
    BY <2>1 DEF Types
  <2> QED BY Zenon, <1>1, <2>1, <2>3, <2>4, <2>5, OwnerMoves
<1>10. CASE Rmdir(p)
  <2>1. pc[p] = "rm" /\ Listing = {}
    BY <1>2, <1>10 DEF Rmdir, FilesOf
  <2>2. receipt = None /\ temps = {}
    BY Zenon, <2>1 DEF Listing
  <2>3. dir' = FALSE /\ Goto(p, after[p]) /\ UNCHANGED <<receipt, marker, temps>>
    BY <1>10, <2>1 DEF Rmdir
  <2> QED BY <1>1, <1>2, <1>3, <2>1, <2>2, <2>3, OwnerLeaves DEF FilesOf
<1> QED BY <1>4, <1>5, <1>6, <1>7, <1>8, <1>9, <1>10

-----------------------------------------------------------------------------
(* The invariant holds in every reachable state, whoever is killed. *)
THEOREM Invariance == Spec => []Inv
<1>1. Init => Inv
  <2> SUFFICES ASSUME Init PROVE Inv
    OBVIOUS
  <2>1. Types
    BY DEF Init, Types, PC
  <2>2. \A p \in Proc : pc[p] = "new" /\ ~Owner(p)
    BY DEF Init, Owner
  <2> QED BY <2>1, <2>2 DEF Init, Inv, Owned, Manned, Outside
<1>2. Inv /\ [Next]_vars => Inv'
  <2> SUFFICES ASSUME Inv, [Next]_vars PROVE Inv'
    OBVIOUS
  <2>1. CASE UNCHANGED vars
    <3>1. UNCHANGED <<dir, receipt, marker, temps, pc, tries, dead, list, after, used>>
      BY <2>1 DEF vars, files, local
    <3> QED BY <3>1 DEF Inv, Types, Owned, Manned, Owner, FilesOf, Temp, Listing
  <2>2. ASSUME NEW p \in Proc,
               Step(p) \/ WriteFails(p) \/ RenameFails(p) \/ Deadline(p) \/ Crash(p)
        PROVE  Inv'
    <3>1. /\ Types' /\ Types
          /\ used'["crash"] = 0 => used["crash"] = 0 /\ ~Crash(p)
          /\ used'["write"] = 0 => used["write"] = 0
      BY <2>2, TypesStep DEF Inv
    <3>2. SUFFICES ASSUME used'["crash"] = 0 PROVE Owned' /\ Manned'
      BY <3>1 DEF Inv
    <3>3. Owned /\ Manned /\ ~Crash(p)
      BY <3>1, <3>2 DEF Inv
    <3>4. pc[p] \in Outside \/ Owner(p)
      BY <3>3 DEF Owned
    <3>5. ~(\/ MarkerTemp(p) \/ Link(p) \/ Stale(p) \/ UnlinkMarker(p) \/ Relink(p)
            \/ Reread(p) \/ Unmark(p))
      BY <3>4 DEF Outside, Owner, MarkerTemp, Link, Stale, UnlinkMarker, Relink, Reread, Unmark
    <3> QED BY <2>2, <3>1, <3>3, <3>5, WaitingStep, OwnerStep DEF Step
  <2> QED BY <2>1, <2>2 DEF Next
<1> QED BY <1>1, <1>2, PTL DEF Spec

(* As long as nobody is killed, two processes never both hold the workflow, whoever waits,
   times out, fails to write its receipt or reads it while it is replaced. *)
THEOREM OneHolder == Spec => []ExclusiveUnlessKilled
<1>1. Inv => ExclusiveUnlessKilled
  BY DEF Inv, Owned, Owner, ExclusiveUnlessKilled, MutualExclusion
<1> QED BY <1>1, Invariance, PTL

(* As long as nobody is killed and receipts can be written, a lock directory without
   receipt has a process at work on it: nobody waits for a lock that no one can reclaim. *)
THEOREM LockIsReclaimable == Spec => []ReclaimableUnlessKilled
<1>1. Inv => ReclaimableUnlessKilled
  <2> SUFFICES ASSUME Inv, used["crash"] = 0, used["write"] = 0, dir, receipt = None
               PROVE  \E p \in Proc : pc[p] \in {"write", "rename", "rm"}
    BY DEF ReclaimableUnlessKilled, NoStrandedLock
  <2>1. PICK p \in Proc : Owner(p) /\ FilesOf(p)
    BY DEF Inv, Owned, Manned
  <2> QED BY <2>1, NoneNotProc DEF Owner, FilesOf
<1> QED BY <1>1, Invariance, PTL

-----------------------------------------------------------------------------
(* What a step of one process does to its own place and to the files, killed or not. *)
LEMMA PlaceStep ==
  ASSUME Types, NEW p \in Proc,
         Step(p) \/ WriteFails(p) \/ RenameFails(p) \/ Deadline(p) \/ Crash(p)
  PROVE  /\ \A q \in Proc : q # p => pc'[q] = pc[q]
         /\ ~Alive(p) => ~Alive(p)'
<1>1. UNCHANGED pc \/ \E l : pc' = [pc EXCEPT ![p] = l]
  BY DEF Goto, BeginRemove,
     Step, Start, Mkdir, WriteTemp, WriteFails, Rename, RenameFails, RunEnds, Release,
     ReadReceipt, MarkerTemp, Link, Stale, UnlinkMarker, Relink, Reread, Unlink, Rmdir, Unmark,
     Wait, Deadline, Crash
<1>2. ~Alive(p) => Crash(p)
  BY DEF Alive, Step, Start, Mkdir, WriteTemp, WriteFails, Rename, RenameFails, RunEnds, Release,
     ReadReceipt, MarkerTemp, Link, Stale, UnlinkMarker, Relink, Reread, Unlink, Rmdir, Unmark,
     Wait, Deadline, Crash
<1>3. Crash(p) => pc'[p] = "killed"
  BY DEF Crash, Goto, Types
<1> QED BY <1>1, <1>2, <1>3 DEF Types, Alive

(* A reclaim goes on only from the receipt of an owner that is gone, and nobody who is gone
   comes back. *)
LEMMA ReclaimStep ==
  ASSUME Types, Types', TypeOK, NEW p \in Proc, DOMAIN dead = Proc,
         Step(p) \/ WriteFails(p) \/ RenameFails(p) \/ Deadline(p) \/ Crash(p),
         NEW q \in Proc, pc'[q] \in {"temp", "link", "stale", "unlink", "relink", "reread"}
  PROVE  (dead[q] \in Proc /\ ~Alive(dead[q]))'
<1>1. \A r \in Proc : ~Alive(r) => ~Alive(r)'
  BY PlaceStep DEF Alive
<1>2. CASE q # p \/ pc[q] \in {"temp", "link", "stale", "unlink", "relink", "reread"}
  <2>1. pc[q] \in {"temp", "link", "stale", "unlink", "relink", "reread"}
    BY <1>2, PlaceStep
  <2>2. dead[q] \in Proc /\ ~Alive(dead[q])
    BY <2>1 DEF TypeOK
  <2>3. dead'[q] = dead[q]
    BY <2>1 DEF local, Goto, BeginRemove,
     Step, Start, Mkdir, WriteTemp, WriteFails, Rename, RenameFails, RunEnds, Release,
     ReadReceipt, MarkerTemp, Link, Stale, UnlinkMarker, Relink, Reread, Unlink, Rmdir, Unmark,
     Wait, Deadline, Crash
  <2> QED BY <1>1, <2>2, <2>3 DEF Alive
<1>3. CASE q = p /\ pc[q] \notin {"temp", "link", "stale", "unlink", "relink", "reread"}
  <2>1. ReadReceipt(p)
    <3> SUFFICES ASSUME ~ReadReceipt(p) PROVE FALSE
      OBVIOUS
    <3>1. ~(MarkerTemp(p) \/ Link(p) \/ Stale(p) \/ UnlinkMarker(p) \/ Relink(p) \/ Reread(p))
      BY Zenon, <1>3 DEF MarkerTemp, Link, Stale, UnlinkMarker, Relink, Reread
    <3>2. ~(\/ Start(p) \/ Mkdir(p) \/ WriteTemp(p) \/ WriteFails(p) \/ Rename(p) \/ RenameFails(p)
            \/ RunEnds(p) \/ Release(p))
      BY Zenon, <1>3 DEF Types, Goto, BeginRemove, Start, Mkdir, WriteTemp, WriteFails, Rename, RenameFails,
         RunEnds, Release
    <3>3. ~(Unlink(p) \/ Rmdir(p) \/ Unmark(p) \/ Wait(p) \/ Deadline(p) \/ Crash(p))
      BY Zenon, <1>3 DEF Types, Goto, BeginRemove, Unlink, Rmdir, Unmark, Wait, Deadline, Crash
    <3> QED BY Zenon, <3>1, <3>2, <3>3 DEF Step
  <2>2. receipt # None /\ ~Alive(receipt) /\ dead'[p] = receipt
    BY Zenon, <1>3, <2>1 DEF ReadReceipt, Goto, Types
  <2>3. receipt \in Proc
    BY <2>2 DEF TypeOK
  <2> QED BY <1>1, <1>3, <2>2, <2>3 DEF Alive
<1> QED BY Zenon, <1>2, <1>3

(* Files exist only in a lock directory, and whoever reclaims has read the receipt of an
   owner that is gone: also when processes are killed, anywhere and any number of them. *)
THEOREM OnlyTheDeadAreReclaimed == Spec => []TypeOK
<1>1. Init => TypeOK /\ DOMAIN dead = Proc
  <2> SUFFICES ASSUME Init PROVE TypeOK /\ DOMAIN dead = Proc
    OBVIOUS
  <2>1. dir = FALSE /\ receipt = None /\ marker = None /\ Listing = {} /\ DOMAIN dead = Proc
    BY DEF Init, Listing
  <2>2. pc \in [Proc -> PC] /\ tries \in [Proc -> 0..MaxTries] /\ \A p \in Proc : pc[p] = "new"
    BY TriesArePositive DEF Init, PC
  <2> QED BY Zenon, <2>1, <2>2 DEF TypeOK
<1>2. Types /\ Types' /\ TypeOK /\ DOMAIN dead = Proc /\ [Next]_vars
        => TypeOK' /\ DOMAIN dead' = Proc
  <2> SUFFICES ASSUME Types, Types', TypeOK, DOMAIN dead = Proc, [Next]_vars
               PROVE  TypeOK' /\ DOMAIN dead' = Proc
    OBVIOUS
  <2>1. CASE UNCHANGED vars
    <3>1. UNCHANGED <<dir, receipt, marker, temps, pc, tries, dead>>
      BY <2>1 DEF vars, files, local
    <3> QED BY <3>1 DEF TypeOK, Listing, Alive
  <2>2. ASSUME NEW p \in Proc,
               Step(p) \/ WriteFails(p) \/ RenameFails(p) \/ Deadline(p) \/ Crash(p)
        PROVE  TypeOK' /\ DOMAIN dead' = Proc
    <3>1. dir' \in BOOLEAN /\ receipt' \in Proc \cup {None} /\ marker' \in Proc \cup {None}
      BY Zenon, <2>2 DEF TypeOK, files,
     Step, Start, Mkdir, WriteTemp, WriteFails, Rename, RenameFails, RunEnds, Release,
     ReadReceipt, MarkerTemp, Link, Stale, UnlinkMarker, Relink, Reread, Unlink, Rmdir, Unmark,
     Wait, Deadline, Crash
    <3>2. Listing' # {} => dir'
      BY <2>2 DEF TypeOK, Listing, files,
     Step, Start, Mkdir, WriteTemp, WriteFails, Rename, RenameFails, RunEnds, Release,
     ReadReceipt, MarkerTemp, Link, Stale, UnlinkMarker, Relink, Reread, Unlink, Rmdir, Unmark,
     Wait, Deadline, Crash
    <3>3. tries' \in [Proc -> 0..MaxTries]
      <4>1. tries' = tries \/ tries' = [tries EXCEPT ![p] = (@ % MaxTries) + 1]
        BY <2>2 DEF local,
     Step, Start, Mkdir, WriteTemp, WriteFails, Rename, RenameFails, RunEnds, Release,
     ReadReceipt, MarkerTemp, Link, Stale, UnlinkMarker, Relink, Reread, Unlink, Rmdir, Unmark,
     Wait, Deadline, Crash
      <4>2. (tries[p] % MaxTries) + 1 \in 0..MaxTries
        BY TriesArePositive DEF TypeOK
      <4> QED BY <4>1, <4>2 DEF TypeOK
    <3>4. DOMAIN dead' = Proc
      BY <2>2 DEF local,
     Step, Start, Mkdir, WriteTemp, WriteFails, Rename, RenameFails, RunEnds, Release,
     ReadReceipt, MarkerTemp, Link, Stale, UnlinkMarker, Relink, Reread, Unlink, Rmdir, Unmark,
     Wait, Deadline, Crash
    <3>5. \A q \in Proc : pc'[q] \in {"temp", "link", "stale", "unlink", "relink", "reread"} =>
                            (dead[q] \in Proc /\ ~Alive(dead[q]))'
      BY <2>2, ReclaimStep
    <3> QED BY <3>1, <3>2, <3>3, <3>4, <3>5 DEF TypeOK, Types
  <2> QED BY <2>1, <2>2 DEF Next
<1>3. Inv => Types
  BY DEF Inv
<1> DEFINE J == TypeOK /\ DOMAIN dead = Proc
<1>4. Init => J
  BY <1>1
<1>5. Types /\ Types' /\ J /\ [Next]_vars => J'
  BY <1>2
<1>6. J => TypeOK
  OBVIOUS
<1> HIDE DEF J
<1> QED BY <1>3, <1>4, <1>5, <1>6, Invariance, PTL DEF Spec

=============================================================================
