-------------------------- MODULE WorkflowFileLock --------------------------
(***************************************************************************)
(* The cross-process lock of one release workflow                          *)
(* (src/release/workflowFileLock.ts): a directory made with mkdir, an      *)
(* owner receipt renamed into it, and the reclaim of a dead owner's lock   *)
(* under a marker made with link.                                          *)
(*                                                                         *)
(* Processes share nothing but the file system, so every system call is a  *)
(* step of its own.  All of them name files by path: a step prepared       *)
(* against one lock directory acts on whatever directory has that name     *)
(* when it runs.  rmSync of a directory lists it, unlinks what it listed   *)
(* in some order, and removes the directory if it is empty then.           *)
(***************************************************************************)
EXTENDS Naturals, FiniteSets

CONSTANTS
  Proc,           \* processes (CLI invocations), each of which acquires once
  None,           \* no process
  MaxTries,       \* bound: mkdir attempts of a process told apart by their temporary files
  MaxDeadlines,   \* bound: acquisitions that time out
  MaxContenders,  \* bound: processes alive at one time
  MaxCrashes,     \* bound: processes killed
  CrashAt,        \* places at which a process may be killed
  MaxWriteFaults, \* bound: owner receipts that cannot be written
  MaxRenameFaults \* bound: owner receipts that cannot be renamed

ASSUME NoneNotProc == None \notin Proc
ASSUME BoundsAreNat ==
  {MaxDeadlines, MaxContenders, MaxCrashes, MaxWriteFaults, MaxRenameFaults} \subseteq Nat
ASSUME TriesArePositive == MaxTries \in Nat \ {0}

VARIABLES
  dir,      \* the lock directory exists
  receipt,  \* its owner file: whose pid and token it holds
  marker,   \* its .reclaiming file: whose pid it holds
  temps,    \* temporary files in it, named by process and attempt
  pc,       \* where each process is
  tries,    \* the mkdir attempt a process is at
  dead,     \* the receipt a reclaim read first
  list,     \* what rmSync has still to unlink
  after,    \* what follows rmSync: "unmark" (a reclaim), "done" (a release), "failed"
  used

files == <<dir, receipt, marker, temps>>
local == <<tries, dead, list, after>>
vars  == <<files, pc, local, used>>

PC == {"new", "mkdir", "write", "rename", "held", "release", "read", "temp", "link", "stale",
       "unlink", "relink", "reread", "rm", "unmark", "throw", "wait",
       "done", "failed", "killed"}

(* process.kill(pid, 0): an invocation that finished has exited. *)
Alive(p) == pc[p] \notin {"done", "failed", "killed"}

Temp(p)    == <<"temp", p, tries[p]>>
Listing    == temps \cup (IF receipt # None THEN {<<"owner">>} ELSE {})
                    \cup (IF marker # None THEN {<<"marker">>} ELSE {})
Goto(p, l) == pc' = [pc EXCEPT ![p] = l]

Init ==
  /\ dir = FALSE /\ receipt = None /\ marker = None /\ temps = {}
  /\ pc = [p \in Proc |-> "new"] /\ tries = [p \in Proc |-> 0]
  /\ dead = [p \in Proc |-> None] /\ list = [p \in Proc |-> {}]
  /\ after = [p \in Proc |-> "done"]
  /\ used = [b \in {"crash", "write", "rename", "deadline"} |-> 0]

Start(p) ==
  /\ pc[p] = "new"
  /\ Cardinality({q \in Proc : Alive(q) /\ pc[q] # "new"}) < MaxContenders
  /\ Goto(p, "mkdir")
  /\ UNCHANGED <<files, local, used>>

-----------------------------------------------------------------------------
(* Mutant: mkdirSync with recursive, which an existing directory does not fail. *)
MkdirRecursive(p) ==
  /\ pc[p] = "mkdir"
  /\ tries' = [tries EXCEPT ![p] = (@ % MaxTries) + 1]
  /\ dir' = TRUE
  /\ Goto(p, "write")
  /\ UNCHANGED <<receipt, marker, temps, dead, list, after, used>>

(* mkdirSync(lockDir): taken, or EEXIST and a look at the owner. *)
Mkdir(p) ==
  /\ pc[p] = "mkdir"
  /\ tries' = [tries EXCEPT ![p] = (@ % MaxTries) + 1]
  /\ dir' = TRUE
  /\ Goto(p, IF dir THEN "read" ELSE "write")
  /\ UNCHANGED <<receipt, marker, temps, dead, list, after, used>>

(* writeOwnerReceipt: the temporary file inside the lock directory. *)
WriteTemp(p) ==
  /\ pc[p] = "write"
  /\ IF dir THEN temps' = temps \cup {Temp(p)} /\ Goto(p, "rename")
     ELSE Goto(p, "failed") /\ UNCHANGED temps
  /\ UNCHANGED <<dir, receipt, marker, local, used>>

(* ... opening or writing it fails: the error is raised as it is. *)
WriteFails(p) ==
  /\ pc[p] = "write" /\ used["write"] < MaxWriteFaults
  /\ used' = [used EXCEPT !["write"] = @ + 1]
  /\ Goto(p, "failed")
  /\ UNCHANGED <<files, local>>

(* The first step of rmSync(lockDir, recursive, force). *)
BeginRemove(p, next) ==
  /\ after' = [after EXCEPT ![p] = next]
  /\ list' = [list EXCEPT ![p] = IF dir THEN Listing ELSE {}]
  /\ Goto(p, "rm")

(* ... renamed to the receipt. *)
Rename(p) ==
  /\ pc[p] = "rename"
  /\ IF Temp(p) \in temps
     THEN /\ receipt' = p /\ temps' = temps \ {Temp(p)} /\ Goto(p, "held")
          /\ UNCHANGED <<list, after>>
     ELSE BeginRemove(p, "failed") /\ UNCHANGED <<receipt, temps>>
  /\ UNCHANGED <<dir, marker, tries, dead, used>>

(* Mutant: a rename that fails leaves the lock directory behind. *)
RenameFailsRaw(p) ==
  /\ pc[p] = "rename" /\ used["rename"] < MaxRenameFaults
  /\ used' = [used EXCEPT !["rename"] = @ + 1]
  /\ Goto(p, "failed")
  /\ UNCHANGED <<files, local>>

(* ... or the rename fails: the lock directory is removed and the error raised. *)
RenameFails(p) ==
  /\ pc[p] = "rename" /\ used["rename"] < MaxRenameFaults
  /\ used' = [used EXCEPT !["rename"] = @ + 1]
  /\ BeginRemove(p, "failed")
  /\ UNCHANGED <<files, tries, dead>>

(* The workflow run ends and calls the release closure. *)
RunEnds(p) ==
  /\ pc[p] = "held"
  /\ Goto(p, "release")
  /\ UNCHANGED <<files, local, used>>

(* The closure removes the lock only if the receipt still names this owner. *)
Release(p) ==
  /\ pc[p] = "release"
  /\ IF receipt = p THEN BeginRemove(p, "done")
     ELSE Goto(p, "done") /\ UNCHANGED <<list, after>>
  /\ UNCHANGED <<files, tries, dead, used>>

-----------------------------------------------------------------------------
(* reclaimDeadWorkflowLock: no receipt, or a live owner, is left alone. *)
ReadReceipt(p) ==
  /\ pc[p] = "read"
  /\ dead' = [dead EXCEPT ![p] = receipt]
  /\ Goto(p, IF receipt # None /\ ~Alive(receipt) THEN "temp" ELSE "wait")
  /\ UNCHANGED <<files, tries, list, after, used>>

(* The file the marker is linked to. *)
MarkerTemp(p) ==
  /\ pc[p] = "temp"
  /\ IF dir THEN temps' = temps \cup {Temp(p)} /\ Goto(p, "link")
     ELSE Goto(p, "wait") /\ UNCHANGED temps
  /\ UNCHANGED <<dir, receipt, marker, local, used>>

(* linkSync: the marker is ours, or there is one already, or the lock is gone. *)
Link(p) ==
  /\ pc[p] = "link"
  /\ IF Temp(p) \notin temps THEN Goto(p, "wait") /\ UNCHANGED marker
     ELSE IF marker # None THEN Goto(p, "stale") /\ UNCHANGED marker
     ELSE marker' = p /\ Goto(p, "reread")
  /\ UNCHANGED <<dir, receipt, temps, local, used>>

(* Mutant: another process's marker is never taken for stale. *)
NeverStale(p) ==
  /\ pc[p] = "stale"
  /\ Goto(p, "wait")
  /\ UNCHANGED <<files, local, used>>

(* isReclaimMarkerStale *)
Stale(p) ==
  /\ pc[p] = "stale"
  /\ Goto(p, IF marker # None /\ ~Alive(marker) THEN "unlink" ELSE "wait")
  /\ UNCHANGED <<files, local, used>>

(* The stale marker is removed ... *)
UnlinkMarker(p) ==
  /\ pc[p] = "unlink"
  /\ marker' = None
  /\ Goto(p, "relink")
  /\ UNCHANGED <<dir, receipt, temps, local, used>>

(* ... and claimed once; losing that race is an error of the acquisition. *)
Relink(p) ==
  /\ pc[p] = "relink"
  /\ IF Temp(p) \notin temps THEN Goto(p, "wait") /\ UNCHANGED <<marker, temps>>
     ELSE IF marker # None
     THEN temps' = temps \ {Temp(p)} /\ Goto(p, "failed") /\ UNCHANGED marker
     ELSE marker' = p /\ Goto(p, "reread") /\ UNCHANGED temps
  /\ UNCHANGED <<dir, receipt, local, used>>

(* The receipt is read again under the marker. *)
Reread(p) ==
  /\ pc[p] = "reread"
  /\ IF receipt = dead[p] /\ receipt # None /\ ~Alive(receipt)
     THEN BeginRemove(p, "unmark")
     ELSE Goto(p, "unmark") /\ UNCHANGED <<list, after>>
  /\ UNCHANGED <<files, tries, dead, used>>

-----------------------------------------------------------------------------
(* rmSync unlinks one listed name, whichever directory holds it now. *)
Unlink(p) ==
  /\ pc[p] = "rm"
  /\ \E n \in list[p] :
       /\ list' = [list EXCEPT ![p] = @ \ {n}]
       /\ receipt' = IF n = <<"owner">> THEN None ELSE receipt
       /\ marker' = IF n = <<"marker">> THEN None ELSE marker
       /\ temps' = temps \ {n}
  /\ UNCHANGED <<dir, pc, tries, dead, after, used>>

(* ... then the directory.  If a name was added meanwhile the call lists again or throws,
   depending on the Node release. *)
Rmdir(p) ==
  /\ pc[p] = "rm" /\ list[p] = {}
  /\ IF dir /\ Listing # {}
     THEN \/ BeginRemove(p, after[p]) /\ UNCHANGED dir
          \/ /\ Goto(p, IF after[p] = "unmark" THEN "throw" ELSE "failed")
             /\ UNCHANGED <<dir, list, after>>
     ELSE dir' = FALSE /\ Goto(p, after[p]) /\ UNCHANGED <<list, after>>
  /\ UNCHANGED <<receipt, marker, temps, tries, dead, used>>

(* The finally block of a reclaim; then the next attempt, or the error of rmSync. *)
Unmark(p) ==
  /\ pc[p] \in {"unmark", "throw"}
  /\ marker' = None
  /\ Goto(p, IF pc[p] = "throw" THEN "failed" ELSE "wait")
  /\ UNCHANGED <<dir, receipt, temps, local, used>>

(* The retry delay. *)
Wait(p) ==
  /\ pc[p] = "wait"
  /\ Goto(p, "mkdir")
  /\ UNCHANGED <<files, local, used>>

(* The acquisition times out. *)
Deadline(p) ==
  /\ pc[p] = "wait" /\ used["deadline"] < MaxDeadlines
  /\ used' = [used EXCEPT !["deadline"] = @ + 1]
  /\ Goto(p, "failed")
  /\ UNCHANGED <<files, local>>

(* The process is killed. *)
Crash(p) ==
  /\ pc[p] \in CrashAt /\ used["crash"] < MaxCrashes
  /\ used' = [used EXCEPT !["crash"] = @ + 1]
  /\ Goto(p, "killed")
  /\ UNCHANGED <<files, local>>

Step(p) ==
  \/ Start(p) \/ Mkdir(p) \/ WriteTemp(p) \/ Rename(p) \/ RunEnds(p) \/ Release(p)
  \/ ReadReceipt(p) \/ MarkerTemp(p) \/ Link(p) \/ Stale(p) \/ UnlinkMarker(p) \/ Relink(p)
  \/ Reread(p) \/ Unlink(p) \/ Rmdir(p) \/ Unmark(p) \/ Wait(p)

Next == \E p \in Proc : Step(p) \/ WriteFails(p) \/ RenameFails(p) \/ Deadline(p) \/ Crash(p)

Spec == Init /\ [][Next]_vars

(* A process that is not killed goes on; the workflow run it guards ends. *)
FairSpec == Spec /\ \A p \in Proc : WF_vars(Step(p))

-----------------------------------------------------------------------------
(* Files exist only in a lock directory, and a process that reclaims has read the receipt
   of an owner that is gone. *)
TypeOK ==
  /\ dir \in BOOLEAN /\ receipt \in Proc \cup {None} /\ marker \in Proc \cup {None}
  /\ Listing # {} => dir
  /\ pc \in [Proc -> PC] /\ tries \in [Proc -> 0..MaxTries]
  /\ \A p \in Proc : pc[p] \in {"temp", "link", "stale", "unlink", "relink", "reread"} =>
                       dead[p] \in Proc /\ ~Alive(dead[p])

(* Two processes never both believe that they own the workflow's engine run. *)
MutualExclusion ==
  \A p, q \in Proc : pc[p] = "held" /\ pc[q] = "held" => p = q

(* A lock directory that has no receipt belongs to a process that is about to write or
   to remove it: otherwise nobody may ever reclaim it and the workflow is stuck. *)
NoStrandedLock ==
  dir /\ receipt = None => \E p \in Proc : pc[p] \in {"write", "rename", "rm"}

(* Both hold for processes that are not killed and can write their receipts, through every
   contention for the lock, its release, a deadline and a rename that fails. *)
ExclusiveUnlessKilled == used["crash"] = 0 => MutualExclusion

(* ... and the second, which keeps the lock reclaimable. *)
ReclaimableUnlessKilled == used["crash"] = 0 /\ used["write"] = 0 => NoStrandedLock

(* The lock of an owner that was killed is taken from it as long as any process runs that
   wants it, even if a reclaim is itself killed half-way and leaves its marker. *)
DeadOwnerIsReplaced ==
  \A p \in Proc :
    (receipt = p /\ pc[p] = "killed") ~> (receipt # p \/ \A q \in Proc : ~Alive(q))

=============================================================================
