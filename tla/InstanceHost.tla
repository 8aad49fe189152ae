---------------------------- MODULE InstanceHost ----------------------------
(***************************************************************************)
(* The process-local owner of implementation instances                     *)
(* (src/kernel/instanceHost.ts).  Callers acquire counted handles; detach  *)
(* stops acquisition at once and disposes the instance when the last       *)
(* handle is released; close does that to every instance.  Disposers are   *)
(* asynchronous and may fail, so acquisitions, releases, detaches and a    *)
(* close interleave with a disposal under way.                             *)
(***************************************************************************)
EXTENDS Naturals, FiniteSets

CONSTANTS
  Instance,     \* implementation identities (id and generation)
  Handle,       \* bound: handles given out
  NDisposers    \* disposers an instance is attached with

ASSUME DisposersAreNat == NDisposers \in Nat

VARIABLES
  inst,     \* the instance table; "left" counts the disposers still to settle
  handle,   \* each handle: unused, or its instance and whether it was released
  closed,   \* #closed
  closing   \* the promise of close: "none", "pending" or "settled"

hostVars == <<inst, handle, closed, closing>>

Absent == [attached |-> FALSE, references |-> 0, detached |-> FALSE,
           disposal |-> "none", left |-> 0, drained |-> "pending"]

Held(i) == {h \in Handle : handle[h].state = "held" /\ handle[h].of = i}

HostInit ==
  /\ inst = [i \in Instance |-> Absent]
  /\ handle = [h \in Handle |-> [state |-> "unused"]]
  /\ closed = FALSE /\ closing = "none"

-----------------------------------------------------------------------------
(* Mutant: attach does not look at #closed. *)
AttachAfterClose(i) ==
  /\ ~inst[i].attached
  /\ inst' = [inst EXCEPT ![i] = [Absent EXCEPT !.attached = TRUE, !.left = NDisposers]]
  /\ UNCHANGED <<handle, closed, closing>>

(* An identity is attached once, to a Host that is open. *)
Attach(i) ==
  /\ ~closed
  /\ ~inst[i].attached
  /\ inst' = [inst EXCEPT ![i] = [Absent EXCEPT !.attached = TRUE, !.left = NDisposers]]
  /\ UNCHANGED <<handle, closed, closing>>

(* acquire: a handle counts as one reference. *)
Acquire(i, h) ==
  /\ handle[h].state = "unused"
  /\ ~closed /\ inst[i].attached /\ ~inst[i].detached
  /\ inst' = [inst EXCEPT ![i].references = @ + 1]
  /\ handle' = [handle EXCEPT ![h] = [state |-> "held", of |-> i]]
  /\ UNCHANGED <<closed, closing>>

(* #dispose: starts once.  Without disposers it is over, and drained settled, at once. *)
Dispose(r) ==
  IF r.disposal # "none" THEN r
  ELSE IF r.left = 0 THEN [r EXCEPT !.disposal = "done", !.drained = "resolved"]
  ELSE [r EXCEPT !.disposal = "running"]

DisposeIf(r, cond) == IF cond THEN Dispose(r) ELSE r

(* Mutant: the last release leaves the disposal to detach. *)
ReleaseNeverDisposes(h) ==
  /\ handle[h].state # "unused"
  /\ LET i == handle[h].of
     IN  inst' = IF handle[h].state = "released" THEN inst
                 ELSE [inst EXCEPT ![i].references = @ - 1]
  /\ handle' = [handle EXCEPT ![h].state = "released"]
  /\ UNCHANGED <<closed, closing>>

(* release: idempotent; the last one of a detached instance starts the disposal. *)
Release(h) ==
  /\ handle[h].state # "unused"
  /\ LET i == handle[h].of
         r == [inst[i] EXCEPT !.references = @ - 1]
     IN  inst' = IF handle[h].state = "released" THEN inst
                 ELSE [inst EXCEPT ![i] = DisposeIf(r, r.detached /\ r.references = 0)]
  /\ handle' = [handle EXCEPT ![h].state = "released"]
  /\ UNCHANGED <<closed, closing>>

(* Mutant: a detached instance is disposed without waiting for its handles. *)
DetachedAtOnce(r) == Dispose([r EXCEPT !.detached = TRUE])

(* What detach does to an instance. *)
Detached(r) ==
  DisposeIf([r EXCEPT !.detached = TRUE], r.references = 0)

Detach(i) ==
  /\ inst[i].attached
  /\ inst' = [inst EXCEPT ![i] = Detached(@)]
  /\ UNCHANGED <<handle, closed, closing>>

(* close: no more acquisitions, and every instance of the moment is detached. *)
Close ==
  /\ closed' = TRUE
  /\ inst' = [i \in Instance |-> IF inst[i].attached THEN Detached(inst[i]) ELSE inst[i]]
  /\ closing' = IF closing = "settled" THEN "settled" ELSE "pending"
  /\ UNCHANGED handle

(* Mutant: the first disposer that fails ends the disposal. *)
DisposerStops(i) ==
  /\ inst[i].disposal = "running"
  /\ \E ok \in BOOLEAN :
       inst' = [inst EXCEPT ![i] =
         [@ EXCEPT !.left = @ - 1,
                   !.disposal = IF @ = "running" /\ (~ok \/ inst[i].left = 1) THEN "done" ELSE @,
                   !.drained = IF ok /\ inst[i].left > 1 THEN @
                               ELSE IF ok THEN "resolved" ELSE "rejected"]]
  /\ UNCHANGED <<handle, closed, closing>>

(* A disposer settles and the next one is called.  After the last one the instance is
   disposed and drained resolves, or rejects if any of them failed. *)
DisposerEnds(i) ==
  /\ inst[i].disposal = "running"
  /\ IF inst[i].left > 1
     THEN inst' = [inst EXCEPT ![i].left = @ - 1]
     ELSE \E outcome \in {"resolved", "rejected"} :
            inst' = [inst EXCEPT ![i] =
                      [@ EXCEPT !.left = 0, !.disposal = "done", !.drained = outcome]]
  /\ UNCHANGED <<handle, closed, closing>>

(* Promise.allSettled of the drains of the instances there were. *)
CloseSettles ==
  /\ closing = "pending"
  /\ \A i \in Instance : inst[i].detached => inst[i].drained # "pending"
  /\ closing' = "settled"
  /\ UNCHANGED <<inst, handle, closed>>

HostNext ==
  \/ \E i \in Instance : Attach(i) \/ Detach(i) \/ DisposerEnds(i)
  \/ \E i \in Instance, h \in Handle : Acquire(i, h)
  \/ \E h \in Handle : Release(h)
  \/ Close \/ CloseSettles

HostSpec == HostInit /\ [][HostNext]_hostVars

(* Holders release what they hold (use does so in its finally block), disposers settle,
   and settled promises run their continuations. *)
FairHostSpec ==
  /\ HostSpec
  /\ \A h \in Handle : WF_hostVars(Release(h))
  /\ \A i \in Instance : WF_hostVars(DisposerEnds(i))
  /\ WF_hostVars(CloseSettles)

-----------------------------------------------------------------------------
(* The reference count of an instance is the number of handles on it not yet released. *)
HostTypeOK ==
  /\ \A i \in Instance :
       /\ inst[i].references = Cardinality(Held(i))
       /\ inst[i].left \in 0..NDisposers
       /\ inst[i].disposal \in {"none", "running", "done"}
       /\ inst[i].drained \in {"pending", "resolved", "rejected"}
  /\ closing \in {"none", "pending", "settled"}

(* An instance is never disposed of under a caller that still holds a handle on it. *)
NoUseAfterDispose ==
  \A i \in Instance : inst[i].disposal # "none" => Held(i) = {}

(* When the drain of an instance settles, well or badly, nobody holds it and each of its
   disposers has run. *)
DrainIsHonest ==
  \A i \in Instance : inst[i].drained # "pending" =>
    Held(i) = {} /\ inst[i].left = 0 /\ inst[i].disposal = "done"

(* When close settles, every instance the Host ever had is disposed of. *)
CloseIsComplete ==
  closing = "settled" => \A i \in Instance : inst[i].attached => inst[i].disposal = "done"

(* A detached instance is drained in the end, and close settles. *)
DetachDrains ==
  /\ \A i \in Instance : inst[i].detached ~> inst[i].drained # "pending"
  /\ closing = "pending" ~> closing = "settled"

=============================================================================
