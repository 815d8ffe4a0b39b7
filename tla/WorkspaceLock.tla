---------------------------- MODULE WorkspaceLock -----------------------------
(***************************************************************************)
(* The lock file of one workspace (internal/repo/workspacelock/lock.go),   *)
(* which a step that writes the workspace holds while it runs: goroutines  *)
(* of one or more processes that acquire and release it, processes that    *)
(* die and are launched again, and process ids the system gives out anew.  *)
(*                                                                         *)
(* The file is created, written and removed in separate steps; inside a    *)
(* process Manager.mu serialises them, between processes nothing does.     *)
(***************************************************************************)
EXTENDS Naturals

CONSTANTS
  Callers,      \* goroutines that execute a writing step, each of a run of its own
  Procs,        \* processes
  Home,         \* the process of each caller
  Pids,         \* process ids
  NoOne,
  SignalsProbe, \* whether signal 0 tells that a process lives: on Unix it does,
                \* on Windows sending it always fails
  MaxLaunches   \* bound: launches and starts of other programs, together

ASSUME LockAssumption ==
  /\ Home \in [Callers -> Procs]
  /\ NoOne \notin Callers \cup Pids
  /\ SignalsProbe \in BOOLEAN
  /\ MaxLaunches \in Nat

VARIABLES
  file,      \* the lock file: who created it, under which pid, and whether written
  pc,        \* where each caller is
  attempt,   \* its attempt at creating the file
  mu,        \* who holds Manager.mu of each process
  pid,       \* the id of each live process
  others,    \* ids that belong to other live programs
  launches   \* counter of the bound

callerVars == <<pc, attempt, mu>>
procVars == <<pid, others, launches>>
lockVars == <<file, callerVars, procVars>>

Absent == [by |-> NoOne, pid |-> NoOne, written |-> FALSE]
Files == [by : Callers, pid : Pids, written : BOOLEAN] \cup {Absent}

Places == {"idle", "creating", "writing", "reading", "removing", "holding",
           "releasing", "unlinking", "refused"}

LockTypeOK ==
  /\ file \in Files
  /\ pc \in [Callers -> Places]
  /\ attempt \in [Callers -> 1..2]
  /\ mu \in [Procs -> Callers \cup {NoOne}]
  /\ pid \in [Procs -> Pids \cup {NoOne}]
  /\ others \in SUBSET Pids
  /\ launches \in 0..MaxLaunches

LockInit ==
  /\ file = Absent
  /\ pc = [c \in Callers |-> "idle"]
  /\ attempt = [c \in Callers |-> 1]
  /\ mu = [p \in Procs |-> NoOne]
  /\ pid \in [Procs -> Pids] /\ \A p, q \in Procs : pid[p] = pid[q] => p = q
  /\ others = {}
  /\ launches = 0

Up(p) == pid[p] # NoOne
Taken == others \cup {pid[p] : p \in Procs}

\* Fault: a process takes a lock with its own id for stale.
AliveElsewhere(id) == SignalsProbe /\ id \in others

\* processAlive: some program has the id, whichever it is, and signals reach it.
Alive(id) == SignalsProbe /\ id \in Taken

\* A caller inside Acquire or release holds its manager's mutex.
Go(c, place) == pc' = [pc EXCEPT ![c] = place]
Leave(c, place) == Go(c, place) /\ mu' = [mu EXCEPT ![Home[c]] = NoOne]

Begin(c) ==
  /\ pc[c] \in {"idle", "refused"}
  /\ Up(Home[c]) /\ mu[Home[c]] = NoOne
  /\ Go(c, "creating")
  /\ attempt' = [attempt EXCEPT ![c] = 1]
  /\ mu' = [mu EXCEPT ![Home[c]] = c]
  /\ UNCHANGED <<file, procVars>>

\* WriteJSONExclusive opens the file with O_EXCL before it writes it.
Create(c) ==
  /\ pc[c] = "creating"
  /\ IF file = Absent
     THEN file' = [by |-> c, pid |-> pid[Home[c]], written |-> FALSE] /\ Go(c, "writing")
     ELSE UNCHANGED file /\ Go(c, "reading")
  /\ UNCHANGED <<attempt, mu, procVars>>

\* The write goes to the file c created, whether or not the path still names it.
Write(c) ==
  /\ pc[c] = "writing"
  /\ file' = IF file.by = c THEN [file EXCEPT !.written = TRUE] ELSE file
  /\ Leave(c, "holding")
  /\ UNCHANGED <<attempt, procVars>>

\* A missing file, or one without its content, is corrupt; a live owner refuses.
Read(c) ==
  /\ pc[c] = "reading"
  /\ IF ~file.written \/ Alive(file.pid)
     THEN Leave(c, "refused")
     ELSE Go(c, "removing") /\ UNCHANGED mu
  /\ UNCHANGED <<file, attempt, procVars>>

MayRetry(c) == attempt[c] = 1

\* Whatever file is there by now.
RemoveStale(c) ==
  /\ pc[c] = "removing"
  /\ file' = Absent
  /\ IF MayRetry(c)
     THEN attempt' = [attempt EXCEPT ![c] = 2] /\ Go(c, "creating") /\ UNCHANGED mu
     ELSE Leave(c, "refused") /\ UNCHANGED attempt
  /\ UNCHANGED procVars

BeginRelease(c) ==
  /\ pc[c] = "holding"
  /\ mu[Home[c]] = NoOne
  /\ Go(c, "releasing")
  /\ mu' = [mu EXCEPT ![Home[c]] = c]
  /\ UNCHANGED <<file, attempt, procVars>>

\* Fault: the comparison is the wrong way round.
OwnsOthers(c) == file.written /\ (file.by # c \/ file.pid # pid[Home[c]])

Owns(c) == file.written /\ file.by = c /\ file.pid = pid[Home[c]]

\* releaseOwned leaves alone a file that is missing, torn or another's.
Check(c) ==
  /\ pc[c] = "releasing"
  /\ IF Owns(c) THEN Go(c, "unlinking") /\ UNCHANGED mu ELSE Leave(c, "idle")
  /\ UNCHANGED <<file, attempt, procVars>>

Unlink(c) ==
  /\ pc[c] = "unlinking"
  /\ file' = Absent
  /\ Leave(c, "idle")
  /\ UNCHANGED <<attempt, procVars>>

-------------------------------------------------------------------------------
\* Only the file survives.
Die(p) ==
  /\ Up(p)
  /\ pid' = [pid EXCEPT ![p] = NoOne]
  /\ pc' = [c \in Callers |-> IF Home[c] = p THEN "idle" ELSE pc[c]]
  /\ attempt' = [c \in Callers |-> IF Home[c] = p THEN 1 ELSE attempt[c]]
  /\ mu' = [mu EXCEPT ![p] = NoOne]
  /\ UNCHANGED <<file, others, launches>>

Counted == launches < MaxLaunches /\ launches' = launches + 1

Launch(p, id) ==
  /\ ~Up(p) /\ id \notin Taken
  /\ Counted
  /\ pid' = [pid EXCEPT ![p] = id]
  /\ UNCHANGED <<file, callerVars, others>>

OtherStarts(id) ==
  /\ id \notin Taken
  /\ Counted
  /\ others' = others \cup {id}
  /\ UNCHANGED <<file, callerVars, pid>>

OtherEnds(id) ==
  /\ id \in others
  /\ others' = others \ {id}
  /\ UNCHANGED <<file, callerVars, pid, launches>>

Step(c) ==
  \/ Begin(c) \/ Create(c) \/ Write(c) \/ Read(c) \/ RemoveStale(c)
  \/ BeginRelease(c) \/ Check(c) \/ Unlink(c)

System ==
  \/ \E p \in Procs : Die(p) \/ \E id \in Pids : Launch(p, id)
  \/ \E id \in Pids : OtherStarts(id) \/ OtherEnds(id)

LockNext == System \/ \E c \in Callers : Step(c)

LockSpec == LockInit /\ [][LockNext]_lockVars

-------------------------------------------------------------------------------
Holding(c) == pc[c] \in {"holding", "releasing", "unlinking"}

\* What makes mutual exclusion inductive among the callers of one process: the
\* mutex covers every step but the one that holds and a file being written is the
\* caller's own. Where signals probe a process, a file that is held is the
\* caller's own too, and nobody holds what is removed as stale.
Inside(c) == pc[c] \in Places \ {"idle", "holding", "refused"}

LockInv ==
  /\ LockTypeOK
  /\ \A c \in Callers :
       /\ Inside(c) => mu[Home[c]] = c
       /\ Inside(c) \/ Holding(c) => Up(Home[c])
       /\ pc[c] = "writing" => file = [by |-> c, pid |-> pid[Home[c]], written |-> FALSE]
       /\ SignalsProbe =>
            /\ Holding(c) => file = [by |-> c, pid |-> pid[Home[c]], written |-> TRUE]
            /\ pc[c] = "removing" => \A d \in Callers : ~Holding(d)

\* Two writing steps never work in the workspace at once: an acquired lock is
\* refused to everyone else until it is released or its process dies. The code
\* gives this where signals probe a process.
MutualExclusion == \A c, d \in Callers : Holding(c) /\ Holding(d) => c = d

\* A step that ends lets the next one in: the release of a holder removes the
\* file, and no crash, stale lock or reused id has put another in its place. Again
\* where signals probe a process.
ReleaseFreesWorkspace ==
  [][\A c \in Callers :
       Holding(c) /\ pc'[c] = "idle" /\ Up(Home[c])' => file' = Absent]_lockVars
===============================================================================
