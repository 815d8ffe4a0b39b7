------------------------------ MODULE SandboxSync -----------------------------
(***************************************************************************)
(* A turn in a sandbox with file sync (RunSandboxSynced and                *)
(* pullSandboxFiles in internal/service/worker/sandbox_sync.go, and the    *)
(* file helper in sandboxfiles/helper.py): the project on the desktop, its *)
(* replica in the sandbox, the state file between turns, the Codex session *)
(* that may outlive the turn that started it.                              *)
(*                                                                         *)
(* Content is a version number, 0 for a file that is not there; a write,   *)
(* by the user or by the agent, makes a new one. The user edits at any     *)
(* time; the desktop may stop, a connection may break and the sandbox may  *)
(* be recreated between any two steps.                                     *)
(***************************************************************************)
EXTENDS Naturals, FiniteSets

CONSTANTS
  Names,         \* the files of the project
  MaxWrites,     \* bound: writes of the user and of the agent, together
  MaxFaults,     \* bound: stops, broken connections and recreations, together
  RenameRaces    \* bound: an edit may come between the last comparison of a
                 \* local file and the rename that replaces it

ASSUME SyncAssumption ==
  IsFiniteSet(Names) /\ MaxWrites \in Nat /\ MaxFaults \in Nat /\ RenameRaces \in BOOLEAN

VARIABLES
  local, remote, \* the version of each file on the desktop, in the replica
  replica,       \* the identity of the replica: its generation
  agent,         \* the Codex process: none, opened or working
  disk,          \* state.json
  state,         \* its copy in the turn
  phase,         \* where the turn is
  leg,           \* before the agent's work or after it
  seen,          \* the manifest of the replica the turn works with
  scan,          \* the manifest of the project it uploads
  todo,          \* files it has still to compare or to send
  item,          \* the local file that is being replaced, if any
  conflict,      \* the pull has met a conflict
  had,           \* versions each replica has held (history)
  copies,        \* versions the desktop has held or keeps aside (history)
  writes, faults \* counters of the bounds

deskVars == <<disk, state>>
turnVars == <<phase, leg, seen, scan, todo, item, conflict>>
vars == <<local, remote, replica, agent, deskVars, turnVars, had, copies, writes, faults>>

Version == 0..MaxWrites
Manifest == [Names -> Version]
Empty == [n \in Names |-> 0]
State == [generation : 0..(MaxFaults + 1), files : Manifest, owned : BOOLEAN]

TypeOK ==
  /\ local \in Manifest /\ remote \in Manifest
  /\ replica \in 1..(faults + 1)
  /\ agent \in {"none", "opened", "working"}
  /\ disk \in State /\ state \in State
  /\ phase \in {"idle", "stop", "init", "manifest", "pull", "compare", "rename", "scan", "upload",
                "open", "record", "prompt", "turn", "halt", "finish"}
  /\ leg \in {"before", "after"}
  /\ seen \in Manifest /\ scan \in Manifest
  /\ todo \in SUBSET Names /\ item \in SUBSET Names /\ conflict \in BOOLEAN
  /\ had \in SUBSET ((1..(MaxFaults + 1)) \X Names \X Version)
  /\ copies \in SUBSET (Names \X Version)
  /\ writes \in 0..MaxWrites /\ faults \in 0..MaxFaults

\* A project that has never been synchronised; generation 0 is none.
Init ==
  /\ local = Empty /\ remote = Empty /\ replica = 1 /\ agent = "none"
  /\ disk = [generation |-> 0, files |-> Empty, owned |-> FALSE] /\ state = disk
  /\ phase = "idle" /\ leg = "before" /\ seen = Empty /\ scan = Empty /\ todo = {} /\ item = {} /\ conflict = FALSE
  /\ had = {} /\ copies = {}
  /\ writes = 0 /\ faults = 0

Fault == faults < MaxFaults /\ faults' = faults + 1

-------------------------------------------------------------------------------
(***************************************************************************)
(* The user and the agent.                                                 *)
(***************************************************************************)
\* A file is written or removed.
Write(files, n) ==
  /\ writes < MaxWrites
  /\ writes' = writes + 1
  /\ \E v \in {0, writes + 1} : v # files[n] /\ files' = [files EXCEPT ![n] = v]

Edit(n) ==
  /\ RenameRaces \/ phase # "rename"
  /\ Write(local, n)
  /\ copies' = copies \cup {<<n, local'[n]>>}
  /\ UNCHANGED <<remote, replica, agent, deskVars, turnVars, had, faults>>

AgentWrites(n) ==
  /\ agent = "working"
  /\ Write(remote, n)
  /\ had' = had \cup {<<replica, n, remote'[n]>>}
  /\ UNCHANGED <<local, replica, agent, deskVars, turnVars, copies, faults>>

-------------------------------------------------------------------------------
(***************************************************************************)
(* The turn.                                                               *)
(***************************************************************************)
Goto(p) == phase' = p /\ UNCHANGED <<leg, seen, scan, todo, item, conflict>>

\* The turn returns, with an error or without: what it knew is gone.
Return ==
  /\ phase' = "idle" /\ leg' = "before" /\ seen' = Empty /\ scan' = Empty /\ todo' = {} /\ item' = {} /\ conflict' = FALSE

Save(s) == state' = s /\ disk' = s

\* The helper's end of the connection is that of the replica the turn began with.
Online == state.generation = replica

\* One turn at a time takes the project's lock and reads the state file.
Submit ==
  /\ phase = "idle"
  /\ state' = disk
  /\ Goto("stop")
  /\ UNCHANGED <<local, remote, replica, agent, disk, had, copies, writes, faults>>

\* The recorded session is stopped first; then the file connection is opened,
\* and the state saved with that session alone.
StopRecorded ==
  /\ phase = "stop"
  /\ agent' = IF state.owned THEN "none" ELSE agent
  /\ Save([state EXCEPT !.owned = FALSE])
  /\ Goto("init")
  /\ UNCHANGED <<local, remote, replica, had, copies, writes, faults>>

\* Fault: the baseline of another replica is kept.
BaselineKept == state.files

\* "A reset sandbox is an empty replica, not an instruction to delete every
\* local file."
Baseline == IF state.generation = replica THEN state.files ELSE Empty

InitReplica ==
  /\ phase = "init"
  /\ Save([state EXCEPT !.generation = replica, !.files = Baseline])
  /\ Goto("manifest")
  /\ UNCHANGED <<local, remote, replica, agent, had, copies, writes, faults>>

ReadManifest ==
  /\ phase = "manifest" /\ Online
  /\ seen' = remote
  /\ todo' = {n \in Names : state.files[n] # remote[n]}
  /\ phase' = "pull" /\ conflict' = FALSE
  /\ UNCHANGED <<local, remote, replica, agent, deskVars, leg, scan, item, had, copies, writes, faults>>

(***************************************************************************)
(* pullSandboxFiles, file by file. The baseline of a file advances in      *)
(* memory and is saved after the last one.                                 *)
(***************************************************************************)
Advance(n) ==
  /\ state' = [state EXCEPT !.files[n] = seen[n]]
  /\ todo' = todo \ {n}
  /\ item' = {}
  /\ UNCHANGED <<leg, seen, scan, disk>>

\* A file that is not there is not downloaded; one that changed since fails.
Fetched(n) == seen[n] = 0 \/ (Online /\ remote[n] = seen[n])

PullSame(n) ==
  /\ phase = "pull" /\ n \in todo
  /\ local[n] = seen[n]
  /\ Advance(n)
  /\ UNCHANGED <<local, remote, replica, agent, phase, conflict, had, copies, writes, faults>>

\* Fault: the copy of the sandbox's version is not kept.
PullConflictForgotten(n) ==
  /\ phase = "pull" /\ n \in todo
  /\ local[n] \notin {seen[n], state.files[n]}
  /\ Fetched(n)
  /\ conflict' = TRUE
  /\ Advance(n)
  /\ UNCHANGED <<local, remote, replica, agent, phase, had, copies, writes, faults>>

\* Fault: the baseline does not advance over a conflict.
PullConflictAgain(n) ==
  /\ phase = "pull" /\ n \in todo
  /\ local[n] \notin {seen[n], state.files[n]}
  /\ Fetched(n)
  /\ copies' = copies \cup {<<n, seen[n]>>}
  /\ conflict' = TRUE
  /\ todo' = todo \ {n}
  /\ UNCHANGED <<local, remote, replica, agent, deskVars, phase, leg, seen, scan, item, had, writes, faults>>

\* Both sides have changed it: a copy is kept aside, the local file stays.
PullConflict(n) ==
  /\ phase = "pull" /\ n \in todo
  /\ local[n] \notin {seen[n], state.files[n]}
  /\ Fetched(n)
  /\ copies' = copies \cup {<<n, seen[n]>>}
  /\ conflict' = TRUE
  /\ Advance(n)
  /\ UNCHANGED <<local, remote, replica, agent, phase, had, writes, faults>>

\* Only the agent has changed it: applySyncFile compares the local file twice
\* more, before it writes the new content to a temporary file and after.
PullChanged(n) ==
  /\ phase = "pull" /\ n \in todo
  /\ local[n] # seen[n] /\ local[n] = state.files[n]
  /\ Fetched(n)
  /\ phase' = "compare" /\ item' = {n}
  /\ UNCHANGED <<local, remote, replica, agent, deskVars, leg, seen, scan, todo, conflict, had, copies, writes, faults>>

Unedited(n) == local[n] = state.files[n]

Compare(n) ==
  /\ phase = "compare" /\ n \in item
  /\ IF Unedited(n) THEN Goto("rename") ELSE Return
  /\ UNCHANGED <<local, remote, replica, agent, deskVars, had, copies, writes, faults>>

Rename(n) ==
  /\ phase = "rename" /\ n \in item
  /\ local' = [local EXCEPT ![n] = seen[n]]
  /\ copies' = copies \cup {<<n, seen[n]>>}
  /\ Advance(n)
  /\ phase' = "pull"
  /\ UNCHANGED <<remote, replica, agent, conflict, had, writes, faults>>

\* The baseline is saved. A conflict is an error, which ends the turn.
PullDone ==
  /\ phase = "pull" /\ todo = {}
  /\ disk' = state
  /\ IF conflict THEN Return ELSE Goto(IF leg = "before" THEN "scan" ELSE "finish")
  /\ UNCHANGED <<local, remote, replica, agent, state, had, copies, writes, faults>>

(***************************************************************************)
(* The upload: what differs between the project and the manifest read      *)
(* before.                                                                 *)
(***************************************************************************)
Scan ==
  /\ phase = "scan"
  /\ scan' = local
  /\ todo' = {n \in Names : local[n] # seen[n]}
  /\ phase' = "upload"
  /\ UNCHANGED <<local, remote, replica, agent, deskVars, leg, seen, item, conflict, had, copies, writes, faults>>

\* The helper replaces or removes what the manifest showed, nothing else.
Replaces(n) == Online /\ remote[n] = seen[n]

\* A file to send is read again and must still be what was scanned.
Upload(n) ==
  /\ phase = "upload" /\ n \in todo
  /\ scan[n] = 0 \/ local[n] = scan[n]
  /\ Replaces(n)
  /\ remote' = [remote EXCEPT ![n] = scan[n]]
  /\ had' = had \cup {<<replica, n, scan[n]>>}
  /\ todo' = todo \ {n}
  /\ UNCHANGED <<local, replica, agent, deskVars, phase, leg, seen, scan, item, conflict, copies, writes, faults>>

Uploaded ==
  /\ phase = "upload" /\ todo = {}
  /\ Save([state EXCEPT !.files = scan])
  /\ Goto("open")
  /\ UNCHANGED <<local, remote, replica, agent, had, copies, writes, faults>>

\* A step the turn cannot take is an error it returns.
Refused ==
  /\ \/ phase \in {"manifest", "open"} /\ ~Online
     \/ phase = "pull" /\ \E n \in todo : local[n] # seen[n] /\ ~Fetched(n)
     \/ phase = "upload" /\ \E n \in todo : ~Replaces(n) \/ (scan[n] # 0 /\ local[n] # scan[n])
  /\ Return
  /\ UNCHANGED <<local, remote, replica, agent, deskVars, had, copies, writes, faults>>

(***************************************************************************)
(* The agent's work. Its session is saved before it is given the prompt.   *)
(***************************************************************************)
OpenCodex ==
  /\ phase = "open" /\ Online
  /\ agent' = "opened"
  /\ Goto("record")
  /\ UNCHANGED <<local, remote, replica, deskVars, had, copies, writes, faults>>

\* Fault: the session is only remembered.
RecordLater ==
  /\ phase = "record"
  /\ state' = [state EXCEPT !.owned = TRUE]
  /\ Goto("prompt")
  /\ UNCHANGED <<local, remote, replica, agent, disk, had, copies, writes, faults>>

Record ==
  /\ phase = "record"
  /\ Save([state EXCEPT !.owned = TRUE])
  /\ Goto("prompt")
  /\ UNCHANGED <<local, remote, replica, agent, had, copies, writes, faults>>

Prompt ==
  /\ phase = "prompt"
  /\ agent' = IF agent = "opened" THEN "working" ELSE agent
  /\ Goto("turn")
  /\ UNCHANGED <<local, remote, replica, deskVars, had, copies, writes, faults>>

\* RunCodexStream returns, well or not; then the session is stopped for sure.
TurnEnds ==
  /\ phase = "turn"
  /\ Goto("halt")
  /\ UNCHANGED <<local, remote, replica, agent, deskVars, had, copies, writes, faults>>

Halt ==
  /\ phase = "halt"
  /\ agent' = "none"
  /\ leg' = "after" /\ phase' = "manifest"
  /\ UNCHANGED <<local, remote, replica, deskVars, seen, scan, todo, item, conflict, had, copies, writes, faults>>

Finish ==
  /\ phase = "finish"
  /\ Save([state EXCEPT !.owned = FALSE])
  /\ Return
  /\ UNCHANGED <<local, remote, replica, agent, had, copies, writes, faults>>

-------------------------------------------------------------------------------
(***************************************************************************)
(* Failures.                                                               *)
(***************************************************************************)
\* The desktop stops, a connection breaks, a request or the turn fails. Closing
\* the session that was opened may or may not reach the sandbox.
Interrupted ==
  /\ phase # "idle"
  /\ Fault
  /\ agent' = "none" \/ agent' = agent
  /\ Return
  /\ UNCHANGED <<local, remote, replica, deskVars, had, copies, writes>>

\* The sandbox is recreated: nothing is left of the replica.
Recreated ==
  /\ Fault
  /\ replica' = replica + 1 /\ remote' = Empty /\ agent' = "none"
  /\ UNCHANGED <<local, deskVars, turnVars, had, copies, writes>>

-------------------------------------------------------------------------------
Turn ==
  \/ StopRecorded \/ InitReplica \/ ReadManifest \/ PullDone \/ Scan \/ Uploaded \/ Refused
  \/ OpenCodex \/ Record \/ Prompt \/ TurnEnds \/ Halt \/ Finish
  \/ \E n \in Names : PullSame(n) \/ PullConflict(n) \/ PullChanged(n) \/ Compare(n) \/ Rename(n) \/ Upload(n)

Next ==
  \/ Submit \/ Turn \/ Interrupted \/ Recreated
  \/ \E n \in Names : Edit(n) \/ AgentWrites(n)

Spec == Init /\ [][Next]_vars

(***************************************************************************)
(* A turn goes on to its end, the agent's part within its time limit, and  *)
(* the user sends another message.                                         *)
(***************************************************************************)
FairSpec == Spec /\ WF_vars(Turn) /\ WF_vars(Submit)

-------------------------------------------------------------------------------
\* What the user saved is replaced or removed on the desktop only by a change
\* the agent made to that very version: a stop in the middle, a recreated
\* sandbox or an edit during the turn loses no local work.
LocalWorkIsKept ==
  [][\A n \in Names :
       local'[n] # local[n] /\ writes' = writes /\ local[n] # 0
         => <<state.generation, n, local[n]>> \in had]_vars

\* What the agent wrote is replaced or removed in the sandbox only when the
\* desktop has had it or keeps a copy.
RemoteWorkIsKept ==
  [][\A n \in Names :
       remote'[n] # remote[n] /\ writes' = writes /\ replica' = replica /\ remote[n] # 0
         => <<n, remote[n]>> \in copies]_vars

\* The agent starts on the project as it was scanned for this turn, with no
\* process of an earlier turn still writing.
AgentStartsOnProject ==
  phase \in {"open", "record", "prompt"} /\ Online => remote = scan /\ agent # "working"

\* Why that is so.  A baseline stands for versions the replica of its generation
\* has held and the desktop has had; so does every file on either side.
BaselineInv ==
  /\ \A s \in {disk, state} :
       /\ s.generation <= replica
       /\ \A n \in Names : s.files[n] # 0 => /\ <<s.generation, n, s.files[n]>> \in had
                                             /\ <<n, s.files[n]>> \in copies
  /\ \A n \in Names : /\ remote[n] # 0 => <<replica, n, remote[n]>> \in had
                      /\ local[n] # 0 => <<n, local[n]>> \in copies

\* The replica stays what its manifest says until the upload, as long as it is
\* the one the turn began with; the baseline follows the manifest.
PullInv ==
  /\ phase \in {"pull", "compare", "rename", "scan", "upload"} =>
       \A n \in Names : seen[n] # 0 => <<state.generation, n, seen[n]>> \in had
  /\ phase \in {"pull", "compare", "rename"} => \A n \in Names \ todo : state.files[n] = seen[n]
  /\ phase \in {"scan", "upload"} => state.files = seen
  /\ phase \in {"pull", "compare", "rename", "scan"} /\ Online => remote = seen

\* What has been sent is there, what has not is still what the manifest says.
UploadInv ==
  phase = "upload" =>
    \A n \in Names :
      /\ scan[n] # 0 => <<n, scan[n]>> \in copies
      /\ scan[n] # 0 /\ n \notin todo => <<state.generation, n, scan[n]>> \in had
      /\ Online => remote[n] = IF n \in todo THEN seen[n] ELSE scan[n]

\* Who works is in the state file, and no turn goes past its first step with it.
AgentInv ==
  /\ agent = "working" => disk.owned
  /\ phase \notin {"idle", "stop", "turn", "halt"} => agent # "working"
  /\ phase = "stop" => state = disk
  /\ phase = "prompt" => disk.owned

SyncInv == BaselineInv /\ PullInv /\ UploadInv /\ AgentInv /\ AgentStartsOnProject

\* What is replaced is still what was compared, if no edit comes between.
RenameInv ==
  phase \in {"compare", "rename"} =>
    \E n \in Names : item = {n} /\ (phase = "rename" => Unedited(n))

\* Once nobody writes any more, turns bring the two sides together for good.
Converges == <>[](local = remote)
===============================================================================
