-------------------------- MODULE SandboxSyncProofs ---------------------------
(***************************************************************************)
(* What a synchronised turn does to either side, proved for any project,   *)
(* any number of writes and of failures.                                   *)
(*                                                                         *)
(* All of it rests on what a baseline is: a manifest of versions that the  *)
(* replica of its generation has held and the desktop has had. A file is   *)
(* replaced on one side only where it is still what the baseline says, so  *)
(* the version that goes is known to the other side. A recreated sandbox   *)
(* has a generation above every baseline, and a turn that began before it  *)
(* finds no way to the replica any more.                                   *)
(***************************************************************************)
EXTENDS SandboxSync, TLAPS

\* Every step keeps the types.
LEMMA TypeStep == TypeOK /\ [Next]_vars => TypeOK'
<1> SUFFICES ASSUME TypeOK, Next PROVE TypeOK'
  BY DEF TypeOK, vars, deskVars, turnVars, State, Manifest, Version
<1>e. Empty \in Manifest
  BY SyncAssumption DEF Empty, Manifest, Version
<1> USE SyncAssumption DEF TypeOK, Version, State, deskVars, turnVars
<1>1. CASE Submit
  BY <1>1 DEF Manifest, Submit, Goto
<1>2. CASE StopRecorded
  BY <1>2 DEF Manifest, StopRecorded, Goto, Save
<1>3. CASE InitReplica
  <2>1. state' \in State
    <3>1. Baseline \in Manifest /\ replica \in 0..(MaxFaults + 1)
      BY <1>e DEF Baseline
    <3> QED
      BY <1>3, <3>1 DEF InitReplica, Save
  <2> QED
    BY <1>3, <2>1 DEF InitReplica, Goto, Save
<1>4. CASE ReadManifest
  BY <1>4 DEF Manifest, ReadManifest, Online
<1>5. CASE PullDone
  BY <1>e, <1>5 DEF PullDone, Goto, Return
<1>6. CASE Scan
  BY <1>6 DEF Manifest, Scan
<1>7. CASE Uploaded
  BY <1>7 DEF Manifest, Uploaded, Goto, Save
<1>8. CASE Refused
  BY <1>e, <1>8 DEF Refused, Return
<1>9. CASE OpenCodex
  BY <1>9 DEF Manifest, OpenCodex, Goto
<1>10. CASE Record
  BY <1>10 DEF Manifest, Record, Goto, Save
<1>11. CASE Prompt
  BY <1>11 DEF Manifest, Prompt, Goto
<1>12. CASE TurnEnds
  BY <1>12 DEF Manifest, TurnEnds, Goto
<1>13. CASE Halt
  BY <1>13 DEF Manifest, Halt
<1>14. CASE Finish
  BY <1>e, <1>14 DEF Finish, Return, Save
<1>15. CASE Interrupted
  <2>1. faults' \in 0..MaxFaults /\ replica' \in 1..(faults' + 1)
    BY <1>15 DEF Interrupted, Fault
  <2> QED
    BY <1>e, <1>15, <2>1 DEF Interrupted, Return
<1>16. CASE Recreated
  <2>1. faults' \in 0..MaxFaults /\ replica' \in 1..(faults' + 1)
    BY <1>16 DEF Recreated, Fault
  <2> QED
    BY <1>e, <1>16, <2>1 DEF Recreated
<1>17. ASSUME NEW n \in Names, PullSame(n) PROVE TypeOK'
  BY <1>17 DEF Manifest, PullSame, Advance
<1>18. ASSUME NEW n \in Names, PullConflict(n) PROVE TypeOK'
  BY <1>18 DEF Manifest, PullConflict, Advance, Fetched
<1>19. ASSUME NEW n \in Names, PullChanged(n) PROVE TypeOK'
  BY <1>19 DEF Manifest, PullChanged, Fetched
<1>20. ASSUME NEW n \in Names, Compare(n) PROVE TypeOK'
  BY <1>e, <1>20 DEF Compare, Goto, Return, Unedited
<1>21. ASSUME NEW n \in Names, Rename(n) PROVE TypeOK'
  BY <1>21 DEF Manifest, Rename, Advance
<1>22. ASSUME NEW n \in Names, Upload(n) PROVE TypeOK'
  BY <1>22 DEF Manifest, Upload, Replaces, Online
<1>23. ASSUME NEW n \in Names, Edit(n) PROVE TypeOK'
  BY <1>23 DEF Manifest, Edit, Write
<1>24. ASSUME NEW n \in Names, AgentWrites(n) PROVE TypeOK'
  BY <1>24 DEF Manifest, AgentWrites, Write
<1> QED
  BY <1>1, <1>2, <1>3, <1>4, <1>5, <1>6, <1>7, <1>8, <1>9, <1>10, <1>11, <1>12, <1>13, <1>14, <1>15, <1>16, <1>17, <1>18, <1>19, <1>20, <1>21, <1>22, <1>23, <1>24 DEF Next, Turn

\* The project on the desktop, before the first turn, is an empty one.
LEMMA TypeInit == Init => TypeOK
<1>1. Empty \in Manifest
  BY SyncAssumption DEF Empty, Manifest, Version
<1>2. [generation |-> 0, files |-> Empty, owned |-> FALSE] \in State
  BY <1>1, SyncAssumption DEF State
<1>3. 0 \in 0..MaxFaults /\ 0 \in 0..MaxWrites /\ 1 \in 1..(0 + 1)
  BY SyncAssumption
<1> QED
  BY <1>1, <1>2, <1>3 DEF Init, TypeOK

\* The variables keep their types.
THEOREM TypeCorrect == Spec => []TypeOK
  BY TypeInit, TypeStep, PTL DEF Spec

-------------------------------------------------------------------------------
LEMMA SyncInit == Init => SyncInv
  BY SyncAssumption DEF Init, Empty, SyncInv, BaselineInv, PullInv, UploadInv, AgentInv, AgentStartsOnProject

\* What a baseline, a manifest and an upload stand for, and who writes, hold
\* over every step; with edits at any time.
LEMMA SyncStep == TypeOK /\ SyncInv /\ Next => SyncInv'
<1> SUFFICES ASSUME TypeOK, SyncInv, Next PROVE SyncInv'
  OBVIOUS
<1> USE SyncAssumption DEF TypeOK, Manifest, Version, State, SyncInv, BaselineInv, PullInv, UploadInv, AgentInv, AgentStartsOnProject, Online, deskVars, turnVars, Empty
<1>1. CASE Submit
  BY <1>1 DEF Submit, Goto
<1>2. CASE StopRecorded
  BY <1>2 DEF StopRecorded, Goto, Save
<1>3. CASE InitReplica
  BY <1>3 DEF InitReplica, Goto, Save, Baseline
<1>4. CASE ReadManifest
  BY <1>4 DEF ReadManifest, Online
<1>5. CASE PullDone
  BY <1>5 DEF PullDone, Goto, Return
<1>6. CASE Scan
  BY <1>6 DEF Scan
<1>7. CASE Uploaded
  <2> state'.generation = state.generation /\ state'.owned = state.owned /\ state'.files = scan
    BY <1>7 DEF Uploaded, Goto, Save
  <2>1. BaselineInv'
    BY <1>7 DEF Uploaded, Goto, Save
  <2>2. PullInv'
    BY <1>7 DEF Uploaded, Goto, Save
  <2>3. UploadInv'
    BY <1>7 DEF Uploaded, Goto, Save
  <2>4. AgentInv'
    BY <1>7 DEF Uploaded, Goto, Save
  <2>5. AgentStartsOnProject'
    <3>1. Online => \A n \in Names : remote[n] = scan[n]
      BY <1>7 DEF Uploaded
    <3>2. Online => remote = scan
      BY <3>1
    <3> QED
      BY <1>7, <3>2 DEF Uploaded, Goto, Save
  <2> QED
    BY <2>1, <2>2, <2>3, <2>4, <2>5
<1>8. CASE Refused
  BY <1>8 DEF Refused, Return
<1>9. CASE OpenCodex
  BY <1>9 DEF OpenCodex, Goto
<1>10. CASE Record
  BY <1>10 DEF Record, Goto, Save
<1>11. CASE Prompt
  BY <1>11 DEF Prompt, Goto
<1>12. CASE TurnEnds
  BY <1>12 DEF TurnEnds, Goto
<1>13. CASE Halt
  BY <1>13 DEF Halt
<1>14. CASE Finish
  BY <1>14 DEF Finish, Return, Save
<1>15. CASE Interrupted
  BY <1>15 DEF Interrupted, Return, Fault
<1>16. CASE Recreated
  <2>1. BaselineInv'
    <3>1. \A s \in {disk, state} : s.generation <= replica'
      BY <1>16 DEF Recreated, Fault
    <3>2. \A n \in Names : remote'[n] = 0
      BY <1>16 DEF Recreated, Fault
    <3> QED
      BY <1>16, <3>1, <3>2 DEF Recreated, Fault
  <2>2. PullInv'
    BY <1>16 DEF Recreated, Fault
  <2>3. UploadInv'
    BY <1>16 DEF Recreated, Fault
  <2>4. AgentInv'
    BY <1>16 DEF Recreated, Fault
  <2>5. AgentStartsOnProject'
    BY <1>16 DEF Recreated, Fault
  <2> QED
    BY <2>1, <2>2, <2>3, <2>4, <2>5
<1>17. ASSUME NEW n \in Names, PullSame(n) PROVE SyncInv'
  <2>1. BaselineInv'
    <3>1. /\ state'.generation = state.generation
          /\ \A m \in Names : state'.files[m] = IF m = n THEN seen[n] ELSE state.files[m]
      BY <1>17 DEF PullSame, Advance
    <3>2. seen[n] # 0 => <<state.generation, n, seen[n]>> \in had /\ <<n, seen[n]>> \in copies'
      BY <1>17 DEF PullSame
    <3>3. \A m \in Names : local'[m] # 0 => <<m, local'[m]>> \in copies'
      BY <1>17, <3>2 DEF PullSame, Advance
    <3>4. UNCHANGED <<disk, remote, replica, had>> /\ copies \subseteq copies'
      BY <1>17 DEF PullSame, Advance
    <3>5. \A m \in Names : state'.files[m] # 0 => <<state.generation, m, state'.files[m]>> \in had /\ <<m, state'.files[m]>> \in copies'
      BY <3>1, <3>2, <3>4
    <3> HIDE DEF TypeOK, PullInv, UploadInv, AgentInv, AgentStartsOnProject
    <3> QED
      BY <3>1, <3>3, <3>4, <3>5
  <2>2. PullInv'
    BY <1>17 DEF PullSame, Advance
  <2>3. UploadInv'
    BY <1>17 DEF PullSame, Advance
  <2>4. AgentInv'
    BY <1>17 DEF PullSame, Advance
  <2>5. AgentStartsOnProject'
    BY <1>17 DEF PullSame, Advance
  <2> QED
    BY <2>1, <2>2, <2>3, <2>4, <2>5
<1>18. ASSUME NEW n \in Names, PullConflict(n) PROVE SyncInv'
  BY <1>18 DEF PullConflict, Advance, Fetched
<1>19. ASSUME NEW n \in Names, PullChanged(n) PROVE SyncInv'
  BY <1>19 DEF PullChanged, Fetched
<1>20. ASSUME NEW n \in Names, Compare(n) PROVE SyncInv'
  BY <1>20 DEF Compare, Goto, Return, Unedited
<1>21. ASSUME NEW n \in Names, Rename(n) PROVE SyncInv'
  <2>1. BaselineInv'
    <3>1. /\ state'.generation = state.generation
          /\ \A m \in Names : state'.files[m] = IF m = n THEN seen[n] ELSE state.files[m]
      BY <1>21 DEF Rename, Advance
    <3>2. seen[n] # 0 => <<state.generation, n, seen[n]>> \in had /\ <<n, seen[n]>> \in copies'
      BY <1>21 DEF Rename
    <3>3. \A m \in Names : local'[m] # 0 => <<m, local'[m]>> \in copies'
      BY <1>21, <3>2 DEF Rename, Advance
    <3>4. UNCHANGED <<disk, remote, replica, had>> /\ copies \subseteq copies'
      BY <1>21 DEF Rename, Advance
    <3>5. \A m \in Names : state'.files[m] # 0 => <<state.generation, m, state'.files[m]>> \in had /\ <<m, state'.files[m]>> \in copies'
      BY <3>1, <3>2, <3>4
    <3> HIDE DEF TypeOK, PullInv, UploadInv, AgentInv, AgentStartsOnProject
    <3> QED
      BY <3>1, <3>3, <3>4, <3>5
  <2>2. PullInv'
    BY <1>21 DEF Rename, Advance
  <2>3. UploadInv'
    BY <1>21 DEF Rename, Advance
  <2>4. AgentInv'
    BY <1>21 DEF Rename, Advance
  <2>5. AgentStartsOnProject'
    BY <1>21 DEF Rename, Advance
  <2> QED
    BY <2>1, <2>2, <2>3, <2>4, <2>5
<1>22. ASSUME NEW n \in Names, Upload(n) PROVE SyncInv'
  BY <1>22 DEF Upload, Replaces, Online
<1>23. ASSUME NEW n \in Names, Edit(n) PROVE SyncInv'
  BY <1>23 DEF Edit, Write
<1>24. ASSUME NEW n \in Names, AgentWrites(n) PROVE SyncInv'
  BY <1>24 DEF AgentWrites, Write
<1> QED
  BY <1>1, <1>2, <1>3, <1>4, <1>5, <1>6, <1>7, <1>8, <1>9, <1>10, <1>11, <1>12, <1>13, <1>14, <1>15, <1>16, <1>17, <1>18, <1>19, <1>20, <1>21, <1>22, <1>23, <1>24 DEF Next, Turn

LEMMA SyncStutter == SyncInv /\ UNCHANGED vars => SyncInv'
  BY DEF vars, deskVars, turnVars, SyncInv, BaselineInv, PullInv, UploadInv, AgentInv, AgentStartsOnProject, Online

\* The inductive invariant.
THEOREM SyncCorrect == Spec => []SyncInv
<1>1. TypeOK /\ SyncInv /\ [Next]_vars => SyncInv'
  BY SyncStep, SyncStutter
<1> QED
  BY <1>1, SyncInit, TypeCorrect, PTL DEF Spec

\* The agent is given the project as it was scanned, and no process of an
\* earlier turn writes meanwhile.
THEOREM StartCorrect == Spec => []AgentStartsOnProject
<1>1. SyncInv => AgentStartsOnProject
  BY DEF SyncInv
<1> QED
  BY <1>1, SyncCorrect, PTL

-------------------------------------------------------------------------------
\* Nothing but the upload changes the replica without a write of the agent.
LEMMA RemoteStep ==
  ASSUME TypeOK, SyncInv, Next, writes' = writes, replica' = replica, NEW n \in Names, remote'[n] # remote[n]
  PROVE  \E m \in Names : Upload(m)
  BY DEF TypeOK, Next, Turn, Submit, StopRecorded, InitReplica, ReadManifest, PullDone, Scan, Uploaded, Refused,
         OpenCodex, Record, Prompt, TurnEnds, Halt, Finish, PullSame, PullConflict, PullChanged, Compare, Rename,
         Interrupted, Recreated, Edit, AgentWrites, Write

\* What the upload replaces is what the manifest showed and the baseline has.
THEOREM RemoteCorrect == Spec => RemoteWorkIsKept
<1>1. TypeOK /\ SyncInv /\ [Next]_vars =>
        [\A n \in Names : remote'[n] # remote[n] /\ writes' = writes /\ replica' = replica /\ remote[n] # 0
           => <<n, remote[n]>> \in copies]_vars
  <2> SUFFICES ASSUME TypeOK, SyncInv, Next, writes' = writes, replica' = replica,
                      NEW n \in Names, remote'[n] # remote[n], remote[n] # 0
               PROVE  <<n, remote[n]>> \in copies
    OBVIOUS
  <2>1. PICK m \in Names : Upload(m)
    BY RemoteStep
  <2>2. m = n /\ remote[n] = seen[n]
    BY <2>1 DEF Upload, Replaces, TypeOK, Manifest
  <2>3. seen[n] = state.files[n]
    BY <2>1 DEF Upload, SyncInv, PullInv
  <2> QED
    BY <2>2, <2>3 DEF SyncInv, BaselineInv
<1> QED
  BY <1>1, TypeCorrect, SyncCorrect, PTL DEF Spec, RemoteWorkIsKept

-------------------------------------------------------------------------------
\* If no edit comes between the last comparison and the rename, the file that is
\* replaced is still the one of the baseline.
LEMMA RenameStep == ~RenameRaces /\ TypeOK /\ RenameInv /\ [Next]_vars => RenameInv'
<1> SUFFICES ASSUME ~RenameRaces, TypeOK, RenameInv, Next PROVE RenameInv'
  BY DEF RenameInv, Unedited, vars, deskVars, turnVars
<1>1. CASE phase' \notin {"compare", "rename"}
  BY <1>1 DEF RenameInv
<1>2. ASSUME NEW n \in Names, PullChanged(n) PROVE RenameInv'
  BY <1>2 DEF PullChanged, RenameInv
<1>3. ASSUME NEW n \in Names, Compare(n) PROVE RenameInv'
  BY <1>3 DEF Compare, Goto, Return, Unedited, RenameInv, deskVars
<1>4. CASE /\ phase' = phase /\ item' = item /\ state' = state
           /\ phase = "compare" \/ local' = local
  BY <1>4 DEF RenameInv, Unedited
<1>5. ASSUME NEW n \in Names, Edit(n) PROVE RenameInv'
  <2>1. phase # "rename"
    BY <1>5 DEF Edit
  <2> QED
    BY <1>1, <1>4, <1>5, <2>1 DEF Edit, turnVars, deskVars
<1> QED
  BY <1>1, <1>2, <1>3, <1>4, <1>5
  DEF Next, Turn, Submit, StopRecorded, InitReplica, ReadManifest, PullDone, Scan, Uploaded, Refused,
      OpenCodex, Record, Prompt, TurnEnds, Halt, Finish, PullSame, PullConflict, Rename, Upload,
      Interrupted, Recreated, AgentWrites, Goto, Return, turnVars, deskVars

THEOREM RenameCorrect ==
  ASSUME ~RenameRaces
  PROVE  Spec => []RenameInv
<1>1. Init => RenameInv
  BY DEF Init, RenameInv
<1> QED
  BY <1>1, RenameStep, TypeCorrect, PTL DEF Spec

\* Nothing but the rename changes the project without a write of the user.
LEMMA LocalStep ==
  ASSUME TypeOK, Next, writes' = writes, NEW n \in Names, local'[n] # local[n]
  PROVE  \E m \in Names : Rename(m)
  BY DEF TypeOK, Next, Turn, Submit, StopRecorded, InitReplica, ReadManifest, PullDone, Scan, Uploaded, Refused,
         OpenCodex, Record, Prompt, TurnEnds, Halt, Finish, PullSame, PullConflict, PullChanged, Compare, Upload,
         Interrupted, Recreated, Edit, AgentWrites, Write

\* What the pull replaces on the desktop, the replica has held: the agent has
\* changed that very version.  The hypothesis is the one that PullRace.cfg drops.
THEOREM LocalCorrect ==
  ASSUME ~RenameRaces
  PROVE  Spec => LocalWorkIsKept
<1>1. TypeOK /\ SyncInv /\ RenameInv /\ [Next]_vars =>
        [\A n \in Names : local'[n] # local[n] /\ writes' = writes /\ local[n] # 0
           => <<state.generation, n, local[n]>> \in had]_vars
  <2> SUFFICES ASSUME TypeOK, SyncInv, RenameInv, Next, writes' = writes,
                      NEW n \in Names, local'[n] # local[n], local[n] # 0
               PROVE  <<state.generation, n, local[n]>> \in had
    OBVIOUS
  <2>1. PICK m \in Names : Rename(m)
    BY LocalStep
  <2>2. m = n /\ local[n] = state.files[n]
    BY <2>1 DEF Rename, RenameInv, Unedited, TypeOK, Manifest
  <2> QED
    BY <2>2 DEF SyncInv, BaselineInv
<1> QED
  BY <1>1, TypeCorrect, SyncCorrect, RenameCorrect, PTL DEF Spec, LocalWorkIsKept
===============================================================================
