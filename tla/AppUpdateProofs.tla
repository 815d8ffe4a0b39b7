--------------------------- MODULE AppUpdateProofs ----------------------------
(***************************************************************************)
(* An update loses no working desktop and does not go back, wherever the   *)
(* helper stops and whatever fails, for any number of versions and         *)
(* failures, with one desktop at a time.                                   *)
(*                                                                         *)
(* One slot is busy, so only its desktop and its helper touch the          *)
(* installation. The desktop that asks for the update has shown its window *)
(* and is what is installed; from there the helper holds that version, in  *)
(* place or aside, until the new one has shown a window or the old one is  *)
(* back.                                                                   *)
(***************************************************************************)
EXTENDS AppUpdate, TLAPS

LEMMA PlaceIsSlot == \A h \in Slots : Place(h) \in Slots
  BY UpdateAssumption DEF Place

LEMMA FailuresCounted ==
  ASSUME TypeOK, Fail \/ Halt \/ Fine
  PROVE  failures' \in 0..MaxFailures /\ halted' \in BOOLEAN
<1>1. CASE Fail \/ Halt
  <2>1. failures < MaxFailures /\ failures' = failures + 1
    BY <1>1 DEF Fail, Halt
  <2>2. failures' \in 0..MaxFailures
    BY <2>1, UpdateAssumption DEF TypeOK
  <2>3. halted' \in BOOLEAN
    BY <1>1 DEF Fail, Halt, TypeOK
  <2> QED
    BY <2>2, <2>3
<1>2. CASE Fine
  BY <1>2 DEF Fine, TypeOK
<1> QED
  BY <1>1, <1>2

LEMMA AppStarts ==
  ASSUME TypeOK, NEW s \in Slots, NEW v \in 0..MaxVersion, NEW signals \in BOOLEAN, Start(s, v, signals)
  PROVE  apps' \in [Slots -> App] /\ apps'[s].at = "starting" /\ apps'[s].version = v
<1>1. Off \in App
  BY UpdateAssumption DEF Off, App
<1>2. \A a \in App : LET b == [a EXCEPT !.at = "starting", !.version = v, !.signals = signals]
                     IN  b \in App /\ b.at = "starting" /\ b.version = v
  BY DEF App
<1> QED
  BY <1>1, <1>2 DEF Start, TypeOK

LEMMA HelperMoves ==
  ASSUME TypeOK, NEW h \in Slots
  PROVE  /\ End(h) => helpers' \in [Slots -> Helper]
         /\ \A at \in {"staging", "staged", "out", "in", "undo"} : Go(h, at) => helpers' \in [Slots -> Helper]
         /\ [helpers[h] EXCEPT !.at = "launched", !.marked = FALSE] \in Helper
<1>1. helpers[h] \in Helper
  BY DEF TypeOK
<1>2. Idle \in Helper
  BY UpdateAssumption DEF Idle, Helper
<1>3. \A at \in {"staging", "staged", "out", "in", "undo"} : [helpers[h] EXCEPT !.at = at] \in Helper
  BY <1>1 DEF Helper
<1>4. [helpers[h] EXCEPT !.at = "launched", !.marked = FALSE] \in Helper
  BY <1>1 DEF Helper
<1> QED
  BY <1>2, <1>3, <1>4 DEF End, Go, TypeOK

LEMMA HelperMade ==
  ASSUME NEW v \in 0..MaxVersion
  PROVE  /\ [Idle EXCEPT !.at = "waiting", !.payload = v] \in Helper
         /\ [Idle EXCEPT !.at = "waiting", !.payload = v].at = "waiting"
         /\ [Idle EXCEPT !.at = "waiting", !.payload = v].payload = v
<1>1. Idle \in Helper
  BY UpdateAssumption DEF Idle, Helper
<1>2. \A a \in Helper : LET b == [a EXCEPT !.at = "waiting", !.payload = v]
                        IN  b \in Helper /\ b.at = "waiting" /\ b.payload = v
  BY DEF Helper
<1> QED
  BY <1>1, <1>2

\* Where a helper goes, its payload comes with it.
LEMMA HelperGoes ==
  ASSUME TypeOK, NEW h \in Slots, NEW at, Go(h, at)
  PROVE  helpers'[h].at = at /\ helpers'[h].payload = helpers[h].payload
<1>1. helpers[h] \in Helper
  BY DEF TypeOK
<1> QED
  BY <1>1 DEF Go, TypeOK, Helper

LEMMA AsideMoves ==
  ASSUME TypeOK, NEW h \in Slots, Discard(h) \/ Leave(h)
  PROVE  backup' \in [Slots -> 0..MaxVersion] /\ kept' \subseteq 0..MaxVersion
<1>1. CASE Discard(h)
  <2>1. 0 \in 0..MaxVersion
    BY UpdateAssumption
  <2> QED
    BY <1>1, <2>1 DEF Discard, TypeOK
<1>2. CASE Leave(h)
  <2>1. 0 \in 0..MaxVersion /\ backup[h] \in 0..MaxVersion
    BY UpdateAssumption DEF TypeOK
  <2> QED
    BY <1>2, <2>1 DEF Leave, TypeOK
<1> QED
  BY <1>1, <1>2

\* Every step keeps the types.
LEMMA TypeStep == TypeOK /\ Next => TypeOK'
<1> SUFFICES ASSUME TypeOK, Next PROVE TypeOK'
  OBVIOUS
<1> USE UpdateAssumption, PlaceIsSlot DEF TypeOK, Versions, install
<1>1. ASSUME NEW s \in Slots, OpenApp(s) PROVE TypeOK'
  <2>1. apps' \in [Slots -> App]
    BY <1>1, AppStarts DEF OpenApp
  <2>2. helpers' \in [Slots -> Helper]
    BY <1>1 DEF OpenApp, Start, Off, Helper
  <2>3. target' \in 0..MaxVersion /\ backup' \in [Slots -> 0..MaxVersion] /\ kept' \subseteq 0..MaxVersion
    BY <1>1 DEF OpenApp, Start, Off, Helper
  <2>4. failures' \in 0..MaxFailures /\ halted' \in BOOLEAN
    BY <1>1, FailuresCounted DEF OpenApp
  <2>5. /\ cache' \in [ready : 0..MaxVersion, previous : 0..MaxVersion]
        /\ proven' \subseteq Versions /\ UNCHANGED <<mode, works, feed>>
    BY <1>1 DEF OpenApp, Start, Off, App
  <2> QED
    BY <2>1, <2>2, <2>3, <2>4, <2>5
<1>2. ASSUME NEW s \in Slots, ShowWindow(s) PROVE TypeOK'
  <2>1. apps' \in [Slots -> App]
    <3>1. apps[s] \in App
      OBVIOUS
    <3>2. \A v \in 0..MaxVersion : [apps[s] EXCEPT !.at = "open", !.cached = v, !.release = v] \in App
      BY <3>1 DEF App
    <3>3. Restored(apps[s].version) \in 0..MaxVersion
      BY DEF Restored
    <3> QED
      BY <1>2, <3>2, <3>3 DEF ShowWindow
  <2>2. helpers' \in [Slots -> Helper]
    BY <1>2 DEF ShowWindow, Restored, Newer, Helper, App
  <2>3. target' \in 0..MaxVersion /\ backup' \in [Slots -> 0..MaxVersion] /\ kept' \subseteq 0..MaxVersion
    BY <1>2 DEF ShowWindow, Restored, Newer, Helper
  <2>4. failures' \in 0..MaxFailures /\ halted' \in BOOLEAN
    BY <1>2, FailuresCounted DEF ShowWindow
  <2>5. /\ cache' \in [ready : 0..MaxVersion, previous : 0..MaxVersion]
        /\ proven' \subseteq Versions /\ UNCHANGED <<mode, works, feed>>
    BY <1>2 DEF ShowWindow, Restored, Newer, App
  <2> QED
    BY <2>1, <2>2, <2>3, <2>4, <2>5
<1>3. ASSUME NEW s \in Slots, Check(s) PROVE TypeOK'
  <2>1. apps' \in [Slots -> App]
    <3>1. apps[s] \in App
      OBVIOUS
    <3>2. \A v, c \in 0..MaxVersion : [apps[s] EXCEPT !.release = v, !.known = v, !.cached = c] \in App
      BY <3>1 DEF App
    <3> DEFINE release == IF Newer(feed, apps[s].version) THEN feed ELSE 0
               cached == IF release # 0 /\ apps[s].cached \notin {0, release} THEN 0 ELSE apps[s].cached
    <3>3. apps' = [apps EXCEPT ![s] = [apps[s] EXCEPT !.release = release, !.known = release, !.cached = cached]]
      BY <1>3 DEF Check
    <3>4. release \in 0..MaxVersion /\ cached \in 0..MaxVersion
      BY <3>1 DEF App
    <3> HIDE DEF release, cached
    <3> QED
      BY <3>2, <3>3, <3>4
  <2>2. helpers' \in [Slots -> Helper]
    BY <1>3 DEF Check, Free, Newer, Helper
  <2>3. target' \in 0..MaxVersion /\ backup' \in [Slots -> 0..MaxVersion] /\ kept' \subseteq 0..MaxVersion
    BY <1>3 DEF Check, Free, Newer, Helper
  <2>4. failures' \in 0..MaxFailures /\ halted' \in BOOLEAN
    <3>1. Halt \/ Fine
      BY <1>3 DEF Check, Empties
    <3> QED
      BY <3>1, FailuresCounted
  <2>5. /\ cache' \in [ready : 0..MaxVersion, previous : 0..MaxVersion]
        /\ proven' \subseteq Versions /\ UNCHANGED <<mode, works, feed>>
    BY <1>3 DEF Check, Free, Newer, App
  <2> QED
    BY <2>1, <2>2, <2>3, <2>4, <2>5
<1>4. ASSUME NEW s \in Slots, CheckFails(s) PROVE TypeOK'
  <2>1. apps' \in [Slots -> App]
    BY <1>4 DEF CheckFails, Free, App
  <2>2. helpers' \in [Slots -> Helper]
    BY <1>4 DEF CheckFails, Free, Helper
  <2>3. target' \in 0..MaxVersion /\ backup' \in [Slots -> 0..MaxVersion] /\ kept' \subseteq 0..MaxVersion
    BY <1>4 DEF CheckFails, Free, Helper
  <2>4. failures' \in 0..MaxFailures /\ halted' \in BOOLEAN
    BY <1>4, FailuresCounted DEF CheckFails
  <2>5. /\ cache' \in [ready : 0..MaxVersion, previous : 0..MaxVersion]
        /\ proven' \subseteq Versions /\ UNCHANGED <<mode, works, feed>>
    BY <1>4 DEF CheckFails, Free, App
  <2> QED
    BY <2>1, <2>2, <2>3, <2>4, <2>5
<1>5. ASSUME NEW s \in Slots, Rotate(s) PROVE TypeOK'
  <2>1. apps' \in [Slots -> App]
    <3>1. apps[s] \in App
      OBVIOUS
    <3>2. [apps[s] EXCEPT !.writing = TRUE] \in App
      BY <3>1 DEF App
    <3> QED
      BY <1>5, <3>2 DEF Rotate
  <2>2. helpers' \in [Slots -> Helper]
    BY <1>5 DEF Rotate, Free, Helper
  <2>3. target' \in 0..MaxVersion /\ backup' \in [Slots -> 0..MaxVersion] /\ kept' \subseteq 0..MaxVersion
    BY <1>5 DEF Rotate, Free, Helper
  <2>4. failures' \in 0..MaxFailures /\ halted' \in BOOLEAN
    <3>1. Halt \/ Fine
      BY <1>5 DEF Rotate, Empties
    <3> QED
      BY <3>1, FailuresCounted
  <2>5. /\ cache' \in [ready : 0..MaxVersion, previous : 0..MaxVersion]
        /\ proven' \subseteq Versions /\ UNCHANGED <<mode, works, feed>>
    BY <1>5 DEF Rotate, Free, App
  <2> QED
    BY <2>1, <2>2, <2>3, <2>4, <2>5
<1>6. ASSUME NEW s \in Slots, Activate(s) PROVE TypeOK'
  <2>1. apps' \in [Slots -> App]
    <3>1. apps[s] \in App
      OBVIOUS
    <3>2. /\ [apps[s] EXCEPT !.writing = FALSE, !.cached = apps[s].known] \in App
          /\ [apps[s] EXCEPT !.writing = FALSE] \in App
      BY <3>1 DEF App
    <3> QED
      BY <1>6, <3>2 DEF Activate
  <2>2. helpers' \in [Slots -> Helper]
    BY <1>6 DEF Activate, Helper
  <2>3. target' \in 0..MaxVersion /\ backup' \in [Slots -> 0..MaxVersion] /\ kept' \subseteq 0..MaxVersion
    BY <1>6 DEF Activate, Helper
  <2>4. failures' \in 0..MaxFailures /\ halted' \in BOOLEAN
    BY <1>6, FailuresCounted DEF Activate
  <2>5. /\ cache' \in [ready : 0..MaxVersion, previous : 0..MaxVersion]
        /\ proven' \subseteq Versions /\ UNCHANGED <<mode, works, feed>>
    BY <1>6 DEF Activate, App
  <2> QED
    BY <2>1, <2>2, <2>3, <2>4, <2>5
<1>7. ASSUME NEW s \in Slots, Apply(s) PROVE TypeOK'
  <2>1. apps' \in [Slots -> App]
    BY <1>7 DEF Apply, Free, Restored, Newer, Idle, App
  <2>2. helpers' \in [Slots -> Helper]
    <3>1. Restored(apps[s].version) \in 0..MaxVersion
      BY DEF Restored
    <3>2. [Idle EXCEPT !.at = "waiting", !.payload = Restored(apps[s].version)] \in Helper
      BY <3>1, HelperMade
    <3> QED
      BY <1>7, <3>2 DEF Apply
  <2>3. target' \in 0..MaxVersion /\ backup' \in [Slots -> 0..MaxVersion] /\ kept' \subseteq 0..MaxVersion
    BY <1>7 DEF Apply, Free, Restored, Newer, Idle, Helper
  <2>4. failures' \in 0..MaxFailures /\ halted' \in BOOLEAN
    BY <1>7, FailuresCounted DEF Apply
  <2>5. /\ cache' \in [ready : 0..MaxVersion, previous : 0..MaxVersion]
        /\ proven' \subseteq Versions /\ UNCHANGED <<mode, works, feed>>
    BY <1>7 DEF Apply, Free, Restored, Newer, Idle, App
  <2> QED
    BY <2>1, <2>2, <2>3, <2>4, <2>5
<1>8. ASSUME NEW s \in Slots, Exit(s) PROVE TypeOK'
  <2>1. apps' \in [Slots -> App]
    BY <1>8 DEF Exit, Off, App
  <2>2. helpers' \in [Slots -> Helper]
    BY <1>8 DEF Exit, Off, Helper
  <2>3. target' \in 0..MaxVersion /\ backup' \in [Slots -> 0..MaxVersion] /\ kept' \subseteq 0..MaxVersion
    BY <1>8 DEF Exit, Off, Helper
  <2>4. failures' \in 0..MaxFailures /\ halted' \in BOOLEAN
    BY <1>8, FailuresCounted DEF Exit
  <2>5. /\ cache' \in [ready : 0..MaxVersion, previous : 0..MaxVersion]
        /\ proven' \subseteq Versions /\ UNCHANGED <<mode, works, feed>>
    BY <1>8 DEF Exit, Off, App
  <2> QED
    BY <2>1, <2>2, <2>3, <2>4, <2>5
<1>9. ASSUME NEW s \in Slots, StartFails(s) PROVE TypeOK'
  <2>1. apps' \in [Slots -> App]
    BY <1>9 DEF StartFails, Off, App
  <2>2. helpers' \in [Slots -> Helper]
    BY <1>9 DEF StartFails, Off, Helper
  <2>3. target' \in 0..MaxVersion /\ backup' \in [Slots -> 0..MaxVersion] /\ kept' \subseteq 0..MaxVersion
    BY <1>9 DEF StartFails, Off, Helper
  <2>4. failures' \in 0..MaxFailures /\ halted' \in BOOLEAN
    BY <1>9, FailuresCounted DEF StartFails
  <2>5. /\ cache' \in [ready : 0..MaxVersion, previous : 0..MaxVersion]
        /\ proven' \subseteq Versions /\ UNCHANGED <<mode, works, feed>>
    BY <1>9 DEF StartFails, Off, App
  <2> QED
    BY <2>1, <2>2, <2>3, <2>4, <2>5
<1>10. ASSUME NEW s \in Slots, ParentGone(s) PROVE TypeOK'
  <2>1. apps' \in [Slots -> App]
    BY <1>10 DEF ParentGone, At, Go, App
  <2>2. helpers' \in [Slots -> Helper]
    BY <1>10 DEF ParentGone, At, Go, Helper
  <2>3. target' \in 0..MaxVersion /\ backup' \in [Slots -> 0..MaxVersion] /\ kept' \subseteq 0..MaxVersion
    BY <1>10 DEF ParentGone, At, Go, Helper
  <2>4. failures' \in 0..MaxFailures /\ halted' \in BOOLEAN
    BY <1>10, FailuresCounted DEF ParentGone
  <2>5. /\ cache' \in [ready : 0..MaxVersion, previous : 0..MaxVersion]
        /\ proven' \subseteq Versions /\ UNCHANGED <<mode, works, feed>>
    BY <1>10 DEF ParentGone, At, Go, App
  <2> QED
    BY <2>1, <2>2, <2>3, <2>4, <2>5
<1>11. ASSUME NEW s \in Slots, Stage(s) PROVE TypeOK'
  <2>1. apps' \in [Slots -> App]
    BY <1>11 DEF Stage, At, Go, End, Idle, Place, App
  <2>2. helpers' \in [Slots -> Helper]
    BY <1>11, HelperMoves DEF Stage
  <2>3. target' \in 0..MaxVersion /\ backup' \in [Slots -> 0..MaxVersion] /\ kept' \subseteq 0..MaxVersion
    BY <1>11 DEF Stage, At, Go, End, Idle, Place, Helper
  <2>4. failures' \in 0..MaxFailures /\ halted' \in BOOLEAN
    BY <1>11, FailuresCounted DEF Stage
  <2>5. /\ cache' \in [ready : 0..MaxVersion, previous : 0..MaxVersion]
        /\ proven' \subseteq Versions /\ UNCHANGED <<mode, works, feed>>
    BY <1>11 DEF Stage, At, Go, End, Idle, Place, App
  <2> QED
    BY <2>1, <2>2, <2>3, <2>4, <2>5
<1>12. ASSUME NEW s \in Slots, SwapOut(s) PROVE TypeOK'
  <2>1. apps' \in [Slots -> App]
    BY <1>12 DEF SwapOut, At, Go, End, Idle, Place, App
  <2>2. helpers' \in [Slots -> Helper]
    BY <1>12, HelperMoves DEF SwapOut
  <2>3. target' \in 0..MaxVersion /\ backup' \in [Slots -> 0..MaxVersion] /\ kept' \subseteq 0..MaxVersion
    BY <1>12 DEF SwapOut
  <2>4. failures' \in 0..MaxFailures /\ halted' \in BOOLEAN
    BY <1>12, FailuresCounted DEF SwapOut
  <2>5. /\ cache' \in [ready : 0..MaxVersion, previous : 0..MaxVersion]
        /\ proven' \subseteq Versions /\ UNCHANGED <<mode, works, feed>>
    BY <1>12 DEF SwapOut, At, Go, End, Idle, Place, App
  <2> QED
    BY <2>1, <2>2, <2>3, <2>4, <2>5
<1>13. ASSUME NEW s \in Slots, SwapIn(s) PROVE TypeOK'
  <2>1. apps' \in [Slots -> App]
    BY <1>13 DEF SwapIn, At, Go, App
  <2>2. helpers' \in [Slots -> Helper]
    BY <1>13 DEF SwapIn, At, Go, Helper
  <2>3. target' \in 0..MaxVersion /\ backup' \in [Slots -> 0..MaxVersion] /\ kept' \subseteq 0..MaxVersion
    BY <1>13 DEF SwapIn, At, Go, Helper
  <2>4. failures' \in 0..MaxFailures /\ halted' \in BOOLEAN
    BY <1>13, FailuresCounted DEF SwapIn
  <2>5. /\ cache' \in [ready : 0..MaxVersion, previous : 0..MaxVersion]
        /\ proven' \subseteq Versions /\ UNCHANGED <<mode, works, feed>>
    BY <1>13 DEF SwapIn, At, Go, App
  <2> QED
    BY <2>1, <2>2, <2>3, <2>4, <2>5
<1>14. ASSUME NEW s \in Slots, Install(s) PROVE TypeOK'
  <2>1. apps' \in [Slots -> App]
    BY <1>14 DEF Install, At, Go, App
  <2>2. helpers' \in [Slots -> Helper]
    BY <1>14 DEF Install, At, Go, Helper
  <2>3. target' \in 0..MaxVersion /\ backup' \in [Slots -> 0..MaxVersion] /\ kept' \subseteq 0..MaxVersion
    BY <1>14 DEF Install, At, Go, Helper
  <2>4. failures' \in 0..MaxFailures /\ halted' \in BOOLEAN
    BY <1>14, FailuresCounted DEF Install
  <2>5. /\ cache' \in [ready : 0..MaxVersion, previous : 0..MaxVersion]
        /\ proven' \subseteq Versions /\ UNCHANGED <<mode, works, feed>>
    BY <1>14 DEF Install, At, Go, App
  <2> QED
    BY <2>1, <2>2, <2>3, <2>4, <2>5
<1>15. ASSUME NEW s \in Slots, Launch(s) PROVE TypeOK'
  <2>1. apps' \in [Slots -> App]
    BY <1>15, AppStarts DEF Launch
  <2>2. helpers' \in [Slots -> Helper]
    BY <1>15, HelperMoves DEF Launch
  <2>3. target' \in 0..MaxVersion /\ backup' \in [Slots -> 0..MaxVersion] /\ kept' \subseteq 0..MaxVersion
    BY <1>15 DEF Launch, At, Start, Off, Go, Helper
  <2>4. failures' \in 0..MaxFailures /\ halted' \in BOOLEAN
    BY <1>15, FailuresCounted DEF Launch
  <2>5. /\ cache' \in [ready : 0..MaxVersion, previous : 0..MaxVersion]
        /\ proven' \subseteq Versions /\ UNCHANGED <<mode, works, feed>>
    BY <1>15 DEF Launch, At, Start, Off, Go, App
  <2> QED
    BY <2>1, <2>2, <2>3, <2>4, <2>5
<1>16. ASSUME NEW s \in Slots, Commit(s) PROVE TypeOK'
  <2>1. apps' \in [Slots -> App]
    BY <1>16 DEF Commit, At, End, Idle, Discard, Place, App
  <2>2. helpers' \in [Slots -> Helper]
    BY <1>16 DEF Commit, At, End, Idle, Discard, Place, Helper
  <2>3. target' \in 0..MaxVersion /\ backup' \in [Slots -> 0..MaxVersion] /\ kept' \subseteq 0..MaxVersion
    BY <1>16 DEF Commit, At, End, Idle, Discard, Place, Helper
  <2>4. failures' \in 0..MaxFailures /\ halted' \in BOOLEAN
    BY <1>16, FailuresCounted DEF Commit
  <2>5. /\ cache' \in [ready : 0..MaxVersion, previous : 0..MaxVersion]
        /\ proven' \subseteq Versions /\ UNCHANGED <<mode, works, feed>>
    BY <1>16 DEF Commit, At, End, Idle, Discard, Place, App
  <2> QED
    BY <2>1, <2>2, <2>3, <2>4, <2>5
<1>17. ASSUME NEW s \in Slots, Expire(s) PROVE TypeOK'
  <2>1. apps' \in [Slots -> App]
    BY <1>17 DEF Expire, At, Go, Off, App
  <2>2. helpers' \in [Slots -> Helper]
    BY <1>17 DEF Expire, At, Go, Off, Helper
  <2>3. target' \in 0..MaxVersion /\ backup' \in [Slots -> 0..MaxVersion] /\ kept' \subseteq 0..MaxVersion
    BY <1>17 DEF Expire, At, Go, Off, Helper
  <2>4. failures' \in 0..MaxFailures /\ halted' \in BOOLEAN
    BY <1>17, FailuresCounted DEF Expire
  <2>5. /\ cache' \in [ready : 0..MaxVersion, previous : 0..MaxVersion]
        /\ proven' \subseteq Versions /\ UNCHANGED <<mode, works, feed>>
    BY <1>17 DEF Expire, At, Go, Off, App
  <2> QED
    BY <2>1, <2>2, <2>3, <2>4, <2>5
<1>18. ASSUME NEW s \in Slots, RollBack(s) PROVE TypeOK'
  <2>1. apps' \in [Slots -> App]
    <3>1. target' \in 0..MaxVersion
      BY <1>18 DEF RollBack
    <3> QED
      BY <1>18, <3>1, AppStarts DEF RollBack
  <2>2. helpers' \in [Slots -> Helper]
    BY <1>18 DEF RollBack, At, End, Idle, Discard, Place, Start, Off, Helper
  <2>3. target' \in 0..MaxVersion /\ backup' \in [Slots -> 0..MaxVersion] /\ kept' \subseteq 0..MaxVersion
    BY <1>18 DEF RollBack, At, End, Idle, Discard, Place, Start, Off, Helper
  <2>4. failures' \in 0..MaxFailures /\ halted' \in BOOLEAN
    BY <1>18, FailuresCounted DEF RollBack
  <2>5. /\ cache' \in [ready : 0..MaxVersion, previous : 0..MaxVersion]
        /\ proven' \subseteq Versions /\ UNCHANGED <<mode, works, feed>>
    BY <1>18 DEF RollBack, At, End, Idle, Discard, Place, Start, Off, App
  <2> QED
    BY <2>1, <2>2, <2>3, <2>4, <2>5
<1>19. ASSUME NEW s \in Slots, WaitExpires(s) PROVE TypeOK'
  <2>1. apps' \in [Slots -> App]
    BY <1>19 DEF WaitExpires, At, End, Idle, App
  <2>2. helpers' \in [Slots -> Helper]
    BY <1>19 DEF WaitExpires, At, End, Idle, Helper
  <2>3. target' \in 0..MaxVersion /\ backup' \in [Slots -> 0..MaxVersion] /\ kept' \subseteq 0..MaxVersion
    BY <1>19 DEF WaitExpires, At, End, Idle, Helper
  <2>4. failures' \in 0..MaxFailures /\ halted' \in BOOLEAN
    BY <1>19, FailuresCounted DEF WaitExpires
  <2>5. /\ cache' \in [ready : 0..MaxVersion, previous : 0..MaxVersion]
        /\ proven' \subseteq Versions /\ UNCHANGED <<mode, works, feed>>
    BY <1>19 DEF WaitExpires, At, End, Idle, App
  <2> QED
    BY <2>1, <2>2, <2>3, <2>4, <2>5
<1>20. ASSUME NEW s \in Slots, SwapInFails(s) PROVE TypeOK'
  <2>1. apps' \in [Slots -> App]
    BY <1>20 DEF SwapInFails, At, End, Idle, Discard, Leave, Place, App
  <2>2. helpers' \in [Slots -> Helper]
    BY <1>20 DEF SwapInFails, At, End, Idle, Discard, Leave, Place, Helper
  <2>3. target' \in 0..MaxVersion /\ backup' \in [Slots -> 0..MaxVersion] /\ kept' \subseteq 0..MaxVersion
    BY <1>20, AsideMoves DEF SwapInFails
  <2>4. failures' \in 0..MaxFailures /\ halted' \in BOOLEAN
    BY <1>20, FailuresCounted DEF SwapInFails
  <2>5. /\ cache' \in [ready : 0..MaxVersion, previous : 0..MaxVersion]
        /\ proven' \subseteq Versions /\ UNCHANGED <<mode, works, feed>>
    BY <1>20 DEF SwapInFails, At, End, Idle, Discard, Leave, Place, App
  <2> QED
    BY <2>1, <2>2, <2>3, <2>4, <2>5
<1>21. ASSUME NEW s \in Slots, RollBackFails(s) PROVE TypeOK'
  <2>1. apps' \in [Slots -> App]
    BY <1>21 DEF RollBackFails, At, End, Idle, Discard, Leave, Place, App
  <2>2. helpers' \in [Slots -> Helper]
    BY <1>21 DEF RollBackFails, At, End, Idle, Discard, Leave, Place, Helper
  <2>3. target' \in 0..MaxVersion /\ backup' \in [Slots -> 0..MaxVersion] /\ kept' \subseteq 0..MaxVersion
    BY <1>21, AsideMoves DEF RollBackFails
  <2>4. failures' \in 0..MaxFailures /\ halted' \in BOOLEAN
    BY <1>21, FailuresCounted DEF RollBackFails
  <2>5. /\ cache' \in [ready : 0..MaxVersion, previous : 0..MaxVersion]
        /\ proven' \subseteq Versions /\ UNCHANGED <<mode, works, feed>>
    BY <1>21 DEF RollBackFails, At, End, Idle, Discard, Leave, Place, App
  <2> QED
    BY <2>1, <2>2, <2>3, <2>4, <2>5
<1>22. ASSUME NEW s \in Slots, HelperDies(s) PROVE TypeOK'
  <2>1. apps' \in [Slots -> App]
    BY <1>22 DEF HelperDies, End, Idle, Leave, Place, App
  <2>2. helpers' \in [Slots -> Helper]
    BY <1>22 DEF HelperDies, End, Idle, Leave, Place, Helper
  <2>3. target' \in 0..MaxVersion /\ backup' \in [Slots -> 0..MaxVersion] /\ kept' \subseteq 0..MaxVersion
    BY <1>22, AsideMoves DEF HelperDies
  <2>4. failures' \in 0..MaxFailures /\ halted' \in BOOLEAN
    BY <1>22, FailuresCounted DEF HelperDies
  <2>5. /\ cache' \in [ready : 0..MaxVersion, previous : 0..MaxVersion]
        /\ proven' \subseteq Versions /\ UNCHANGED <<mode, works, feed>>
    BY <1>22 DEF HelperDies, End, Idle, Leave, Place, App
  <2> QED
    BY <2>1, <2>2, <2>3, <2>4, <2>5
<1>23. CASE SpoilCache
  BY <1>23, FailuresCounted DEF SpoilCache
<1>24. ASSUME NEW v \in 0..MaxVersion, Offer(v) PROVE TypeOK'
  BY <1>24 DEF Offer, Fine
<1> QED
  BY <1>1, <1>2, <1>3, <1>4, <1>5, <1>6, <1>7, <1>8, <1>9, <1>10, <1>11, <1>12, <1>13, <1>14, <1>15, <1>16,
     <1>17, <1>18, <1>19, <1>20, <1>21, <1>22, <1>23, <1>24
  DEF Next, HelperStep

-------------------------------------------------------------------------------
\* With one slot busy there is nothing to know of the others.
LEMMA Alone ==
  ASSUME TypeOK, UpdateInv, NEW s \in Slots, Busy(s),
         \A t \in Slots \ {s} : apps'[t] = apps[t] /\ helpers'[t] = helpers[t],
         DesktopInv(s)', HelperInv(s)'
  PROVE  UpdateInv'
<1>1. \A t \in Slots \ {s} : apps'[t].at = "off" /\ helpers'[t].at = "none"
  BY DEF UpdateInv, Busy
<1>2. \A t \in Slots \ {s} : DesktopInv(t)' /\ HelperInv(t)'
  BY <1>1 DEF DesktopInv, HelperInv, At
<1> QED
  BY <1>1, <1>2 DEF UpdateInv, Busy

LEMMA Opened ==
  ASSUME TypeOK, UpdateInv, NEW s \in Slots,
         \A t \in Slots : apps[t].at = "off" /\ helpers[t].at = "none",
         \A t \in Slots \ {s} : apps'[t] = apps[t] /\ helpers'[t] = helpers[t],
         DesktopInv(s)', HelperInv(s)'
  PROVE  UpdateInv'
<1>1. \A t \in Slots \ {s} : apps'[t].at = "off" /\ helpers'[t].at = "none"
  OBVIOUS
<1>2. \A t \in Slots \ {s} : DesktopInv(t)' /\ HelperInv(t)'
  BY <1>1 DEF DesktopInv, HelperInv, At
<1> QED
  BY <1>1, <1>2 DEF UpdateInv, Busy

LEMMA UpdateStep == OneInstance /\ TypeOK /\ UpdateInv /\ Next => UpdateInv'
<1> SUFFICES ASSUME OneInstance, TypeOK, UpdateInv, Next PROVE UpdateInv'
  OBVIOUS
<1>p. \A h \in Slots : mode' = mode => Place(h)' = Place(h)
  BY DEF Place
<1> USE UpdateAssumption, PlaceIsSlot DEF TypeOK
<1>1. ASSUME NEW s \in Slots, OpenApp(s) PROVE UpdateInv'
  <2>1. (\A t \in Slots : apps[t].at = "off" /\ helpers[t].at = "none") /\ mode' = mode
    BY <1>1 DEF OpenApp, UpdateInv
  <2>2. \A t \in Slots \ {s} : apps'[t] = apps[t] /\ helpers'[t] = helpers[t]
    BY <1>1 DEF OpenApp, Start, Off
  <2>3. DesktopInv(s)'
    BY <1>1, <2>1 DEF OpenApp, Start, Off, DesktopInv, HelperInv, Versions, install, Busy, At, App, Helper
  <2>4. HelperInv(s)'
    BY <1>1, <1>p, <2>1 DEF OpenApp, Start, Off, DesktopInv, HelperInv, Versions, install, Busy, At, App,
           Helper
  <2> QED
    BY <2>1, <2>2, <2>3, <2>4, Opened
<1>2. ASSUME NEW s \in Slots, ShowWindow(s) PROVE UpdateInv'
  <2>1. Busy(s) /\ DesktopInv(s) /\ HelperInv(s) /\ mode' = mode
    BY <1>2 DEF ShowWindow, UpdateInv, Busy, Free, At
  <2>2. \A t \in Slots \ {s} : apps'[t] = apps[t] /\ helpers'[t] = helpers[t]
    BY <1>2 DEF ShowWindow, Restored, Newer
  <2>3. DesktopInv(s)'
    BY <1>2, <2>1 DEF ShowWindow, Restored, Newer, DesktopInv, HelperInv, Versions, install, Busy, At, App,
           Helper
  <2>4. HelperInv(s)'
    BY <1>2, <1>p, <2>1 DEF ShowWindow, Restored, Newer, DesktopInv, HelperInv, Versions, install, Busy, At,
           App, Helper
  <2> QED
    BY <2>1, <2>2, <2>3, <2>4, Alone
<1>3. ASSUME NEW s \in Slots, Check(s) PROVE UpdateInv'
  <2>1. Busy(s) /\ DesktopInv(s) /\ HelperInv(s) /\ mode' = mode
    BY <1>3 DEF Check, UpdateInv, Busy, Free, At
  <2>2. \A t \in Slots \ {s} : apps'[t] = apps[t] /\ helpers'[t] = helpers[t]
    BY <1>3 DEF Check, Free, Newer
  <2>3. DesktopInv(s)'
    BY <1>3, <2>1 DEF Check, Free, Newer, DesktopInv, HelperInv, Versions, install, Busy, At, App, Helper
  <2>4. HelperInv(s)'
    BY <1>3, <1>p, <2>1 DEF Check, Free, Newer, DesktopInv, HelperInv, Versions, install, Busy, At, App,
           Helper
  <2> QED
    BY <2>1, <2>2, <2>3, <2>4, Alone
<1>4. ASSUME NEW s \in Slots, CheckFails(s) PROVE UpdateInv'
  <2>1. Busy(s) /\ DesktopInv(s) /\ HelperInv(s) /\ mode' = mode
    BY <1>4 DEF CheckFails, UpdateInv, Busy, Free, At
  <2>2. \A t \in Slots \ {s} : apps'[t] = apps[t] /\ helpers'[t] = helpers[t]
    BY <1>4 DEF CheckFails, Free
  <2>3. DesktopInv(s)'
    BY <1>4, <2>1 DEF CheckFails, Free, DesktopInv, HelperInv, Versions, install, Busy, At, App, Helper
  <2>4. HelperInv(s)'
    BY <1>4, <1>p, <2>1 DEF CheckFails, Free, DesktopInv, HelperInv, Versions, install, Busy, At, App, Helper
  <2> QED
    BY <2>1, <2>2, <2>3, <2>4, Alone
<1>5. ASSUME NEW s \in Slots, Rotate(s) PROVE UpdateInv'
  <2>1. Busy(s) /\ DesktopInv(s) /\ HelperInv(s) /\ mode' = mode
    BY <1>5 DEF Rotate, UpdateInv, Busy, Free, At
  <2>2. \A t \in Slots \ {s} : apps'[t] = apps[t] /\ helpers'[t] = helpers[t]
    BY <1>5 DEF Rotate, Free
  <2>3. DesktopInv(s)'
    BY <1>5, <2>1 DEF Rotate, Free, DesktopInv, HelperInv, Versions, install, Busy, At, App, Helper
  <2>4. HelperInv(s)'
    BY <1>5, <1>p, <2>1 DEF Rotate, Free, DesktopInv, HelperInv, Versions, install, Busy, At, App, Helper
  <2> QED
    BY <2>1, <2>2, <2>3, <2>4, Alone
<1>6. ASSUME NEW s \in Slots, Activate(s) PROVE UpdateInv'
  <2>1. Busy(s) /\ DesktopInv(s) /\ HelperInv(s) /\ mode' = mode
    BY <1>6 DEF Activate, UpdateInv, Busy, Free, At
  <2>2. \A t \in Slots \ {s} : apps'[t] = apps[t] /\ helpers'[t] = helpers[t]
    BY <1>6 DEF Activate
  <2>3. DesktopInv(s)'
    BY <1>6, <2>1 DEF Activate, DesktopInv, HelperInv, Versions, install, Busy, At, App, Helper
  <2>4. HelperInv(s)'
    BY <1>6, <1>p, <2>1 DEF Activate, DesktopInv, HelperInv, Versions, install, Busy, At, App, Helper
  <2> QED
    BY <2>1, <2>2, <2>3, <2>4, Alone
<1>7. ASSUME NEW s \in Slots, Apply(s) PROVE UpdateInv'
  <2>1. Busy(s) /\ DesktopInv(s) /\ HelperInv(s) /\ mode' = mode
    BY <1>7 DEF Apply, UpdateInv, Busy, Free, At
  <2>2. \A t \in Slots \ {s} : apps'[t] = apps[t] /\ helpers'[t] = helpers[t]
    BY <1>7 DEF Apply, Free, Restored, Newer, Idle
  <2>3. DesktopInv(s)'
    <3>1. \/ helpers'[s].at = "waiting" /\ apps' = [apps EXCEPT ![s].at = "quitting"]
          \/ helpers' = helpers /\ apps' = [apps EXCEPT ![s].cached = 0, ![s].release = 0]
      <4>0. Restored(apps[s].version) \in 0..MaxVersion
        BY DEF Restored
      <4>1. [Idle EXCEPT !.at = "waiting", !.payload = Restored(apps[s].version)].at = "waiting"
        BY <4>0, HelperMade
      <4> QED
        BY <1>7, <4>1 DEF Apply
    <3>2. target' = target /\ proven' = proven /\ apps[s].at = "open" /\ apps[s] \in App
      BY <1>7 DEF Apply, Free, install
    <3> QED
      BY <2>1, <3>1, <3>2 DEF DesktopInv, App
  <2>4. HelperInv(s)'
    <3>1. \/ /\ helpers'[s].at = "waiting" /\ helpers'[s].payload = Restored(apps[s].version)
             /\ Restored(apps[s].version) # 0
          \/ helpers' = helpers
      <4>0. Restored(apps[s].version) \in 0..MaxVersion
        BY DEF Restored
      <4>1. /\ [Idle EXCEPT !.at = "waiting", !.payload = Restored(apps[s].version)].at = "waiting"
            /\ [Idle EXCEPT !.at = "waiting", !.payload = Restored(apps[s].version)].payload
                 = Restored(apps[s].version)
        BY <4>0, HelperMade
      <4> QED
        BY <1>7, <4>1 DEF Apply
    <3>2. UNCHANGED <<mode, target, backup, proven>> /\ target \in proven /\ apps[s].version = target
      BY <1>7, <2>1 DEF Apply, Free, install, DesktopInv
    <3>3. Restored(apps[s].version) # 0 => Restored(apps[s].version) > target
      BY <3>2 DEF Restored, Newer
    <3> QED
      BY <1>p, <2>1, <3>1, <3>2, <3>3 DEF HelperInv, At
  <2> QED
    BY <2>1, <2>2, <2>3, <2>4, Alone
<1>8. ASSUME NEW s \in Slots, Exit(s) PROVE UpdateInv'
  <2>1. Busy(s) /\ DesktopInv(s) /\ HelperInv(s) /\ mode' = mode
    BY <1>8 DEF Exit, UpdateInv, Busy, Free, At
  <2>2. \A t \in Slots \ {s} : apps'[t] = apps[t] /\ helpers'[t] = helpers[t]
    BY <1>8 DEF Exit, Off
  <2>3. DesktopInv(s)'
    BY <1>8, <2>1 DEF Exit, Off, DesktopInv, HelperInv, Versions, install, Busy, At, App, Helper
  <2>4. HelperInv(s)'
    BY <1>8, <1>p, <2>1 DEF Exit, Off, DesktopInv, HelperInv, Versions, install, Busy, At, App, Helper
  <2> QED
    BY <2>1, <2>2, <2>3, <2>4, Alone
<1>9. ASSUME NEW s \in Slots, StartFails(s) PROVE UpdateInv'
  <2>1. Busy(s) /\ DesktopInv(s) /\ HelperInv(s) /\ mode' = mode
    BY <1>9 DEF StartFails, UpdateInv, Busy, Free, At
  <2>2. \A t \in Slots \ {s} : apps'[t] = apps[t] /\ helpers'[t] = helpers[t]
    BY <1>9 DEF StartFails, Off
  <2>3. DesktopInv(s)'
    BY <1>9, <2>1 DEF StartFails, Off, DesktopInv, HelperInv, Versions, install, Busy, At, App, Helper
  <2>4. HelperInv(s)'
    BY <1>9, <1>p, <2>1 DEF StartFails, Off, DesktopInv, HelperInv, Versions, install, Busy, At, App, Helper
  <2> QED
    BY <2>1, <2>2, <2>3, <2>4, Alone
<1>10. ASSUME NEW s \in Slots, ParentGone(s) PROVE UpdateInv'
  <2>1. Busy(s) /\ DesktopInv(s) /\ HelperInv(s) /\ mode' = mode
    BY <1>10 DEF ParentGone, UpdateInv, Busy, Free, At
  <2>2. \A t \in Slots \ {s} : apps'[t] = apps[t] /\ helpers'[t] = helpers[t]
    BY <1>10 DEF ParentGone, At, Go
  <2>3. DesktopInv(s)'
    BY <1>10, <2>1 DEF ParentGone, Go, DesktopInv, HelperInv, Versions, install, Busy, At, App, Helper
  <2>4. HelperInv(s)'
    BY <1>10, <1>p, <2>1 DEF ParentGone, Go, DesktopInv, HelperInv, Versions, install, Busy, At, App, Helper
  <2> QED
    BY <2>1, <2>2, <2>3, <2>4, Alone
<1>11. ASSUME NEW s \in Slots, Stage(s) PROVE UpdateInv'
  <2>1. Busy(s) /\ DesktopInv(s) /\ HelperInv(s) /\ mode' = mode
    BY <1>11 DEF Stage, UpdateInv, Busy, Free, At
  <2>2. \A t \in Slots \ {s} : apps'[t] = apps[t] /\ helpers'[t] = helpers[t]
    BY <1>11 DEF Stage, At, Go, End, Idle, Place
  <2>3. DesktopInv(s)'
    BY <1>11, <2>1 DEF Stage, Go, End, Idle, Place, DesktopInv, HelperInv, Versions, install, Busy, At, App,
           Helper
  <2>4. HelperInv(s)'
    BY <1>11, <1>p, <2>1 DEF Stage, Go, End, Idle, Place, DesktopInv, HelperInv, Versions, install, Busy,
           At, App, Helper
  <2> QED
    BY <2>1, <2>2, <2>3, <2>4, Alone
<1>12. ASSUME NEW s \in Slots, SwapOut(s) PROVE UpdateInv'
  <2>1. Busy(s) /\ DesktopInv(s) /\ HelperInv(s) /\ mode' = mode
    BY <1>12 DEF SwapOut, UpdateInv, Busy, Free, At
  <2>2. \A t \in Slots \ {s} : apps'[t] = apps[t] /\ helpers'[t] = helpers[t]
    BY <1>12 DEF SwapOut, At, Go, End, Idle, Place
  <2>3. DesktopInv(s)'
    BY <1>12, <2>1 DEF SwapOut, Go, End, Idle, Place, DesktopInv, HelperInv, Versions, install, Busy, At,
           App, Helper
  <2>4. HelperInv(s)'
    BY <1>12, <1>p, <2>1 DEF SwapOut, Go, End, Idle, Place, DesktopInv, HelperInv, Versions, install, Busy,
           At, App, Helper
  <2> QED
    BY <2>1, <2>2, <2>3, <2>4, Alone
<1>13. ASSUME NEW s \in Slots, SwapIn(s) PROVE UpdateInv'
  <2>1. Busy(s) /\ DesktopInv(s) /\ HelperInv(s) /\ mode' = mode
    BY <1>13 DEF SwapIn, UpdateInv, Busy, Free, At
  <2>2. \A t \in Slots \ {s} : apps'[t] = apps[t] /\ helpers'[t] = helpers[t]
    BY <1>13 DEF SwapIn, At, Go
  <2>3. DesktopInv(s)'
    BY <1>13, <2>1 DEF SwapIn, Go, DesktopInv, HelperInv, Versions, install, Busy, At, App, Helper
  <2>4. HelperInv(s)'
    BY <1>13, <1>p, <2>1 DEF SwapIn, Go, DesktopInv, HelperInv, Versions, install, Busy, At, App, Helper
  <2> QED
    BY <2>1, <2>2, <2>3, <2>4, Alone
<1>14. ASSUME NEW s \in Slots, Install(s) PROVE UpdateInv'
  <2>1. Busy(s) /\ DesktopInv(s) /\ HelperInv(s) /\ mode' = mode
    BY <1>14 DEF Install, UpdateInv, Busy, Free, At
  <2>2. \A t \in Slots \ {s} : apps'[t] = apps[t] /\ helpers'[t] = helpers[t]
    BY <1>14 DEF Install, At, Go
  <2>3. DesktopInv(s)'
    BY <1>14, <2>1 DEF Install, Go, DesktopInv, HelperInv, Versions, install, Busy, At, App, Helper
  <2>4. HelperInv(s)'
    <3>1. helpers'[s].at \in {"in", "undo"} /\ UNCHANGED <<mode, backup, proven>>
      BY <1>14, HelperGoes DEF Install
    <3>2. backup[Place(s)] \in proven
      BY <1>14, <2>1 DEF Install, HelperInv, At, Place
    <3> QED
      BY <1>p, <3>1, <3>2 DEF HelperInv, At
  <2> QED
    BY <2>1, <2>2, <2>3, <2>4, Alone
<1>15. ASSUME NEW s \in Slots, Launch(s) PROVE UpdateInv'
  <2>1. Busy(s) /\ DesktopInv(s) /\ HelperInv(s) /\ mode' = mode
    BY <1>15 DEF Launch, UpdateInv, Busy, Free, At
  <2>2. \A t \in Slots \ {s} : apps'[t] = apps[t] /\ helpers'[t] = helpers[t]
    BY <1>15 DEF Launch, At, Start, Off, Go
  <2>3. DesktopInv(s)'
    <3>1. \/ /\ apps'[s].at = "starting" /\ apps'[s].version = target /\ target' = target
             /\ helpers'[s].at = "launched"
          \/ apps' = apps /\ apps[s].at = "off"
      <4>1. Start(s, target, TRUE) => apps'[s].at = "starting" /\ apps'[s].version = target
        BY AppStarts
      <4>2. [helpers[s] EXCEPT !.at = "launched", !.marked = FALSE].at = "launched"
        BY DEF Helper
      <4>3. CASE Start(s, target, TRUE) /\ UNCHANGED install
                 /\ helpers' = [helpers EXCEPT ![s].at = "launched", ![s].marked = FALSE]
        BY <4>1, <4>2, <4>3 DEF install
      <4>4. CASE UNCHANGED apps
        BY <1>15, <4>4 DEF Launch
      <4> QED
        BY <1>15, <4>3, <4>4 DEF Launch
    <3> QED
      BY <3>1 DEF DesktopInv
  <2>4. HelperInv(s)'
    BY <1>15, <1>p, <2>1 DEF Launch, Start, Off, Go, DesktopInv, HelperInv, Versions, install, Busy, At,
           App, Helper
  <2> QED
    BY <2>1, <2>2, <2>3, <2>4, Alone
<1>16. ASSUME NEW s \in Slots, Commit(s) PROVE UpdateInv'
  <2>1. Busy(s) /\ DesktopInv(s) /\ HelperInv(s) /\ mode' = mode
    BY <1>16 DEF Commit, UpdateInv, Busy, Free, At
  <2>2. \A t \in Slots \ {s} : apps'[t] = apps[t] /\ helpers'[t] = helpers[t]
    BY <1>16 DEF Commit, At, End, Idle, Discard, Place
  <2>3. DesktopInv(s)'
    BY <1>16, <2>1 DEF Commit, End, Idle, Discard, Place, DesktopInv, HelperInv, Versions, install, Busy,
           At, App, Helper
  <2>4. HelperInv(s)'
    BY <1>16, <1>p, <2>1 DEF Commit, End, Idle, Discard, Place, DesktopInv, HelperInv, Versions, install,
           Busy, At, App, Helper
  <2> QED
    BY <2>1, <2>2, <2>3, <2>4, Alone
<1>17. ASSUME NEW s \in Slots, Expire(s) PROVE UpdateInv'
  <2>1. Busy(s) /\ DesktopInv(s) /\ HelperInv(s) /\ mode' = mode
    BY <1>17 DEF Expire, UpdateInv, Busy, Free, At
  <2>2. \A t \in Slots \ {s} : apps'[t] = apps[t] /\ helpers'[t] = helpers[t]
    BY <1>17 DEF Expire, At, Go, Off
  <2>3. DesktopInv(s)'
    BY <1>17, <2>1 DEF Expire, Go, Off, DesktopInv, HelperInv, Versions, install, Busy, At, App, Helper
  <2>4. HelperInv(s)'
    BY <1>17, <1>p, <2>1 DEF Expire, Go, Off, DesktopInv, HelperInv, Versions, install, Busy, At, App, Helper
  <2> QED
    BY <2>1, <2>2, <2>3, <2>4, Alone
<1>18. ASSUME NEW s \in Slots, RollBack(s) PROVE UpdateInv'
  <2>1. Busy(s) /\ DesktopInv(s) /\ HelperInv(s) /\ mode' = mode
    BY <1>18 DEF RollBack, UpdateInv, Busy, Free, At
  <2>2. \A t \in Slots \ {s} : apps'[t] = apps[t] /\ helpers'[t] = helpers[t]
    BY <1>18 DEF RollBack, At, End, Idle, Discard, Place, Start, Off
  <2>3. DesktopInv(s)'
    <3>1. apps[s].at = "off"
      BY <1>18, <2>1 DEF RollBack, DesktopInv, At
    <3>2. helpers'[s].at = "none"
      BY <1>18 DEF RollBack, End, Idle
    <3>3. \/ apps'[s].at = "starting" /\ apps'[s].version = target'
          \/ apps' = apps
      <4>1. target' \in 0..MaxVersion
        BY <1>18 DEF RollBack
      <4>2. Start(s, target', FALSE) => apps'[s].at = "starting" /\ apps'[s].version = target'
        BY <4>1, AppStarts
      <4> QED
        BY <1>18, <4>2 DEF RollBack
    <3> QED
      BY <3>1, <3>2, <3>3 DEF DesktopInv
  <2>4. HelperInv(s)'
    BY <1>18, <1>p, <2>1 DEF RollBack, End, Idle, Discard, Place, Start, Off, DesktopInv, HelperInv,
           Versions, install, Busy, At, App, Helper
  <2> QED
    BY <2>1, <2>2, <2>3, <2>4, Alone
<1>19. ASSUME NEW s \in Slots, WaitExpires(s) PROVE UpdateInv'
  <2>1. Busy(s) /\ DesktopInv(s) /\ HelperInv(s) /\ mode' = mode
    BY <1>19 DEF WaitExpires, UpdateInv, Busy, Free, At
  <2>2. \A t \in Slots \ {s} : apps'[t] = apps[t] /\ helpers'[t] = helpers[t]
    BY <1>19 DEF WaitExpires, At, End, Idle
  <2>3. DesktopInv(s)'
    BY <1>19, <2>1 DEF WaitExpires, End, Idle, DesktopInv, HelperInv, Versions, install, Busy, At, App, Helper
  <2>4. HelperInv(s)'
    BY <1>19, <1>p, <2>1 DEF WaitExpires, End, Idle, DesktopInv, HelperInv, Versions, install, Busy, At,
           App, Helper
  <2> QED
    BY <2>1, <2>2, <2>3, <2>4, Alone
<1>20. ASSUME NEW s \in Slots, SwapInFails(s) PROVE UpdateInv'
  <2>1. Busy(s) /\ DesktopInv(s) /\ HelperInv(s) /\ mode' = mode
    BY <1>20 DEF SwapInFails, UpdateInv, Busy, Free, At
  <2>2. \A t \in Slots \ {s} : apps'[t] = apps[t] /\ helpers'[t] = helpers[t]
    BY <1>20 DEF SwapInFails, At, End, Idle, Discard, Leave, Place
  <2>3. DesktopInv(s)'
    BY <1>20, <2>1 DEF SwapInFails, End, Idle, Discard, Leave, Place, DesktopInv, HelperInv, Versions,
           install, Busy, At, App, Helper
  <2>4. HelperInv(s)'
    BY <1>20, <1>p, <2>1 DEF SwapInFails, End, Idle, Discard, Leave, Place, DesktopInv, HelperInv, Versions,
           install, Busy, At, App, Helper
  <2> QED
    BY <2>1, <2>2, <2>3, <2>4, Alone
<1>21. ASSUME NEW s \in Slots, RollBackFails(s) PROVE UpdateInv'
  <2>1. Busy(s) /\ DesktopInv(s) /\ HelperInv(s) /\ mode' = mode
    BY <1>21 DEF RollBackFails, UpdateInv, Busy, Free, At
  <2>2. \A t \in Slots \ {s} : apps'[t] = apps[t] /\ helpers'[t] = helpers[t]
    BY <1>21 DEF RollBackFails, At, End, Idle, Discard, Leave, Place
  <2>3. DesktopInv(s)'
    BY <1>21, <2>1 DEF RollBackFails, End, Idle, Discard, Leave, Place, DesktopInv, HelperInv, Versions,
           install, Busy, At, App, Helper
  <2>4. HelperInv(s)'
    BY <1>21, <1>p, <2>1 DEF RollBackFails, End, Idle, Discard, Leave, Place, DesktopInv, HelperInv,
           Versions, install, Busy, At, App, Helper
  <2> QED
    BY <2>1, <2>2, <2>3, <2>4, Alone
<1>22. ASSUME NEW s \in Slots, HelperDies(s) PROVE UpdateInv'
  <2>1. Busy(s) /\ DesktopInv(s) /\ HelperInv(s) /\ mode' = mode
    BY <1>22 DEF HelperDies, UpdateInv, Busy, Free, At
  <2>2. \A t \in Slots \ {s} : apps'[t] = apps[t] /\ helpers'[t] = helpers[t]
    BY <1>22 DEF HelperDies, End, Idle, Leave, Place
  <2>3. DesktopInv(s)'
    BY <1>22, <2>1 DEF HelperDies, End, Idle, Leave, Place, DesktopInv, HelperInv, Versions, install, Busy,
           At, App, Helper
  <2>4. HelperInv(s)'
    BY <1>22, <1>p, <2>1 DEF HelperDies, End, Idle, Leave, Place, DesktopInv, HelperInv, Versions, install,
           Busy, At, App, Helper
  <2> QED
    BY <2>1, <2>2, <2>3, <2>4, Alone
<1>23. CASE SpoilCache
  BY <1>23, <1>p DEF SpoilCache, UpdateInv, DesktopInv, HelperInv, Versions, install, Busy, At
<1>24. ASSUME NEW v \in 0..MaxVersion, Offer(v) PROVE UpdateInv'
  BY <1>24, <1>p DEF Offer, UpdateInv, DesktopInv, HelperInv, Versions, install, Busy, At
<1> QED
  BY <1>1, <1>2, <1>3, <1>4, <1>5, <1>6, <1>7, <1>8, <1>9, <1>10, <1>11, <1>12, <1>13, <1>14, <1>15, <1>16,
     <1>17, <1>18, <1>19, <1>20, <1>21, <1>22, <1>23, <1>24
  DEF Next, HelperStep

-------------------------------------------------------------------------------
LEMMA UpdateInit == Init => TypeOK /\ UpdateInv /\ ProvenVersionKept
<1> SUFFICES ASSUME Init PROVE TypeOK /\ UpdateInv /\ ProvenVersionKept
  OBVIOUS
<1>1. Off \in App /\ Idle \in Helper
  BY UpdateAssumption DEF Off, Idle, App, Helper
<1>2. 0 \in 0..MaxVersion /\ 1 \in 0..MaxVersion /\ 1 \in 1..MaxVersion /\ 0 \in 0..MaxFailures
  BY UpdateAssumption
<1>3. TypeOK
  BY <1>1, <1>2 DEF Init, TypeOK, Versions
<1>4. Off.at = "off" /\ Idle.at = "none"
  BY DEF Off, Idle
<1>5. UpdateInv
  BY <1>4 DEF Init, UpdateInv, DesktopInv, HelperInv, Busy, At
<1>6. ProvenVersionKept
  BY DEF Init, ProvenVersionKept, OnDisk
<1> QED
  BY <1>3, <1>5, <1>6

LEMMA TypeStutter == TypeOK /\ UNCHANGED vars => TypeOK'
  BY DEF TypeOK, vars, install

LEMMA UpdateStutter == UpdateInv /\ UNCHANGED vars => UpdateInv'
  BY DEF vars, install, UpdateInv, DesktopInv, HelperInv, Busy, At, Place

\* The variables keep their types.
THEOREM TypeCorrect == Spec => []TypeOK
  BY UpdateInit, TypeStep, TypeStutter, PTL DEF Spec

\* One desktop at a time: the inductive invariant.
THEOREM UpdateCorrect ==
  ASSUME OneInstance
  PROVE  Spec => []UpdateInv
<1>1. TypeOK /\ UpdateInv /\ [Next]_vars => UpdateInv'
  BY UpdateStep, UpdateStutter
<1> QED
  BY <1>1, UpdateInit, TypeCorrect, PTL DEF Spec

-------------------------------------------------------------------------------
\* A helper that goes on holds a proven version.
LEMMA Held ==
  ASSUME NEW s \in Slots, TypeOK', HelperInv(s)', helpers'[s].at # "none"
  PROVE  ProvenVersionKept'
<1>1. helpers'[s].at \in {"waiting", "staging", "staged", "out", "in", "launched", "undo"}
  BY DEF TypeOK, Helper
<1>2. target' \in proven' \/ backup'[Place(s)'] \in proven'
  BY <1>1 DEF HelperInv
<1>3. Place(s)' \in Slots
  BY UpdateAssumption DEF Place
<1> QED
  BY <1>2, <1>3 DEF ProvenVersionKept, OnDisk

\* One that leaves what it put aside where it is loses nothing.
LEMMA LeftThere ==
  ASSUME TypeOK, ProvenVersionKept, NEW h \in Slots, Leave(h), target' = target, proven' = proven
  PROVE  ProvenVersionKept'
<1>1. OnDisk \subseteq OnDisk'
  BY DEF Leave, OnDisk, TypeOK
<1> QED
  BY <1>1 DEF ProvenVersionKept

LEMMA InstallKept ==
  ASSUME ProvenVersionKept, UNCHANGED install, proven \subseteq proven'
  PROVE  ProvenVersionKept'
  BY DEF ProvenVersionKept, OnDisk, install

LEMMA KeptStep ==
  /\ ~CopyBackFails /\ TypeOK /\ TypeOK' /\ UpdateInv /\ UpdateInv'
  /\ ProvenVersionKept /\ Next
  => ProvenVersionKept'
<1> SUFFICES ASSUME ~CopyBackFails, TypeOK, TypeOK', UpdateInv, UpdateInv', ProvenVersionKept, Next
             PROVE  ProvenVersionKept'
  OBVIOUS
<1>1. ASSUME NEW s \in Slots, helpers'[s].at # "none" PROVE ProvenVersionKept'
  BY <1>1, Held DEF UpdateInv
<1>2. CASE UNCHANGED install /\ proven \subseteq proven'
  BY <1>2, InstallKept
<1>3. CASE target' = target /\ target \in proven /\ proven' = proven
  BY <1>3 DEF ProvenVersionKept, OnDisk
<1>4. ASSUME NEW s \in Slots,
             OpenApp(s) \/ ShowWindow(s) \/ Check(s) \/ CheckFails(s) \/ Rotate(s) \/ Activate(s) \/ Apply(s)
               \/ Exit(s) \/ StartFails(s) \/ WaitExpires(s) \/ ParentGone(s)
      PROVE  ProvenVersionKept'
  BY <1>2, <1>4 DEF OpenApp, ShowWindow, Check, CheckFails, Rotate, Activate, Apply, Exit, StartFails,
                    WaitExpires, ParentGone, install
<1>5. ASSUME NEW s \in Slots, Stage(s) PROVE ProvenVersionKept'
  <2>1. target \in proven
    BY <1>5 DEF Stage, UpdateInv, HelperInv, At
  <2> QED
    BY <1>3, <1>5, <2>1 DEF Stage
<1>6. ASSUME NEW s \in Slots, SwapOut(s) PROVE ProvenVersionKept'
  <2>1. CASE Go(s, "out")
    <3>1. helpers'[s].at = "out"
      BY <2>1, HelperGoes
    <3> QED
      BY <1>1, <3>1
  <2>2. CASE UNCHANGED <<backup, target>>
    BY <1>2, <1>6, <2>2 DEF SwapOut, install
  <2> QED
    BY <1>6, <2>1, <2>2 DEF SwapOut
<1>7. ASSUME NEW s \in Slots, SwapIn(s) \/ Install(s) \/ Expire(s) PROVE ProvenVersionKept'
  <2>1. helpers'[s].at \in {"in", "undo"}
    BY <1>7, HelperGoes DEF SwapIn, Install, Expire
  <2> QED
    BY <1>1, <2>1
<1>8. ASSUME NEW s \in Slots, Launch(s) PROVE ProvenVersionKept'
  <2>1. CASE Go(s, "undo")
    <3>1. helpers'[s].at = "undo"
      BY <2>1, HelperGoes
    <3> QED
      BY <1>1, <3>1
  <2>2. CASE UNCHANGED install
    BY <1>2, <1>8, <2>2 DEF Launch
  <2> QED
    BY <1>8, <2>1, <2>2 DEF Launch
<1>9. ASSUME NEW s \in Slots, Commit(s) PROVE ProvenVersionKept'
  <2>1. target \in proven
    BY <1>9 DEF Commit, UpdateInv, HelperInv, At
  <2> QED
    BY <1>3, <1>9, <2>1 DEF Commit
<1>10. ASSUME NEW s \in Slots, RollBack(s) PROVE ProvenVersionKept'
  <2>1. backup[Place(s)] \in proven
    BY <1>10 DEF RollBack, UpdateInv, HelperInv, At
  <2>2. target' \in proven'
    BY <1>10, <2>1 DEF RollBack
  <2> QED
    BY <2>2 DEF ProvenVersionKept, OnDisk
<1>11. ASSUME NEW s \in Slots, SwapInFails(s) PROVE ProvenVersionKept'
  <2>1. CASE target' = target /\ Leave(s)
    BY <1>11, <2>1, LeftThere DEF SwapInFails
  <2>2. CASE target' = backup[Place(s)]
    <3>1. backup[Place(s)] \in proven
      BY <1>11 DEF SwapInFails, UpdateInv, HelperInv, At
    <3>2. target' \in proven'
      BY <1>11, <2>2, <3>1 DEF SwapInFails
    <3> QED
      BY <3>2 DEF ProvenVersionKept, OnDisk
  <2> QED
    BY <1>11, <2>1, <2>2 DEF SwapInFails
<1>12. ASSUME NEW s \in Slots, RollBackFails(s) PROVE ProvenVersionKept'
  <2>1. mode # "installer"
    BY <1>12, Zenon DEF RollBackFails
  <2>2. Leave(s) /\ target' = target /\ proven' = proven
    BY <1>12, <2>1 DEF RollBackFails
  <2> QED
    BY <2>2, LeftThere
<1>13. ASSUME NEW s \in Slots, HelperDies(s) PROVE ProvenVersionKept'
  BY <1>13, LeftThere DEF HelperDies
<1>14. CASE SpoilCache \/ \E v \in 0..MaxVersion : Offer(v)
  BY <1>2, <1>14 DEF SpoilCache, Offer, install
<1> QED
  BY <1>4, <1>5, <1>6, <1>7, <1>8, <1>9, <1>10, <1>11, <1>12, <1>13, <1>14 DEF Next, HelperStep

\* Whatever fails, and wherever, a version whose window has opened stays on the
\* disk. Both hypotheses are needed: UpdateFindings.cfg drops them one by one.
THEOREM KeptCorrect ==
  ASSUME OneInstance, ~CopyBackFails
  PROVE  Spec => []ProvenVersionKept
<1>1. TypeOK /\ TypeOK' /\ UpdateInv /\ UpdateInv' /\ ProvenVersionKept /\ [Next]_vars => ProvenVersionKept'
  <2>1. ProvenVersionKept /\ UNCHANGED vars => ProvenVersionKept'
    BY InstallKept DEF vars
  <2> QED
    BY <2>1, KeptStep
<1> QED
  BY <1>1, UpdateInit, TypeCorrect, UpdateCorrect, PTL DEF Spec

-------------------------------------------------------------------------------
\* Two steps put a payload in place.
LEMMA Entering ==
  ASSUME TypeOK, Next, NEW h \in Slots, At(h, "in")', ~At(h, "in")
  PROVE  /\ target' = helpers[h].payload
         /\ At(h, "out") \/ (At(h, "staged") /\ mode = "installer")
<1>1. helpers'[h].at = "in" /\ helpers[h].at # "in"
  BY DEF At
<1>2. ASSUME NEW s \in Slots, \E at : Go(s, at) PROVE s = h /\ Go(h, "in")
  BY <1>1, <1>2, HelperGoes DEF Go, TypeOK
<1>3. ASSUME NEW s \in Slots, End(s) PROVE FALSE
  <2>1. Idle.at = "none"
    BY DEF Idle
  <2> QED
    BY <1>1, <1>3, <2>1 DEF End, TypeOK
<1>4. ASSUME NEW s \in Slots, ShowWindow(s) PROVE FALSE
  BY <1>1, <1>4 DEF ShowWindow, TypeOK, Helper
<1>5. ASSUME NEW s \in Slots, Apply(s) PROVE FALSE
  <2>1. [Idle EXCEPT !.at = "waiting", !.payload = Restored(apps[s].version)].at = "waiting"
    <3>1. Restored(apps[s].version) \in 0..MaxVersion
      BY UpdateAssumption DEF Restored, TypeOK
    <3> QED
      BY <3>1, HelperMade
  <2> QED
    BY <1>1, <1>5, <2>1 DEF Apply, TypeOK
<1>6. ASSUME NEW s \in Slots, Launch(s) PROVE FALSE
  <2>1. helpers[s] \in Helper
    BY DEF TypeOK
  <2>2. CASE helpers' = [helpers EXCEPT ![s].at = "launched", ![s].marked = FALSE]
    BY <1>1, <2>1, <2>2 DEF TypeOK, Helper
  <2>3. CASE Go(s, "undo")
    BY <1>1, <1>2, <2>3, HelperGoes
  <2> QED
    BY <1>6, <2>2, <2>3 DEF Launch
<1>7. ASSUME NEW s \in Slots, Stage(s) \/ SwapOut(s) \/ ParentGone(s) \/ Expire(s) PROVE FALSE
  <2>1. End(s) \/ Go(s, "staged") \/ Go(s, "out") \/ Go(s, "staging") \/ Go(s, "undo")
    BY <1>7 DEF Stage, SwapOut, ParentGone, Expire
  <2> QED
    BY <1>1, <1>2, <1>3, <2>1, HelperGoes
<1>8. ASSUME NEW s \in Slots, SwapIn(s) \/ Install(s)
      PROVE  /\ target' = helpers[h].payload
             /\ At(h, "out") \/ (At(h, "staged") /\ mode = "installer")
  <2>1. s = h
    BY <1>2, <1>8 DEF SwapIn, Install
  <2>2. helpers' # [helpers EXCEPT ![h].at = "undo"]
    BY <1>1, HelperGoes DEF Go
  <2>3. CASE SwapIn(s)
    <3>1. target' = helpers[s].payload /\ helpers[s].at = "out"
      BY <2>3 DEF SwapIn, At
    <3> QED
      BY <2>1, <3>1 DEF At
  <2>4. CASE Install(s)
    BY <2>1, <2>2, <2>4 DEF Install, At, Go
  <2> QED
    BY <1>8, <2>3, <2>4
<1>9. ASSUME NEW s \in Slots,
             Commit(s) \/ RollBack(s) \/ WaitExpires(s) \/ SwapInFails(s) \/ RollBackFails(s) \/ HelperDies(s)
      PROVE  FALSE
  BY <1>3, <1>9 DEF Commit, RollBack, WaitExpires, SwapInFails, RollBackFails, HelperDies
<1>10. ASSUME NEW s \in Slots,
              OpenApp(s) \/ Check(s) \/ CheckFails(s) \/ Rotate(s) \/ Activate(s) \/ Exit(s) \/ StartFails(s)
       PROVE  FALSE
  BY <1>1, <1>10 DEF OpenApp, Check, CheckFails, Rotate, Activate, Exit, StartFails
<1>11. ~SpoilCache /\ ~\E v \in 0..MaxVersion : Offer(v)
  BY <1>1 DEF SpoilCache, Offer
<1>12. \E s \in Slots : SwapIn(s) \/ Install(s)
  BY <1>4, <1>5, <1>6, <1>7, <1>9, <1>10, <1>11 DEF Next, HelperStep
<1> QED
  BY <1>8, <1>12

\* What a helper puts in place is newer than what it put aside or overwrites.
THEOREM ForwardCorrect ==
  ASSUME OneInstance
  PROVE  Spec => OnlyForward
<1>1. TypeOK /\ UpdateInv /\ [Next]_vars =>
        [\A h \in Slots : At(h, "in")' /\ ~At(h, "in") =>
           target' > (IF backup[Place(h)] = 0 THEN target ELSE backup[Place(h)])]_vars
  <2> SUFFICES ASSUME TypeOK, UpdateInv, Next, NEW h \in Slots, At(h, "in")', ~At(h, "in")
               PROVE  target' > (IF backup[Place(h)] = 0 THEN target ELSE backup[Place(h)])
    OBVIOUS
  <2>1. CASE At(h, "out")
    <3>1. target' = helpers[h].payload
      BY Entering
    <3>2. helpers[h].payload > backup[Place(h)] /\ backup[Place(h)] \in proven
      BY <2>1 DEF UpdateInv, HelperInv, At
    <3>3. backup[Place(h)] # 0
      BY <3>2 DEF TypeOK, Versions
    <3> QED
      BY <3>1, <3>2, <3>3
  <2>2. CASE At(h, "staged") /\ mode = "installer"
    <3>1. target' = helpers[h].payload
      BY Entering
    <3>2. helpers[h].payload > target /\ backup[h] = target
      BY <2>2 DEF UpdateInv, HelperInv, At
    <3>3. Place(h) = h
      BY <2>2 DEF Place
    <3> QED
      BY <3>1, <3>2, <3>3
  <2> QED
    BY <2>1, <2>2, Entering
<1> QED
  BY <1>1, TypeCorrect, UpdateCorrect, PTL DEF Spec, OnlyForward
===============================================================================
