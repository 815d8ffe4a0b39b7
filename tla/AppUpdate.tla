------------------------------ MODULE AppUpdate -------------------------------
(***************************************************************************)
(* How the desktop replaces itself: a signed release is checked for,       *)
(* downloaded and kept in a cache (internal/service/appupdate), and a copy *)
(* of the program, the helper, waits for the desktop to exit, puts the new *)
(* version in its place, starts it, and puts the old one back when no      *)
(* window appears (internal/app/updatehelper).                             *)
(*                                                                         *)
(* The installation is a file (an AppImage), a bundle (macOS) or a         *)
(* directory that an installer overwrites (Windows); they differ in where  *)
(* the old version waits and in what a failure leaves of it.               *)
(***************************************************************************)
EXTENDS Naturals, FiniteSets

CONSTANTS
  Slots,          \* processes of the desktop; each may have started a helper
  MaxVersion,     \* versions are 1..MaxVersion
  MaxFailures,    \* bound: things that go wrong in a run
  OneInstance,    \* bound: the user opens OneCatch only when nothing of it runs
  CopyBackFails   \* the directory of an installer may fail to be copied back

ASSUME UpdateAssumption ==
  MaxVersion \in Nat \ {0} /\ MaxFailures \in Nat /\ Slots # {}

VARIABLES
  mode,      \* "file", "bundle" or "installer"
  works,     \* the versions whose window opens
  feed,      \* the version the feed offers, 0 for none
  apps,      \* the desktop processes
  cache,     \* the versions in the directories ready and .previous
  helpers,   \* the helper of each slot
  target,    \* the version that is installed, 0 when it is missing or damaged
  backup,    \* the version each helper put aside
  kept,      \* versions put aside that no helper removes any more
  proven,    \* the versions that have shown a window
  failures,  \* failures so far
  halted     \* one of them leaves nobody to start the desktop

install == <<target, backup, kept>>
vars == <<mode, works, feed, apps, cache, helpers, install, proven, failures, halted>>

Versions == 1..MaxVersion
Off == [at |-> "off", version |-> 0, cached |-> 0, release |-> 0, known |-> 0, writing |-> FALSE,
        signals |-> FALSE]
Idle == [at |-> "none", payload |-> 0, marked |-> FALSE]

App == [at : {"off", "starting", "open", "quitting"}, version : 0..MaxVersion,
        cached : 0..MaxVersion, release : 0..MaxVersion, known : 0..MaxVersion,
        writing : BOOLEAN, signals : BOOLEAN]
Helper == [at : {"none", "waiting", "staging", "staged", "out", "in", "launched", "undo"},
           payload : 0..MaxVersion, marked : BOOLEAN]

TypeOK ==
  /\ mode \in {"file", "bundle", "installer"} /\ works \subseteq Versions
  /\ feed \in 0..MaxVersion /\ target \in 0..MaxVersion
  /\ apps \in [Slots -> App] /\ helpers \in [Slots -> Helper]
  /\ cache \in [ready : 0..MaxVersion, previous : 0..MaxVersion]
  /\ backup \in [Slots -> 0..MaxVersion] /\ kept \subseteq 0..MaxVersion
  /\ proven \subseteq Versions /\ failures \in 0..MaxFailures /\ halted \in BOOLEAN

Init ==
  /\ mode \in {"file", "bundle", "installer"}
  /\ works \in {W \in SUBSET Versions : 1 \in W}
  /\ feed = 0
  /\ apps = [s \in Slots |-> Off] /\ helpers = [s \in Slots |-> Idle]
  /\ cache = [ready |-> 0, previous |-> 0]
  /\ target = 1 /\ backup = [s \in Slots |-> 0] /\ kept = {}
  /\ proven = {1} /\ failures = 0 /\ halted = FALSE

-------------------------------------------------------------------------------
\* Fault: a version may be installed over itself.
NoOlder(candidate, current) == candidate >= current

Newer(candidate, current) == candidate > current

\* restoreCachedUpdate: the cached version, when it is still newer.
Restored(version) == IF Newer(cache.ready, version) THEN cache.ready ELSE 0

\* An AppImage is put aside as <target>.old, whoever replaces it; the others
\* have a fresh directory each.
Place(h) == IF mode = "file" THEN CHOOSE s \in Slots : TRUE ELSE h

Fail == failures < MaxFailures /\ failures' = failures + 1 /\ UNCHANGED halted
Halt == failures < MaxFailures /\ failures' = failures + 1 /\ halted' = TRUE
Fine == UNCHANGED <<failures, halted>>

Start(s, version, signals) ==
  apps' = [apps EXCEPT ![s] = [Off EXCEPT !.at = "starting", !.version = version,
                                          !.signals = signals]]

\* A helper that ends by itself removes what it put aside, or leaves it there.
Discard(h) == backup' = [backup EXCEPT ![Place(h)] = 0] /\ UNCHANGED kept
Leave(h) ==
  IF mode = "file"
  THEN UNCHANGED <<backup, kept>>
  ELSE kept' = kept \cup {backup[h]} /\ backup' = [backup EXCEPT ![h] = 0]
End(h) == helpers' = [helpers EXCEPT ![h] = Idle]
Go(h, at) == helpers' = [helpers EXCEPT ![h].at = at]

-------------------------------------------------------------------------------
(***************************************************************************)
(* The desktop.                                                            *)
(***************************************************************************)
\* The user starts the installed program.
OpenApp(s) ==
  /\ apps[s].at = "off" /\ helpers[s].at = "none" /\ target # 0
  /\ OneInstance => \A t \in Slots : apps[t].at = "off" /\ helpers[t].at = "none"
  /\ Start(s, target, FALSE) /\ Fine
  /\ UNCHANGED <<mode, works, feed, cache, helpers, install, proven>>

\* initUpdates and SignalReadyFromEnvironment: the window is there. New takes
\* the cached update, or removes it when it is not newer.
ShowWindow(s) ==
  /\ apps[s].at = "starting" /\ apps[s].version \in works
  /\ LET cached == Restored(apps[s].version)
     IN  /\ apps' = [apps EXCEPT ![s].at = "open", ![s].cached = cached, ![s].release = cached]
         /\ cache' = [cache EXCEPT !.ready = cached]
  /\ helpers' = [helpers EXCEPT ![s].marked = apps[s].signals]
  /\ proven' = proven \cup {apps[s].version} /\ Fine
  /\ UNCHANGED <<mode, works, feed, install>>

Offer(v) ==
  /\ feed' = v /\ v # feed /\ Fine
  /\ UNCHANGED <<mode, works, apps, cache, helpers, install, proven>>

\* Operations exclude each other. One that waits behind an Apply runs while the
\* desktop quits, if that takes its time.
Free(s) == apps[s].at \in {"open", "quitting"} /\ ~apps[s].writing

\* The cache loses what it holds, which a helper may be on its way to.
Empties(s) == IF apps[s].at = "quitting" THEN Halt ELSE Fine

\* Check: a cached update that is not the one on offer is removed.
Check(s) ==
  /\ Free(s)
  /\ LET release == IF Newer(feed, apps[s].version) THEN feed ELSE 0
         stale == release # 0 /\ apps[s].cached \notin {0, release}
     IN  /\ apps' = [apps EXCEPT ![s].release = release, ![s].known = release,
                                 ![s].cached = IF stale THEN 0 ELSE @]
         /\ IF stale
            THEN cache' = [cache EXCEPT !.ready = 0] /\ Empties(s)
            ELSE UNCHANGED cache /\ Fine
  /\ UNCHANGED <<mode, works, feed, helpers, install, proven>>

\* The feed was not read: the service forgets the release, its engine does not.
CheckFails(s) ==
  /\ Free(s) /\ Fine
  /\ apps' = [apps EXCEPT ![s].release = 0]
  /\ UNCHANGED <<mode, works, feed, cache, helpers, install, proven>>

\* Download, up to the point where the cache's old content is out of the way.
Rotate(s) ==
  /\ Free(s) /\ apps[s].release # 0 /\ apps[s].known # 0 /\ Empties(s)
  /\ apps' = [apps EXCEPT ![s].writing = TRUE]
  /\ cache' = [ready |-> 0, previous |-> cache.ready]
  /\ UNCHANGED <<mode, works, feed, helpers, install, proven>>

Activate(s) ==
  /\ apps[s].at \in {"open", "quitting"} /\ apps[s].writing
  /\ \/ /\ Fine
        /\ cache' = [ready |-> apps[s].known, previous |-> 0]
        /\ apps' = [apps EXCEPT ![s].writing = FALSE, ![s].cached = apps[s].known]
     \/ /\ Fail
        /\ cache' = [ready |-> cache.previous, previous |-> 0]
        /\ apps' = [apps EXCEPT ![s].writing = FALSE]
  /\ UNCHANGED <<mode, works, feed, helpers, install, proven>>

\* Apply: what is on disk is examined again; the desktop quits once its helper
\* runs.
Apply(s) ==
  /\ Free(s) /\ apps[s].at = "open" /\ apps[s].cached # 0 /\ helpers[s].at = "none" /\ Fine
  /\ LET payload == Restored(apps[s].version)
     IN  IF payload # 0
         THEN /\ helpers' = [helpers EXCEPT ![s] = [Idle EXCEPT !.at = "waiting",
                                                                !.payload = payload]]
              /\ apps' = [apps EXCEPT ![s].at = "quitting"]
              /\ UNCHANGED cache
         ELSE /\ cache' = [cache EXCEPT !.ready = 0]
              /\ apps' = [apps EXCEPT ![s].cached = 0, ![s].release = 0]
              /\ UNCHANGED helpers
  /\ UNCHANGED <<mode, works, feed, install, proven>>

\* The process ends: after Apply, because the user quits, or because the user
\* ends one that shows no window.
Exit(s) ==
  /\ \/ apps[s].at \in {"open", "quitting"}
     \/ apps[s].at = "starting" /\ apps[s].version \notin works
  /\ apps' = [apps EXCEPT ![s] = Off] /\ Fine
  /\ UNCHANGED <<mode, works, feed, cache, helpers, install, proven>>

\* A version that works ends before its window.
StartFails(s) ==
  /\ apps[s].at = "starting" /\ apps[s].version \in works /\ Halt
  /\ apps' = [apps EXCEPT ![s] = Off]
  /\ UNCHANGED <<mode, works, feed, cache, helpers, install, proven>>

\* The cached artifact is gone, or no longer passes its examination; a helper
\* on its way to it will not find it.
SpoilCache ==
  /\ cache.ready # 0
  /\ IF \E h \in Slots : helpers[h].at \in {"waiting", "staging"} THEN Halt ELSE Fail
  /\ cache' = [cache EXCEPT !.ready = 0]
  /\ UNCHANGED <<mode, works, feed, apps, helpers, install, proven>>

-------------------------------------------------------------------------------
(***************************************************************************)
(* The helper.                                                             *)
(***************************************************************************)
At(h, at) == helpers[h].at = at

\* waitForExit; after 45 seconds the helper gives up and the desktop, which
\* exits later, stays closed.
ParentGone(h) ==
  /\ At(h, "waiting") /\ apps[h].at = "off" /\ Go(h, "staging") /\ Fine
  /\ UNCHANGED <<mode, works, feed, apps, cache, install, proven>>

WaitExpires(h) ==
  /\ At(h, "waiting") /\ apps[h].at # "off" /\ End(h) /\ Halt
  /\ UNCHANGED <<mode, works, feed, apps, cache, install, proven>>

\* The payload is copied or extracted beside the installation, or the
\* installation is copied for the case that the installer fails. A file's
\* earlier backup is removed first.
Stage(h) ==
  /\ At(h, "staging")
  /\ \/ cache.ready = helpers[h].payload /\ target # 0 /\ Go(h, "staged") /\ Fine
     \/ (cache.ready # helpers[h].payload \/ target = 0) /\ End(h) /\ Fine
     \/ End(h) /\ Halt
  /\ backup' = [backup EXCEPT ![Place(h)] =
                  CASE mode = "file" /\ target # 0 -> 0
                    [] mode = "installer" /\ helpers'[h].at = "staged" -> target
                    [] OTHER -> @]
  /\ UNCHANGED <<mode, works, feed, apps, cache, target, kept, proven>>

\* The first rename of a file or bundle.
SwapOut(h) ==
  /\ At(h, "staged") /\ mode # "installer"
  /\ \/ /\ target # 0 /\ Go(h, "out") /\ Fine
        /\ backup' = [backup EXCEPT ![Place(h)] = target] /\ target' = 0
     \/ End(h) /\ Halt /\ UNCHANGED <<backup, target>>
  /\ UNCHANGED <<mode, works, feed, apps, cache, kept, proven>>

\* The second one.
SwapIn(h) ==
  /\ At(h, "out") /\ Go(h, "in") /\ Fine
  /\ target' = helpers[h].payload
  /\ UNCHANGED <<mode, works, feed, apps, cache, backup, kept, proven>>

\* It fails: the first is undone, or even that fails. Nobody is started.
SwapInFails(h) ==
  /\ At(h, "out") /\ End(h) /\ Halt
  /\ \/ target' = backup[Place(h)] /\ Discard(h)
     \/ target' = target /\ Leave(h)
  /\ UNCHANGED <<mode, works, feed, apps, cache, proven>>

\* The installer, which may fail over a directory it has changed.
Install(h) ==
  /\ At(h, "staged") /\ mode = "installer"
  /\ \/ Go(h, "in") /\ Fine /\ target' = helpers[h].payload
     \/ Go(h, "undo") /\ Fail /\ target' = 0
  /\ UNCHANGED <<mode, works, feed, apps, cache, backup, kept, proven>>

\* Fault: the old version goes when the new one is started.
LaunchAndForget(h) ==
  /\ At(h, "in") /\ apps[h].at = "off"
  /\ helpers' = [helpers EXCEPT ![h].at = "launched", ![h].marked = FALSE]
  /\ Start(h, target, TRUE) /\ Fine /\ Discard(h)
  /\ UNCHANGED <<mode, works, feed, cache, target, proven>>

\* launchAndWait. A program that cannot be started is like one without a window.
Launch(h) ==
  /\ At(h, "in") /\ apps[h].at = "off"
  /\ \/ /\ Start(h, target, TRUE) /\ Fine /\ UNCHANGED install
        /\ helpers' = [helpers EXCEPT ![h].at = "launched", ![h].marked = FALSE]
     \/ /\ Go(h, "undo") /\ target' = 0 /\ Fail
        /\ UNCHANGED <<apps, backup, kept>>
  /\ UNCHANGED <<mode, works, feed, cache, proven>>

Commit(h) ==
  /\ At(h, "launched") /\ helpers[h].marked /\ End(h) /\ Discard(h) /\ Fine
  /\ UNCHANGED <<mode, works, feed, apps, cache, target, proven>>

\* No window in 45 seconds. A version that works may be as slow: that counts
\* as a failure.
Expire(h) ==
  /\ At(h, "launched") /\ Go(h, "undo")
  /\ IF apps[h].version \in works THEN Fail ELSE Fine
  /\ apps' = [apps EXCEPT ![h] = Off] /\ target' = 0
  /\ UNCHANGED <<mode, works, feed, cache, backup, kept, proven>>

\* Fault: it is only put back.
RollBackUnstarted(h) ==
  /\ At(h, "undo") /\ End(h) /\ Discard(h)
  /\ target' = backup[Place(h)] /\ Fine
  /\ UNCHANGED <<mode, works, feed, apps, cache, proven>>

\* The old version is put back and started.
RollBack(h) ==
  /\ At(h, "undo") /\ End(h) /\ Discard(h)
  /\ target' = backup[Place(h)]
  /\ \/ Start(h, target', FALSE) /\ Fine
     \/ UNCHANGED apps /\ Halt
  /\ UNCHANGED <<mode, works, feed, cache, proven>>

\* It cannot be put back. An installer's copy is removed nevertheless.
RollBackFails(h) ==
  /\ At(h, "undo") /\ End(h) /\ Halt
  /\ mode = "installer" => CopyBackFails
  /\ IF mode = "installer" THEN Discard(h) ELSE Leave(h)
  /\ UNCHANGED <<mode, works, feed, apps, cache, target, proven>>

\* The helper ends where it is and tidies nothing up.
HelperDies(h) ==
  /\ helpers[h].at # "none" /\ End(h) /\ Leave(h) /\ Halt
  /\ UNCHANGED <<mode, works, feed, apps, cache, target, proven>>

HelperStep(h) ==
  \/ ParentGone(h) \/ Stage(h) \/ SwapOut(h) \/ SwapIn(h) \/ Install(h) \/ Launch(h)
  \/ Commit(h) \/ Expire(h) \/ RollBack(h)

Next ==
  \/ \E s \in Slots : \/ OpenApp(s) \/ ShowWindow(s) \/ Check(s) \/ CheckFails(s) \/ Rotate(s)
                      \/ Activate(s) \/ Apply(s) \/ Exit(s) \/ StartFails(s)
  \/ \E h \in Slots : HelperStep(h) \/ WaitExpires(h) \/ SwapInFails(h) \/ RollBackFails(h)
                      \/ HelperDies(h)
  \/ SpoilCache
  \/ \E v \in 0..MaxVersion : Offer(v)

Spec == Init /\ [][Next]_vars

\* A process that was started shows its window or ends, one that was asked to
\* quit ends, and a helper goes on.
Fairness ==
  \A s \in Slots : /\ WF_vars(ShowWindow(s))
                   /\ WF_vars(apps[s].at = "quitting" /\ Exit(s))
                   /\ WF_vars(HelperStep(s))
FairSpec == Spec /\ Fairness

-------------------------------------------------------------------------------
OnDisk == {target} \cup {backup[s] : s \in Slots} \cup kept

\* SignalReadyFromEnvironment's comment calls the window the commit point: until
\* then the helper retains the previous installation. Whatever fails, one
\* version whose window has opened is somewhere on the disk.
ProvenVersionKept == OnDisk \cap proven # {}

\* What a helper puts in place is newer than what it replaces, whatever the
\* feed has offered and withdrawn since the download and however often the
\* desktop was restarted on the way.
OnlyForward ==
  [][\A h \in Slots : At(h, "in")' /\ ~At(h, "in") =>
       target' > (IF backup[Place(h)] = 0 THEN target ELSE backup[Place(h)])]_vars

(***************************************************************************)
(* Why that is so, with one desktop at a time.                             *)
(***************************************************************************)
Busy(s) == apps[s].at # "off" \/ helpers[s].at # "none"

\* A desktop runs what is installed, and no helper touches the installation
\* meanwhile.
DesktopInv(s) ==
  /\ apps[s].at # "off" =>
       apps[s].version = target /\ helpers[s].at \in {"none", "waiting", "launched"}
  /\ apps[s].at \in {"open", "quitting"} => apps[s].version \in proven

\* A helper holds a version that has opened, in the installation or aside, from
\* the desktop that started it to its end.
HelperInv(h) ==
  /\ helpers[h].at \in {"waiting", "staging", "staged"} =>
       target \in proven /\ helpers[h].payload > target
  /\ At(h, "staged") /\ mode = "installer" => backup[h] = target
  /\ At(h, "out") => helpers[h].payload > backup[Place(h)]
  /\ helpers[h].at \in {"out", "in", "launched", "undo"} => backup[Place(h)] \in proven
  /\ At(h, "launched") /\ helpers[h].marked => target \in proven

UpdateInv ==
  /\ \A s, t \in Slots : Busy(s) /\ Busy(t) => s = t
  /\ \A s \in Slots : DesktopInv(s) /\ HelperInv(s)

\* An update the user asked for ends with a desktop on the screen, the new
\* version or, when that shows no window in time, cannot be started or its
\* installer fails, the old one; unless a failure comes after which nobody
\* starts one.
AppComesBack ==
  \A h \in Slots : At(h, "waiting") ~> (halted \/ \E s \in Slots : apps[s].at = "open")

===============================================================================
