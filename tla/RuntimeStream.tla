---------------------------- MODULE RuntimeStream -----------------------------
(***************************************************************************)
(* One response of an agent on its way to a window: the collector that     *)
(* batches its deltas for the live stream and for the disk                 *)
(* (internal/usecase/workflows/runtime_stream.go), the stored events       *)
(* (internal/repo/workflows/runtime_events.go) and what they fold to       *)
(* (foldRuntimeEventViews in desktop/app.go), the hub that keeps the       *)
(* response's snapshot (desktop/runstream), and the window that joins what *)
(* it loads with the frames it receives (internal/app/keel: transcript.go, *)
(* openRun, reloadRun and applyLiveFrames in app.go).                      *)
(*                                                                         *)
(* The response is the numbers 1, 2, ... in the order the agent says them. *)
(* A copy of it has a revision. Stored events only grow and are read from  *)
(* the start, so the file is kept as the copy its events fold to, and, as  *)
(* a read takes the first 10,000 events of a step's run and no more, as    *)
(* the copy those fold to. What else the run has stored takes a part of    *)
(* the 10,000, so they may be used up at any event of the response. A      *)
(* partial line is cut off before a reader or a writer sees it.            *)
(***************************************************************************)
EXTENDS Naturals, Sequences, SequencesExt

CONSTANTS
  MaxTokens,   \* bound: length of the response
  MaxOpens,    \* bound: how often the window opens the run
  MaxFaults,   \* bound: failed writes, failed loads and crashes
  Loads,       \* slots for the goroutines that load the run
  None         \* no copy, no load, no record

Text == Seq(1..MaxTokens)
Copy == [rev : Nat, text : Text, streaming : BOOLEAN]
Frames == [phase : {"start", "delta", "end"}, rev : Nat, text : Text]

ASSUME StreamAssumption ==
  /\ MaxTokens \in Nat /\ MaxOpens \in Nat /\ MaxFaults \in Nat
  /\ None \notin Loads \cup Copy \cup Frames

VARIABLES
  said,       \* how much the agent has said
  stream,     \* the collector's state of the stream
  failed,     \* a write failed: nothing more is stored
  closed,     \* the collector is closed, its run over
  disk,       \* what the stored events fold to
  listed,     \* what the first of them fold to, which a load reads
  hub,        \* the hub's snapshot
  frames,     \* frames the window has received and not taken
  updates,    \* the window's queue of updates
  batch,      \* the frames an update has taken and not applied
  window,     \* the window
  load,       \* its loading goroutines
  faults      \* failed writes, failed loads and crashes so far

agentVars  == <<said, stream, failed, closed>>
windowVars == <<batch, window, load>>
vars == <<agentVars, disk, listed, hub, frames, updates, windowVars, faults>>

Said == [i \in 1..said |-> i]

TypeOK ==
  /\ said \in 0..MaxTokens
  /\ stream \in [phase : {"none", "open", "ended", "cut"}, rev : Nat, full : Text, live : Text,
                 stored : Text]
  /\ failed \in BOOLEAN /\ closed \in BOOLEAN
  /\ disk \in Copy \cup {None} /\ listed \in Copy \cup {None} /\ hub \in Copy \cup {None}
  /\ frames \in Seq(Frames) /\ batch \in Seq(Frames)
  /\ updates \in Seq(Loads \cup {None})
  /\ window \in [open : BOOLEAN, opened : 0..MaxOpens, loaded : BOOLEAN, item : Copy \cup {None}]
  /\ load \in [Loads -> [stage : {"none", "detail", "snapshot", "post", "posted"},
                         detail : Copy \cup {None}, snapshot : Copy \cup {None}]]
  /\ faults \in 0..MaxFaults

NoStream == [phase |-> "none", rev |-> 0, full |-> <<>>, live |-> <<>>, stored |-> <<>>]
NoLoad == [stage |-> "none", detail |-> None, snapshot |-> None]
Shut == [open |-> FALSE, opened |-> 0, loaded |-> FALSE, item |-> None]

Init ==
  /\ said = 0 /\ stream = NoStream /\ failed = FALSE /\ closed = FALSE
  /\ disk = None /\ listed = None /\ hub = None
  /\ frames = <<>> /\ updates = <<>> /\ batch = <<>>
  /\ window = Shut /\ load = [l \in Loads |-> NoLoad]
  /\ faults = 0

-------------------------------------------------------------------------------
(***************************************************************************)
(* Copies.                                                                 *)
(***************************************************************************)
Frame(phase, rev, text) == [phase |-> phase, rev |-> rev, text |-> text]

AsCopy(f, before) ==
  [rev |-> f.rev, text |-> before \o f.text, streaming |-> f.phase # "end"]

TextBefore(copy, f) == IF f.phase = "delta" /\ copy # None THEN copy.text ELSE <<>>

\* foldRuntimeEventViews, one event further, if there is one.
Fold(copy, f) == IF f = None THEN copy ELSE AsCopy(f, TextBefore(copy, f))

\* Fault: what was received last is right.
MergeLast(copy, f) == Fold(copy, f)

\* The hub's snapshot and the window's item: a revision that is not newer is
\* dropped.
Merge(copy, f) ==
  IF f = None \/ (copy # None /\ f.rev <= copy.rev)
  THEN copy
  ELSE AsCopy(f, TextBefore(copy, f))

\* A copy that is read elsewhere: an authoritative frame with the full text.
Whole(copy) == Frame(IF copy.streaming THEN "snapshot" ELSE "end", copy.rev, copy.text)

Join(copy, read) == IF read = None THEN copy ELSE Merge(copy, Whole(read))

-------------------------------------------------------------------------------
(***************************************************************************)
(* The collector, under its mutex.                                         *)
(***************************************************************************)
\* The events, one or two, are appended in order until one fails; a failed append
\* may have stored its line all the same. Each is listed as long as the limit is
\* not reached, and after one that is not, none is.
Store(first, last) ==
  LET one == Fold(disk, first)
      both == Fold(one, last)
  IN  IF failed \/ (first = None /\ last = None)
      THEN UNCHANGED <<disk, listed, failed, faults>>
      ELSE \E upto \in {<<disk>>, <<disk, one>>, <<disk, one, both>>} :
             /\ disk' = Last(upto)
             /\ listed' \in IF listed = disk THEN Range(upto) ELSE {listed}
             /\ \/ disk' = both /\ UNCHANGED <<failed, faults>>
                \/ faults < MaxFaults /\ faults' = faults + 1 /\ failed' = TRUE

\* Fault: the hub keeps its snapshot, the window is not told.
PublishToHub(first, last) ==
  /\ hub' = Merge(Merge(hub, first), last)
  /\ UNCHANGED <<frames, updates>>

Queued(f) == IF f = None THEN <<>> ELSE <<f>>

\* Publish: the hub's snapshot and the window's queue, where one update applies
\* everything that waits.
Publish(first, last) ==
  /\ hub' = Merge(Merge(hub, first), last)
  /\ frames' = frames \o Queued(first) \o Queued(last)
  /\ updates' = IF (first = None /\ last = None) \/ None \in Range(updates)
                THEN updates
                ELSE Append(updates, None)

Started == IF stream.phase = "none" THEN Frame("start", 0, <<>>) ELSE None

\* flushLiveLocked, then what is left to store.
LiveRev == IF stream.live = <<>> THEN stream.rev ELSE stream.rev + 1

LiveDelta == IF stream.live = <<>> THEN None ELSE Frame("delta", LiveRev, stream.live)

StoredDelta == IF stream.stored = <<>> THEN None ELSE Frame("delta", LiveRev, stream.stored)

Flushed == [stream EXCEPT !.rev = LiveRev, !.full = @ \o stream.live, !.live = <<>>]

\* A delta: the stream is started if need be, the text waits for the timers.
Speak ==
  /\ ~closed /\ stream.phase \in {"none", "open"}
  /\ said < MaxTokens
  /\ said' = said + 1
  /\ stream' = [stream EXCEPT !.phase = "open", !.live = Append(@, said + 1),
                              !.stored = Append(@, said + 1)]
  /\ Store(Started, None) /\ Publish(Started, None)
  /\ UNCHANGED <<closed, windowVars>>

\* Fault: the live flush takes the text from the disk's batch too.
LiveTimerTakesAll ==
  /\ ~closed /\ stream.live # <<>>
  /\ stream' = [Flushed EXCEPT !.stored = <<>>]
  /\ Publish(LiveDelta, None)
  /\ UNCHANGED <<said, failed, closed, disk, listed, windowVars, faults>>

LiveTimer ==
  /\ ~closed /\ stream.live # <<>>
  /\ stream' = Flushed
  /\ Publish(LiveDelta, None)
  /\ UNCHANGED <<said, failed, closed, disk, listed, windowVars, faults>>

\* Fault: the deltas are stored under a revision that does not cover them.
StoreUnflushed ==
  /\ ~closed /\ stream.stored # <<>>
  /\ stream' = [stream EXCEPT !.stored = <<>>]
  /\ Store(Frame("delta", stream.rev, stream.stored), None)
  /\ UNCHANGED <<said, closed, hub, frames, updates, windowVars>>

\* Also any other event of the agent, which flushes everything first.
DurableTimer ==
  /\ ~closed /\ stream.stored # <<>>
  /\ stream' = [Flushed EXCEPT !.stored = <<>>]
  /\ Store(StoredDelta, None) /\ Publish(LiveDelta, None)
  /\ UNCHANGED <<said, closed, windowVars>>

\* Fault: the end repeats only what had been flushed.
EndUnflushed == Frame("end", LiveRev + 1, stream.full)

\* The end of a stream repeats its text.
End == Frame("end", LiveRev + 1, stream.full \o stream.live)

Ended == [Flushed EXCEPT !.phase = "ended", !.rev = LiveRev + 1, !.stored = <<>>]

Finish ==
  /\ ~closed /\ stream.phase = "open"
  /\ stream' = Ended
  /\ Store(StoredDelta, End) /\ Publish(LiveDelta, End)
  /\ UNCHANGED <<said, closed, windowVars>>

\* The agent has stopped: whatever is open ends.
Close ==
  /\ ~closed
  /\ closed' = TRUE
  /\ IF stream.phase = "open"
     THEN /\ stream' = Ended
          /\ Store(StoredDelta, End) /\ Publish(LiveDelta, End)
     ELSE UNCHANGED <<stream, failed, disk, listed, faults, hub, frames, updates>>
  /\ UNCHANGED <<said, windowVars>>

\* The run's execution is over.
ClearRun ==
  /\ closed /\ hub # None
  /\ hub' = None
  /\ UNCHANGED <<agentVars, disk, listed, frames, updates, windowVars, faults>>

\* What was stored is left; a resumed run starts another stream.
Crash ==
  /\ faults < MaxFaults
  /\ faults' = faults + 1
  /\ closed' = TRUE
  /\ stream' = [NoStream EXCEPT !.phase = IF stream.phase = "ended" THEN "ended" ELSE "cut"]
  /\ hub' = None /\ frames' = <<>> /\ updates' = <<>> /\ batch' = <<>>
  /\ window' = Shut /\ load' = [l \in Loads |-> NoLoad]
  /\ UNCHANGED <<said, failed, disk, listed>>

-------------------------------------------------------------------------------
(***************************************************************************)
(* The window.                                                             *)
(***************************************************************************)
Begin(l) == [NoLoad EXCEPT !.stage = "detail"]

\* The window's thread is not in the middle of an update.
Free == batch = <<>>

\* openRun, with a new transcript: for the first time, or coming back from
\* another run. What is still loading for an earlier selection will be dropped.
Open(l) ==
  /\ Free /\ window.opened < MaxOpens
  /\ window' = [open |-> TRUE, opened |-> window.opened + 1, loaded |-> FALSE, item |-> None]
  /\ load' = [k \in Loads |-> IF k = l THEN Begin(k) ELSE NoLoad]
  /\ updates' = IF None \in Range(updates) THEN <<None>> ELSE <<>>
  /\ UNCHANGED <<agentVars, disk, listed, hub, frames, batch, faults>>

\* reloadRun, which keeps the transcript, and starts over what has not been loaded.
Reload(l) ==
  /\ Free /\ window.open
  /\ load[l] = NoLoad
  /\ load' = [load EXCEPT ![l] = Begin(l)]
  /\ UNCHANGED <<agentVars, disk, listed, hub, frames, updates, batch, window, faults>>

ReadDetail(l) ==
  /\ load[l].stage = "detail"
  /\ load' = [load EXCEPT ![l].stage = "snapshot", ![l].detail = listed]
  /\ UNCHANGED <<agentVars, disk, listed, hub, frames, updates, batch, window, faults>>

\* An error of GetRunDetail: the window says so, and nothing is applied or tried
\* again.
LoadFails(l) ==
  /\ load[l].stage = "detail"
  /\ faults < MaxFaults /\ faults' = faults + 1
  /\ load' = [load EXCEPT ![l] = NoLoad]
  /\ UNCHANGED <<agentVars, disk, listed, hub, frames, updates, batch, window>>

ReadSnapshot(l) ==
  /\ load[l].stage = "snapshot"
  /\ load' = [load EXCEPT ![l].stage = "post", ![l].snapshot = hub]
  /\ UNCHANGED <<agentVars, disk, listed, hub, frames, updates, batch, window, faults>>

Post(l) ==
  /\ load[l].stage = "post"
  /\ load' = [load EXCEPT ![l].stage = "posted"]
  /\ updates' = Append(updates, l)
  /\ UNCHANGED <<agentVars, disk, listed, hub, frames, batch, window, faults>>

\* The window's thread takes one update after another.
Next1(update) == Free /\ updates # <<>> /\ Head(updates) = update /\ updates' = Tail(updates)

\* applyLiveFrames takes what has arrived. Another run's window ignores it.
TakeFrames ==
  /\ Next1(None)
  /\ frames' = <<>> /\ batch' = IF window.open THEN frames ELSE <<>>
  /\ UNCHANGED <<agentVars, disk, listed, hub, window, load, faults>>

\* Then it merges one after the other.
ApplyFrame ==
  /\ ~Free /\ batch' = Tail(batch)
  /\ window' = [window EXCEPT !.item = Merge(@, Head(batch))]
  /\ UNCHANGED <<agentVars, disk, listed, hub, frames, updates, load, faults>>

\* applyRunDetail: the stored history, then the live snapshot.
ApplyLoad(l) ==
  /\ Next1(l)
  /\ window' = [window EXCEPT !.item = Join(Join(@, load[l].detail), load[l].snapshot),
                             !.loaded = TRUE]
  /\ load' = [load EXCEPT ![l] = NoLoad]
  /\ UNCHANGED <<agentVars, disk, listed, hub, frames, batch, faults>>

-------------------------------------------------------------------------------
Loading(l) == ReadDetail(l) \/ ReadSnapshot(l) \/ Post(l) \/ ApplyLoad(l)

Next ==
  \/ Speak \/ LiveTimer \/ DurableTimer \/ Finish \/ Close \/ ClearRun \/ Crash
  \/ TakeFrames \/ ApplyFrame
  \/ \E l \in Loads : Open(l) \/ Reload(l) \/ LoadFails(l) \/ Loading(l)

Spec == Init /\ [][Next]_vars

\* Timers fire, and the window's thread and its loads run. The agent need not say
\* or finish anything.
FairSpec ==
  /\ Spec
  /\ WF_vars(LiveTimer \/ DurableTimer)
  /\ WF_vars(TakeFrames \/ ApplyFrame \/ \E l \in Loads : Loading(l))

-------------------------------------------------------------------------------
StoredCopies == ({disk, listed, hub} \cup {load[l].detail : l \in Loads}
                             \cup {load[l].snapshot : l \in Loads}) \ {None}

\* The revisions of the disk and of the hub name the same texts, which start
\* where the response starts and have no gap: this is what lets a window join
\* them by revision alone.
RevisionNamesText ==
  /\ \A x \in StoredCopies : IsPrefix(x.text, Said)
  /\ \A x, y \in StoredCopies : x.rev = y.rev => x.text = y.text

\* What no longer streams is the whole response, wherever it is shown or kept,
\* and whatever the window had missed.
EndedIsWhole ==
  \A x \in (StoredCopies \cup {window.item}) \ {None} : ~x.streaming => x.text = Said

\* "A late disk read never rolls a live response back": what the window shows
\* last stays or is followed by more.
NoRollBack == [][
  window.item # None /\ window'.open /\ window'.opened = window.opened
    => /\ window'.item # None
       /\ window.item.text # <<>> =>
            /\ window'.item.text # <<>>
            /\ Last(window'.item.text) >= Last(window.item.text)]_vars

(***************************************************************************)
(* Why that is so: a revision says how far a copy reaches, whoever holds   *)
(* it and whether or not it starts where the response starts.              *)
(***************************************************************************)
Upto(x) == IF x.text = <<>> THEN 0 ELSE Last(x.text)

\* All copies, and the frames that have not arrived in one.
Copies == (StoredCopies \cup {window.item}) \ {None}
Pending == Range(frames) \cup Range(batch)
Known == Copies \cup Pending

OrderInv ==
  /\ \A x \in Known : x.rev = 0 <=> x.text = <<>>
  /\ \A x, y \in Known : x.rev <= y.rev => Upto(x) <= Upto(y)

\* While the agent speaks, nobody is ahead of the stream, the hub has what was
\* flushed, and the disk, unless a write failed, all but its own batch.
CollectorInv ==
  /\ stream.phase = "none" => said = 0 /\ stream = NoStream /\ Known = {}
  /\ stream.phase # "open" => stream.live = <<>> /\ stream.stored = <<>>
  /\ stream.phase = "open" =>
       /\ ~closed /\ said > 0
       /\ stream.full \o stream.live = Said
       /\ stream.rev = 0 <=> stream.full = <<>>
       /\ \A x \in Known : /\ x.rev <= stream.rev /\ Upto(x) <= Len(stream.full)
                           /\ x.rev = stream.rev => Upto(x) = Len(stream.full)
       /\ hub # None /\ hub.rev = stream.rev /\ hub.text = stream.full
       /\ ~failed => disk # None /\ disk.text \o stream.stored = Said

\* Nothing ends before the stream does, and the agent says no more then.
EndInv ==
  /\ \A x \in Copies : ~x.streaming => stream.phase = "ended"
  /\ \A f \in Pending : f.phase = "end" => stream.phase = "ended" /\ f.text = Said

StreamInv == OrderInv /\ CollectorInv /\ EndInv /\ RevisionNamesText /\ EndedIsWhole

\* Whatever the agent has said is stored sooner or later, unless a write failed or
\* the program crashed.
SaidIsStored ==
  []<>(failed \/ stream.phase = "cut" \/ said = 0 \/ (disk # None /\ disk.text = Said))

Selected(n) == window.open /\ window.opened = n

EndShown == window.item # None /\ ~window.item.streaming

LoadFailed == ~window.loaded /\ \A l \in Loads : load[l] = NoLoad

\* A window that stays with a run comes to show its response ended and whole, once
\* it holds the end's frame, however little its loads list, and also without the
\* frame, when it opens as the response ends and its stream is forgotten, if the
\* end is among what a load lists and the window's load has not failed.
EndIsShown ==
  \A n \in 1..MaxOpens :
    /\ Selected(n) /\ (\E f \in Pending : f.phase = "end") ~> EndShown \/ ~Selected(n)
    /\ Selected(n) /\ stream.phase = "ended" /\ ~failed /\ listed = disk
         ~> EndShown \/ LoadFailed \/ ~Selected(n)

\* "GetRunTranscript returns the whole folded transcript": a window that has loaded
\* the run after its end shows all that is stored.
StoredIsShown ==
  closed /\ hub = None /\ frames = <<>> /\ Free /\ window.loaded /\ disk # None
    => window.item # None /\ window.item.rev >= disk.rev

\* "Snapshot returns authoritative full-text frames": a window that has loaded
\* the run shows the response from its start.
ShownFromStart ==
  window.loaded /\ window.item # None => IsPrefix(window.item.text, Said)
===============================================================================
