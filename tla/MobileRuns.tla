------------------------------ MODULE MobileRuns ------------------------------
(***************************************************************************)
(* The phone's copy of the runs (internal/service/mobile) and the desktop  *)
(* it shows them of (internal/service/desktop, hosted_runs.go).  The host  *)
(* owns the shared runs; the phone reads them page by page, starts,        *)
(* continues and deletes them, adopts the host's listing in the            *)
(* background, and hands over, once, the runs it made itself before the    *)
(* workspace was shared.                                                   *)
(*                                                                         *)
(* One workspace, one run per conversation.  A transcript is 1..total and  *)
(* only grows; of a listing's metadata the status is kept.                 *)
(***************************************************************************)
EXTENDS Integers, FiniteSets, SequencesExt

CONSTANTS
  Runs,        \* what is made on either side, each once
  Polls,       \* refreshes of a conversation that may be under way at once
  Touches,     \* other requests of the reader that may be
  Window,      \* transcriptWindow: the events of one page
  ListLimit,   \* the runs of one page of the listing
  MaxTotal,    \* bound: events of a run
  MaxFaults,   \* bound: lost requests, lost replies and restarts of the phone
  CutUploads   \* bound: a connection may break while the host writes an import

ASSUME MobileAssumption ==
  /\ Window \in Nat \ {0} /\ ListLimit \in Nat \ {0} /\ MaxTotal \in Nat /\ MaxFaults \in Nat
  /\ IsFiniteSet(Runs) /\ CutUploads \in BOOLEAN

Calls == Polls \union Touches
None == [none |-> TRUE]
Idle == [at |-> "idle"]

VARIABLES
  shared,    \* whether the host shares the workspace
  host,      \* the host's record of each run; there: its conversation exists
  upload,    \* the import the host executes
  phone,     \* Service.runs
  paired,    \* those of them whose worker is known since the app was opened
  saved,     \* runs.json
  calls,     \* the requests of the phone
  sync,      \* syncSharedRuns
  fresh,     \* runs cached after the listing of the sync began
  made,      \* how many events a run of the phone ended with
  dropped,   \* runs somebody deleted
  faults

phoneVars == <<shared, host, upload, phone, paired, saved, calls, sync, fresh, made, dropped, faults>>

There(r) == host[r] # None /\ host[r].there
Shown(r) == phone[r] # None /\ phone[r].shared
Local(r) == phone[r] # None /\ ~phone[r].shared

New(r) == host[r] = None /\ phone[r] = None /\ made[r] = -1 /\ r \notin dropped

Status == {"running", "ended"}
Pages == [status : Status, off : 0..MaxTotal, events : Seq(1..MaxTotal)]
Views == [shared : BOOLEAN, status : Status, off : 0..MaxTotal, events : Seq(1..MaxTotal)]
Copies == [off : 0..MaxTotal, events : Seq(1..MaxTotal)]

HostRuns == [there : BOOLEAN, status : Status, total : 0..MaxTotal, marked : BOOLEAN]

Requests ==
  [at : {"sent"}, op : {"get", "earlier"}, run : Runs, view : Copies]
  \union [at : {"sent"}, op : {"start"}, run : Runs]
  \union [at : {"sent"}, op : {"delete"}, run : Runs, paired : BOOLEAN]
Answers == [at : {"answered"}, run : Runs, view : Pages \union {None}]

Uploads == [run : Runs, at : {"begin", "events", "done"}, total : 0..MaxTotal]
Handovers == [at : {"legacy", "uploading"}, todo : SUBSET Runs]
Listings == [at : {"listing", "listed"}, first : BOOLEAN, rest : SUBSET Runs,
             found : UNION {[found -> Status] : found \in SUBSET Runs}]

PhoneTypeOK ==
  /\ shared \in BOOLEAN /\ faults \in 0..MaxFaults
  /\ host \in [Runs -> HostRuns \union {None}]
  /\ upload \in Uploads \union {None}
  /\ phone \in [Runs -> Views \union {None}] /\ saved \in [Runs -> Views \union {None}]
  /\ fresh \subseteq Runs /\ paired \subseteq Runs /\ dropped \subseteq Runs
  /\ made \in [Runs -> -1..MaxTotal]
  /\ calls \in [Calls -> Requests \union Answers \union {Idle}]
  /\ sync \in Handovers \union Listings \union {Idle}

PhoneInit ==
  /\ shared = FALSE /\ upload = None
  /\ host = [r \in Runs |-> None]
  /\ phone = [r \in Runs |-> None] /\ saved = phone /\ paired = {}
  /\ calls = [c \in Calls |-> Idle] /\ sync = Idle /\ fresh = {}
  /\ made = [r \in Runs |-> -1] /\ dropped = {} /\ faults = 0

-------------------------------------------------------------------------------
\* The host.

\* n events of a transcript, the ones after off.
Stretch(off, n) == [i \in 1..n |-> off + i]

\* TranscriptWindow.Apply: the page of at most limit events before an event, of
\* the newest ones when none is named, of everything without a limit.
Page(run, limit, before) ==
  LET end == IF before \in 1..run.total THEN before ELSE run.total
      start == IF limit > 0 /\ end > limit THEN end - limit ELSE 0
  IN [status |-> run.status, off |-> start, events |-> Stretch(start, end - start)]

Whole(run) == Page(run, 0, 0)

\* A run that changes moves to the front of the listing, out of the pages that
\* are left.
Moved(r) ==
  sync' = IF sync.at = "listing" THEN [sync EXCEPT !.rest = @ \ {r}] ELSE sync

HostShares ==
  /\ ~shared /\ shared' = TRUE
  /\ UNCHANGED <<host, upload, phone, paired, saved, calls, sync, fresh, made, dropped, faults>>

HostAppends(r) ==
  /\ There(r) /\ host[r].status = "running" /\ host[r].total < MaxTotal
  /\ host' = [host EXCEPT ![r].total = @ + 1] /\ Moved(r)
  /\ UNCHANGED <<shared, upload, phone, paired, saved, calls, fresh, made, dropped, faults>>

HostEnds(r) ==
  /\ There(r) /\ host[r].status = "running"
  /\ host' = [host EXCEPT ![r].status = "ended"] /\ Moved(r)
  /\ UNCHANGED <<shared, upload, phone, paired, saved, calls, fresh, made, dropped, faults>>

\* A turn of a run that ended: its prompt joins the transcript.
Continued(r) == [host EXCEPT ![r].status = "running", ![r].total = @ + 1]

CanContinue(r) ==
  There(r) /\ host[r].status = "ended" /\ host[r].marked /\ host[r].total < MaxTotal

HostContinues(r) ==
  /\ CanContinue(r) /\ host' = Continued(r) /\ Moved(r)
  /\ UNCHANGED <<shared, upload, phone, paired, saved, calls, fresh, made, dropped, faults>>

\* DeleteTask: the conversation goes, the record of the run stays.
CanRemove(r) == There(r) /\ host[r].status # "running"

Removed(r) ==
  /\ host' = [host EXCEPT ![r].there = FALSE] /\ Moved(r)
  /\ dropped' = dropped \union {r}

HostDeletes(r) ==
  /\ CanRemove(r) /\ Removed(r)
  /\ UNCHANGED <<shared, upload, phone, paired, saved, calls, fresh, made, faults>>

\* Import, one write at a time: the task and the run, the events it lacks, the
\* marker that says it is complete.
ImportSavesRun ==
  /\ upload # None /\ upload.at = "begin" /\ (host[upload.run] # None => ~host[upload.run].marked)
  /\ host' = [host EXCEPT ![upload.run] =
       IF @ = None THEN [there |-> TRUE, status |-> "ended", total |-> 0, marked |-> FALSE]
       ELSE [@ EXCEPT !.there = TRUE]]
  /\ Moved(upload.run) /\ upload' = [upload EXCEPT !.at = "events"]
  /\ UNCHANGED <<shared, phone, paired, saved, calls, fresh, made, dropped, faults>>

ImportAppends ==
  /\ upload # None /\ upload.at = "events" /\ host[upload.run].total < upload.total
  /\ host' = [host EXCEPT ![upload.run].total = @ + 1]
  /\ UNCHANGED <<shared, upload, phone, paired, saved, calls, sync, fresh, made, dropped, faults>>

ImportMarks ==
  /\ upload # None /\ upload.at = "events" /\ host[upload.run].total >= upload.total
  /\ host' = [host EXCEPT ![upload.run].marked = TRUE]
  /\ upload' = IF sync.at = "uploading" THEN [upload EXCEPT !.at = "done"] ELSE None
  /\ UNCHANGED <<shared, phone, paired, saved, calls, sync, fresh, made, dropped, faults>>

ImportKnown ==
  /\ upload # None /\ upload.at = "begin" /\ host[upload.run] # None /\ host[upload.run].marked
  /\ upload' = IF sync.at = "uploading" THEN [upload EXCEPT !.at = "done"] ELSE None
  /\ UNCHANGED <<shared, host, phone, paired, saved, calls, sync, fresh, made, dropped, faults>>

-------------------------------------------------------------------------------
\* What the phone keeps.

\* sameCachedRun: a refresh that changed nothing is not written down.
SameCached(left, right) ==
  left # None /\ <<left.shared, left.status, left.off, Len(left.events)>>
                   = <<right.shared, right.status, right.off, Len(right.events)>>

\* cacheSharedRun.
Cached(r, view) ==
  LET now == [shared |-> TRUE, status |-> view.status, off |-> view.off,
              events |-> view.events]
  IN /\ phone' = [phone EXCEPT ![r] = now]
     /\ paired' = paired \union {r}
     /\ saved' = IF SameCached(phone[r], now) THEN saved ELSE phone'
     /\ fresh' = IF sync.at \in {"listing", "listed"} THEN fresh \union {r} ELSE fresh

\* Fault: the pages are joined although events are missing between them.
MergeWithGap(cached, new) ==
  LET keep == new.off - cached.off
  IN IF cached.events = <<>> \/ keep <= 0 THEN new
     ELSE [new EXCEPT !.events = SubSeq(cached.events, 1, Min({keep, Len(cached.events)})) \o @,
                      !.off = cached.off]

\* mergeTranscriptWindow.
Merge(cached, new) ==
  LET keep == new.off - cached.off
  IN IF cached.events = <<>> \/ keep <= 0 \/ keep > Len(cached.events) THEN new
     ELSE [new EXCEPT !.events = SubSeq(cached.events, 1, keep) \o @, !.off = cached.off]

-------------------------------------------------------------------------------
\* Requests of the phone.

Request(c, request) ==
  /\ calls[c].at = "idle"
  /\ calls' = [calls EXCEPT ![c] = request]

\* What a call copies of a run before it asks the host.
Copy(r) == [off |-> phone[r].off, events |-> phone[r].events]

GetRun(c, r) ==
  /\ Shown(r)
  /\ Request(c, [at |-> "sent", op |-> "get", run |-> r, view |-> Copy(r)])
  /\ UNCHANGED <<shared, host, upload, phone, paired, saved, sync, fresh, made, dropped, faults>>

LoadEarlierRun(c, r) ==
  /\ Shown(r) /\ phone[r].off > 0
  /\ Request(c, [at |-> "sent", op |-> "earlier", run |-> r, view |-> Copy(r)])
  /\ UNCHANGED <<shared, host, upload, phone, paired, saved, sync, fresh, made, dropped, faults>>

\* StartRun in a shared workspace: a new conversation, or the next turn of one.
StartRun(c, r) ==
  /\ shared /\ (Shown(r) \/ New(r))
  /\ Request(c, [at |-> "sent", op |-> "start", run |-> r])
  /\ UNCHANGED <<shared, host, upload, phone, paired, saved, sync, fresh, made, dropped, faults>>

DeleteShared(c, r) ==
  /\ Shown(r) /\ phone[r].status # "running"
  /\ Request(c, [at |-> "sent", op |-> "delete", run |-> r, paired |-> r \in paired])
  /\ UNCHANGED <<shared, host, upload, phone, paired, saved, sync, fresh, made, dropped, faults>>

\* The answer, and with it what the call will write down.
Reply(c, view) == calls' = [calls EXCEPT ![c] = [at |-> "answered", run |-> @.run, view |-> view]]

HostAnswersGet(c) ==
  /\ calls[c].at = "sent" /\ calls[c].op = "get" /\ There(calls[c].run)
  /\ LET cached == calls[c].view IN
     Reply(c, Merge(cached, Page(host[calls[c].run], Max({Len(cached.events), Window}), 0)))
  /\ UNCHANGED <<shared, host, upload, phone, paired, saved, sync, fresh, made, dropped, faults>>

HostAnswersEarlier(c) ==
  /\ calls[c].at = "sent" /\ calls[c].op = "earlier" /\ There(calls[c].run)
  /\ LET cached == calls[c].view IN
     Reply(c, [Page(host[calls[c].run], Window, cached.off) EXCEPT !.events = @ \o cached.events])
  /\ UNCHANGED <<shared, host, upload, phone, paired, saved, sync, fresh, made, dropped, faults>>

HostStarts(c) ==
  /\ calls[c].at = "sent" /\ calls[c].op = "start"
  /\ \E r \in {calls[c].run} :
       /\ \/ host[r] = None
             /\ host' = [host EXCEPT ![r] =
                  [there |-> TRUE, status |-> "running", total |-> 0, marked |-> TRUE]]
          \/ host[r] # None /\ CanContinue(r) /\ host' = Continued(r)
       /\ Moved(r)
       /\ Reply(c, Whole(host'[r]))
  /\ UNCHANGED <<shared, upload, phone, paired, saved, fresh, made, dropped, faults>>

HostRemoves(c) ==
  /\ calls[c].at = "sent" /\ calls[c].op = "delete" /\ calls[c].paired
  /\ CanRemove(calls[c].run) /\ Removed(calls[c].run) /\ Reply(c, None)
  /\ UNCHANGED <<shared, upload, phone, paired, saved, fresh, made, faults>>

\* The host refuses, or the phone does not know where to send it.
Refused(c) ==
  LET r == calls[c].run IN
    CASE calls[c].op = "start" -> host[r] # None /\ ~CanContinue(r)
      [] calls[c].op = "delete" -> ~calls[c].paired \/ ~CanRemove(r)
      [] OTHER -> ~There(r)

CallRefused(c) ==
  /\ calls[c].at = "sent" /\ Refused(c)
  /\ calls' = [calls EXCEPT ![c] = Idle]
  /\ UNCHANGED <<shared, host, upload, phone, paired, saved, sync, fresh, made, dropped, faults>>

CallLost(c) ==
  /\ calls[c].at # "idle" /\ faults < MaxFaults /\ faults' = faults + 1
  /\ calls' = [calls EXCEPT ![c] = Idle]
  /\ UNCHANGED <<shared, host, upload, phone, paired, saved, sync, fresh, made, dropped>>

Answered(c) ==
  /\ calls[c].at = "answered" /\ calls[c].view # None
  /\ Cached(calls[c].run, calls[c].view)
  /\ calls' = [calls EXCEPT ![c] = Idle]
  /\ UNCHANGED <<shared, host, upload, sync, made, dropped, faults>>

Forget(R) ==
  /\ phone' = [r \in Runs |-> IF r \in R THEN None ELSE phone[r]]
  /\ saved' = phone' /\ fresh' = fresh \ R /\ paired' = paired \ R

DeleteAnswered(c) ==
  /\ calls[c].at = "answered" /\ calls[c].view = None /\ Forget({calls[c].run})
  /\ calls' = [calls EXCEPT ![c] = Idle]
  /\ UNCHANGED <<shared, host, upload, sync, made, dropped, faults>>

-------------------------------------------------------------------------------
\* Runs of the phone's own, read-only clones of a workspace that is not shared.

StartLocal(r) ==
  /\ ~shared /\ New(r)
  /\ phone' = [phone EXCEPT ![r] =
       [shared |-> FALSE, status |-> "running", off |-> 0, events |-> <<>>]]
  /\ saved' = phone'
  /\ UNCHANGED <<shared, host, upload, paired, calls, sync, fresh, made, dropped, faults>>

LocalEvent(r) ==
  /\ Local(r) /\ phone[r].status = "running"
  /\ Len(phone[r].events) < MaxTotal - 2
  /\ phone' = [phone EXCEPT ![r].events = Append(@, Len(@) + 1)]
  /\ UNCHANGED <<shared, host, upload, paired, saved, calls, sync, fresh, made, dropped, faults>>

LocalEnd(r) ==
  /\ Local(r) /\ phone[r].status = "running"
  /\ phone' = [phone EXCEPT ![r].status = "ended"] /\ saved' = phone'
  /\ made' = [made EXCEPT ![r] = Len(phone[r].events)]
  /\ UNCHANGED <<shared, host, upload, paired, calls, sync, fresh, dropped, faults>>

DeleteLocal(r) ==
  /\ Local(r) /\ phone[r].status # "running" /\ Forget({r})
  /\ dropped' = dropped \union {r}
  /\ UNCHANGED <<shared, host, upload, calls, sync, made, faults>>

\* The connection of an import breaks: a request that has not arrived never
\* does, an answer is lost, and an import half written stops, because every
\* repository call gives up once its context is cancelled, or goes on to its end.
Unwritten == upload.at \in {"begin", "done"}
Broken == IF upload = None \/ sync.at # "uploading" THEN {upload}
          ELSE IF Unwritten THEN {None} ELSE {None, upload}
MayBreak == sync.at = "uploading" /\ ~CutUploads => Unwritten

\* The app is killed and opened again: loadRuns.  A run of the phone that was
\* still running has failed, and nobody knows the worker of a shared one.
Restart ==
  /\ MayBreak /\ faults < MaxFaults /\ faults' = faults + 1 /\ upload' \in Broken
  /\ phone' = [r \in Runs |-> IF saved[r] = None THEN None
       ELSE [saved[r] EXCEPT !.status = IF saved[r].shared THEN @ ELSE "ended"]]
  /\ saved' = phone'
  /\ made' = [r \in Runs |-> IF Local(r) /\ phone[r].status = "running"
                                  THEN Len(saved[r].events) ELSE made[r]]
  /\ calls' = [c \in Calls |-> Idle] /\ sync' = Idle /\ fresh' = {} /\ paired' = {}
  /\ UNCHANGED <<shared, host, dropped>>

-------------------------------------------------------------------------------
\* syncSharedRuns; syncMu admits one at a time.

\* The runs the phone ended itself are handed over first.
SyncStarts ==
  /\ sync.at = "idle"
  /\ sync' = [at |-> "legacy",
              todo |-> IF shared THEN {r \in Runs : Local(r) /\ phone[r].status # "running"}
                       ELSE {}]
  /\ UNCHANGED <<shared, host, upload, phone, paired, saved, calls, fresh, made, dropped, faults>>

SyncUploads(r) ==
  /\ sync.at = "legacy" /\ r \in sync.todo /\ upload = None
  /\ upload' = [run |-> r, at |-> "begin", total |-> made[r]]
  /\ sync' = [sync EXCEPT !.at = "uploading", !.todo = @ \ {r}]
  /\ UNCHANGED <<shared, host, phone, paired, saved, calls, fresh, made, dropped, faults>>

SyncUploaded ==
  /\ sync.at = "uploading" /\ upload.at = "done" /\ upload' = None
  /\ IF There(upload.run) THEN Cached(upload.run, Whole(host[upload.run]))
     ELSE UNCHANGED <<phone, paired, saved, fresh>>
  /\ sync' = [sync EXCEPT !.at = "legacy"]
  /\ UNCHANGED <<shared, host, calls, made, dropped, faults>>

\* Fault: a run is taken for handed over although its import failed.
UploadPresumed ==
  IF phone[upload.run] = None THEN UNCHANGED <<phone, paired, saved, fresh>>
  ELSE Cached(upload.run, phone[upload.run])

\* A failed import leaves the record for the next sync.
UploadFails == UNCHANGED <<phone, paired, saved, fresh>>

SyncUploadLost ==
  /\ sync.at = "uploading" /\ MayBreak /\ faults < MaxFaults /\ faults' = faults + 1
  /\ UploadFails /\ upload' \in Broken
  /\ sync' = [sync EXCEPT !.at = "legacy"]
  /\ UNCHANGED <<shared, host, calls, made, dropped>>

SyncLists ==
  /\ sync.at = "legacy" /\ sync.todo = {} /\ fresh' = {}
  /\ sync' = [at |-> "listing", first |-> TRUE, rest |-> {}, found |-> [r \in {} |-> ""]]
  /\ UNCHANGED <<shared, host, upload, phone, paired, saved, calls, made, dropped, faults>>

\* One page, newest first; the cursor is the place of its last run.
SyncPage ==
  /\ sync.at = "listing"
  /\ LET left == IF sync.first THEN {r \in Runs : shared /\ There(r)} ELSE sync.rest IN
     \E page \in SUBSET left :
       /\ Cardinality(page) = Min({ListLimit, Cardinality(left)})
       /\ sync' = [at |-> IF page = left THEN "listed" ELSE "listing", first |-> FALSE,
                   rest |-> left \ page,
                   found |-> [r \in page \union DOMAIN sync.found |->
                              IF r \in page THEN host[r].status ELSE sync.found[r]]]
  /\ UNCHANGED <<shared, host, upload, phone, paired, saved, calls, fresh, made, dropped, faults>>

\* An incomplete listing is thrown away.
SyncLost ==
  /\ sync.at \in {"legacy", "listing"} /\ faults < MaxFaults /\ faults' = faults + 1
  /\ sync' = Idle /\ fresh' = {}
  /\ UNCHANGED <<shared, host, upload, phone, paired, saved, calls, made, dropped>>

\* The copy of a listed run: its transcript stays, its status is the host's.
Adopted(r, status) ==
  IF phone[r] = None
  THEN [shared |-> TRUE, status |-> status, off |-> 0, events |-> <<>>]
  ELSE IF phone[r].shared /\ phone[r].status = status THEN phone[r]
  ELSE [phone[r] EXCEPT !.shared = TRUE, !.status = status]

\* Fault: what was cached during the listing is swept as well.
StaleOrNew(found) == {r \in Runs : Shown(r) /\ r \notin found}

\* Fault: the host's deletions are not adopted.
NothingStale(found) == {}

\* sweepStaleRunsLocked.
Stale(found) == {r \in Runs : Shown(r) /\ r \notin found /\ r \notin fresh}

SyncAdopts ==
  /\ sync.at = "listed"
  /\ LET found == DOMAIN sync.found
         stale == Stale(found) IN
       phone' = [r \in Runs |-> IF r \in found THEN Adopted(r, sync.found[r])
                                ELSE IF r \in stale THEN None ELSE phone[r]]
  /\ saved' = IF phone' = phone THEN saved ELSE phone'
  /\ paired' = {r \in Runs : IF Shown(r)' THEN r \in paired \/ phone'[r] # phone[r] ELSE FALSE}
  /\ sync' = Idle /\ fresh' = {}
  /\ UNCHANGED <<shared, host, upload, calls, made, dropped, faults>>

-------------------------------------------------------------------------------
HostRun(r) == HostAppends(r) \/ HostEnds(r) \/ HostContinues(r) \/ HostDeletes(r)
Import == ImportSavesRun \/ ImportAppends \/ ImportMarks \/ ImportKnown
Answer(c) ==
  HostAnswersGet(c) \/ HostAnswersEarlier(c) \/ HostStarts(c) \/ HostRemoves(c)
  \/ CallRefused(c) \/ Answered(c) \/ DeleteAnswered(c)
LocalRun(r) == StartLocal(r) \/ LocalEvent(r) \/ LocalEnd(r) \/ DeleteLocal(r)
Touch(c, r) == LoadEarlierRun(c, r) \/ StartRun(c, r) \/ DeleteShared(c, r)
Sync == SyncStarts \/ (\E r \in Runs : SyncUploads(r)) \/ SyncUploaded \/ SyncLists
        \/ SyncPage \/ SyncAdopts

PhoneNext ==
  \/ HostShares \/ Import \/ Sync \/ SyncUploadLost \/ SyncLost \/ Restart
  \/ \E r \in Runs : HostRun(r) \/ LocalRun(r)
  \/ \E c \in Calls : Answer(c) \/ CallLost(c)
  \/ \E r \in Runs : (\E c \in Polls : GetRun(c, r)) \/ (\E c \in Touches : Touch(c, r))

PhoneSpec == PhoneInit /\ [][PhoneNext]_phoneVars

\* The phone polls the list and the conversation that is open every few seconds
\* and answers arrive; what people do, and how long a run takes, is not fair. The
\* runs are those whose conversation stays open: of the others only the list, and
\* with it the status, is kept up to date.
PhoneFairSpec ==
  /\ PhoneSpec /\ WF_phoneVars(Sync) /\ WF_phoneVars(Import)
  /\ \A c \in Calls : WF_phoneVars(Answer(c))
  /\ \A r \in Runs : SF_phoneVars(\E c \in Polls : GetRun(c, r))

-------------------------------------------------------------------------------
\* What the phone shows of a shared run is one piece of the host's transcript,
\* without a hole or a repeated event, whichever replies came late
\* (mergeTranscriptWindow, LoadEarlierRun, cacheSharedRun).
Piece(view, run) ==
  /\ view.off + Len(view.events) <= run.total
  /\ view.events = Stretch(view.off, Len(view.events))

ShownIsHosts == \A r \in Runs : Shown(r) => Piece(phone[r], host[r])

\* A run the phone made itself and nobody deleted is wholly on the phone, or on
\* its way to the host, or wholly on the host, through lost replies, an import
\* repeated and a restart.
HistoryKept ==
  \A r \in Runs : made[r] >= 0 /\ r \notin dropped =>
    \/ phone[r] # None /\ phone[r].off = 0 /\ Len(phone[r].events) >= made[r]
    \/ upload # None /\ upload.run = r
    \/ There(r) /\ host[r].total >= made[r]

\* A run leaves the phone only when its conversation is gone from the host or
\* was deleted on the phone: the background sync never sweeps away a turn the
\* reader has just sent (sweepStaleRunsLocked).
RunsAreKept ==
  [][\A r \in Runs : phone[r] # None /\ phone'[r] = None =>
       r \in dropped' /\ (phone[r].shared => ~There(r))]_phoneVars

\* Once the host is quiet the phone ends up with its runs, their status and the
\* end of their transcripts, and with none the host has deleted.
InStep(r) ==
  /\ There(r) <=> Shown(r)
  /\ There(r) => phone[r].status = host[r].status
                 /\ phone[r].off + Len(phone[r].events) = host[r].total

PhoneCatchesUp == <>[](shared => \A r \in Runs : InStep(r))

\* A poll does not take away the history the reader has loaded.
ScrollbackIsKept ==
  [][\A r \in Runs : Shown(r) /\ Shown(r)' /\ phone[r].events # <<>> =>
       phone'[r].off <= phone[r].off \/ phone'[r].off > phone[r].off + Len(phone[r].events)]_phoneVars

\* The host decides about a shared run: the phone knows where to ask.
DeleteReachesHost ==
  \A c \in Calls : calls[c].at = "sent" /\ calls[c].op = "delete" => calls[c].paired

\* A conversation that was deleted does not come to life on the host.
DeletedStaysDeleted ==
  [][\A r \in Runs : r \in dropped /\ ~There(r) => ~There(r)']_phoneVars

-------------------------------------------------------------------------------
\* Why the properties hold, as long as no import is cut half way.

\* A listing has one page.
OnePage == Cardinality(Runs) <= ListLimit

\* Only the import under way has a record that lacks events.
ImportInv ==
  /\ upload # None <=> sync.at = "uploading"
  /\ upload # None =>
       /\ upload.total = made[upload.run] /\ made[upload.run] >= 0
       /\ upload.at # "begin" => host[upload.run] # None
       /\ upload.at = "done" => host[upload.run].marked
  /\ sync.at \in {"legacy", "uploading"} => \A r \in sync.todo : shared /\ made[r] >= 0
  /\ upload # None => shared
  /\ \A r \in Runs : host[r] # None =>
       /\ host[r].there \/ r \in dropped
       /\ host[r].marked => host[r].total >= made[r]
       /\ ~host[r].marked => upload # None /\ upload.run = r /\ upload.at = "events"

\* A run of the phone's own starts at its first event, and the host has none of
\* it while it runs; runs.json is behind by the events of a running one.
LocalInv ==
  /\ \A r \in Runs : phone[r] = None <=> saved[r] = None
  /\ \A r \in Runs : phone[r] # saved[r] =>
       Local(r) /\ phone[r].status = "running" /\ ~saved[r].shared
  /\ \A r \in Runs : Local(r) =>
       /\ phone[r].off = 0 /\ phone[r].events = Stretch(0, Len(phone[r].events))
       /\ saved[r].off = 0 /\ saved[r].events = Stretch(0, Len(saved[r].events))
       /\ Len(phone[r].events) <= MaxTotal /\ Len(saved[r].events) <= MaxTotal
       /\ IF phone[r].status = "running" THEN host[r] = None /\ made[r] = -1
          ELSE made[r] = Len(phone[r].events)
  /\ \A r \in Runs : made[r] >= 0 /\ r \notin dropped => Local(r) \/ host[r] # None

\* What is asked is about a run of the host, what is answered a piece of one.
CallOK(c) ==
  calls[c].at # "idle" =>
    /\ shared
    /\ calls[c].at = "sent" /\ calls[c].op \in {"get", "earlier"} =>
         /\ host[calls[c].run] # None /\ Piece(calls[c].view, host[calls[c].run])
         /\ calls[c].op = "earlier" => calls[c].view.off > 0
    /\ calls[c].at = "sent" /\ calls[c].op = "start" /\ host[calls[c].run] = None =>
         phone[calls[c].run] = None /\ made[calls[c].run] = -1
    /\ calls[c].at = "answered" => host[calls[c].run] # None
    /\ calls[c].at = "answered" /\ calls[c].view # None => Piece(calls[c].view, host[calls[c].run])
    /\ calls[c].at = "answered" /\ calls[c].view = None => ~host[calls[c].run].there

CallInv == \A c \in Calls : CallOK(c)

\* Who is listed was there, and who is neither listed nor fresh is not.
ListInv ==
  sync.at \in {"listing", "listed"} =>
    /\ \A r \in DOMAIN sync.found \union sync.rest : shared /\ host[r] # None
    /\ OnePage /\ sync.at = "listing" => sync.first
    /\ OnePage /\ sync.at = "listed" =>
         \A r \in Runs : Shown(r) /\ r \notin DOMAIN sync.found /\ r \notin fresh => ~There(r)

ShownInv ==
  \A r \in Runs : Shown(r) => shared /\ host[r] # None /\ Piece(phone[r], host[r])

MobileInv == ImportInv /\ LocalInv /\ CallInv /\ ListInv /\ ShownInv

===============================================================================
