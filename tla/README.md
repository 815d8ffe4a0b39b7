# Verification of OneCatch

OneCatch runs coding agents on a developer's machine. A task is worked on by a
*workflow*: a graph of steps, each an agent or a shell command, that start when
the steps they depend on have passed, may send work back upstream, may ask a
human, and may be told something while they run. Steps may run on another
machine (a worker) or in a sandbox, and a phone may watch and drive the runs.
This directory holds TLA+ models of the parts of the program that decide what
runs, what is remembered, whose copy of the work counts and who is told; the TLC
runs that check them on small instances; and TLAPS proofs of the main results
for every instance.

Paths below are relative to the repository's `internal/`.

## 1. Inventory

Sizes are non-test Go lines. "Hard" names what a test would hardly reach.

| component | code | state it keeps | operations | hard |
|---|---|---|---|---|
| workflow graph | `domain/workflows/graph.go`, `validation.go` (340) | the definition: steps, dependency edges, rework edges | neighbours, descendants, rework path, Validate | what a validated graph rules out once rework moves steps around |
| workflow engine | `domain/workflows/engine.go`, `loop.go` (480) | the run: status, node statuses, failures, inboxes, rework rounds, loop flag | Start, ReadySteps, ApplyOutcome, RecordStepFailure, ReopenForInbox, Deliver, Resume, Pause, Cancel, NextLoopRound | sequences of verdicts, failures and messages |
| run scheduler | `usecase/workflows/scheduler.go` (550) | steps in flight, result channel, contexts, pause reason | drive: start steps, receive results, advance the loop, reopen for messages, pause | interleaving of results, interrupts, claims and writes |
| run operations | `usecase/workflows/usecase.go`, `execution_refresh.go` (880) | run and task records | start, execute, resume, recover, cancel, refresh settings | crash between two writes, refused settings |
| instruction queue | `repo/workflows/instructions.go` (240) | `instructions.json` | enqueue, edit, change mode, remove, claim | claimed but not delivered |
| run storage | `repo/workflows/repo.go`, `runtime_events.go` and others (1650) | run.json with a revision, index, event streams | save, update, list, append | a failed or torn append |
| run dispatch | `service/desktop/app.go`, `task_features.go`, `run_messages.go` | `active[runID]`, last errors, follow-up mutex | dispatch, interrupt, insert, steer, follow-up hook, loop switch | check then act, hook against resume, a poll that times out |
| task queue | `service/desktop/queue.go`, `repo/tasks/repo.go` (600) | task records: status, queue state | enqueue, reconcile pass, delete, rename, pin | whole-record writes from stale snapshots, crash at the head |
| workspace lock | `repo/workspacelock/lock.go` (110) | lock file per workspace | acquire, release, stale removal | two processes, reused process id |
| worker server | `service/worker/server.go` (1200) | slots, runs, pending patches, acknowledged digests, a lock per workspace | prepare, execute, interrupt, user input, acknowledge, remove | broken streams, repeated and cut requests, restart |
| worker executor, synchronisation | `service/worker/client.go`, `sync.go`, `sandbox_sync.go`, `service/desktop/workers.go` | baseline, patch, session record | prepare, execute, apply, acknowledge; pull, upload | failure between apply and acknowledge, edits during a turn |
| hosting, pairing, shared runs | `service/worker/hosting`, `pairing.go`, `shared_runs.go`, `service/desktop/hosted_runs*.go` | registrations, imported runs | register, forward, list, page, import | an import cut in the middle |
| streams | `usecase/workflows/runtime_stream.go`, `service/desktop/runstream`, `app/keel/transcript.go` | pending deltas, stored events, snapshot, the window's copy | append, flush, publish, merge | frames and loads that overtake each other |
| permissions, user input | `usecase/agentrun/codex_questions.go`, `service/desktop/runtime.go`, `service/worker/user_input.go` | the table of open questions | ask, answer, withdraw | an answer against a timeout, a withdrawal, a stop |
| agent runtimes | `usecase/agentrun` (11400) | one external process per attempt | run, interrupt, parse events | left to the runtimes' own tests |
| remote execution and file system | `usecase/agentrun/seam`, `platform/remotefs` (4200) | connections | run and transfer over SSH | I/O |
| git, worktrees | `repo/git`, `service/desktop/worktrees.go` | none of its own | calls to git | I/O |
| mobile, LAN discovery | `service/mobile`, `platform/landiscovery` (1850) | cached runs, `runs.json`, pairings, peers | page, start, continue, delete, sync, hand over | late answers over newer state, sweep against a new run |
| application update | `service/appupdate`, `app/updatehelper` (1400) | staged update, backup | check, download, swap, roll back | a death or failure during the swap |
| language servers, terminal | `service/lsp`, `service/terminal`, `app/keel/terminalview` (2560) | processes, screen | | |
| settings, templates, skills, local store | `domain/settings`, `repo/settings`, `repo/localstore`, `service/skillmanager` | files read and written whole | | |
| user interface | `app/keel`, `app/shell` (20000) | views | | |

How they interact. The desktop service asks *run operations* to write a run and
its task, and *dispatches* a goroutine that *drives* it. drive is the only writer
of a running run: step goroutines get a snapshot and a context and answer over a
channel. Human instructions never touch run.json; they wait in the queue's own
file until drive claims them at a boundary, delivers them into the inboxes of
steps, and writes the run. An interrupt cancels the drive's context. When drive
returns, the service looks for a follow-up and lets the workspace's *task queue*
go on. A step that writes holds the *workspace lock*. A step on a *worker* sends
the project there, streams the agent's output back and applies the patch; a
*sandbox* turn keeps a replica instead, and pulls and uploads around each turn.
What the agent says passes a collector to the disk and to a *stream* of frames
that windows merge with what they load; what it asks passes a table of open
questions to the windows and calls that answer. A *phone* reads shared runs page by page
from the desktop that hosts them.

What makes each correct:

- *workflow, run*: a completed run has really finished; a node's status tells
  what is executing; a message is neither lost nor thrown away unread; a run
  stops when told and restarts only when told; every round ends; a paused run
  can go on; the task shows what its run does.
- *dispatch*: what executes can be interrupted; a message the user queued starts
  a turn; no call hangs.
- *task queue, lock*: one task of the queue at a time, in order; one writing
  step at a time; what is released can be taken again.
- *worker, sandbox*: an agent starts on the project it was given; a patch is one
  run's work; nobody's work is overwritten or lost; both sides meet in the end.
- *stream*: a revision names one text; a window never goes back and shows the
  end; what is stored is what was said.
- *user input*: who hears that an answer was delivered is right; a turn leaves
  no question open.
- *update*: a version that works stays on the disk; versions only go forward;
  the desktop comes back.
- *phone*: it shows the host's transcript without gaps, keeps the runs the host
  has and the history it made itself, and ends in step with the host.

`PROJECT.json` lists the components again with their status, and under
"hazards" each place where the code is exposed, with the properties that cover it.

## 2. Modules

    WorkflowGraph <- WorkflowEngine <- RunScheduler <- MCRunScheduler, MCRunLoop, MCParallelWriters
                                          ^    \
                             RunSchedulerProofs  `- implements RunLifecycle

    TaskQueue <- MCTaskQueue, WorkspaceProofs
         `- implements FifoQueue

    WorkspaceLock <- MCWorkspaceLock, WorkspaceProofs

    WorkerRun    SandboxSync    RuntimeStream    UserInput    AppUpdate
        (each with its MC module and its Proofs module)

    RunDispatch <- MCRunDispatch, ClientProofs
    MobileRuns  <- MCMobileRuns, ClientProofs

Two modules are abstract specifications. `RunLifecycle` says who may change a
run's status and its task's; RunScheduler implements it
(`Lifecycle == INSTANCE RunLifecycle WITH status <- run.status, task <- task,
stage <- Stage`, where `Stage` maps the states of the driver). RunDispatch and
TaskQueue are written against that life cycle: an execution there ends
completed or paused, or is abandoned. `FifoQueue` is a line of tasks with one
head; TaskQueue implements it with records on disk (`Line == INSTANCE FifoQueue
WITH ...`, the line being the records in state waiting). What is left of a
component inside another's module is always such an abstract part.

**WorkflowGraph** — the definition as constants and the graph queries as
operators. `Descendants`, a breadth-first search in the code, is the
intersection of all sets closed under dependency edges, which needs no recursion
and can be proved about. `DefinitionAssumption` is what `Validate` accepts.

**WorkflowEngine** — the functions of `engine.go` and `loop.go`, run to run. A
run keeps status, node statuses, failure counts, inboxes, rework rounds, pause
reason and loop flag. An inbox is a set of senders: order and text only shape a
prompt. Two messages from one sender count as one.

**RunScheduler** — one run with everything that acts on it. `run`, `task` and
`queue` are files and survive a crash; all the rest is memory.

| in the model | in the code |
|---|---|
| `driver = "schedule"` | the top of drive's loop |
| `ChooseBatch`, `ClaimForBatch`, `StartBatch` | startReadySteps: choose, claim, then one write that delivers and marks running. Interrupts, new instructions and crashes fall between |
| `RefuseSettings`, `RefuseNextRound` | settings or definition refused by execution_refresh.go |
| `FinishStep` | a step's goroutine: whatever result its agent or command gives; only "cancelled" once its context has ended |
| `ReceiveResult` | applyStepResult, completion included, in one write |
| `StartNextRound` | the outer loop |
| `LookForMessages`, `ClaimForReopen`, `ReopenForMessages` | reopenForMessages |
| `Leave`, `SettleRun`, `KeepRun`, `SettleTask` | the final switch and pause: choose the case, write the run, write the task |
| `AbandonStart`, `AbandonReopen`, `AbandonSettle`, `AbandonEnter` | an error return of drive or of the operation before it: a write under an ended context, or pause's early return |
| `ResumeRun`, `EnterDrive` | ResumeRunWithProfile: write the run, write the task, drive; EnterDrive also stands for ExecuteRun |
| `CancelRun`, `CancelTask`; `RecoverRun`, `RecoverTask` | the same, each with the gap between the two writes |
| `Interrupt`, `EnqueueInstruction`, `UpdateInstructionMode`, `RemoveInstruction`, `SetRunLoop`, `Crash` | the user and the machine |

`read` and `lost` are history: instructions that some attempt was started with,
and instructions that had been claimed when a drive was abandoned or its process
died. No guard reads them.

**TaskQueue** — the tasks of one workspace. `tasks` and `runs` are files; the
goroutines (`drive`), the calls of the user that have tested and not yet written
(`cancelling`, `deleting`), the passes that were asked for (`wanted`) and the one
that runs (`phase`, `seen`, `chosen`) die with the process.

| in the model | in the code |
|---|---|
| `EnqueueTask`, `StartRun` | EnqueueTask; StartRun up to the run's file, `MarkRunning` the write of its task |
| `Settle`, `MarkTask`, `SkipTask`, `Abandon`, `Undispatch` | what drive writes of the run, then of its task, or the error returns that write less; the deferred end of dispatch's goroutine, which asks for a pass |
| `ResumeRun`, `EnterRun`, `ResumeFails` | ResumeRunConfigured and ResumeRunWithProfile; also the resume a pending follow-up causes |
| `CancelRun`, `MarkCancelled`; `CheckDelete`, `DeleteTask` | test, then write |
| `StartPass`, `Release`, `LeaveQueue`, `ChooseHead`, `StartHead`, `StartHeadFails`, `HeadStarted` | reconcileWorkspaceQueue: list, supersede finished heads, return or save the head, start it. Every write puts back a record of the list |
| `Crash`, `RecoverRun`, `MarkRecovered`, `Recovered` | death, RecoverInterruptedRuns, and the passes it asks for |

The service's window enqueues a task once, right after creating it, and shows no
start button on a queued one; `EnqueueTask` and `StartRun` are guarded so.

**WorkspaceLock** — the lock file of a workspace, one action per system call:
`Create` (O_EXCL), `Write` (pid and owner), `Read` of an existing file,
`RemoveStale` when its process is dead, `Check` and `Unlink` of a release.
`mu[p]` is `Manager.mu` of a process, which every call holds from `Begin` to
`Leave`. `Die`, `Launch`, `OtherStarts`, `OtherEnds` kill processes and hand
their ids to others: a stale lock may name a live stranger. A file whose
creator died before the write is refused as corrupt, and stays. `SignalsProbe`
is what the system makes of `processAlive`: on Unix signal 0 tells the living from
the dead, on Windows sending it fails for every process and every lock looks stale.
The module's
standard names carry its own (`LockSpec`, `LockTypeOK`), so that one module can
hold the proofs about the queue and the lock of a workspace.

**RunDispatch** — the calls of windows and phones on one run, each from test to
act: `CallResume` tests, `ClientDispatch` registers; `CallSend`, `Queue`,
`CallInsert`, `CallSteer` hold `followUpMu` (`mutex`) between reading a status
and writing a message; `Stop` cancels the registered context; `Poll`,
`PollDispatch`, `PollExpire` are interruptAndResume's 25 ms loop; `Begin`,
`Claim`, `NextBatch`, `LastStep`, `Reopen`, `Return`, `Pause` are an execution as
RunLifecycle has it, with the boundaries at which it claims messages;
`Deregister`, `CompletionHook`, `HookDispatch` are the deferred end of dispatch.

**WorkerRun** — remote runs in one workspace of a worker. `Execute`,
`Acknowledge`, `Preparation` and `Removal` are requests served concurrently; each
looks up the workspace's RWMutex (`lock`, the object it found; a removal drops
the object from the map) and then takes it, shared or not (`held`). On the
desktop: `Begin` (prepare, with the seconds-long memory of a successful one),
`Send`, `StreamGone`, `Apply`, `Acknowledged`, `Retry`, `GiveUp`. On the server:
`Track`, `Enter` (baseline), `Work`, `AgentEnds`, `Build` (the patch), `Tell`,
`Leave`; `AckMatch`, `AckRebuild`, `AckReset`, `AckClean`, `AckRecord` are the
acknowledgement, git command by git command, and `AckCut` its broken connection.

**SandboxSync** — one turn as phases: recorded session stopped, replica made or
found, manifest read, pull file by file (same, changed, conflict with a copy kept
aside), scan, upload file by file (each replaced only if the replica's file is
still what was seen), Codex opened, session recorded, prompt, turn, pull again,
finish. `disk` is state.json, `state` its copy in the turn.

**RuntimeStream** — one response: the collector's unflushed text for the live
stream (`stream.live`) and for the disk (`stream.stored`), the two timers,
`Finish`, `Close`, `ClearRun`; `disk` is what the stored events fold to and
`listed` what the first 10,000 of them fold to, which is all a load reads; `hub`
the snapshot; `window` merges what reaches it. `TakeFrames` and `ApplyFrame` are the
listener, which takes all frames waiting in its queue and merges them one by one into
one update; `ApplyLoad` is a load (detail, then snapshot, then a post to the same
queue), `LoadFails` one that gets an error: nothing is applied, nothing tried again.

**UserInput** — one question. Codex is a party of its own (`CodexAsks`,
`CodexCloses`, `CodexEnds`, `CodexReads`, `CodexSteers`): what it writes waits in
`reads`, the pipe and the 16 lines of the reader's buffer, and what the loop writes
waits for it as `reply`. So the loop may take an answer while the withdrawal of its
question, or the end of the turn, waits unread. Then there are the turn loop (`Ask`,
`Withdraw`, `Ack` and `EndTurn` for a line of `reads` each, `TakeBlocking`,
`TakeSteer`, `Publish`, `LeaveTurn`, `Drain`, ...), the goroutine that waits for the
answer (`Enter`, `AskerRegisters`, `Receive`, `GiveUp`, `Leave`, `Return`), the
table of pending questions (entries are made by the sink and, if it came first,
by the asker) and the calls (`Respond`, `Hear`, `SentAway`, `GiveUpCall`). `Init`
chooses the desktop's or the worker's table and a question Codex waits for or
one whose answer joins the turn.

**AppUpdate** — the desktop (check, download into `ready` with the former
`ready` kept as `.previous`, apply, exit), and its helper (wait for the parent,
stage, put the installation aside, put the new one in, launch, wait for the
window's mark, commit or roll back) for a file, a bundle and an installer; `Init`
chooses the mode and which versions open a window. Anything may fail, and the
helper may die, at each step. A check or a download that waits on operationMu behind
an Apply may still run while the desktop quits, and take from the cache what the
helper is on its way to (`Free`, `Empties`).

**MobileRuns** — the phone's copy of runs and their host.

| in the model | in the code |
|---|---|
| `host[r]` | the run as the desktop's hosted_runs.go shows it: its conversation, status, length, and the mark that it was imported whole |
| `HostAppends`, `HostEnds`, `HostContinues`, `HostDeletes` | the run and its user at the desktop |
| `ImportSavesRun`, `ImportAppends`, `ImportMarks`, `ImportKnown` | hosted_runs_import.go write by write |
| `GetRun`, `LoadEarlierRun`, `StartRun`, `DeleteShared`; `HostAnswers...`, `HostStarts`, `HostRemoves`, `Refused`; `Answered`, `DeleteAnswered`, `CallRefused`, `CallLost` | a request of the phone: what is read before it is sent, the host's handler, what is written on the answer |
| `SyncStarts`, `SyncUploads`, `SyncUploaded`, `SyncUploadLost`, `SyncLists`, `SyncPage`, `SyncAdopts`, `SyncLost` | syncSharedRuns: hand over old runs, list, adopt and sweep |
| `Cached`, `Merge`, `SameCached`, `Stale` | cacheSharedRun, the join of pages, the test for an unchanged run, the sweep that spares what was cached after the listing (`fresh`) |
| `StartLocal`, `LocalEvent`, `LocalEnd`, `DeleteLocal`, `Restart` | the phone's own read-only runs; `phone` goes, `saved` (runs.json) stays |

`made` and `dropped` are history: how many events a run of the phone ended with,
and which runs somebody deleted. The standard names carry the phone's (`PhoneSpec`,
`PhoneTypeOK`): its proofs share a module with RunDispatch's.

Definitions whose comment starts with "Fault:" are mutated forms of the one that
follows, used to see that a property can fail; no specification uses them.

### Abstractions

- A step's agent is a choice of result. A protocol failure (unreadable verdict)
  is kept apart from other failures because it earns the step a reminder.
- All infrastructure reasons are one, `"infrastructure"`.
- RunScheduler: the check that an instruction may be queued and its write are one
  step; the service reads the run's status a little earlier (RunDispatch does
  the two apart).
- RunScheduler, TaskQueue and the lock: disk writes succeed unless their context
  has ended. Failed writes are modelled where the code goes on after one: the
  collector of RuntimeStream, the helper of AppUpdate.
- Which of the ready steps start when not all fit is left open; the code takes
  them in definition order. A definition does not change between attempts.
- One follow-up is any follow-up; the code takes the oldest.
- TaskQueue: times of enqueueing differ; the code orders equal ones by id. One
  run per task. Edits of other fields (rename, pin, title) are left out.
- RunScheduler's run has one driver; that no two executions work on one run is
  RunDispatch's subject (`Interruptible`).
- WorkerRun: a run's work is a change to tracked files and new files; a project
  is its revision; content rules are left out. SandboxSync: a file's content is a
  version number, 0 for an absent file.
- RuntimeStream: a response is 1, 2, ..., a copy of it is revision and text, and
  the file of events is what its events fold to, together with what its first 10,000
  fold to. Since other events of the step count as well, the limit may be reached at
  any event of the response.
- UserInput: one question, whose lines and those that end the turn are what `reads`
  holds; other lines pass between them. While an approval blocks the loop nothing is
  read and no answer taken, as when the loop is slow. That an answer was written is
  all the loop learns of a question Codex waits for.
- MobileRuns: one worker, one workspace that is shared once; one run per
  conversation; a transcript is 1..total and only grows (in the code an
  instruction marked ready is shown where it was written, inside the transcript,
  until it is applied); of a listing's metadata the status is kept; a poll at a
  time; renaming, queued messages and the page window of unshared runs are left
  out, and so are the limits of length: a run of the phone's own keeps its newest
  2000 events, an import reads the first 10000. `SyncUploaded` reads the host's
  record when it caches an imported run and leaves out one that is gone by then; the
  code caches the view of the answer. The listing of the same sync, which follows,
  adopts or sweeps the run in either case.

## 3. Runs

| run | module | checks | shows | states, time |
|---|---|---|---|---|
| scheduler | MCRunScheduler | `CompletionLeavesNothingRunning`, `NodeStatusTracksExecution`, `GuidanceIsNotLost`, `PausedRunHasWork`, `InboxClearedOnlyByVerdict`, `FollowUpStartsATurn`, `ImplementsLifecycle` | no interleaving of results, interrupts, messages, a resume and a crash breaks the run record; run, task and goroutine follow the abstract life cycle | 1.1 M, 98 s |
| loop | MCRunLoop | `FinishedRunHasNoMail`, `RoundEnds`, `InterruptStops` | rounds end, interrupts stop, finished means read | 55 k, 23 s |
| task_queue | MCTaskQueue | `ImplementsFifo`, `QueueMoves` | passes that decide from old records still serve one line, in order, one at a time; whatever ends, a pass follows that sees it | 157 k, 36 s |
| lock | MCWorkspaceLock | `MutualExclusion`, `ReleaseFreesWorkspace` | callers of one process exclude each other through deaths and reused process ids, where signal 0 probes | 21 k, 3 s |
| worker | MCWorkerRun | `PatchIsOfOneRun`, `RunSeesBaseline`, `WorkIsNotLost`, `RemoteRunEnds` | two runs in one workspace never mix or lose their work, and each ends | 196 k, 66 s |
| sandbox_sync | MCSandboxSync | `AgentStartsOnProject`, `LocalWorkIsKept`, `RemoteWorkIsKept`, `Converges` | edits on both sides survive stops, broken connections and a recreated sandbox | 290 k, 25 s |
| dispatch | MCRunDispatch | `Interruptible`, `FollowUpStarts`, `CallsReturn` | whatever executes is the one that an interrupt reaches; a queued message that may start does | 51 k, 37 s |
| stream | MCRuntimeStream | `RevisionNamesText`, `EndedIsWhole`, `NoRollBack`, `SaidIsStored`, `EndIsShown` | disk, hub and window agree on what a revision is; the window reaches the end by the end's frame, or by a load that lists it and does not fail | 318 k, 100 s |
| user_input | MCUserInput | `WhatIsToldIsTrue`, `TurnLeavesNothing`, `CallsReturn` | two answers, a withdrawal, a stop and the end of the turn, written and read in any order | 35 k, 9 s |
| app_update | MCAppUpdate | `ProvenVersionKept`, `OnlyForward`, `AppComesBack` | two failures anywhere leave a version that works, and the desktop returns | 105 k, 12 s |
| mobile | MCMobileRuns | `ShownIsHosts`, `HistoryKept`, `RunsAreKept`, `PhoneCatchesUp` | late answers, lost replies, a restart, deletions on both sides: no gap, no lost run or history | 271 k, 70 s |
| insert_starts | MCRunDispatch | `InsertStarts` | violated: a message inserted into a turn that is just ending starts no turn | 50 k, 15 s |

`insert_starts` is listed because it refutes a liveness statement under the
fairness of `FairSpec`. Other statements of the repository that do not hold are
reproduced by configurations of their own, each violated in seconds:

| configuration | module | statement |
|---|---|---|
| `SchedulerFindings` | MCRunScheduler | `TaskFollowsRun`: run paused, task "running"; `InterruptedRunIsPersistedAsPaused`: an interrupt between test and write leaves "running" with nobody driving; `UnreadMessagesAreKept`: a verdict clears what arrived after its attempt began |
| `RefusedRound` | MCRunLoop | `PausedRunHasWork` with a loop: a refused round pauses a run with nothing left to reopen |
| `ParallelWriters` | MCParallelWriters | `WritersNeverOverlap`: rework brings a writer back beside another |
| `StaleRelease` | MCTaskQueue | `ReleasedTaskIsFinished`: a pass writes "completed" over a head that was resumed after the pass listed it |
| `LockRace` | MCWorkspaceLock | `MutualExclusion` between two processes: both find the same stale lock; on Windows, `MutualExclusion` and `ReleaseFreesWorkspace` within one process: a caller removes the lock of another as stale |
| `DoubleResume` | MCRunDispatch | `Interruptible`: the second of two resumes takes the first one's place in the active map |
| `WorkerFindings` | MCWorkerRun | `RunSeesBaseline`: a removal between look-up and use of a lock object lets two requests hold different locks; `RetryResolves`: an acknowledgement repeated while the first is still carried out is answered as a changed patch |
| `PullRace` | MCSandboxSync | `LocalWorkIsKept`: an edit between comparison and rename |
| `ShownFromStart` | MCRuntimeStream | `ShownFromStart`: a delta queued before the window's load is applied first, and the snapshot of the same revision that holds the whole text is dropped; `StoredIsShown`: of a log beyond 10,000 events a window opened after the run does not show the rest |
| `UpdateFindings` | MCAppUpdate | `ProvenVersionKept`: the copy of the old installation is removed although copying it back failed; with two desktops, two helpers share one `.old` |
| `MobileFindings` | MCMobileRuns | `HistoryKept`: an import cut half way and then adopted as the host's run; `ScrollbackIsKept`: a poll over newer pages; `DeleteReachesHost`: a deletion sent to a worker of unknown address; `DeletedStaysDeleted`: a run deleted while it is uploaded comes back |
| `MissedPage` | MCMobileRuns | `RunsAreKept` with more runs than a page of the listing: a run that moves between two pages is swept |

Where such a file names several statements or values, one is active and the
others are comments to exchange it with. Each statement is quoted from the repository in
`PROJECT.json` "findings", as a fault of the code or as something said that the
code does not promise.

`WhatIsToldIsTrue` says as much of an answer as the code can know. That success means
Codex has a blocking answer, or will read it and want it (`SuccessReachesCodex`), is
no finding: `docs/codex-user-input.md:16` says that such an answer counts as given
when it is written, `event.go:136` calls it transport acceptance. `MCUserInput.cfg`
has the statement as a comment; it is violated when Codex closes its question and
the loop takes an answer before it reads that.

### Bounds and why they are enough

*scheduler, loop.* `MCRunScheduler` is the smallest graph in which steps run in
parallel and rework from two edges meets in one target: impl, then revA and revB,
each of which may send back to impl. One instruction that names no step, one
rework round per edge, two consecutive failures, two steps at once, at most one
resume and one crash. The two reviewers are interchangeable (no property names
one), so they are declared symmetric; the run checks no liveness. `MCRunLoop` is
impl and check with one rework edge, a loop flag the user may change and guidance
addressed to impl; it checks liveness and uses no symmetry. One resume reaches
every state a resumed drive can be in from every way a run stops, and the crash
may come before or after it; one rework round per edge reaches both a send-back
and an exhausted edge; two failures reach a retry and the limit. One instruction
takes each of its modes; the guidance properties speak of each alone. The
concurrency limit does not bite in these graphs; it is a parameter of the proofs.

*task_queue.* Two tasks that are enqueued and one that is started at once: one
waits behind a head, one behind both. `MaxEvents` = 1 bounds resumes,
cancellations, deletions, crashes and unwritten ends of drives together; two also
pass (1.7 million states, 5 minutes). `MaxWanted` = 2: passes are serialised and
each begins by listing the records, so callers beyond the second change nothing.

*lock.* Three callers: two that contend while a third crashes into them. Three
process ids and three launches: an id can be given to a stranger, come back, and
be given to the next launch. One process, and signals that probe; two processes,
and Windows, are the subject of `LockRace`.

*worker.* Two runs, two revisions, one fault. Two runs are what it takes for one's
patch to contain the other's work. `RemovalRaces` = FALSE excludes exactly a
removal between a request's look-up of the lock object and its use, which
`WorkerFindings` allows.

*sandbox_sync.* Two files (one may be in conflict while the other is not), three
writes, two faults. `RenameRaces` = FALSE excludes exactly an edit between the
last comparison and the rename, which `PullRace` allows.

*dispatch.* Two clients, two messages, two goroutine slots, two waiting hooks.
The wait for an interrupted turn may time out (`PollExpires`). `OneResume` = TRUE
excludes exactly two resumes that both pass the test, which `DoubleResume` allows.

*stream.* Two tokens, so that a text can be half there; two openings of the
window, the second with an empty transcript while frames of the first are queued;
one loading goroutine at a time; one fault: a failed write, a failed load or a crash.
Where the listing ends is left open at each write, and costs no fault.

*user_input.* Two calls, both hosts, both kinds of question. One question: the
tables are keyed by a question's id, and no call names two. Codex writes at most
four lines about it, so the reader's 16 never bind.

*app_update.* Three versions: installed, downloaded, and a newer one published
meanwhile; two failures, of which a check or download that empties the cache behind
an Apply uses one. `OneInstance` = TRUE and `CopyBackFails` = FALSE exclude
what the two halves of `UpdateFindings` allow.

*mobile.* One run made on either side, a poll and another request of the reader
at a time, one fault. With pages of one event and three events a gap between pages is
possible. `ListLimit` = 2 and `CutUploads` = FALSE exclude what `MissedPage` and
`MobileFindings` allow.

Counters are guards of the actions they count, so a behaviour that has used them
up ends in a stopped system. For that reason, and because runs, queues, locks and
turns really stop, deadlock is checked only where the environment never runs out
of steps: sandbox_sync and app_update.

### Fairness

- *RunScheduler*: the scheduler goroutine goes on while its process lives (it
  blocks only on the result channel and files), and a step's goroutine reports:
  its context carries the step timeout, and the runtimes stop their process when
  it ends. Nothing is asked of the user, of refused settings or of crashes.
  `RoundEnds` is stated up to "the drive ends or a round completes", because a
  loop may go on for ever.
- *TaskQueue*: some goroutine of the service that can move does; they block on
  queueMu, which the holder gives back, and on files. Nothing is asked of agents,
  users or recovery.
- *WorkerRun*: requests are served, the desktop goes on with what it received,
  and a call that lost its answer is retried or given up.
- *SandboxSync*: the turn's own steps, and the user submits again; edits, stops
  and recreations are bounded faults, so `Converges` is about what follows them.
- *RunDispatch*: strong fairness for calls and for the completion hook, because
  Go's mutex hands itself to a waiter that has starved for a millisecond; weak
  fairness for executions, polls and dispatches.
- *RuntimeStream*: the collector's timers fire; the window drains its frames,
  its loads and its queue. The agent may stop speaking at any point.
- *UserInput*: the turn loop, the asker and Codex's acknowledgement of a steered
  answer go on; the loop leaves a turn whose run was stopped (an approval that
  blocks the loop ends with the run's context, so with the step's timeout at the
  latest); a call hears what was put into its channel or that its entry was closed.
  Codex need not read a blocking answer or end its turn, and nobody must answer.
- *AppUpdate*: a started desktop shows its window unless its version is one that
  does not, a quitting one exits, a helper's next step happens.
- *MobileRuns*: a sync goes on and an import and an answer come, or fail;
  strong fairness for a poll of the run, since the phone polls
  its list and open conversation every few seconds for as long as it is open. The one
  run of the configuration stands for the conversation that stays open; of a run that
  is not open only the list is polled, so only its status would follow. How long a run
  takes, and what the reader does, is left open.

## 4. Proofs

54 theorems, all listed in `PROJECT.json`, and 401 lemmas in eight modules, 11909
obligations. Each holds for
every value of the constants that the assumption of the module allows: any valid
graph and limits, any number of instructions, tasks, callers, clients, runs,
files, tokens, versions, any size of a page, and any bound on faults.

### Hypotheses

Some theorems assume that one thing does not happen. Each of these hypotheses is a
condition on constants, and a configuration of section 3 shows the statement
violated without it.

| hypothesis | excludes | without it |
|---|---|---|
| `OneProcess` (all callers in one process) | two processes contending for a lock | `LockRace` |
| `SignalsProbe` (signal 0 tells the living from the dead) | Windows, where it always fails | `LockRace`, its second group |
| `OneResume` | two resumes that both pass the test | `DoubleResume` |
| `~RemovalRaces` | a removal between look-up and use of a lock object | `WorkerFindings` |
| `~RenameRaces` | an edit between the last comparison and the rename | `PullRace` |
| `NoLoops` (the outer loop stays off) | a refused next round | `RefusedRound` |
| `OneInstance`, `~CopyBackFails` | two desktops; an installer's directory that cannot be copied back | `UpdateFindings` |
| `~CutUploads` | a connection that breaks while the host writes an import | `MobileFindings` |
| `OnePage` (no more runs than a page of the listing) | a listing read in several pages | `MissedPage` |

### Theorems and their arguments

The invariants named below stand at the end of their component's module, say why
its properties hold, and were checked by TLC before they were proved.
Each proof has one lemma or step per action.

**RunSchedulerProofs**

- `SinkExists`, and `FirstExists` (any non-empty set of steps has a first member),
  by finite-set cardinality along `Descendants`, which shrinks along an edge of an
  acyclic graph. Then what each engine function keeps: types, which nodes change
  and how, and that inboxes only grow except where a verdict settles.
- `InvCorrect`, `TypeCorrect`, `CompletionCorrect`, `NodeStatusCorrect`. Neither
  completion nor node status is inductive by itself: a result could be received by
  a drive that is not scheduling, or a batch be started for a run that has
  stopped. `ControlInv` adds which run statuses each point of the drive allows,
  that only a scheduling drive has goroutines, and that a drive about to enter has
  no node left running.
- `GuidanceCorrect` from `ClaimInv`, which says where a claim may wait for its
  write and that an unread message sits with a step *not in flight*, so that
  the next attempt gets it before a verdict can clear it. The claim needs
  `SinkSteps # {}`: guidance claimed when the graph is exhausted has a receiver.
  `RestartCorrect`, `InboxCorrect` and `FollowUpCorrect` are action properties
  from the same invariants.
- `RecordInvCorrect` and `NoMailCorrect`. That a run reported finished has no
  unread message is about an idle drive; `RecordInv` says what led there: what run,
  task, ending and inboxes say of each other while the drive settles, and that
  between drives a completed task with a completed run has read everything.
- `LifecycleImplemented`: every step of the scheduler is a step of RunLifecycle or
  a stutter. One lemma per kind of action names the abstract step; `RecordInv`
  supplies its guard (what the run and the task are when the driver's state maps to
  "entering", "driving", "leaving").
- `PausedWorkCorrect`, from `WorkInv`: what pauses a run leaves a step unpassed
  *outside those in flight*, so the results still to come cannot pass it, and a
  drive that starts or has claimed has no pause reason left over.

**WorkspaceProofs**, the queue

- `QueueInvCorrect`, and from it `QueueTypeCorrect`, `HeadCorrect`,
  `WaitingCorrect` and `FifoCorrect`. The pass decides from `seen` while `tasks`
  changes, so each property needs to say how the two stay related. `HeadInv`: while
  a pass releases, every head on disk is on its list as a head, so that a list with
  no head left means none on disk; once it has chosen, only the chosen task can be
  the head. `LineInv`: places are given once, in order, and a task that waits is on
  the list or behind everything on it, so the first of the list is the first of
  all. `RunInv`: a task that waits has no run, so no status a run writes concerns
  it. Most actions are `Quiet` (no place changes, the pass keeps its list or ends);
  five are not, and each has its step.
- `FifoImplemented`: the passes implement FifoQueue. The abstract line is the set
  of waiting records, its head the record whose queue state is active. `ListInv`
  adds what the mapping of a write from an old list needs: a record the pass lists
  in the line is still where the list has it while it releases, and the chosen
  task is first when it is started.

**WorkspaceProofs**, the lock (`OneProcess`; for the two properties also
`SignalsProbe`)

- `LockInvCorrect`, `MutualExclusionCorrect`. `LockInv` says who is inside
  `Manager.mu` and whose the file is, and, if signals probe, that a file with a
  holder was written by that holder under the id its process still has, and that a
  caller about to remove a stale file removes one that nobody holds: a stale file
  then names a dead id, and the id of one's own process is never dead. On Windows
  that last step fails, and with it both properties.
- `ReleaseCorrect`: the step in which a holder becomes idle is the unlink of its own
  file, since no other caller of the process gets past `Manager.mu` between check and
  unlink.

**ClientProofs**, the desktop

- `TypeCorrect`; `DispatchCorrect` and `InterruptibleCorrect` (`OneResume`).
  `DispatchInv` strengthens "what executes is registered" to *every* goroutine
  that still exists, up to its deferred end, and adds that at most one caller is
  between the test of a resume and the dispatch, while the entry is empty: then a new
  entry never covers an old one. The completion hook holds `followUpMu`, so it is a
  caller like any other.

**ClientProofs**, the phone (`~CutUploads`)

- `MobileCorrect`, `ShownCorrect`, `HistoryCorrect`; `KeptCorrect` (also `OnePage`).
  First what the operators on pages yield: the page of a transcript, the join of a
  cached page with a newer one and of an earlier page with the cached ones are
  each one stretch of the transcript (`PageFits`, `MergeFits`, `EarlierFits`), and a
  stretch of a run remains one as the run grows (`PieceStays`). Then the parts of
  `MobileInv`. `ImportInv`: a record without the mark of a whole import is the one
  being written, and a marked one has all events the phone made. `LocalInv`: the host
  has nothing of a run while it still runs on the phone, and runs.json differs from
  memory only in such runs. `CallInv`: a request copies, and an answer carries, a
  stretch of a run that the host has. `ListInv`: what is listed was there, and what
  is shown but neither listed nor fresh is gone from the host, which is what lets
  the sweep delete it. The parts need each other: a sync makes a run of the phone a
  shared one, so that `ShownInv` rests on `ImportInv` and `LocalInv`; and a refresh that
  `SameCached` does not write down loses nothing only because both pages are
  stretches of one transcript.

**WorkerRunProofs**

- `TypeCorrect`; `WorkerCorrect`, `PatchCorrect`, `BaselineCorrect`, `WorkCorrect`
  (`~RemovalRaces`). `LockInv`: whoever is inside has found the lock object there is
  and holds it, and two holders both share it. `DeskInv`: where the desktop stands for
  what it has received, and that an acknowledgement is sent only for what is applied.
  `TreeInv`: while a run is inside, tree and dirt are its own; an acknowledgement that
  matched finds the patch still pending or comes after another has done its work.
  Writers and readers, acknowledgements cut at each git command and restarts each
  have their lemmas.

**SandboxSyncProofs**

- `TypeCorrect`, `SyncCorrect`, `StartCorrect`, `RemoteCorrect` hold without
  hypothesis, `RenameCorrect` and `LocalCorrect` under `~RenameRaces`. `SyncInv` follows the manifest
  through the turn: the replica is what it says until the upload, as long as it is
  the replica the turn began with (`Online`); the baseline approaches it file by
  file; during the upload what was sent is there and the rest is still what was
  seen. `AgentInv` keeps an agent of an earlier turn from working meanwhile.

**RuntimeStreamProofs**

- `TypeCorrect`, `StreamCorrect`, `RevisionCorrect`, `EndedCorrect` and
  `RollBackCorrect`, without hypothesis. A text is on its way in many copies: the
  collector's two buffers, the disk, the hub's snapshot, frames queued or taken, a
  load half read or posted, the window. `OrderInv` puts them in one order: of any two
  a window may come to know, the one with the larger revision reaches at least as
  far, and a frame starts no later than where the frame before it ended.
  What a load lists is one more copy of what is known, which may stop behind the
  disk's and is never ahead of it in that order.
  `CollectorInv` says what the two ends hold: the hub has what was flushed, the
  disk and the unwritten batch together are what was said unless a write failed,
  and a closed collector keeps nothing back. `EndInv`: nothing counts as ended
  before it is whole. Every step is one of four: the agent speaks, a
  crash, a quiet step (the window comes to show what something already known says),
  or an advance of the hub or the disk; each kind has its lemmas.

**UserInputProofs**

- `QuestionCorrect`, `ToldCorrect`, `EndCorrect`, without hypothesis. `QuestionInv`
  relates four parties that share no lock for their whole way: the turn's loop, the
  goroutine that asks, the entries of the table and the calls. Its centre is that one
  answer exists at a time: at an entry's channel, in the asker's hand, in the loop's
  channel, or written to Codex, and that its caller is told at the step where it
  is acted on or can no longer be. Two pipes lie between the loop and Codex, and
  nothing relates what waits in one to what waits in the other; `LoopInv` says only
  what each side knows: a blocking answer is written in the step that finishes the
  question and is refused by a Codex that has closed it or is past its turn, while a
  steered one is acknowledged before the question is finished, unless the loop leaves
  the turn before.

**AppUpdateProofs**

- `TypeCorrect`; `UpdateCorrect` and `ForwardCorrect` (`OneInstance`), `KeptCorrect`
  (also `~CopyBackFails`). `UpdateInv`: at most one process and its helper are
  there; a desktop runs what is installed; and a helper, from the desktop that
  started it to its end, has a version that has opened either in place or aside.
  `KeptCorrect` is inductive relative to it: a damaged installation is only ever the
  work of a helper whose backup is such a version, and what a helper leaves behind
  when it fails counts as kept.

`AtMostOneHead`, `WaitingNeverRan`, `QueueIsFifo` and `OnlyResumeRestarts` are
proved though no run lists them; the runs check them through `ImplementsFifo` and
`ImplementsLifecycle`, which say more.

### Only model-checked

Liveness, which is out of the prover's reach: `RoundEnds`, `InterruptStops`,
`QueueMoves`, `RemoteRunEnds`, `Converges`, `FollowUpStarts`, `CallsReturn`,
`SaidIsStored`, `EndIsShown`, `AppComesBack` and `PhoneCatchesUp`. Every invariant
and every action property of the runs is proved.

## 5. Plan

Next are parts that are modelled in part only: the completion of a run as
RunScheduler and RunDispatch each see it, as one refinement; the permissions a
remote reader decides; a listing of several pages in MobileRuns, with what the
sweep would have to know to be right.

## 6. Not modelled

- The verdict protocol, prompts and command steps compose and parse text; the
  scheduler sees only the kind of result, and every kind is offered.
- The runtimes' adapters, SSH, the remote file system, git, worktrees, terminal
  and language servers are I/O around external programs. Their size is most of
  the repository together with the user interface, of which only the window's
  join of loads and frames keeps state that other parts depend on.
- Settings, templates, skills and the local store read and write whole files for
  one user.
- Of modelled components: the run index and archives (rebuilt from the run
  files), changes of a definition between attempts, whole-record edits of a
  task's title and pin, permissions (the table of UserInput with a simpler
  asker), the hub that coalesces state changes, the worker's caps on slots and
  remembered acknowledgements, registration, pairing and forwarding, the phone's
  reconnection and discovery. Security policy is out of scope.

## Running

    tlc -config MCRunScheduler.cfg MCRunScheduler      # likewise each MCX.cfg with MCX
    tlc -config InsertStarts.cfg MCRunDispatch
    tlc -config MobileFindings.cfg MCMobileRuns
    tlc -config UpdateFindings.cfg MCAppUpdate
    tlapm RunSchedulerProofs.tla                       # likewise each *Proofs.tla
