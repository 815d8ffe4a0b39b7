------------------------------- MODULE WorkerRun ------------------------------
(***************************************************************************)
(* Remote runs in one workspace of a worker: the requests the worker's     *)
(* HTTP server handles concurrently (internal/service/worker/server.go,    *)
(* sync.go) and the desktop that prepares the workspace, reads the stream, *)
(* applies the patch to its own checkout and acknowledges it               *)
(* (internal/service/desktop/workers.go).                                  *)
(*                                                                         *)
(* A run's work is a set of changes: to tracked files, which git reset     *)
(* takes back, and new files, which git clean takes away. The owner of the *)
(* checkout commits and edits. A lost stream, a lost or late               *)
(* acknowledgement, an acknowledgement cut between two git commands, a     *)
(* removed mapping and a restart of the worker can happen anywhere.        *)
(***************************************************************************)
EXTENDS Naturals, FiniteSets

CONSTANTS
  Runs,          \* remote runs; every one has an id of its own
  MaxRevision,   \* bound: revisions of the project
  MaxFaults,     \* bound: edits, cuts, refusals, removals, restarts together
  RemovalRaces   \* bound: a removal may come between a request's look-up of
                 \* the workspace's lock and its use

ASSUME WorkerAssumption ==
  /\ IsFiniteSet(Runs)
  /\ MaxRevision \in Nat \ {0}
  /\ MaxFaults \in Nat
  /\ RemovalRaces \in BOOLEAN

VARIABLES
  mapped,    \* the workspace is in the worker's registry
  tree,      \* the revision the worker's working tree is at
  dirt,      \* changes in it
  object,    \* the lock object of the workspace; a removal drops it
  held,      \* locks held: by whom, on which object, shared or not
  running,   \* runs registered as in flight
  pending,   \* changes of the patch each run waits to have acknowledged
  acked,     \* runs whose patch was acknowledged
  server,    \* where the execute request of each run is
  lock,      \* the lock object a request has looked up
  ack,       \* where each acknowledgement request is: first and retry
  client,    \* where the desktop is with each run
  received,  \* changes of the patch the desktop has received
  base,      \* the revision each run started from
  writer,    \* runs whose agent may write
  applied,   \* changes that have reached the desktop's checkout
  head,      \* the revision the checkout is at
  clean,     \* it holds nothing that is not committed
  prep,      \* where the preparation of the workspace is
  ready,     \* it succeeded in the last seconds
  removal,   \* where a removal of the mapping is
  faults     \* counter of the bound

treeVars   == <<mapped, tree, dirt>>
memoryVars == <<running, pending, acked>>
lockVars   == <<object, held, lock>>
copyVars   == <<applied, head, clean>>
deskVars   == <<client, received, base, writer, copyVars>>
adminVars  == <<prep, ready, removal>>
vars == <<treeVars, memoryVars, lockVars, server, ack, deskVars, adminVars, faults>>

Changes == Runs \X {"tracked", "new"}
Acks == Runs \X {1, 2}
Revisions == 1..MaxRevision

\* Who may ask for the workspace's lock.
Execute(r) == <<"execute", r>>
Acknowledge(a) == <<"ack", a>>
Preparation(v) == <<"prepare", v>>
Removal == <<"remove">>
Requests == {Execute(r) : r \in Runs} \cup {Acknowledge(a) : a \in Acks}
              \cup {Preparation(v) : v \in Revisions} \cup {Removal}

TypeOK ==
  /\ mapped \in BOOLEAN
  /\ dirt \in SUBSET Changes
  /\ object \in Nat
  /\ \A h \in held : h.who \in Requests /\ h.object \in Nat /\ h.shared \in BOOLEAN
  /\ running \in SUBSET Runs
  /\ pending \in [Runs -> SUBSET Changes]
  /\ acked \in SUBSET Runs
  /\ server \in [Runs -> {"none", "arrived", "found", "tracked", "running", "ended", "built", "told"}]
  /\ lock \in [Requests -> Nat]
  /\ ack \in [Acks -> {"none", "sent", "matched", "rebuilt", "reset", "cleaned", "ok", "refused"}]
  /\ client \in [Runs -> {"idle", "preparing", "prepared", "streaming", "applying", "acking",
                          "retrying", "done", "failed", "unacknowledged"}]
  /\ received \in [Runs -> SUBSET Changes]
  /\ base \in [Runs -> Revisions] /\ writer \in SUBSET Runs /\ head \in Revisions /\ tree \in Revisions
  /\ applied \in SUBSET Changes /\ clean \in BOOLEAN
  /\ prep \in [Revisions -> {"none", "asked", "waiting", "holding"}]
  /\ ready \in [Revisions -> BOOLEAN]
  /\ removal \in {"none", "found"}
  /\ faults \in 0..MaxFaults

\* A paired worker that has served the workspace before.
Init ==
  /\ mapped = TRUE /\ tree = 1 /\ dirt = {}
  /\ object = 1 /\ held = {} /\ lock = [q \in Requests |-> 0]
  /\ running = {} /\ pending = [r \in Runs |-> {}] /\ acked = {}
  /\ server = [r \in Runs |-> "none"]
  /\ ack = [a \in Acks |-> "none"]
  /\ client = [r \in Runs |-> "idle"] /\ received = [r \in Runs |-> {}]
  /\ base = [r \in Runs |-> 1] /\ writer = {} /\ head = 1 /\ applied = {} /\ clean = TRUE
  /\ prep = [v \in Revisions |-> "none"] /\ ready = [v \in Revisions |-> FALSE]
  /\ removal = "none"
  /\ faults = 0

Fault == faults < MaxFaults /\ faults' = faults + 1

-------------------------------------------------------------------------------
(***************************************************************************)
(* The workspace's lock: a sync.RWMutex in a map. Requests look it up and  *)
(* take it later; a removal deletes the entry and the next preparation     *)
(* makes a new one.                                                        *)
(***************************************************************************)
\* Fault: writers exclude writers only.
FreeToOwnOverReaders(q) == \A h \in held : h.object = lock[q] => h.shared

FreeToShare(q) == \A h \in held : h.object = lock[q] => h.shared
FreeToOwn(q) == \A h \in held : h.object # lock[q]

Hold(q, shared) == held' = held \cup {[who |-> q, object |-> lock[q], shared |-> shared]}
\* Fault: one return path does not unlock.
UnlockSome(q) == held' = {h \in held : h.who # q \/ h.who[1] = "ack"}

Unlock(q) == held' = {h \in held : h.who # q}
LookUp(q) == lock' = [lock EXCEPT ![q] = object]

\* ensureWorkspaceLock: the lock there is, or a new one.
Ensured ==
  IF object # 0 THEN object
  ELSE CHOOSE n \in 1..(1 + Cardinality(Requests)) : \A q \in Requests : lock[q] # n

InUse == running # {} \/ \E r \in Runs : pending[r] # {}

-------------------------------------------------------------------------------
(***************************************************************************)
(* Preparation. Concurrent callers for a revision share one request and    *)
(* its outcome; a success counts for five seconds.                         *)
(***************************************************************************)
Waiters(v) == {r \in Runs : client[r] = "preparing" /\ base[r] = v}

Begin(r) ==
  /\ client[r] = "idle"
  /\ base' = [base EXCEPT ![r] = head]
  /\ writer' \in {writer, writer \cup {r}}
  /\ client' = [client EXCEPT ![r] = IF ~clean THEN "failed"
                                     ELSE IF ready[head] THEN "prepared" ELSE "preparing"]
  /\ prep' = [prep EXCEPT ![head] = IF clean /\ ~ready[head] /\ @ = "none" THEN "asked" ELSE @]
  /\ UNCHANGED <<treeVars, memoryVars, lockVars, server, ack, received, copyVars, ready, removal, faults>>

Prepared(done, success) ==
  /\ client' = [r \in Runs |-> IF \E v \in done : r \in Waiters(v)
                               THEN IF success THEN "prepared" ELSE "failed"
                               ELSE client[r]]
  /\ prep' = [v \in Revisions |-> IF v \in done THEN "none" ELSE prep[v]]
  /\ ready' = [v \in Revisions |-> IF v \in done THEN success ELSE ready[v]]
  /\ UNCHANGED <<received, base, writer, copyVars>>

\* workspaceInUse, then ensureWorkspaceLock.
PrepareLookup(v) ==
  /\ prep[v] = "asked"
  /\ IF InUse
     THEN Prepared({v}, FALSE) /\ UNCHANGED <<object, lock>>
     ELSE /\ object' = Ensured
          /\ lock' = [lock EXCEPT ![Preparation(v)] = object']
          /\ prep' = [prep EXCEPT ![v] = "waiting"]
          /\ UNCHANGED <<deskVars, ready>>
  /\ UNCHANGED <<treeVars, memoryVars, held, server, ack, removal, faults>>

\* Under the lock it looks again, and git refuses a dirty working tree.
PrepareBegin(v) ==
  /\ prep[v] = "waiting"
  /\ FreeToOwn(Preparation(v))
  /\ IF InUse \/ dirt # {}
     THEN Prepared({v}, FALSE) /\ UNCHANGED held
     ELSE /\ prep' = [prep EXCEPT ![v] = "holding"]
          /\ Hold(Preparation(v), FALSE)
          /\ UNCHANGED <<deskVars, ready>>
  /\ UNCHANGED <<treeVars, memoryVars, object, lock, server, ack, removal, faults>>

\* The revision is checked out; the mapping is saved, and its lock kept or made.
PrepareEnd(v) ==
  /\ prep[v] = "holding"
  /\ tree' = v
  /\ mapped' = TRUE
  /\ object' = Ensured
  /\ Unlock(Preparation(v))
  /\ Prepared({v}, TRUE)
  /\ UNCHANGED <<dirt, memoryVars, lock, server, ack, removal, faults>>

Expire(v) ==
  /\ ready[v]
  /\ ready' = [ready EXCEPT ![v] = FALSE]
  /\ UNCHANGED <<treeVars, memoryVars, lockVars, server, ack, deskVars, prep, removal, faults>>

RemoveLookup ==
  /\ removal = "none" /\ mapped
  /\ Fault
  /\ LookUp(Removal)
  /\ removal' = "found"
  /\ UNCHANGED <<treeVars, memoryVars, object, held, server, ack, deskVars, prep, ready>>

Remove ==
  /\ removal = "found"
  /\ FreeToOwn(Removal)
  /\ \/ RemovalRaces
     \/ (\A r \in Runs : server[r] # "found") /\ (\A v \in Revisions : prep[v] # "waiting")
  /\ IF InUse
     THEN UNCHANGED <<mapped, object>>
     ELSE mapped' = FALSE /\ object' = 0
  /\ removal' = "none"
  /\ UNCHANGED <<tree, dirt, memoryVars, held, lock, server, ack, deskVars, prep, ready, faults>>

-------------------------------------------------------------------------------
(***************************************************************************)
(* The execute request.                                                    *)
(***************************************************************************)
Send(r) ==
  /\ client[r] = "prepared"
  /\ client' = [client EXCEPT ![r] = "streaming"]
  /\ server' = [server EXCEPT ![r] = "arrived"]
  /\ UNCHANGED <<treeVars, memoryVars, lockVars, ack, received, base, writer, copyVars, adminVars, faults>>

\* An error instead of a stream: the client returns it.
Refuse(r) ==
  /\ server' = [server EXCEPT ![r] = "none"]
  /\ client' = [client EXCEPT ![r] = IF @ = "streaming" THEN "failed" ELSE @]
  /\ UNCHANGED <<received, base, writer, copyVars>>

Lookup(r) ==
  /\ server[r] = "arrived"
  /\ IF mapped
     THEN LookUp(Execute(r)) /\ server' = [server EXCEPT ![r] = "found"] /\ UNCHANGED deskVars
     ELSE Refuse(r) /\ UNCHANGED lock
  /\ UNCHANGED <<treeVars, memoryVars, object, held, ack, adminVars, faults>>

\* A free slot, and the run is registered; worker_busy when the runs of other
\* workspaces hold every slot.
Track(r) ==
  /\ server[r] = "found"
  /\ \/ /\ running' = running \cup {r}
        /\ server' = [server EXCEPT ![r] = "tracked"]
        /\ UNCHANGED <<deskVars, faults>>
     \/ Fault /\ Refuse(r) /\ UNCHANGED running
  /\ UNCHANGED <<treeVars, pending, acked, lockVars, ack, adminVars>>

\* Fault: the baseline of the workspace is not validated.
BaselineTrusted(r) == TRUE

\* validateWorkspaceBaseline: the tree is clean, at the revision prepared.
BaselineHolds(r) == dirt = {} /\ tree = base[r]

\* Under the lock the mapping must be the one looked up, the baseline clean.
Enter(r) ==
  /\ server[r] = "tracked"
  /\ IF r \in writer THEN FreeToOwn(Execute(r)) ELSE FreeToShare(Execute(r))
  /\ IF mapped /\ BaselineHolds(r)
     THEN /\ Hold(Execute(r), r \notin writer)
          /\ server' = [server EXCEPT ![r] = "running"]
          /\ UNCHANGED <<running, deskVars>>
     ELSE Refuse(r) /\ running' = running \ {r} /\ UNCHANGED held
  /\ UNCHANGED <<treeVars, pending, acked, object, lock, ack, adminVars, faults>>

Work(r) ==
  /\ server[r] = "running" /\ r \in writer
  /\ \E c \in Changes \ dirt : c[1] = r /\ dirt' = dirt \cup {c}
  /\ UNCHANGED <<mapped, tree, memoryVars, lockVars, server, ack, deskVars, adminVars, faults>>

\* The agent is done, was interrupted, ran out of time, or its client hung up.
AgentEnds(r) ==
  /\ server[r] = "running"
  /\ server' = [server EXCEPT ![r] = "ended"]
  /\ UNCHANGED <<treeVars, memoryVars, lockVars, ack, deskVars, adminVars, faults>>

\* buildWorkspacePatch: the whole difference to the baseline, kept and sent.
Build(r) ==
  /\ server[r] = "ended"
  /\ LET patch == IF r \in writer THEN dirt ELSE {}
     IN  /\ pending' = [pending EXCEPT ![r] = patch]
         /\ received' = [received EXCEPT ![r] = IF client[r] = "streaming" THEN patch ELSE @]
  /\ server' = [server EXCEPT ![r] = "built"]
  /\ UNCHANGED <<treeVars, running, acked, lockVars, ack, client, base, writer, copyVars, adminVars, faults>>

\* Git fails, the patch is too large or the agent has moved the revision: an
\* error frame, and the changes stay where they are.
BuildFails(r) ==
  /\ server[r] = "ended" /\ r \in writer
  /\ Fault
  /\ server' = [server EXCEPT ![r] = "built"]
  /\ UNCHANGED <<treeVars, memoryVars, lockVars, ack, deskVars, adminVars>>

\* What the client does when its stream has ended, with or without a last frame.
AfterStream(r) == IF received[r] = {} THEN "done" ELSE "applying"

Tell(r) ==
  /\ server[r] = "built"
  /\ server' = [server EXCEPT ![r] = "told"]
  /\ client' = [client EXCEPT ![r] = IF @ = "streaming" THEN AfterStream(r) ELSE @]
  /\ UNCHANGED <<treeVars, memoryVars, lockVars, ack, received, base, writer, copyVars, adminVars, faults>>

\* The deferred unlock, untrack and release of the slot.
Leave(r) ==
  /\ server[r] = "told"
  /\ server' = [server EXCEPT ![r] = "none"]
  /\ Unlock(Execute(r))
  /\ running' = running \ {r}
  /\ UNCHANGED <<treeVars, pending, acked, object, lock, ack, deskVars, adminVars, faults>>

\* The connection breaks, or the desktop's backstop closes it.
CutStream(r) ==
  /\ client[r] = "streaming"
  /\ Fault
  /\ client' = [client EXCEPT ![r] = AfterStream(r)]
  /\ UNCHANGED <<treeVars, memoryVars, lockVars, server, ack, received, base, writer, copyVars, adminVars>>

\* The worker has restarted: its end of the stream is gone.
StreamGone(r) ==
  /\ client[r] = "streaming" /\ server[r] = "none"
  /\ client' = [client EXCEPT ![r] = AfterStream(r)]
  /\ UNCHANGED <<treeVars, memoryVars, lockVars, server, ack, received, base, writer, copyVars, adminVars, faults>>

-------------------------------------------------------------------------------
(***************************************************************************)
(* The desktop applies the patch and acknowledges it, once more if the     *)
(* first acknowledgement fails or is not answered in time.                 *)
(***************************************************************************)
\* ApplyWorkspacePatch, on an untouched checkout only.
Apply(r) ==
  /\ client[r] = "applying"
  /\ IF clean /\ head = base[r]
     THEN /\ applied' = applied \cup received[r]
          /\ clean' = FALSE
          /\ client' = [client EXCEPT ![r] = "acking"]
          /\ ack' = [ack EXCEPT ![<<r, 1>>] = "sent"]
     ELSE /\ client' = [client EXCEPT ![r] = "failed"]
          /\ UNCHANGED <<applied, clean, ack>>
  /\ UNCHANGED <<treeVars, memoryVars, lockVars, server, received, base, writer, head, adminVars, faults>>

\* The owner of the checkout works in it, commits it and pushes.
Edit ==
  /\ clean
  /\ Fault
  /\ clean' = FALSE
  /\ UNCHANGED <<treeVars, memoryVars, lockVars, server, ack, client, received, base, writer, applied, head, adminVars>>

Commit ==
  /\ ~clean /\ head < MaxRevision
  /\ head' = head + 1 /\ clean' = TRUE
  /\ UNCHANGED <<treeVars, memoryVars, lockVars, server, ack, client, received, base, writer, applied, adminVars, faults>>

Acknowledged(r) ==
  /\ \/ client[r] = "acking" /\ ack[<<r, 1>>] = "ok"
     \/ client[r] = "retrying" /\ ack[<<r, 2>>] = "ok"
  /\ client' = [client EXCEPT ![r] = "done"]
  /\ UNCHANGED <<treeVars, memoryVars, lockVars, server, ack, received, base, writer, copyVars, adminVars, faults>>

\* Refused, or no answer within twenty seconds.
Retry(r) ==
  /\ client[r] = "acking"
  /\ \/ ack[<<r, 1>>] = "refused" /\ UNCHANGED faults
     \/ ack[<<r, 1>>] # "refused" /\ Fault
  /\ client' = [client EXCEPT ![r] = "retrying"]
  /\ ack' = [ack EXCEPT ![<<r, 2>>] = "sent"]
  /\ UNCHANGED <<treeVars, memoryVars, lockVars, server, received, base, writer, copyVars, adminVars>>

GiveUp(r) ==
  /\ client[r] = "retrying"
  /\ \/ ack[<<r, 2>>] = "refused" /\ UNCHANGED faults
     \/ ack[<<r, 2>>] # "refused" /\ Fault
  /\ client' = [client EXCEPT ![r] = "unacknowledged"]
  /\ UNCHANGED <<treeVars, memoryVars, lockVars, server, ack, received, base, writer, copyVars, adminVars>>

-------------------------------------------------------------------------------
(***************************************************************************)
(* The acknowledgement request.                                            *)
(***************************************************************************)
Answer(a, reply) == ack' = [ack EXCEPT ![a] = reply]

AckMatch(a) ==
  /\ ack[a] = "sent"
  /\ LET r == a[1]
     IN  IF pending[r] # {} /\ pending[r] = received[r] /\ mapped
         THEN LookUp(Acknowledge(a)) /\ Answer(a, "matched")
         ELSE Answer(a, IF pending[r] = {} /\ r \in acked THEN "ok" ELSE "refused") /\ UNCHANGED lock
  /\ UNCHANGED <<treeVars, memoryVars, object, held, server, deskVars, adminVars, faults>>

\* Fault: whatever is in the tree is taken for the patch.
SamePatchAssumed(r) == TRUE

\* worker_patch_changed, unless the tree still is what was delivered.
SamePatch(r) == dirt # {} /\ dirt = received[r] /\ tree = base[r]

AckRebuild(a) ==
  /\ ack[a] = "matched"
  /\ FreeToOwn(Acknowledge(a))
  /\ IF SamePatch(a[1])
     THEN Hold(Acknowledge(a), FALSE) /\ Answer(a, "rebuilt")
     ELSE UNCHANGED held /\ Answer(a, "refused")
  /\ UNCHANGED <<treeVars, memoryVars, object, lock, server, deskVars, adminVars, faults>>

AckReset(a) ==
  /\ ack[a] = "rebuilt"
  /\ dirt' = {c \in dirt : c[2] = "new"}
  /\ Answer(a, "reset")
  /\ UNCHANGED <<mapped, tree, memoryVars, lockVars, server, deskVars, adminVars, faults>>

AckClean(a) ==
  /\ ack[a] = "reset"
  /\ dirt' = dirt \ received[a[1]]
  /\ Answer(a, "cleaned")
  /\ UNCHANGED <<mapped, tree, memoryVars, lockVars, server, deskVars, adminVars, faults>>

\* Nothing else may be left; then the patch is no longer pending.
AckRecord(a) ==
  /\ ack[a] = "cleaned"
  /\ IF dirt = {}
     THEN /\ pending' = [pending EXCEPT ![a[1]] = {}]
          /\ acked' = acked \cup {a[1]}
          /\ Answer(a, "ok")
     ELSE Answer(a, "refused") /\ UNCHANGED <<pending, acked>>
  /\ Unlock(Acknowledge(a))
  /\ UNCHANGED <<treeVars, running, object, lock, server, deskVars, adminVars, faults>>

\* The client has gone: the request's context ends under the next git command.
AckCut(a) ==
  /\ ack[a] \in {"matched", "rebuilt", "reset", "cleaned"}
  /\ client[a[1]] # (IF a[2] = 1 THEN "acking" ELSE "retrying")
  /\ Unlock(Acknowledge(a))
  /\ Answer(a, "refused")
  /\ UNCHANGED <<treeVars, memoryVars, object, lock, server, deskVars, adminVars, faults>>

-------------------------------------------------------------------------------
\* The mapping is read back from the registry; everything else was memory.
Restart ==
  /\ Fault
  /\ running' = {} /\ pending' = [r \in Runs |-> {}] /\ acked' = {}
  /\ server' = [r \in Runs |-> "none"]
  /\ ack' = [a \in Acks |-> IF ack[a] \in {"none", "ok", "refused"} THEN ack[a] ELSE "refused"]
  /\ held' = {} /\ lock' = [q \in Requests |-> 0]
  /\ object' = IF mapped THEN 1 ELSE 0
  /\ removal' = "none"
  /\ Prepared({v \in Revisions : prep[v] # "none"}, FALSE)
  /\ UNCHANGED treeVars

-------------------------------------------------------------------------------
Serve ==
  \/ Remove
  \/ \E v \in Revisions : PrepareLookup(v) \/ PrepareBegin(v) \/ PrepareEnd(v)
  \/ \E r \in Runs : Lookup(r) \/ Track(r) \/ Enter(r) \/ AgentEnds(r) \/ Build(r) \/ Tell(r) \/ Leave(r)
  \/ \E a \in Acks : AckMatch(a) \/ AckRebuild(a) \/ AckReset(a) \/ AckClean(a) \/ AckRecord(a)

Desktop(r) == Send(r) \/ StreamGone(r) \/ Apply(r) \/ Acknowledged(r)

Settle(r) == Retry(r) \/ GiveUp(r)

Other ==
  \/ Edit \/ Commit \/ RemoveLookup \/ Restart
  \/ \E v \in Revisions : Expire(v)
  \/ \E r \in Runs : Begin(r) \/ Work(r) \/ BuildFails(r) \/ CutStream(r)
  \/ \E a \in Acks : AckCut(a)

Next == Serve \/ (\E r \in Runs : Desktop(r) \/ Settle(r)) \/ Other

Spec == Init /\ [][Next]_vars

(***************************************************************************)
(* The server and the desktop go on; a run ends at the latest when its     *)
(* time is up, and git commands return.                                    *)
(***************************************************************************)
FairSpec ==
  /\ Spec
  /\ WF_vars(Serve)
  /\ \A r \in Runs : WF_vars(Desktop(r)) /\ WF_vars(Settle(r))

-------------------------------------------------------------------------------
\* What a run changed leaves the worker's tree only when the desktop has it in
\* its checkout: no reset or clean for another run, a stale acknowledgement or
\* one cut half way takes away work that was not delivered.
WorkIsNotLost ==
  [][\A c \in dirt : c \notin dirt' => c \in applied]_vars

\* A patch the desktop receives, or the worker keeps for it, is the work of the run
\* it is for, whatever other runs left in the tree.
PatchIsOfOneRun == \A r \in Runs : \A c \in pending[r] \cup received[r] : c[1] = r

\* A run works on the revision the desktop was at when it began, and sees no
\* changes but its own, however long it waited for the workspace.
RunSeesBaseline ==
  \A r \in Runs : server[r] = "running" => tree = base[r] /\ \A c \in dirt : c[1] = r

\* Why that is so while no removal comes between a look-up and its use.  Who is
\* let in holds the lock there is, and a writer, a preparation or an
\* acknowledgement holds it alone.
Inside(r) == server[r] \in {"running", "ended", "built", "told"}
Cleaning(a) == ack[a] \in {"rebuilt", "reset", "cleaned"}
Has(q, shared) == [who |-> q, object |-> object, shared |-> shared] \in held
Found(q) == lock[q] = object /\ object # 0

LockInv ==
  /\ mapped => object # 0
  /\ removal = "found" => Found(Removal)
  /\ \A v \in Revisions :
       /\ prep[v] \in {"waiting", "holding"} => Found(Preparation(v))
       /\ prep[v] = "holding" => Has(Preparation(v), FALSE)
  /\ \A r \in Runs :
       /\ server[r] \in {"found", "tracked"} \/ Inside(r) => Found(Execute(r))
       /\ server[r] = "tracked" \/ Inside(r) => r \in running
       /\ Inside(r) => Has(Execute(r), r \notin writer)
  /\ \A a \in Acks : Cleaning(a) => Has(Acknowledge(a), FALSE)
  /\ \A h \in held :
       /\ h.object = object /\ object # 0
       /\ \A g \in held : g # h => g.shared /\ h.shared

\* Where the desktop must be for what it has received, sent and had answered.
DeskInv ==
  /\ \A r \in Runs :
       /\ server[r] # "none" => client[r] \notin {"idle", "preparing", "prepared"}
       /\ received[r] # {} => /\ client[r] \notin {"idle", "preparing", "prepared"}
                              /\ server[r] \in {"built", "told", "none"}
       /\ client[r] \in {"acking", "retrying"} => received[r] \subseteq applied
  /\ \A a \in Acks : ack[a] # "none" =>
       /\ client[a[1]] \in {"acking", "retrying", "done", "unacknowledged"}
       /\ received[a[1]] \subseteq applied

\* What is in the tree is of the run inside, or of the one whose patch is taken
\* back.  An acknowledgement that matches either finds the lock there is or comes
\* after another has done its work, and then nothing of its run is left.
TreeInv ==
  /\ \A r \in Runs : Inside(r) =>
       /\ tree = base[r]
       /\ \A c \in dirt : c[1] = r
       /\ r \notin writer => dirt = {}
  /\ \A r \in acked : received[r] # {} /\ \A c \in dirt : c[1] # r
  /\ \A a \in Acks :
       /\ ack[a] = "matched" \/ Cleaning(a) => received[a[1]] # {}
       /\ ack[a] = "matched" => a[1] \in acked \/ (pending[a[1]] = received[a[1]] /\ Found(Acknowledge(a)))
       /\ Cleaning(a) => dirt \subseteq received[a[1]] /\ pending[a[1]] = received[a[1]]

WorkerInv == LockInv /\ DeskInv /\ TreeInv /\ PatchIsOfOneRun

\* Every remote run the desktop starts comes to an end for its caller.
RemoteRunEnds ==
  \A r \in Runs : (client[r] = "preparing") ~> (client[r] \in {"done", "failed", "unacknowledged"})

\* "The endpoint is idempotent, so one bounded retry safely resolves that
\* ambiguous transport state": when the retry is answered, a run whose patch the
\* worker has recorded as acknowledged is not reported as unacknowledged.
RetryResolves ==
  \A r \in Runs : client[r] = "unacknowledged" /\ ack[<<r, 2>>] = "refused" => r \notin acked
===============================================================================
