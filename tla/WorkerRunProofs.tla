--------------------------- MODULE WorkerRunProofs ---------------------------
(***************************************************************************)
(* Theorems about WorkerRun, for every number of runs and revisions and    *)
(* every number of faults: its type invariant; that a patch is of one run, *)
(* that a run sees its baseline only, and that no work is lost, as long as *)
(* no removal comes between a request's look-up of the workspace's lock    *)
(* and its use.                                                            *)
(***************************************************************************)
EXTENDS WorkerRun, FiniteSetTheorems, TLAPS

(***************************************************************************)
(* Locks. There is always a number for a new one.                          *)
(***************************************************************************)
LEMMA RequestsFinite == IsFiniteSet(Requests)
<1>1. IsFiniteSet(Acks)
  <2>1. 1 \in Int /\ 2 \in Int /\ 1..2 = {1, 2}
    OBVIOUS
  <2>2. IsFiniteSet(1..2)
    BY <2>1, FS_Interval
  <2>3. IsFiniteSet({1, 2})
    BY <2>1, <2>2
  <2> QED
    BY <2>3, WorkerAssumption, FS_Product DEF Acks
<1>2. IsFiniteSet(Revisions)
  BY WorkerAssumption, FS_Interval DEF Revisions
<1>3. IsFiniteSet({Execute(r) : r \in Runs})
  BY WorkerAssumption, FS_Surjection,
     [r \in Runs |-> Execute(r)] \in Surjection(Runs, {Execute(r) : r \in Runs})
  DEF Surjection
<1>4. IsFiniteSet({Acknowledge(a) : a \in Acks})
  BY <1>1, FS_Surjection,
     [a \in Acks |-> Acknowledge(a)] \in Surjection(Acks, {Acknowledge(a) : a \in Acks})
  DEF Surjection
<1>5. IsFiniteSet({Preparation(v) : v \in Revisions})
  BY <1>2, FS_Surjection,
     [v \in Revisions |-> Preparation(v)] \in Surjection(Revisions, {Preparation(v) : v \in Revisions})
  DEF Surjection
<1>6. IsFiniteSet({Removal})
  BY FS_Singleton
<1> QED
  BY <1>3, <1>4, <1>5, <1>6, FS_Union DEF Requests

LEMMA EnsuredLock ==
  ASSUME TypeOK
  PROVE  /\ Ensured \in Nat \ {0}
         /\ object # 0 => Ensured = object
<1> DEFINE N == 1..(1 + Cardinality(Requests))
<1>1. lock \in [Requests -> Nat] /\ object \in Nat
  BY DEF TypeOK
<1>2. \E n \in N : \A q \in Requests : lock[q] # n
  <2> SUFFICES ASSUME \A n \in N : \E q \in Requests : lock[q] = n
               PROVE  FALSE
    OBVIOUS
  <2> DEFINE owner == [n \in N |-> CHOOSE q \in Requests : lock[q] = n]
  <2>1. owner \in [N -> Requests] /\ \A n \in N : lock[owner[n]] = n
    OBVIOUS
  <2>2. Cardinality(Requests) \in Nat
    BY RequestsFinite, FS_CardinalityType
  <2>3. IsFiniteSet(N) /\ Cardinality(N) = 1 + Cardinality(Requests)
    BY <2>2, FS_Interval
  <2> HIDE DEF owner, N
  <2>4. Cardinality(Requests) < Cardinality(N)
    BY <2>2, <2>3
  <2>5. \E x, y \in N : x # y /\ owner[x] = owner[y]
    BY <2>1, <2>3, <2>4, RequestsFinite, FS_PigeonHole
  <2> QED
    BY <2>1, <2>5
<1>3. Cardinality(Requests) \in Nat
  BY RequestsFinite, FS_CardinalityType
<1> QED
  BY <1>1, <1>2, <1>3 DEF Ensured

-------------------------------------------------------------------------------
(***************************************************************************)
(* The type invariant.                                                     *)
(***************************************************************************)
LEMMA PreparedTypes ==
  ASSUME TypeOK, NEW done \in SUBSET Revisions, NEW success \in BOOLEAN, Prepared(done, success)
  PROVE  /\ client' \in [Runs -> {"idle", "preparing", "prepared", "streaming", "applying", "acking",
                                  "retrying", "done", "failed", "unacknowledged"}]
         /\ prep' \in [Revisions -> {"none", "asked", "waiting", "holding"}]
         /\ ready' \in [Revisions -> BOOLEAN]
         /\ UNCHANGED <<received, base, writer, copyVars>>
BY DEF TypeOK, Prepared

\* What a request adds to the locks held, and what it takes back.
LEMMA HoldTypes ==
  ASSUME TypeOK, NEW q \in Requests, NEW shared \in BOOLEAN, Hold(q, shared)
  PROVE  \A h \in held' : h.who \in Requests /\ h.object \in Nat /\ h.shared \in BOOLEAN
<1> DEFINE new == [who |-> q, object |-> lock[q], shared |-> shared]
<1>1. new.who \in Requests /\ new.object \in Nat /\ new.shared \in BOOLEAN
  BY DEF TypeOK
<1>2. held' = held \cup {new}
  BY DEF Hold
<1> HIDE DEF new
<1> QED
  BY <1>1, <1>2 DEF TypeOK

LEMMA UnlockTypes ==
  ASSUME TypeOK, NEW q, Unlock(q)
  PROVE  \A h \in held' : h.who \in Requests /\ h.object \in Nat /\ h.shared \in BOOLEAN
BY DEF TypeOK, Unlock

LEMMA FaultTypes == TypeOK /\ Fault => faults' \in 0..MaxFaults
BY WorkerAssumption DEF TypeOK, Fault

LEMMA AreRequests ==
  /\ \A r \in Runs : Execute(r) \in Requests
  /\ \A a \in Acks : Acknowledge(a) \in Requests
  /\ \A v \in Revisions : Preparation(v) \in Requests
  /\ Removal \in Requests
BY DEF Requests

LEMMA TypeInit == Init => TypeOK
BY WorkerAssumption DEF Init, TypeOK, Revisions

LEMMA PrepareTypes ==
  ASSUME TypeOK, NEW v \in Revisions, PrepareLookup(v) \/ PrepareBegin(v) \/ PrepareEnd(v) \/ Expire(v)
  PROVE  TypeOK'
<1>1. CASE PrepareLookup(v)
  <2>1. CASE InUse
    BY <1>1, <2>1, PreparedTypes DEF TypeOK, PrepareLookup, treeVars, memoryVars, copyVars
  <2>2. CASE ~InUse
    BY <1>1, <2>2, EnsuredLock, AreRequests
    DEF TypeOK, PrepareLookup, treeVars, memoryVars, deskVars, copyVars
  <2> QED
    BY <2>1, <2>2
<1>2. CASE PrepareBegin(v)
  <2>1. CASE InUse \/ dirt # {}
    BY <1>2, <2>1, PreparedTypes DEF TypeOK, PrepareBegin, treeVars, memoryVars, copyVars
  <2>2. CASE ~(InUse \/ dirt # {})
    <3>1. Hold(Preparation(v), FALSE)
      BY <1>2, <2>2 DEF PrepareBegin
    <3>2. \A h \in held' : h.who \in Requests /\ h.object \in Nat /\ h.shared \in BOOLEAN
      BY <3>1, HoldTypes, AreRequests
    <3> QED
      BY <1>2, <2>2, <3>2 DEF TypeOK, PrepareBegin, treeVars, memoryVars, deskVars, copyVars
  <2> QED
    BY <2>1, <2>2
<1>3. CASE PrepareEnd(v)
  <2>1. \A h \in held' : h.who \in Requests /\ h.object \in Nat /\ h.shared \in BOOLEAN
    BY <1>3, UnlockTypes DEF PrepareEnd
  <2>2. object' \in Nat
    BY <1>3, EnsuredLock DEF PrepareEnd
  <2>3. Prepared({v}, TRUE)
    BY <1>3 DEF PrepareEnd
  <2> QED
    BY <1>3, <2>1, <2>2, <2>3, PreparedTypes DEF TypeOK, PrepareEnd, memoryVars, copyVars
<1>4. CASE Expire(v)
  BY <1>4 DEF TypeOK, Expire, treeVars, memoryVars, lockVars, deskVars, copyVars
<1> QED
  BY <1>1, <1>2, <1>3, <1>4

LEMMA RemovalTypes ==
  ASSUME TypeOK, RemoveLookup \/ Remove
  PROVE  TypeOK'
<1>1. CASE RemoveLookup
  BY <1>1, AreRequests, FaultTypes
  DEF TypeOK, RemoveLookup, LookUp, treeVars, memoryVars, deskVars, copyVars
<1>2. CASE Remove
  <2>1. mapped' \in BOOLEAN /\ object' \in Nat
    <3>1. CASE InUse
      BY <1>2, <3>1 DEF TypeOK, Remove
    <3>2. CASE ~InUse
      <4>1. mapped' = FALSE /\ object' = 0
        BY <1>2, <3>2, Zenon DEF Remove
      <4> QED
        BY <4>1
    <3> QED
      BY <3>1, <3>2
  <2> QED
    BY <1>2, <2>1 DEF TypeOK, Remove, memoryVars, deskVars, copyVars
<1> QED
  BY <1>1, <1>2

LEMMA ExecuteTypes ==
  ASSUME TypeOK, NEW r \in Runs,
         \/ Lookup(r) \/ Track(r) \/ Enter(r) \/ Work(r) \/ AgentEnds(r)
         \/ Build(r) \/ BuildFails(r) \/ Tell(r) \/ Leave(r)
  PROVE  TypeOK'
<1>1. CASE Lookup(r)
  BY <1>1, AreRequests
  DEF TypeOK, Lookup, LookUp, Refuse, treeVars, memoryVars, deskVars, copyVars, adminVars
<1>2. CASE Track(r)
  BY <1>2, FaultTypes
  DEF TypeOK, Track, Refuse, treeVars, lockVars, deskVars, copyVars, adminVars
<1>3. CASE Enter(r)
  <2>1. \A h \in held' : h.who \in Requests /\ h.object \in Nat /\ h.shared \in BOOLEAN
    <3>1. CASE Hold(Execute(r), r \notin writer)
      BY <3>1, HoldTypes, AreRequests
    <3>2. CASE UNCHANGED held
      BY <3>2 DEF TypeOK
    <3> QED
      BY <1>3, <3>1, <3>2 DEF Enter
  <2> QED
    BY <1>3, <2>1 DEF TypeOK, Enter, Refuse, treeVars, deskVars, copyVars, adminVars
<1>4. CASE Work(r)
  BY <1>4 DEF TypeOK, Work, memoryVars, lockVars, deskVars, copyVars, adminVars
<1>5. CASE AgentEnds(r)
  BY <1>5 DEF TypeOK, AgentEnds, treeVars, memoryVars, lockVars, deskVars, copyVars, adminVars
<1>6. CASE Build(r)
  BY <1>6 DEF TypeOK, Build, treeVars, lockVars, copyVars, adminVars
<1>7. CASE BuildFails(r)
  BY <1>7, FaultTypes
  DEF TypeOK, BuildFails, treeVars, memoryVars, lockVars, deskVars, copyVars, adminVars
<1>8. CASE Tell(r)
  BY <1>8 DEF TypeOK, Tell, AfterStream, treeVars, memoryVars, lockVars, copyVars, adminVars
<1>9. CASE Leave(r)
  <2>1. \A h \in held' : h.who \in Requests /\ h.object \in Nat /\ h.shared \in BOOLEAN
    BY <1>9, UnlockTypes DEF Leave
  <2> QED
    BY <1>9, <2>1 DEF TypeOK, Leave, treeVars, deskVars, copyVars, adminVars
<1> QED
  BY <1>1, <1>2, <1>3, <1>4, <1>5, <1>6, <1>7, <1>8, <1>9

LEMMA DesktopTypes ==
  ASSUME TypeOK, NEW r \in Runs,
         Begin(r) \/ Desktop(r) \/ CutStream(r) \/ Settle(r)
  PROVE  TypeOK'
<1>1. CASE Begin(r)
  BY <1>1 DEF TypeOK, Begin, treeVars, memoryVars, lockVars, copyVars
<1>2. CASE Send(r)
  BY <1>2 DEF TypeOK, Send, treeVars, memoryVars, lockVars, copyVars, adminVars
<1>3. CASE StreamGone(r)
  BY <1>3 DEF TypeOK, StreamGone, AfterStream, treeVars, memoryVars, lockVars, copyVars, adminVars
<1>4. CASE Apply(r)
  BY <1>4 DEF TypeOK, Apply, treeVars, memoryVars, lockVars, adminVars
<1>5. CASE Acknowledged(r)
  BY <1>5 DEF TypeOK, Acknowledged, treeVars, memoryVars, lockVars, copyVars, adminVars
<1>6. CASE CutStream(r)
  BY <1>6, FaultTypes
  DEF TypeOK, CutStream, AfterStream, treeVars, memoryVars, lockVars, copyVars, adminVars
<1>7. CASE Retry(r)
  BY <1>7, FaultTypes DEF TypeOK, Retry, treeVars, memoryVars, lockVars, copyVars, adminVars
<1>8. CASE GiveUp(r)
  BY <1>8, FaultTypes DEF TypeOK, GiveUp, treeVars, memoryVars, lockVars, copyVars, adminVars
<1> QED
  BY <1>1, <1>2, <1>3, <1>4, <1>5, <1>6, <1>7, <1>8 DEF Desktop, Settle

LEMMA CheckoutTypes ==
  ASSUME TypeOK, Edit \/ Commit
  PROVE  TypeOK'
<1>1. CASE Edit
  BY <1>1, FaultTypes DEF TypeOK, Edit, treeVars, memoryVars, lockVars, adminVars
<1>2. CASE Commit
  BY <1>2, WorkerAssumption DEF TypeOK, Commit, Revisions, treeVars, memoryVars, lockVars, adminVars
<1> QED
  BY <1>1, <1>2

LEMMA AckTypes ==
  ASSUME TypeOK, NEW a \in Acks,
         AckMatch(a) \/ AckRebuild(a) \/ AckReset(a) \/ AckClean(a) \/ AckRecord(a) \/ AckCut(a)
  PROVE  TypeOK'
<1>0. a[1] \in Runs
  BY DEF Acks
<1>1. CASE AckMatch(a)
  BY <1>1, AreRequests
  DEF TypeOK, AckMatch, LookUp, Answer, treeVars, memoryVars, deskVars, copyVars, adminVars
<1>2. CASE AckRebuild(a)
  <2>1. \A h \in held' : h.who \in Requests /\ h.object \in Nat /\ h.shared \in BOOLEAN
    <3>1. CASE Hold(Acknowledge(a), FALSE)
      BY <3>1, HoldTypes, AreRequests
    <3>2. CASE UNCHANGED held
      BY <3>2 DEF TypeOK
    <3> QED
      BY <1>2, <3>1, <3>2 DEF AckRebuild
  <2> QED
    BY <1>2, <2>1 DEF TypeOK, AckRebuild, Answer, treeVars, memoryVars, deskVars, copyVars, adminVars
<1>3. CASE AckReset(a)
  BY <1>3 DEF TypeOK, AckReset, Answer, memoryVars, lockVars, deskVars, copyVars, adminVars
<1>4. CASE AckClean(a)
  BY <1>4 DEF TypeOK, AckClean, Answer, memoryVars, lockVars, deskVars, copyVars, adminVars
<1>5. CASE AckRecord(a)
  <2>1. \A h \in held' : h.who \in Requests /\ h.object \in Nat /\ h.shared \in BOOLEAN
    BY <1>5, UnlockTypes DEF AckRecord
  <2> QED
    BY <1>0, <1>5, <2>1 DEF TypeOK, AckRecord, Answer, treeVars, deskVars, copyVars, adminVars
<1>6. CASE AckCut(a)
  <2>1. \A h \in held' : h.who \in Requests /\ h.object \in Nat /\ h.shared \in BOOLEAN
    BY <1>6, UnlockTypes DEF AckCut
  <2> QED
    BY <1>6, <2>1 DEF TypeOK, AckCut, Answer, treeVars, memoryVars, deskVars, copyVars, adminVars
<1> QED
  BY <1>1, <1>2, <1>3, <1>4, <1>5, <1>6

LEMMA RestartTypes ==
  ASSUME TypeOK, Restart
  PROVE  TypeOK'
<1>1. Prepared({v \in Revisions : prep[v] # "none"}, FALSE)
  BY DEF Restart
<1>2. faults' \in 0..MaxFaults
  BY FaultTypes DEF Restart
<1> QED
  BY <1>1, <1>2, PreparedTypes DEF TypeOK, Restart, treeVars, copyVars

LEMMA TypeNext == TypeOK /\ [Next]_vars => TypeOK'
<1> SUFFICES ASSUME TypeOK, [Next]_vars
             PROVE  TypeOK'
  OBVIOUS
<1>1. CASE RemoveLookup \/ Remove
  BY <1>1, RemovalTypes
<1>2. ASSUME NEW v \in Revisions, PrepareLookup(v) \/ PrepareBegin(v) \/ PrepareEnd(v) \/ Expire(v)
      PROVE  TypeOK'
  BY <1>2, PrepareTypes
<1>3. ASSUME NEW r \in Runs,
             \/ Lookup(r) \/ Track(r) \/ Enter(r) \/ Work(r) \/ AgentEnds(r)
             \/ Build(r) \/ BuildFails(r) \/ Tell(r) \/ Leave(r)
      PROVE  TypeOK'
  BY <1>3, ExecuteTypes
<1>4. ASSUME NEW r \in Runs, Begin(r) \/ Desktop(r) \/ CutStream(r) \/ Settle(r)
      PROVE  TypeOK'
  BY <1>4, DesktopTypes
<1>5. CASE Edit \/ Commit
  BY <1>5, CheckoutTypes
<1>6. ASSUME NEW a \in Acks,
             AckMatch(a) \/ AckRebuild(a) \/ AckReset(a) \/ AckClean(a) \/ AckRecord(a) \/ AckCut(a)
      PROVE  TypeOK'
  BY <1>6, AckTypes
<1>7. CASE Restart
  BY <1>7, RestartTypes
<1>8. CASE UNCHANGED vars
  BY <1>8 DEF TypeOK, vars, treeVars, memoryVars, lockVars, deskVars, copyVars, adminVars
<1> QED
  BY <1>1, <1>2, <1>3, <1>4, <1>5, <1>6, <1>7, <1>8 DEF Next, Serve, Other

\* Every state of the worker and its desktop is well typed.
THEOREM TypeCorrect == Spec => []TypeOK
<1>1. Init => TypeOK
  BY TypeInit
<1>2. TypeOK /\ [Next]_vars => TypeOK'
  BY TypeNext
<1> QED
  BY <1>1, <1>2, PTL DEF Spec

-------------------------------------------------------------------------------
(***************************************************************************)
(* LockInv. First what it says of a lock that is taken, given back or free.*)
(***************************************************************************)
\* Requests differ when what they are about does.
LEMMA Distinct ==
  /\ \A r, s \in Runs : Execute(r) = Execute(s) => r = s
  /\ \A a, b \in Acks : Acknowledge(a) = Acknowledge(b) => a = b
  /\ \A v, w \in Revisions : Preparation(v) = Preparation(w) => v = w
  /\ \A r \in Runs, a \in Acks : Execute(r) # Acknowledge(a)
  /\ \A r \in Runs, v \in Revisions : Execute(r) # Preparation(v)
  /\ \A a \in Acks, v \in Revisions : Acknowledge(a) # Preparation(v)
  /\ \A r \in Runs : Execute(r) # Removal
  /\ \A a \in Acks : Acknowledge(a) # Removal
  /\ \A v \in Revisions : Preparation(v) # Removal
BY DEF Execute, Acknowledge, Preparation, Removal

\* Who owns the lock is the only one to hold it.
LEMMA OwnerAlone ==
  ASSUME LockInv, NEW p, NEW q, NEW shared, Has(q, FALSE), Has(p, shared)
  PROVE  p = q
<1> DEFINE g == [who |-> q, object |-> object, shared |-> FALSE]
           h == [who |-> p, object |-> object, shared |-> shared]
<1>1. g \in held /\ h \in held
  BY DEF Has
<1>2. g # h => g.shared
  BY <1>1 DEF LockInv
<1>3. g.shared = FALSE /\ g.who = q /\ h.who = p
  OBVIOUS
<1> QED
  BY <1>2, <1>3

\* The lock that was found is free only when nobody holds any.
LEMMA NobodyHolds ==
  ASSUME LockInv, NEW q, Found(q), FreeToOwn(q)
  PROVE  held = {}
BY DEF LockInv, Found, FreeToOwn

LEMMA HoldAdds ==
  ASSUME LockInv, NEW q, NEW shared \in BOOLEAN, Found(q), Hold(q, shared), object' = object,
         FreeToOwn(q) \/ (shared /\ FreeToShare(q))
  PROVE  /\ Has(q, shared)'
         /\ \A p, s : Has(p, s) => Has(p, s)'
         /\ \A h \in held' : /\ h.object = object' /\ object' # 0
                             /\ \A g \in held' : g # h => g.shared /\ h.shared
<1> DEFINE new == [who |-> q, object |-> object, shared |-> shared]
<1>1. held' = held \cup {new} /\ new.object = object /\ new.shared = shared
  BY DEF Hold, Found
<1>2. Has(q, shared)' /\ \A p, s : Has(p, s) => Has(p, s)'
  BY <1>1 DEF Has
<1>3. \A h \in held : h.object = object /\ ((shared /\ h.shared) \/ held = {})
  <2>1. \A h \in held : h.object = object
    BY DEF LockInv
  <2>2. CASE FreeToOwn(q)
    BY <2>1, <2>2, NobodyHolds
  <2>3. CASE shared /\ FreeToShare(q)
    BY <2>1, <2>3 DEF FreeToShare, Found
  <2> QED
    BY <2>1, <2>2, <2>3
<1>4. \A h \in held' : h.object = object' /\ object' # 0
  BY <1>1, <1>3 DEF Found
<1>5. ASSUME NEW h \in held', NEW g \in held', g # h
      PROVE  g.shared /\ h.shared
  <2>1. CASE g \in held /\ h \in held
    BY <1>5, <2>1 DEF LockInv
  <2>2. CASE g = new \/ h = new
    BY <1>1, <1>3, <1>5, <2>2
  <2> QED
    BY <1>1, <2>1, <2>2
<1> QED
  BY <1>2, <1>4, <1>5

LEMMA UnlockKeeps ==
  ASSUME LockInv, NEW q, Unlock(q), object' = object
  PROVE  /\ \A p, s : p # q /\ Has(p, s) => Has(p, s)'
         /\ \A h \in held' : /\ h.object = object' /\ object' # 0
                             /\ \A g \in held' : g # h => g.shared /\ h.shared
BY DEF LockInv, Unlock, Has

LEMMA LookUpFinds ==
  ASSUME TypeOK, NEW q \in Requests, LookUp(q), object # 0, object' = object
  PROVE  /\ Found(q)'
         /\ \A p \in Requests : Found(p) => Found(p)'
         /\ \A p \in Requests : p # q => lock'[p] = lock[p]
BY DEF TypeOK, LookUp, Found

\* Most steps leave the locks alone and bring nobody nearer to one.
KeepsLocks ==
  /\ UNCHANGED <<mapped, lockVars>>
  /\ removal' = "found" => removal = "found"
  /\ \A v \in Revisions : prep'[v] \in {"waiting", "holding"} => prep'[v] = prep[v]
  /\ \A r \in Runs :
       \/ server'[r] \in {"none", "arrived"}
       \/ /\ server'[r] = server[r] \/ (Inside(r) /\ Inside(r)')
          /\ r \in running => r \in running'
          /\ r \in writer' <=> r \in writer
  /\ \A a \in Acks : Cleaning(a)' => Cleaning(a)

LEMMA LocksKept ==
  ASSUME LockInv, KeepsLocks
  PROVE  LockInv'
<1>1. (mapped => object # 0)' /\ (removal = "found" => Found(Removal))'
  BY DEF LockInv, KeepsLocks, lockVars, Found
<1>2. ASSUME NEW v \in Revisions
      PROVE  /\ (prep[v] \in {"waiting", "holding"} => Found(Preparation(v)))'
             /\ (prep[v] = "holding" => Has(Preparation(v), FALSE))'
  BY DEF LockInv, KeepsLocks, lockVars, Found, Has
<1>3. ASSUME NEW r \in Runs
      PROVE  /\ (server[r] \in {"found", "tracked"} \/ Inside(r) => Found(Execute(r)))'
             /\ (server[r] = "tracked" \/ Inside(r) => r \in running)'
             /\ (Inside(r) => Has(Execute(r), r \notin writer))'
  <2>1. CASE server'[r] \in {"none", "arrived"}
    BY <2>1 DEF Inside
  <2>2. CASE /\ server'[r] = server[r] \/ (Inside(r) /\ Inside(r)')
             /\ r \in running => r \in running'
             /\ r \in writer' <=> r \in writer
    <3>1. (server[r] \in {"found", "tracked"} \/ Inside(r) => Found(Execute(r)))'
      BY <2>2 DEF LockInv, KeepsLocks, lockVars, Found, Inside
    <3>2. (server[r] = "tracked" \/ Inside(r) => r \in running)'
      BY <2>2 DEF LockInv, KeepsLocks, Inside
    <3>3. (Inside(r) => Has(Execute(r), r \notin writer))'
      <4>1. (r \notin writer) = (r \notin writer)'
        BY <2>2
      <4>2. Inside(r)' => Inside(r)
        BY <2>2 DEF Inside
      <4>3. Inside(r) => Has(Execute(r), r \notin writer)
        BY DEF LockInv
      <4> QED
        BY <4>1, <4>2, <4>3 DEF KeepsLocks, lockVars, Has
    <3> QED
      BY <3>1, <3>2, <3>3
  <2> QED
    BY <2>1, <2>2 DEF KeepsLocks
<1>4. ASSUME NEW a \in Acks
      PROVE  (Cleaning(a) => Has(Acknowledge(a), FALSE))'
  BY DEF LockInv, KeepsLocks, lockVars, Has
<1>5. ASSUME NEW h \in held'
      PROVE  (h.object = object /\ object # 0 /\ \A g \in held : g # h => g.shared /\ h.shared)'
  BY DEF LockInv, KeepsLocks, lockVars
<1> QED
  BY <1>1, <1>2, <1>3, <1>4, <1>5 DEF LockInv

LEMMA LockInit == Init => LockInv
BY DEF Init, LockInv, Inside, Cleaning

LEMMA PrepareLookupLocks ==
  ASSUME TypeOK, LockInv, NEW v \in Revisions, PrepareLookup(v)
  PROVE  LockInv'
<1>1. CASE InUse
  <2>1. KeepsLocks
    BY <1>1 DEF PrepareLookup, Prepared, KeepsLocks, TypeOK, treeVars, memoryVars, lockVars, Inside, Cleaning
  <2> QED
    BY <2>1, LocksKept
<1>2. CASE ~InUse
  <2>1. /\ object' = Ensured /\ lock' = [lock EXCEPT ![Preparation(v)] = object']
        /\ prep' = [prep EXCEPT ![v] = "waiting"]
        /\ UNCHANGED <<mapped, held, removal, server, running, writer, ack>>
    BY <1>2 DEF PrepareLookup, treeVars, memoryVars, deskVars
  <2>2. object' \in Nat \ {0} /\ (object # 0 => object' = object)
    BY <2>1, EnsuredLock
  <2>3. Found(Preparation(v))' /\ \A q \in Requests : Found(q) => Found(q)'
    BY <2>1, <2>2, AreRequests DEF TypeOK, Found
  <2>4. \A q, s : Has(q, s) => Has(q, s)'
    BY <2>1, <2>2 DEF LockInv, Has
  <2>5. \A h \in held' : /\ h.object = object' /\ object' # 0
                         /\ \A g \in held' : g # h => g.shared /\ h.shared
    BY <2>1, <2>2 DEF LockInv
  <2>6. ASSUME NEW w \in Revisions
        PROVE  /\ (prep[w] \in {"waiting", "holding"} => Found(Preparation(w)))'
               /\ (prep[w] = "holding" => Has(Preparation(w), FALSE))'
    BY <2>1, <2>3, <2>4, AreRequests DEF LockInv, TypeOK
  <2>7. ASSUME NEW r \in Runs
        PROVE  /\ (server[r] \in {"found", "tracked"} \/ Inside(r) => Found(Execute(r)))'
               /\ (server[r] = "tracked" \/ Inside(r) => r \in running)'
               /\ (Inside(r) => Has(Execute(r), r \notin writer))'
    BY <2>1, <2>3, <2>4, AreRequests DEF LockInv, Inside
  <2>8. ASSUME NEW a \in Acks
        PROVE  (Cleaning(a) => Has(Acknowledge(a), FALSE))'
    BY <2>1, <2>4 DEF LockInv, Cleaning
  <2>9. (mapped => object # 0)' /\ (removal = "found" => Found(Removal))'
    BY <2>1, <2>2, <2>3, AreRequests DEF LockInv
  <2> QED
    BY <2>5, <2>6, <2>7, <2>8, <2>9 DEF LockInv
<1> QED
  BY <1>1, <1>2

\* A preparation owns the lock, or is refused.
LEMMA PrepareBeginLocks ==
  ASSUME TypeOK, LockInv, NEW v \in Revisions, PrepareBegin(v)
  PROVE  LockInv'
<1>1. CASE InUse \/ dirt # {}
  <2>1. /\ Prepared({v}, FALSE)
        /\ UNCHANGED <<mapped, object, lock, held, removal, server, running, ack>>
    BY <1>1 DEF PrepareBegin, treeVars, memoryVars
  <2>2. KeepsLocks
    BY <2>1 DEF Prepared, KeepsLocks, lockVars, Inside, Cleaning
  <2> QED
    BY <2>2, LocksKept
<1>2. CASE ~(InUse \/ dirt # {})
  <2>1. /\ prep[v] = "waiting" /\ prep' = [prep EXCEPT ![v] = "holding"]
        /\ FreeToOwn(Preparation(v)) /\ Hold(Preparation(v), FALSE)
        /\ UNCHANGED <<mapped, object, lock, removal, server, running, writer, ack>>
    BY <1>2 DEF PrepareBegin, treeVars, memoryVars, deskVars
  <2>2. Found(Preparation(v))
    BY <2>1 DEF LockInv
  <2>3. /\ Has(Preparation(v), FALSE)'
        /\ \A q, s : Has(q, s) => Has(q, s)'
        /\ \A h \in held' : /\ h.object = object' /\ object' # 0
                            /\ \A g \in held' : g # h => g.shared /\ h.shared
    BY <2>1, <2>2, HoldAdds
  <2>4. \A q \in Requests : Found(q) => Found(q)'
    BY <2>1 DEF Found
  <2> QED
    BY <2>1, <2>3, <2>4, AreRequests DEF LockInv, TypeOK, Inside, Cleaning
<1> QED
  BY <1>1, <1>2

\* It gives the lock back under the number it has found it.
LEMMA PrepareEndLocks ==
  ASSUME TypeOK, LockInv, NEW v \in Revisions, PrepareEnd(v)
  PROVE  LockInv'
<1>1. /\ prep[v] = "holding" /\ Unlock(Preparation(v))
      /\ prep' = [w \in Revisions |-> IF w = v THEN "none" ELSE prep[w]]
      /\ UNCHANGED <<lock, removal, server, running, writer, ack>>
  BY DEF PrepareEnd, Prepared, memoryVars
<1>2. object # 0 /\ object' = object
  <2>1. object # 0
    BY <1>1 DEF LockInv, Found
  <2>2. object' = Ensured
    BY DEF PrepareEnd
  <2> QED
    BY <2>1, <2>2, EnsuredLock
<1>3. \A q \in Requests : Found(q) => Found(q)'
  BY <1>1, <1>2 DEF Found
<1>4. /\ \A q, s : q # Preparation(v) /\ Has(q, s) => Has(q, s)'
      /\ \A h \in held' : /\ h.object = object' /\ object' # 0
                          /\ \A g \in held' : g # h => g.shared /\ h.shared
  BY <1>1, <1>2, UnlockKeeps
<1> QED
  BY <1>1, <1>2, <1>3, <1>4, AreRequests, Distinct DEF LockInv, Inside, Cleaning

LEMMA ExpireLocks ==
  ASSUME LockInv, NEW v \in Revisions, Expire(v)
  PROVE  LockInv'
<1>1. KeepsLocks
  BY DEF Expire, KeepsLocks, treeVars, memoryVars, deskVars, Inside, Cleaning
<1> QED
  BY <1>1, LocksKept

LEMMA RemoveLookupLocks ==
  ASSUME TypeOK, LockInv, RemoveLookup
  PROVE  LockInv'
<1>1. /\ mapped /\ LookUp(Removal)
      /\ UNCHANGED <<mapped, object, held, prep, server, running, writer, ack>>
  BY DEF RemoveLookup, treeVars, memoryVars, deskVars
<1>2. object # 0
  BY <1>1 DEF LockInv
<1>3. Found(Removal)' /\ \A q \in Requests : Found(q) => Found(q)'
  BY <1>1, <1>2, AreRequests, LookUpFinds
<1> QED
  BY <1>1, <1>2, <1>3, AreRequests DEF LockInv, Inside, Cleaning, Has

\* A removal takes the lock away when nobody has looked it up to use it.
LEMMA RemoveLocks ==
  ASSUME ~RemovalRaces, LockInv, Remove
  PROVE  LockInv'
<1>1. /\ removal = "found" /\ FreeToOwn(Removal) /\ removal' = "none"
      /\ \A r \in Runs : server[r] # "found"
      /\ \A v \in Revisions : prep[v] # "waiting"
      /\ InUse => UNCHANGED <<mapped, object>>
      /\ ~InUse => mapped' = FALSE /\ object' = 0
      /\ UNCHANGED <<held, lock, prep, server, running, writer, ack>>
  BY Zenon DEF Remove, memoryVars, deskVars
<1>2. CASE InUse
  <2>1. KeepsLocks
    BY <1>1, <1>2 DEF KeepsLocks, lockVars, Inside, Cleaning
  <2> QED
    BY <2>1, LocksKept
<1>3. CASE ~InUse
  <2>1. held = {}
    BY <1>1, NobodyHolds DEF LockInv
  <2>2. running = {}
    BY <1>3 DEF InUse
  <2>3. \A r \in Runs : ~(server[r] \in {"found", "tracked"} \/ Inside(r))
    BY <1>1, <2>2 DEF LockInv
  <2>4. \A v \in Revisions : prep[v] \notin {"waiting", "holding"}
    BY <1>1, <2>1 DEF LockInv, Has
  <2>5. \A a \in Acks : ~Cleaning(a)
    BY <2>1 DEF LockInv, Has
  <2> QED
    BY <1>1, <1>3, <2>1, <2>3, <2>4, <2>5 DEF LockInv, Inside, Cleaning
<1> QED
  BY <1>2, <1>3

LEMMA LookupLocks ==
  ASSUME TypeOK, LockInv, NEW r \in Runs, Lookup(r)
  PROVE  LockInv'
<1>1. CASE mapped
  <2>1. /\ LookUp(Execute(r)) /\ server' = [server EXCEPT ![r] = "found"]
        /\ UNCHANGED <<mapped, object, held, removal, prep, running, writer, ack>>
    BY <1>1 DEF Lookup, treeVars, memoryVars, deskVars, adminVars
  <2>2. object # 0
    BY <1>1 DEF LockInv
  <2>3. Found(Execute(r))' /\ \A q \in Requests : Found(q) => Found(q)'
    BY <2>1, <2>2, AreRequests, LookUpFinds
  <2> QED
    BY <2>1, <2>2, <2>3, AreRequests DEF LockInv, TypeOK, Inside, Cleaning, Has
<1>2. CASE ~mapped
  <2>1. KeepsLocks
    BY <1>2 DEF Lookup, Refuse, KeepsLocks, TypeOK, treeVars, memoryVars, lockVars, deskVars, adminVars, Inside, Cleaning
  <2> QED
    BY <2>1, LocksKept
<1> QED
  BY <1>1, <1>2

LEMMA TrackLocks ==
  ASSUME TypeOK, LockInv, NEW r \in Runs, Track(r)
  PROVE  LockInv'
<1>1. CASE /\ running' = running \cup {r}
           /\ server' = [server EXCEPT ![r] = "tracked"]
           /\ UNCHANGED <<deskVars, faults>>
  <2>1. /\ server[r] = "found"
        /\ UNCHANGED <<mapped, object, held, lock, removal, prep, writer, ack>>
    BY <1>1 DEF Track, treeVars, lockVars, deskVars, adminVars
  <2>2. /\ \A q \in Requests : Found(q) => Found(q)'
        /\ \A q, s : Has(q, s) => Has(q, s)'
    BY <2>1 DEF Found, Has
  <2>3. ASSUME NEW s \in Runs
        PROVE  /\ (server[s] \in {"found", "tracked"} \/ Inside(s) => Found(Execute(s)))'
               /\ (server[s] = "tracked" \/ Inside(s) => s \in running)'
               /\ (Inside(s) => Has(Execute(s), s \notin writer))'
    <3>1. /\ s # r => server'[s] = server[s]
          /\ Inside(s)' => Inside(s)
          /\ (s \notin writer) = (s \notin writer)'
      BY <1>1, <2>1 DEF TypeOK, Inside
    <3>2. Inside(s) => Has(Execute(s), s \notin writer)
      BY DEF LockInv
    <3>3. (server[s] \in {"found", "tracked"} \/ Inside(s) => Found(Execute(s)))'
      BY <2>1, <2>2, <3>1, AreRequests DEF LockInv
    <3>4. (server[s] = "tracked" \/ Inside(s) => s \in running)'
      BY <1>1, <3>1 DEF LockInv
    <3>5. (Inside(s) => Has(Execute(s), s \notin writer))'
      BY <2>2, <3>1, <3>2
    <3> QED
      BY <3>3, <3>4, <3>5
  <2> QED
    BY <2>1, <2>2, <2>3, AreRequests DEF LockInv, Cleaning
<1>2. CASE Refuse(r) /\ UNCHANGED running
  <2>1. KeepsLocks
    BY <1>2 DEF Track, Refuse, KeepsLocks, TypeOK, treeVars, deskVars, adminVars, Inside, Cleaning
  <2> QED
    BY <2>1, LocksKept
<1> QED
  BY <1>1, <1>2 DEF Track

\* A writer owns the lock, a reader shares it.
LEMMA EnterLocks ==
  ASSUME TypeOK, LockInv, NEW r \in Runs, Enter(r)
  PROVE  LockInv'
<1>1. CASE mapped /\ BaselineHolds(r)
  <2>1. /\ server[r] = "tracked" /\ server' = [server EXCEPT ![r] = "running"]
        /\ Hold(Execute(r), r \notin writer)
        /\ FreeToOwn(Execute(r)) \/ ((r \notin writer) /\ FreeToShare(Execute(r)))
        /\ UNCHANGED <<mapped, object, lock, removal, prep, running, writer, ack>>
    BY <1>1 DEF Enter, treeVars, deskVars, adminVars
  <2>2. Found(Execute(r)) /\ r \in running
    BY <2>1 DEF LockInv
  <2>3. /\ Has(Execute(r), r \notin writer)'
        /\ \A q, s : Has(q, s) => Has(q, s)'
        /\ \A h \in held' : /\ h.object = object' /\ object' # 0
                            /\ \A g \in held' : g # h => g.shared /\ h.shared
    <3> DEFINE shared == r \notin writer
    <3>1. shared \in BOOLEAN /\ shared' = shared
      BY <2>1
    <3>2. Hold(Execute(r), shared) /\ (FreeToOwn(Execute(r)) \/ (shared /\ FreeToShare(Execute(r))))
      BY <2>1
    <3> HIDE DEF shared
    <3>3. /\ Has(Execute(r), shared)'
          /\ \A q, s : Has(q, s) => Has(q, s)'
          /\ \A h \in held' : /\ h.object = object' /\ object' # 0
                              /\ \A g \in held' : g # h => g.shared /\ h.shared
      BY <2>1, <2>2, <3>1, <3>2, HoldAdds DEF Has
    <3> QED
      BY <3>3 DEF shared
  <2>4. \A q \in Requests : Found(q) => Found(q)'
    BY <2>1 DEF Found
  <2>5. ASSUME NEW s \in Runs
        PROVE  /\ (server[s] \in {"found", "tracked"} \/ Inside(s) => Found(Execute(s)))'
               /\ (server[s] = "tracked" \/ Inside(s) => s \in running)'
               /\ (Inside(s) => Has(Execute(s), s \notin writer))'
    <3>1. CASE s = r
      BY <2>1, <2>2, <2>3, <2>4, <3>1, AreRequests
    <3>2. CASE s # r
      <4>1. server'[s] = server[s] /\ (Inside(s) <=> Inside(s)') /\ (s \notin writer) = (s \notin writer)'
        BY <2>1, <3>2 DEF TypeOK, Inside
      <4>2. Inside(s) => Has(Execute(s), s \notin writer)
        BY DEF LockInv
      <4> QED
        BY <2>1, <2>3, <2>4, <4>1, <4>2, AreRequests DEF LockInv
    <3> QED
      BY <3>1, <3>2
  <2> QED
    BY <2>1, <2>3, <2>4, <2>5, AreRequests DEF LockInv, Cleaning
<1>2. CASE ~(mapped /\ BaselineHolds(r))
  <2>1. KeepsLocks
    BY <1>2 DEF Enter, Refuse, KeepsLocks, TypeOK, treeVars, lockVars, deskVars, adminVars, Inside, Cleaning
  <2> QED
    BY <2>1, LocksKept
<1> QED
  BY <1>1, <1>2

LEMMA LeaveLocks ==
  ASSUME TypeOK, LockInv, NEW r \in Runs, Leave(r)
  PROVE  LockInv'
<1>1. /\ server' = [server EXCEPT ![r] = "none"] /\ Unlock(Execute(r)) /\ running' = running \ {r}
      /\ UNCHANGED <<mapped, object, lock, removal, prep, writer, ack>>
  BY DEF Leave, treeVars, deskVars, adminVars
<1>2. \A q \in Requests : Found(q) => Found(q)'
  BY <1>1 DEF Found
<1>3. /\ \A q, s : q # Execute(r) /\ Has(q, s) => Has(q, s)'
      /\ \A h \in held' : /\ h.object = object' /\ object' # 0
                          /\ \A g \in held' : g # h => g.shared /\ h.shared
  BY <1>1, UnlockKeeps
<1>4. ASSUME NEW s \in Runs
      PROVE  /\ (server[s] \in {"found", "tracked"} \/ Inside(s) => Found(Execute(s)))'
             /\ (server[s] = "tracked" \/ Inside(s) => s \in running)'
             /\ (Inside(s) => Has(Execute(s), s \notin writer))'
  <2>1. CASE s = r
    BY <1>1, <2>1 DEF TypeOK, Inside
  <2>2. CASE s # r
    <3>1. server'[s] = server[s] /\ (Inside(s) <=> Inside(s)') /\ (s \notin writer) = (s \notin writer)'
      BY <1>1, <2>2 DEF TypeOK, Inside
    <3>2. Execute(s) # Execute(r)
      BY <2>2, Distinct
    <3>3. Inside(s) => Has(Execute(s), s \notin writer)
      BY DEF LockInv
    <3> QED
      BY <1>1, <1>2, <1>3, <2>2, <3>1, <3>2, <3>3, AreRequests DEF LockInv
  <2> QED
    BY <2>1, <2>2
<1> QED
  BY <1>1, <1>2, <1>3, <1>4, AreRequests, Distinct DEF LockInv, Cleaning

LEMMA ExecuteLocks ==
  ASSUME TypeOK, LockInv, NEW r \in Runs,
         Work(r) \/ AgentEnds(r) \/ Build(r) \/ BuildFails(r) \/ Tell(r)
  PROVE  LockInv'
<1>1. KeepsLocks
  <2>1. CASE Work(r)
    BY <2>1 DEF Work, KeepsLocks, memoryVars, deskVars, adminVars, Inside, Cleaning
  <2>2. CASE AgentEnds(r)
    BY <2>2 DEF AgentEnds, KeepsLocks, TypeOK, treeVars, memoryVars, deskVars, adminVars, Inside, Cleaning
  <2>3. CASE Build(r)
    BY <2>3 DEF Build, KeepsLocks, TypeOK, treeVars, adminVars, Inside, Cleaning
  <2>4. CASE BuildFails(r)
    BY <2>4 DEF BuildFails, KeepsLocks, TypeOK, treeVars, memoryVars, deskVars, adminVars, Inside, Cleaning
  <2>5. CASE Tell(r)
    BY <2>5 DEF Tell, KeepsLocks, TypeOK, treeVars, memoryVars, adminVars, Inside, Cleaning
  <2> QED
    BY <2>1, <2>2, <2>3, <2>4, <2>5
<1> QED
  BY <1>1, LocksKept

\* The desktop touches no lock; a run it begins is not on the worker.
LEMMA DesktopLocks ==
  ASSUME TypeOK, LockInv, DeskInv, NEW r \in Runs, Begin(r) \/ Desktop(r) \/ CutStream(r) \/ Settle(r)
  PROVE  LockInv'
<1>1. KeepsLocks
  <2>1. CASE Begin(r)
    <3>1. server[r] = "none"
      BY <2>1 DEF Begin, DeskInv
    <3> QED
      BY <2>1, <3>1 DEF Begin, KeepsLocks, TypeOK, treeVars, memoryVars, Inside, Cleaning
  <2>2. CASE Send(r)
    BY <2>2 DEF Send, KeepsLocks, TypeOK, treeVars, memoryVars, adminVars, Inside, Cleaning
  <2>3. CASE StreamGone(r)
    BY <2>3 DEF StreamGone, KeepsLocks, treeVars, memoryVars, adminVars, Inside, Cleaning
  <2>4. CASE Apply(r)
    BY <2>4 DEF Apply, KeepsLocks, TypeOK, treeVars, memoryVars, adminVars, Inside, Cleaning
  <2>5. CASE Acknowledged(r)
    BY <2>5 DEF Acknowledged, KeepsLocks, treeVars, memoryVars, adminVars, Inside, Cleaning
  <2>6. CASE CutStream(r)
    BY <2>6 DEF CutStream, KeepsLocks, treeVars, memoryVars, adminVars, Inside, Cleaning
  <2>7. CASE Retry(r)
    BY <2>7 DEF Retry, KeepsLocks, TypeOK, treeVars, memoryVars, adminVars, Inside, Cleaning
  <2>8. CASE GiveUp(r)
    BY <2>8 DEF GiveUp, KeepsLocks, treeVars, memoryVars, adminVars, Inside, Cleaning
  <2> QED
    BY <2>1, <2>2, <2>3, <2>4, <2>5, <2>6, <2>7, <2>8 DEF Desktop, Settle
<1> QED
  BY <1>1, LocksKept

LEMMA CheckoutLocks ==
  ASSUME LockInv, Edit \/ Commit
  PROVE  LockInv'
<1>1. KeepsLocks
  BY DEF Edit, Commit, KeepsLocks, treeVars, memoryVars, adminVars, Inside, Cleaning
<1> QED
  BY <1>1, LocksKept

-------------------------------------------------------------------------------
(***************************************************************************)
(* An acknowledgement that finds the patch unchanged has found the lock    *)
(* there is: if another had done its work, nothing of the run were left.   *)
(***************************************************************************)
LEMMA MatchedFinds ==
  ASSUME TypeOK, TreeInv, PatchIsOfOneRun, NEW a \in Acks, ack[a] = "matched", SamePatch(a[1])
  PROVE  Found(Acknowledge(a)) /\ pending[a[1]] = received[a[1]]
<1>1. a[1] \in Runs
  BY DEF Acks
<1>2. dirt # {} /\ dirt = received[a[1]]
  BY DEF SamePatch
<1>3. \A c \in dirt : c[1] = a[1]
  BY <1>1, <1>2 DEF PatchIsOfOneRun
<1>4. a[1] \notin acked
  BY <1>2, <1>3 DEF TreeInv
<1> QED
  BY <1>4 DEF TreeInv

LEMMA AckMatchLocks ==
  ASSUME TypeOK, LockInv, NEW a \in Acks, AckMatch(a)
  PROVE  LockInv'
<1>1. CASE mapped /\ LookUp(Acknowledge(a)) /\ Answer(a, "matched")
  <2>1. UNCHANGED <<mapped, object, held, removal, prep, server, running, writer>>
    BY DEF AckMatch, treeVars, memoryVars, deskVars, adminVars
  <2>2. object # 0
    BY <1>1 DEF LockInv
  <2>3. \A q \in Requests : Found(q) => Found(q)'
    BY <1>1, <2>1, <2>2, AreRequests, LookUpFinds
  <2>4. \A b \in Acks : Cleaning(b)' => Cleaning(b)
    BY <1>1 DEF TypeOK, Answer, Cleaning
  <2> QED
    BY <2>1, <2>2, <2>3, <2>4, AreRequests DEF LockInv, Inside, Has
<1>2. CASE UNCHANGED lock /\ Answer(a, IF pending[a[1]] = {} /\ a[1] \in acked THEN "ok" ELSE "refused")
  <2>1. KeepsLocks
    BY <1>2 DEF AckMatch, Answer, KeepsLocks, TypeOK, treeVars, memoryVars, lockVars, deskVars, adminVars, Inside, Cleaning
  <2> QED
    BY <2>1, LocksKept
<1> QED
  BY <1>1, <1>2 DEF AckMatch

\* Who takes a patch back owns the lock.
LEMMA AckRebuildLocks ==
  ASSUME TypeOK, WorkerInv, NEW a \in Acks, AckRebuild(a)
  PROVE  LockInv'
<1>0. LockInv
  BY DEF WorkerInv
<1>1. CASE SamePatch(a[1])
  <2>1. /\ ack[a] = "matched" /\ ack' = [ack EXCEPT ![a] = "rebuilt"]
        /\ FreeToOwn(Acknowledge(a)) /\ Hold(Acknowledge(a), FALSE)
        /\ UNCHANGED <<mapped, object, lock, removal, prep, server, running, writer>>
    BY <1>1 DEF AckRebuild, Answer, treeVars, memoryVars, deskVars, adminVars
  <2>2. Found(Acknowledge(a))
    BY <1>1, <2>1, MatchedFinds DEF WorkerInv
  <2>3. /\ Has(Acknowledge(a), FALSE)'
        /\ \A q, s : Has(q, s) => Has(q, s)'
        /\ \A h \in held' : /\ h.object = object' /\ object' # 0
                            /\ \A g \in held' : g # h => g.shared /\ h.shared
    BY <1>0, <2>1, <2>2, HoldAdds
  <2>4. \A q \in Requests : Found(q) => Found(q)'
    BY <2>1 DEF Found
  <2>5. \A b \in Acks : Cleaning(b)' => b = a \/ Cleaning(b)
    BY <2>1 DEF TypeOK, Cleaning
  <2> QED
    BY <1>0, <2>1, <2>3, <2>4, <2>5, AreRequests DEF LockInv, Inside
<1>2. CASE ~SamePatch(a[1])
  <2>1. KeepsLocks
    BY <1>2 DEF AckRebuild, Answer, KeepsLocks, TypeOK, treeVars, memoryVars, lockVars, deskVars, adminVars, Inside, Cleaning
  <2> QED
    BY <1>0, <2>1, LocksKept
<1> QED
  BY <1>1, <1>2

LEMMA AckCleanLocks ==
  ASSUME TypeOK, LockInv, NEW a \in Acks, AckReset(a) \/ AckClean(a)
  PROVE  LockInv'
<1>1. KeepsLocks
  BY DEF AckReset, AckClean, Answer, KeepsLocks, TypeOK, memoryVars, lockVars, deskVars, adminVars, Inside, Cleaning
<1> QED
  BY <1>1, LocksKept

LEMMA AckEndsLocks ==
  ASSUME TypeOK, LockInv, NEW a \in Acks, AckRecord(a) \/ AckCut(a)
  PROVE  LockInv'
<1>1. /\ Unlock(Acknowledge(a))
      /\ UNCHANGED <<mapped, object, lock, removal, prep, server, running, writer>>
  BY DEF AckRecord, AckCut, treeVars, memoryVars, deskVars, adminVars
<1>2. \A b \in Acks : Cleaning(b)' => b # a /\ Cleaning(b)
  BY DEF TypeOK, AckRecord, AckCut, Answer, Cleaning
<1>3. \A q \in Requests : Found(q) => Found(q)'
  BY <1>1 DEF Found
<1>4. /\ \A q, s : q # Acknowledge(a) /\ Has(q, s) => Has(q, s)'
      /\ \A h \in held' : /\ h.object = object' /\ object' # 0
                          /\ \A g \in held' : g # h => g.shared /\ h.shared
  BY <1>1, UnlockKeeps
<1> QED
  BY <1>1, <1>2, <1>3, <1>4, AreRequests, Distinct DEF LockInv, Inside

\* Nothing is held after a restart, and nobody is inside.
LEMMA RestartLocks ==
  ASSUME TypeOK, Restart
  PROVE  LockInv'
<1>1. /\ held' = {} /\ removal' = "none" /\ object' = IF mapped THEN 1 ELSE 0
      /\ server' = [r \in Runs |-> "none"] /\ mapped' = mapped
      /\ ack' = [a \in Acks |-> IF ack[a] \in {"none", "ok", "refused"} THEN ack[a] ELSE "refused"]
      /\ prep' = [v \in Revisions |-> IF v \in {w \in Revisions : prep[w] # "none"} THEN "none" ELSE prep[v]]
  BY DEF Restart, Prepared, treeVars
<1>2. /\ \A v \in Revisions : prep'[v] = "none"
      /\ \A r \in Runs : ~Inside(r)' /\ server'[r] = "none"
      /\ \A a \in Acks : ~Cleaning(a)'
  BY <1>1 DEF Inside, Cleaning
<1>3. (mapped => object # 0)'
  <2>1. CASE mapped
    BY <1>1, <2>1
  <2>2. CASE ~mapped
    BY <1>1, <2>2
  <2> QED
    BY <2>1, <2>2
<1> QED
  BY <1>1, <1>2, <1>3 DEF LockInv

-------------------------------------------------------------------------------
(***************************************************************************)
(* DeskInv.                                                                *)
(***************************************************************************)
\* Most steps move no acknowledgement and no run, but those that are prepared or
\* at their end.
KeepsDesk ==
  /\ UNCHANGED <<received, applied>>
  /\ \A r \in Runs :
       /\ server[r] = "none" => server'[r] = "none"
       /\ server[r] \in {"built", "told"} => server'[r] \in {"built", "told", "none"}
       /\ client'[r] # client[r] => client[r] = "preparing" /\ client'[r] \in {"prepared", "failed"}
  /\ \A a \in Acks : ack[a] = "none" => ack'[a] = "none"

LEMMA DeskKept ==
  ASSUME TypeOK, DeskInv, KeepsDesk
  PROVE  DeskInv'
<1>1. ASSUME NEW r \in Runs
      PROVE  /\ (server[r] # "none" => client[r] \notin {"idle", "preparing", "prepared"})'
             /\ (received[r] # {} => /\ client[r] \notin {"idle", "preparing", "prepared"}
                                     /\ server[r] \in {"built", "told", "none"})'
             /\ (client[r] \in {"acking", "retrying"} => received[r] \subseteq applied)'
  BY DEF DeskInv, KeepsDesk
<1>2. ASSUME NEW a \in Acks, ack'[a] # "none"
      PROVE  /\ client'[a[1]] \in {"acking", "retrying", "done", "unacknowledged"}
             /\ (received[a[1]] \subseteq applied)'
  BY <1>2 DEF DeskInv, KeepsDesk, Acks
<1> QED
  BY <1>1, <1>2 DEF DeskInv

LEMMA DeskInit == Init => DeskInv
BY DEF Init, DeskInv

\* What a preparation ends with reaches those who wait for it only.
LEMMA PreparedDesk ==
  ASSUME TypeOK, NEW done \in SUBSET Revisions, NEW success \in BOOLEAN, Prepared(done, success)
  PROVE  /\ \A r \in Runs : client'[r] # client[r] =>
               client[r] = "preparing" /\ client'[r] \in {"prepared", "failed"}
         /\ UNCHANGED <<received, applied>>
BY DEF Prepared, Waiters, copyVars

LEMMA PrepareDesk ==
  ASSUME TypeOK, DeskInv, NEW v \in Revisions,
         PrepareLookup(v) \/ PrepareBegin(v) \/ PrepareEnd(v) \/ Expire(v)
  PROVE  DeskInv'
<1>1. UNCHANGED <<server, ack>>
  BY DEF PrepareLookup, PrepareBegin, PrepareEnd, Expire
<1>2. Prepared({v}, FALSE) \/ Prepared({v}, TRUE) \/ UNCHANGED deskVars
  BY DEF PrepareLookup, PrepareBegin, PrepareEnd, Expire
<1>3. /\ \A r \in Runs : client'[r] # client[r] =>
           client[r] = "preparing" /\ client'[r] \in {"prepared", "failed"}
      /\ UNCHANGED <<received, applied>>
  BY <1>2, PreparedDesk DEF deskVars, copyVars
<1>4. KeepsDesk
  BY <1>1, <1>3 DEF KeepsDesk
<1> QED
  BY <1>4, DeskKept

LEMMA OtherDesk ==
  ASSUME TypeOK, DeskInv, RemoveLookup \/ Remove \/ Edit \/ Commit
  PROVE  DeskInv'
<1>1. UNCHANGED <<server, ack, client, received, applied>>
  BY Zenon DEF RemoveLookup, Remove, Edit, Commit, deskVars, copyVars
<1>2. KeepsDesk
  BY <1>1 DEF KeepsDesk
<1> QED
  BY <1>2, DeskKept

LEMMA ExecuteDesk ==
  ASSUME TypeOK, DeskInv, NEW r \in Runs,
         \/ Lookup(r) \/ Track(r) \/ Enter(r) \/ Work(r) \/ AgentEnds(r)
         \/ BuildFails(r) \/ Tell(r) \/ Leave(r)
  PROVE  DeskInv'
<1>1. CASE Lookup(r)
  BY <1>1 DEF Lookup, Refuse, DeskInv, TypeOK, deskVars, copyVars, Acks
<1>2. CASE Track(r)
  BY <1>2 DEF Track, Refuse, DeskInv, TypeOK, deskVars, copyVars, Acks
<1>3. CASE Enter(r)
  BY <1>3 DEF Enter, Refuse, DeskInv, TypeOK, deskVars, copyVars, Acks
<1>4. CASE Work(r)
  BY <1>4 DEF Work, DeskInv, deskVars, copyVars
<1>5. CASE AgentEnds(r)
  BY <1>5 DEF AgentEnds, DeskInv, TypeOK, deskVars, copyVars
<1>6. CASE BuildFails(r)
  BY <1>6 DEF BuildFails, DeskInv, TypeOK, deskVars, copyVars
<1>7. CASE Tell(r)
  BY <1>7 DEF Tell, AfterStream, DeskInv, TypeOK, copyVars, Acks
<1>8. CASE Leave(r)
  BY <1>8 DEF Leave, DeskInv, TypeOK, deskVars, copyVars
<1> QED
  BY <1>1, <1>2, <1>3, <1>4, <1>5, <1>6, <1>7, <1>8

\* A patch is received while the stream is open, long before it is acknowledged.
LEMMA BuildDesk ==
  ASSUME TypeOK, DeskInv, NEW r \in Runs, Build(r)
  PROVE  DeskInv'
<1>1. /\ server[r] = "ended" /\ server' = [server EXCEPT ![r] = "built"]
      /\ UNCHANGED <<client, applied, ack>>
      /\ \A s \in Runs : received'[s] # received[s] => s = r /\ client[r] = "streaming"
  BY DEF Build, TypeOK, copyVars
<1>2. client[r] \notin {"idle", "preparing", "prepared"}
  BY <1>1 DEF DeskInv
<1> QED
  BY <1>1, <1>2 DEF DeskInv, TypeOK, Acks

LEMMA DesktopDesk ==
  ASSUME TypeOK, DeskInv, NEW r \in Runs, Begin(r) \/ Desktop(r) \/ CutStream(r) \/ Settle(r)
  PROVE  DeskInv'
<1>1. CASE Begin(r)
  BY <1>1 DEF Begin, DeskInv, TypeOK, copyVars, Acks
<1>2. CASE Send(r)
  BY <1>2 DEF Send, DeskInv, TypeOK, copyVars, Acks
<1>3. CASE StreamGone(r)
  BY <1>3 DEF StreamGone, AfterStream, DeskInv, TypeOK, copyVars, Acks
<1>4. CASE Apply(r)
  BY <1>4 DEF Apply, DeskInv, TypeOK, Acks
<1>5. CASE Acknowledged(r)
  BY <1>5 DEF Acknowledged, DeskInv, TypeOK, copyVars, Acks
<1>6. CASE CutStream(r)
  BY <1>6 DEF CutStream, AfterStream, DeskInv, TypeOK, copyVars, Acks
<1>7. CASE Retry(r)
  BY <1>7 DEF Retry, DeskInv, TypeOK, copyVars, Acks
<1>8. CASE GiveUp(r)
  BY <1>8 DEF GiveUp, DeskInv, TypeOK, copyVars, Acks
<1> QED
  BY <1>1, <1>2, <1>3, <1>4, <1>5, <1>6, <1>7, <1>8 DEF Desktop, Settle

LEMMA AckDesk ==
  ASSUME TypeOK, DeskInv, NEW a \in Acks,
         AckMatch(a) \/ AckRebuild(a) \/ AckReset(a) \/ AckClean(a) \/ AckRecord(a) \/ AckCut(a)
  PROVE  DeskInv'
<1>1. UNCHANGED <<server, client, received, applied>>
  BY DEF AckMatch, AckRebuild, AckReset, AckClean, AckRecord, AckCut, deskVars, copyVars
<1>2. \A b \in Acks : ack[b] = "none" => ack'[b] = "none"
  BY DEF AckMatch, AckRebuild, AckReset, AckClean, AckRecord, AckCut, Answer, TypeOK
<1>3. KeepsDesk
  BY <1>1, <1>2 DEF KeepsDesk
<1> QED
  BY <1>3, DeskKept

LEMMA RestartDesk ==
  ASSUME TypeOK, DeskInv, Restart
  PROVE  DeskInv'
<1>1. Prepared({v \in Revisions : prep[v] # "none"}, FALSE)
  BY DEF Restart
<1>2. /\ \A r \in Runs : client'[r] # client[r] =>
           client[r] = "preparing" /\ client'[r] \in {"prepared", "failed"}
      /\ UNCHANGED <<received, applied>>
  BY <1>1, PreparedDesk
<1>3. KeepsDesk
  BY <1>2 DEF Restart, KeepsDesk
<1> QED
  BY <1>3, DeskKept

-------------------------------------------------------------------------------
(***************************************************************************)
(* TreeInv and PatchIsOfOneRun. Most steps change neither the tree nor a   *)
(* patch, let nobody in and begin no cleaning.                             *)
(***************************************************************************)
KeepsTree ==
  /\ UNCHANGED <<tree, dirt, received, pending, acked>>
  /\ \A r \in Runs : Inside(r)' => /\ Inside(r) /\ base'[r] = base[r]
                                   /\ r \in writer' <=> r \in writer
  /\ \A a \in Acks : /\ ack'[a] = ack[a] \/ ~(ack'[a] = "matched" \/ Cleaning(a)')
                     /\ Found(Acknowledge(a)) => Found(Acknowledge(a))'

LEMMA TreeKept ==
  ASSUME TypeOK, TreeInv, KeepsTree
  PROVE  TreeInv'
<1>1. ASSUME NEW r \in Runs, Inside(r)'
      PROVE  (tree = base[r] /\ (\A c \in dirt : c[1] = r) /\ (r \notin writer => dirt = {}))'
  BY <1>1 DEF TreeInv, KeepsTree
<1>2. (\A r \in acked : received[r] # {} /\ \A c \in dirt : c[1] # r)'
  BY DEF TreeInv, KeepsTree
<1>3. ASSUME NEW a \in Acks
      PROVE  /\ (ack[a] = "matched" \/ Cleaning(a) => received[a[1]] # {})'
             /\ (ack[a] = "matched" =>
                   a[1] \in acked \/ (pending[a[1]] = received[a[1]] /\ Found(Acknowledge(a))))'
             /\ (Cleaning(a) => dirt \subseteq received[a[1]] /\ pending[a[1]] = received[a[1]])'
  <2>1. CASE ack'[a] = ack[a]
    <3>1. Cleaning(a)' => Cleaning(a)
      BY <2>1 DEF Cleaning
    <3> QED
      BY <2>1, <3>1 DEF TreeInv, KeepsTree
  <2>2. CASE ~(ack'[a] = "matched" \/ Cleaning(a)')
    BY <2>2
  <2> QED
    BY <2>1, <2>2 DEF KeepsTree
<1> QED
  BY <1>1, <1>2, <1>3 DEF TreeInv

LEMMA TreeInit == Init => TreeInv /\ PatchIsOfOneRun
BY DEF Init, TreeInv, PatchIsOfOneRun, Inside, Cleaning

LEMMA PrepareTree ==
  ASSUME TypeOK, LockInv, TreeInv, NEW v \in Revisions, PrepareLookup(v) \/ PrepareBegin(v) \/ Expire(v)
  PROVE  TreeInv'
<1>1. UNCHANGED <<tree, dirt, received, pending, acked, server, base, writer, ack>>
  BY DEF PrepareLookup, PrepareBegin, Expire, Prepared, treeVars, memoryVars, deskVars, copyVars
<1>2. \A q \in Requests : q # Preparation(v) /\ Found(q) => Found(q)'
  <2>1. CASE UNCHANGED <<object, lock>>
    BY <2>1 DEF Found
  <2>2. CASE object' = Ensured /\ lock' = [lock EXCEPT ![Preparation(v)] = object']
    BY <2>2, EnsuredLock DEF TypeOK, Found
  <2> QED
    BY <2>1, <2>2 DEF PrepareLookup, PrepareBegin, Expire, lockVars
<1>3. KeepsTree
  BY <1>1, <1>2, AreRequests, Distinct DEF KeepsTree, Inside, Cleaning
<1> QED
  BY <1>3, TreeKept

\* The revision changes while nobody is inside.
LEMMA PrepareEndTree ==
  ASSUME TypeOK, LockInv, TreeInv, NEW v \in Revisions, PrepareEnd(v)
  PROVE  TreeInv'
<1>1. /\ prep[v] = "holding"
      /\ UNCHANGED <<dirt, received, pending, acked, server, ack, lock>>
  BY DEF PrepareEnd, Prepared, memoryVars
<1>2. Has(Preparation(v), FALSE) /\ Found(Preparation(v))
  BY <1>1 DEF LockInv
<1>3. object' = object
  <2>1. object # 0 /\ object' = Ensured
    BY <1>2 DEF Found, PrepareEnd
  <2> QED
    BY <2>1, EnsuredLock
<1>4. \A r \in Runs : ~Inside(r)
  BY <1>2, OwnerAlone, Distinct DEF LockInv
<1>5. \A r \in Runs : ~Inside(r)'
  BY <1>1, <1>4 DEF Inside
<1> QED
  BY <1>1, <1>3, <1>5 DEF TreeInv, Cleaning, Found

LEMMA RemoveLookupTree ==
  ASSUME TypeOK, TreeInv, RemoveLookup
  PROVE  TreeInv'
<1>1. /\ LookUp(Removal)
      /\ UNCHANGED <<tree, dirt, received, pending, acked, server, base, writer, ack, object>>
  BY DEF RemoveLookup, treeVars, memoryVars, deskVars
<1>2. \A a \in Acks : Found(Acknowledge(a)) => Found(Acknowledge(a))'
  BY <1>1, AreRequests, Distinct DEF TypeOK, LookUp, Found
<1>3. KeepsTree
  BY <1>1, <1>2 DEF KeepsTree, Inside, Cleaning
<1> QED
  BY <1>3, TreeKept

\* A lock is taken away when no patch is pending; an acknowledgement that matched
\* one comes too late.
LEMMA RemoveTree ==
  ASSUME TypeOK, TreeInv, Remove
  PROVE  TreeInv'
<1>1. /\ InUse => UNCHANGED object
      /\ UNCHANGED <<tree, dirt, received, pending, acked, server, base, writer, ack, lock>>
  BY Zenon DEF Remove, memoryVars, deskVars
<1>2. CASE InUse
  <2>1. KeepsTree
    BY <1>1, <1>2 DEF KeepsTree, Inside, Cleaning, Found
  <2> QED
    BY <2>1, TreeKept
<1>3. CASE ~InUse
  <2>1. \A r \in Runs : pending[r] = {}
    BY <1>3 DEF InUse
  <2>2. \A a \in Acks : /\ ~Cleaning(a)
                        /\ ack[a] = "matched" => a[1] \in acked
    BY <2>1 DEF TreeInv, Acks
  <2>3. \A r \in Runs : Inside(r)' <=> Inside(r)
    BY <1>1 DEF Inside
  <2>4. \A a \in Acks : ~Cleaning(a)'
    BY <1>1, <2>2 DEF Cleaning
  <2> QED
    BY <1>1, <2>2, <2>3, <2>4 DEF TreeInv
<1> QED
  BY <1>2, <1>3

LEMMA ExecuteTree ==
  ASSUME TypeOK, TreeInv, NEW r \in Runs,
         Lookup(r) \/ Track(r) \/ AgentEnds(r) \/ BuildFails(r) \/ Tell(r) \/ Leave(r)
  PROVE  TreeInv'
<1>1. UNCHANGED <<tree, dirt, received, pending, acked, base, writer, ack, object>>
  BY DEF Lookup, Track, Refuse, AgentEnds, BuildFails, Tell, Leave, treeVars, memoryVars, lockVars, deskVars
<1>2. \A a \in Acks : Found(Acknowledge(a)) => Found(Acknowledge(a))'
  <2>1. CASE UNCHANGED lock
    BY <1>1, <2>1 DEF Found
  <2>2. CASE LookUp(Execute(r))
    BY <1>1, <2>2, AreRequests, Distinct DEF TypeOK, LookUp, Found
  <2> QED
    BY <2>1, <2>2 DEF Lookup, Track, AgentEnds, BuildFails, Tell, Leave, lockVars
<1>3. \A s \in Runs : Inside(s)' => Inside(s)
  BY DEF Lookup, Track, Refuse, AgentEnds, BuildFails, Tell, Leave, TypeOK, Inside
<1>4. KeepsTree
  BY <1>1, <1>2, <1>3 DEF KeepsTree, Cleaning
<1> QED
  BY <1>4, TreeKept

LEMMA EnterTree ==
  ASSUME TypeOK, TreeInv, NEW r \in Runs, Enter(r)
  PROVE  TreeInv'
<1>1. UNCHANGED <<tree, dirt, received, pending, acked, base, writer, ack, object, lock>>
  BY DEF Enter, Refuse, treeVars, deskVars
<1>2. CASE server' = [server EXCEPT ![r] = "running"] /\ BaselineHolds(r)
  <2>1. \A s \in Runs : Inside(s)' => s = r \/ Inside(s)
    BY <1>2 DEF TypeOK, Inside
  <2>2. dirt = {} /\ tree = base[r]
    BY <1>2 DEF BaselineHolds
  <2>3. \A a \in Acks : Cleaning(a)' <=> Cleaning(a)
    BY <1>1 DEF Cleaning
  <2>4. \A a \in Acks : Found(Acknowledge(a))' <=> Found(Acknowledge(a))
    BY <1>1 DEF Found
  <2> QED
    BY <1>1, <2>1, <2>2, <2>3, <2>4 DEF TreeInv
<1>3. CASE Refuse(r)
  <2>1. KeepsTree
    BY <1>1, <1>3 DEF Refuse, KeepsTree, TypeOK, Inside, Cleaning, Found
  <2> QED
    BY <2>1, TreeKept
<1> QED
  BY <1>2, <1>3 DEF Enter

\* A run writes while it is alone.
LEMMA WorkTree ==
  ASSUME TypeOK, LockInv, DeskInv, TreeInv, NEW r \in Runs, Work(r)
  PROVE  TreeInv'
<1>1. PICK c \in Changes \ dirt : c[1] = r /\ dirt' = dirt \cup {c}
  BY DEF Work
<1>2. /\ server[r] = "running" /\ r \in writer
      /\ UNCHANGED <<tree, received, pending, acked, base, writer, ack, object, lock, server>>
  BY DEF Work, memoryVars, lockVars, deskVars
<1>3. Has(Execute(r), FALSE) /\ Inside(r)
  <2>1. Inside(r) /\ (r \notin writer) = FALSE
    BY <1>2 DEF Inside
  <2>2. Has(Execute(r), r \notin writer)
    BY <2>1 DEF LockInv
  <2> QED
    BY <2>1, <2>2
<1>4. \A s \in Runs : Inside(s) => s = r
  BY <1>3, OwnerAlone, Distinct DEF LockInv
<1>5. \A a \in Acks : ~Cleaning(a)
  BY <1>3, OwnerAlone, Distinct DEF LockInv
<1>6. r \notin acked
  BY <1>2 DEF DeskInv, TreeInv
<1>7. \A s \in Runs : Inside(s)' <=> Inside(s)
  BY <1>2 DEF Inside
<1>8. \A a \in Acks : ~Cleaning(a)'
  BY <1>2, <1>5 DEF Cleaning
<1>9. \A a \in Acks : Found(Acknowledge(a))' <=> Found(Acknowledge(a))
  BY <1>2 DEF Found
<1> QED
  BY <1>1, <1>2, <1>4, <1>6, <1>7, <1>8, <1>9 DEF TreeInv

\* A patch is made before anything of its run is acknowledged.
LEMMA BuildTree ==
  ASSUME TypeOK, DeskInv, TreeInv, PatchIsOfOneRun, NEW r \in Runs, Build(r)
  PROVE  TreeInv' /\ PatchIsOfOneRun'
<1> DEFINE patch == IF r \in writer THEN dirt ELSE {}
<1>1. /\ server[r] = "ended" /\ server' = [server EXCEPT ![r] = "built"]
      /\ pending' = [pending EXCEPT ![r] = patch]
      /\ received' = [received EXCEPT ![r] = IF client[r] = "streaming" THEN patch ELSE @]
      /\ UNCHANGED <<tree, dirt, acked, base, writer, ack, object, lock>>
  BY DEF Build, treeVars, lockVars
<1>2. \A c \in patch : c[1] = r
  BY <1>1 DEF TreeInv, Inside
<1>3. received[r] = {}
  BY <1>1 DEF DeskInv
<1>4. r \notin acked /\ \A a \in Acks : a[1] = r => ~(ack[a] = "matched" \/ Cleaning(a))
  BY <1>3 DEF TreeInv
<1> HIDE DEF patch
<1>5. \A s \in Runs : s # r => pending'[s] = pending[s] /\ received'[s] = received[s]
  BY <1>1 DEF TypeOK
<1>6. /\ \A s \in Runs : Inside(s)' <=> Inside(s)
      /\ \A a \in Acks : Cleaning(a)' <=> Cleaning(a)
      /\ \A a \in Acks : Found(Acknowledge(a))' <=> Found(Acknowledge(a))
  BY <1>1 DEF TypeOK, Inside, Cleaning, Found
<1>7. (\A s \in acked : received[s] # {} /\ \A c \in dirt : c[1] # s)'
  BY <1>1, <1>4, <1>5 DEF TreeInv, TypeOK
<1>8. ASSUME NEW a \in Acks
      PROVE  /\ (ack[a] = "matched" \/ Cleaning(a) => received[a[1]] # {})'
             /\ (ack[a] = "matched" =>
                   a[1] \in acked \/ (pending[a[1]] = received[a[1]] /\ Found(Acknowledge(a))))'
             /\ (Cleaning(a) => dirt \subseteq received[a[1]] /\ pending[a[1]] = received[a[1]])'
  <2>1. CASE a[1] = r
    BY <1>1, <1>4, <1>6, <2>1
  <2>2. CASE a[1] # r
    <3>1. a[1] \in Runs
      BY DEF Acks
    <3> QED
      BY <1>1, <1>5, <1>6, <2>2, <3>1 DEF TreeInv
  <2> QED
    BY <2>1, <2>2
<1>9. TreeInv'
  BY <1>1, <1>6, <1>7, <1>8 DEF TreeInv
<1>10. PatchIsOfOneRun'
  BY <1>1, <1>2, <1>5 DEF PatchIsOfOneRun, TypeOK
<1> QED
  BY <1>9, <1>10

\* A run that begins is not on the worker, and nothing of it has been received.
LEMMA DesktopTree ==
  ASSUME TypeOK, DeskInv, TreeInv, NEW r \in Runs, Begin(r) \/ Desktop(r) \/ CutStream(r) \/ Settle(r)
  PROVE  TreeInv'
<1>1. UNCHANGED <<tree, dirt, received, pending, acked, object, lock>>
  BY DEF Begin, Desktop, Send, StreamGone, Apply, Acknowledged, CutStream, Settle, Retry, GiveUp,
         treeVars, memoryVars, lockVars
<1>2. ASSUME NEW s \in Runs, Inside(s)'
      PROVE  Inside(s) /\ base'[s] = base[s] /\ (s \in writer' <=> s \in writer)
  <2>1. CASE Begin(r)
    <3>1. server[r] = "none"
      BY <2>1 DEF Begin, DeskInv
    <3> QED
      BY <1>2, <2>1, <3>1 DEF Begin, TypeOK, Inside
  <2>2. CASE ~Begin(r)
    <3>1. UNCHANGED <<base, writer>>
      BY <2>2 DEF Desktop, Send, StreamGone, Apply, Acknowledged, CutStream, Settle, Retry, GiveUp
    <3>2. Inside(s)
      BY <1>2, <2>2 DEF Desktop, Send, StreamGone, Apply, Acknowledged, CutStream, Settle, Retry,
                        GiveUp, TypeOK, Inside
    <3> QED
      BY <3>1, <3>2
  <2> QED
    BY <2>1, <2>2
<1>3. \A a \in Acks : ack'[a] = ack[a] \/ ack'[a] = "sent"
  BY DEF Begin, Desktop, Send, StreamGone, Apply, Acknowledged, CutStream, Settle, Retry, GiveUp, TypeOK
<1>4. KeepsTree
  BY <1>1, <1>2, <1>3 DEF KeepsTree, Cleaning, Found
<1> QED
  BY <1>4, TreeKept

LEMMA CheckoutTree ==
  ASSUME TypeOK, TreeInv, Edit \/ Commit
  PROVE  TreeInv'
<1>1. KeepsTree
  BY DEF Edit, Commit, KeepsTree, treeVars, memoryVars, lockVars, Inside, Cleaning, Found
<1> QED
  BY <1>1, TreeKept

LEMMA AckMatchTree ==
  ASSUME TypeOK, LockInv, TreeInv, NEW a \in Acks, AckMatch(a)
  PROVE  TreeInv'
<1>1. UNCHANGED <<tree, dirt, received, pending, acked, server, base, writer, object>>
  BY DEF AckMatch, treeVars, memoryVars, deskVars
<1>2. CASE /\ pending[a[1]] # {} /\ pending[a[1]] = received[a[1]] /\ mapped
           /\ LookUp(Acknowledge(a)) /\ Answer(a, "matched")
  <2>1. object # 0
    BY <1>2 DEF LockInv
  <2>2. Found(Acknowledge(a))' /\ \A b \in Acks : Found(Acknowledge(b)) => Found(Acknowledge(b))'
    BY <1>1, <1>2, <2>1, AreRequests, LookUpFinds
  <2>3. /\ \A r \in Runs : Inside(r)' <=> Inside(r)
        /\ \A b \in Acks : Cleaning(b)' => Cleaning(b)
        /\ \A b \in Acks : b # a => ack'[b] = ack[b]
    BY <1>1, <1>2 DEF TypeOK, Answer, Inside, Cleaning
  <2>4. ASSUME NEW b \in Acks
        PROVE  /\ (ack[b] = "matched" \/ Cleaning(b) => received[b[1]] # {})'
               /\ (ack[b] = "matched" =>
                     b[1] \in acked \/ (pending[b[1]] = received[b[1]] /\ Found(Acknowledge(b))))'
               /\ (Cleaning(b) => dirt \subseteq received[b[1]] /\ pending[b[1]] = received[b[1]])'
    <3>1. CASE b = a
      BY <1>1, <1>2, <2>2, <2>3, <3>1 DEF TreeInv
    <3>2. CASE b # a
      BY <1>1, <2>2, <2>3, <3>2 DEF TreeInv
    <3> QED
      BY <3>1, <3>2
  <2> QED
    BY <1>1, <2>3, <2>4 DEF TreeInv
<1>3. CASE UNCHANGED lock /\ Answer(a, IF pending[a[1]] = {} /\ a[1] \in acked THEN "ok" ELSE "refused")
  <2>1. \A b \in Acks : ack'[b] = ack[b] \/ ack'[b] \in {"ok", "refused"}
    BY <1>3 DEF TypeOK, Answer
  <2>2. KeepsTree
    BY <1>1, <1>3, <2>1 DEF KeepsTree, Inside, Cleaning, Found
  <2> QED
    BY <2>2, TreeKept
<1> QED
  BY <1>2, <1>3 DEF AckMatch

LEMMA AckRebuildTree ==
  ASSUME TypeOK, TreeInv, PatchIsOfOneRun, NEW a \in Acks, AckRebuild(a)
  PROVE  TreeInv'
<1>1. UNCHANGED <<tree, dirt, received, pending, acked, server, base, writer, object, lock>>
  BY DEF AckRebuild, treeVars, memoryVars, deskVars
<1>2. CASE SamePatch(a[1])
  <2>1. ack[a] = "matched" /\ ack' = [ack EXCEPT ![a] = "rebuilt"]
    BY <1>2 DEF AckRebuild, Answer
  <2>2. dirt # {} /\ dirt = received[a[1]] /\ pending[a[1]] = received[a[1]]
    BY <1>2, <2>1, MatchedFinds DEF SamePatch
  <2>3. /\ \A r \in Runs : Inside(r)' <=> Inside(r)
        /\ \A b \in Acks : Cleaning(b)' => b = a \/ Cleaning(b)
        /\ \A b \in Acks : Found(Acknowledge(b))' <=> Found(Acknowledge(b))
        /\ \A b \in Acks : ack'[b] = "matched" => ack[b] = "matched"
    BY <1>1, <2>1 DEF TypeOK, Inside, Cleaning, Found
  <2> QED
    BY <1>1, <2>2, <2>3 DEF TreeInv
<1>3. CASE ~SamePatch(a[1])
  <2>1. KeepsTree
    BY <1>1, <1>3 DEF AckRebuild, Answer, TypeOK, KeepsTree, Inside, Cleaning, Found
  <2> QED
    BY <2>1, TreeKept
<1> QED
  BY <1>2, <1>3

\* Cleaning takes away and adds nothing.
LEMMA AckCleanTree ==
  ASSUME TypeOK, TreeInv, NEW a \in Acks, AckReset(a) \/ AckClean(a)
  PROVE  TreeInv'
<1>1. /\ UNCHANGED <<tree, received, pending, acked, server, base, writer, object, lock>>
      /\ dirt' \subseteq dirt
      /\ Cleaning(a)
  BY DEF AckReset, AckClean, memoryVars, lockVars, deskVars, Cleaning
<1>2. /\ \A r \in Runs : Inside(r)' <=> Inside(r)
      /\ \A b \in Acks : Cleaning(b)' => Cleaning(b)
      /\ \A b \in Acks : Found(Acknowledge(b))' <=> Found(Acknowledge(b))
      /\ \A b \in Acks : ack'[b] = "matched" => ack[b] = "matched"
  BY <1>1 DEF AckReset, AckClean, Answer, TypeOK, Inside, Cleaning, Found
<1> QED
  BY <1>1, <1>2 DEF TreeInv

LEMMA AckRecordTree ==
  ASSUME TypeOK, LockInv, TreeInv, NEW a \in Acks, AckRecord(a)
  PROVE  TreeInv'
<1>1. /\ ack[a] = "cleaned" /\ Cleaning(a) /\ a[1] \in Runs
      /\ UNCHANGED <<tree, dirt, received, server, base, writer, object, lock>>
  BY DEF AckRecord, treeVars, deskVars, Cleaning, Acks
<1>2. CASE dirt = {}
  <2>1. /\ pending' = [pending EXCEPT ![a[1]] = {}] /\ acked' = acked \cup {a[1]}
        /\ ack' = [ack EXCEPT ![a] = "ok"]
    BY <1>2 DEF AckRecord, Answer
  <2>2. \A b \in Acks : Cleaning(b) => b = a
    BY <1>1, OwnerAlone, Distinct DEF LockInv
  <2>3. /\ \A r \in Runs : Inside(r)' <=> Inside(r)
        /\ \A b \in Acks : ~Cleaning(b)'
        /\ \A b \in Acks : Found(Acknowledge(b))' <=> Found(Acknowledge(b))
        /\ \A b \in Acks : ack'[b] = "matched" => ack[b] = "matched"
    BY <1>1, <2>1, <2>2 DEF TypeOK, Inside, Cleaning, Found
  <2>4. received[a[1]] # {}
    BY <1>1 DEF TreeInv
  <2>5. \A r \in Runs : r # a[1] => pending'[r] = pending[r]
    BY <2>1 DEF TypeOK
  <2>6. \A b \in Acks : b[1] \in Runs
    BY DEF Acks
  <2> QED
    BY <1>1, <1>2, <2>1, <2>3, <2>4, <2>5, <2>6 DEF TreeInv
<1>3. CASE dirt # {}
  <2>1. KeepsTree
    BY <1>1, <1>3 DEF AckRecord, Answer, TypeOK, KeepsTree, Inside, Cleaning, Found
  <2> QED
    BY <2>1, TreeKept
<1> QED
  BY <1>2, <1>3

LEMMA AckCutTree ==
  ASSUME TypeOK, TreeInv, NEW a \in Acks, AckCut(a)
  PROVE  TreeInv'
<1>1. KeepsTree
  BY DEF AckCut, Answer, TypeOK, KeepsTree, treeVars, memoryVars, deskVars, Inside, Cleaning, Found
<1> QED
  BY <1>1, TreeKept

LEMMA RestartTree ==
  ASSUME TypeOK, Restart
  PROVE  TreeInv' /\ (PatchIsOfOneRun => PatchIsOfOneRun')
<1>1. /\ acked' = {} /\ server' = [r \in Runs |-> "none"] /\ pending' = [r \in Runs |-> {}]
      /\ ack' = [a \in Acks |-> IF ack[a] \in {"none", "ok", "refused"} THEN ack[a] ELSE "refused"]
      /\ received' = received
  BY DEF Restart, Prepared
<1>2. /\ \A r \in Runs : ~Inside(r)'
      /\ \A a \in Acks : ack'[a] # "matched" /\ ~Cleaning(a)'
  BY <1>1 DEF Inside, Cleaning
<1> QED
  BY <1>1, <1>2 DEF TreeInv, PatchIsOfOneRun

-------------------------------------------------------------------------------
(***************************************************************************)
(* The invariant, and what follows from it.                                *)
(***************************************************************************)
LEMMA PatchKept ==
  ASSUME PatchIsOfOneRun, \A r \in Runs : received'[r] = received[r] /\ pending'[r] \subseteq pending[r]
  PROVE  PatchIsOfOneRun'
BY DEF PatchIsOfOneRun

LEMMA PrepareKeeps ==
  ASSUME TypeOK, WorkerInv, NEW v \in Revisions,
         PrepareLookup(v) \/ PrepareBegin(v) \/ PrepareEnd(v) \/ Expire(v)
  PROVE  WorkerInv'
<1>1. LockInv'
  BY PrepareLookupLocks, PrepareBeginLocks, PrepareEndLocks, ExpireLocks DEF WorkerInv
<1>2. DeskInv'
  BY PrepareDesk DEF WorkerInv
<1>3. TreeInv'
  BY PrepareTree, PrepareEndTree DEF WorkerInv
<1>4. UNCHANGED <<received, pending>>
  BY DEF PrepareLookup, PrepareBegin, PrepareEnd, Expire, Prepared, memoryVars, deskVars
<1> QED
  BY <1>1, <1>2, <1>3, <1>4, PatchKept DEF WorkerInv

LEMMA RemovalKeeps ==
  ASSUME ~RemovalRaces, TypeOK, WorkerInv, RemoveLookup \/ Remove
  PROVE  WorkerInv'
<1>1. LockInv'
  BY RemoveLookupLocks, RemoveLocks DEF WorkerInv
<1>2. DeskInv'
  BY OtherDesk DEF WorkerInv
<1>3. TreeInv'
  BY RemoveLookupTree, RemoveTree DEF WorkerInv
<1>4. UNCHANGED <<received, pending>>
  BY Zenon DEF RemoveLookup, Remove, memoryVars, deskVars
<1> QED
  BY <1>1, <1>2, <1>3, <1>4, PatchKept DEF WorkerInv

LEMMA ExecuteKeeps ==
  ASSUME TypeOK, WorkerInv, NEW r \in Runs,
         \/ Lookup(r) \/ Track(r) \/ Enter(r) \/ Work(r) \/ AgentEnds(r)
         \/ Build(r) \/ BuildFails(r) \/ Tell(r) \/ Leave(r)
  PROVE  WorkerInv'
<1>1. LockInv'
  BY LookupLocks, TrackLocks, EnterLocks, ExecuteLocks, LeaveLocks DEF WorkerInv
<1>2. DeskInv'
  BY ExecuteDesk, BuildDesk DEF WorkerInv
<1>3. TreeInv'
  BY ExecuteTree, EnterTree, WorkTree, BuildTree DEF WorkerInv
<1>4. PatchIsOfOneRun'
  <2>1. CASE Build(r)
    BY <2>1, BuildTree DEF WorkerInv
  <2>2. CASE ~Build(r)
    <3>1. UNCHANGED <<received, pending>>
      BY <2>2 DEF Lookup, Track, Enter, Refuse, Work, AgentEnds, BuildFails, Tell, Leave, memoryVars, deskVars
    <3> QED
      BY <3>1, PatchKept DEF WorkerInv
  <2> QED
    BY <2>1, <2>2
<1> QED
  BY <1>1, <1>2, <1>3, <1>4 DEF WorkerInv

LEMMA DesktopKeeps ==
  ASSUME TypeOK, WorkerInv, NEW r \in Runs, Begin(r) \/ Desktop(r) \/ CutStream(r) \/ Settle(r)
  PROVE  WorkerInv'
<1>1. LockInv' /\ DeskInv' /\ TreeInv'
  BY DesktopLocks, DesktopDesk, DesktopTree DEF WorkerInv
<1>2. UNCHANGED <<received, pending>>
  BY DEF Begin, Desktop, Send, StreamGone, Apply, Acknowledged, CutStream, Settle, Retry, GiveUp, memoryVars
<1> QED
  BY <1>1, <1>2, PatchKept DEF WorkerInv

LEMMA CheckoutKeeps ==
  ASSUME TypeOK, WorkerInv, Edit \/ Commit
  PROVE  WorkerInv'
<1>1. LockInv' /\ DeskInv' /\ TreeInv'
  BY CheckoutLocks, OtherDesk, CheckoutTree DEF WorkerInv
<1>2. UNCHANGED <<received, pending>>
  BY DEF Edit, Commit, memoryVars
<1> QED
  BY <1>1, <1>2, PatchKept DEF WorkerInv

LEMMA AckKeeps ==
  ASSUME TypeOK, WorkerInv, NEW a \in Acks,
         AckMatch(a) \/ AckRebuild(a) \/ AckReset(a) \/ AckClean(a) \/ AckRecord(a) \/ AckCut(a)
  PROVE  WorkerInv'
<1>1. LockInv'
  BY AckMatchLocks, AckRebuildLocks, AckCleanLocks, AckEndsLocks DEF WorkerInv
<1>2. DeskInv'
  BY AckDesk DEF WorkerInv
<1>3. TreeInv'
  BY AckMatchTree, AckRebuildTree, AckCleanTree, AckRecordTree, AckCutTree DEF WorkerInv
<1>4. \A r \in Runs : received'[r] = received[r] /\ pending'[r] \subseteq pending[r]
  BY DEF AckMatch, AckRebuild, AckReset, AckClean, AckRecord, AckCut, TypeOK, memoryVars, deskVars
<1> QED
  BY <1>1, <1>2, <1>3, <1>4, PatchKept DEF WorkerInv

LEMMA WorkerNext ==
  ASSUME ~RemovalRaces, TypeOK, WorkerInv, [Next]_vars
  PROVE  WorkerInv'
<1>1. CASE RemoveLookup \/ Remove
  BY <1>1, RemovalKeeps
<1>2. ASSUME NEW v \in Revisions, PrepareLookup(v) \/ PrepareBegin(v) \/ PrepareEnd(v) \/ Expire(v)
      PROVE  WorkerInv'
  BY <1>2, PrepareKeeps
<1>3. ASSUME NEW r \in Runs,
             \/ Lookup(r) \/ Track(r) \/ Enter(r) \/ Work(r) \/ AgentEnds(r)
             \/ Build(r) \/ BuildFails(r) \/ Tell(r) \/ Leave(r)
      PROVE  WorkerInv'
  BY <1>3, ExecuteKeeps
<1>4. ASSUME NEW r \in Runs, Begin(r) \/ Desktop(r) \/ CutStream(r) \/ Settle(r)
      PROVE  WorkerInv'
  BY <1>4, DesktopKeeps
<1>5. CASE Edit \/ Commit
  BY <1>5, CheckoutKeeps
<1>6. ASSUME NEW a \in Acks,
             AckMatch(a) \/ AckRebuild(a) \/ AckReset(a) \/ AckClean(a) \/ AckRecord(a) \/ AckCut(a)
      PROVE  WorkerInv'
  BY <1>6, AckKeeps
<1>7. CASE Restart
  BY <1>7, RestartLocks, RestartDesk, RestartTree DEF WorkerInv
<1>8. CASE UNCHANGED vars
  <2>1. UNCHANGED <<treeVars, memoryVars, lockVars, server, ack, deskVars, adminVars>>
    BY <1>8 DEF vars
  <2>2. KeepsLocks /\ KeepsDesk /\ KeepsTree
    BY <2>1
    DEF KeepsLocks, KeepsDesk, KeepsTree, treeVars, memoryVars, lockVars, deskVars, copyVars, adminVars,
        Inside, Cleaning, Found
  <2>3. PatchIsOfOneRun'
    BY <2>1, PatchKept DEF memoryVars, deskVars, WorkerInv
  <2> QED
    BY <2>2, <2>3, LocksKept, DeskKept, TreeKept DEF WorkerInv
<1> QED
  BY <1>1, <1>2, <1>3, <1>4, <1>5, <1>6, <1>7, <1>8 DEF Next, Serve, Other

\* Who is inside holds the lock there is, what the desktop has received was built
\* for it, and the tree holds the work of one run at a time.
THEOREM WorkerCorrect ==
  ASSUME ~RemovalRaces
  PROVE  Spec => []WorkerInv
<1>1. Init => WorkerInv
  BY LockInit, DeskInit, TreeInit DEF WorkerInv
<1>2. TypeOK /\ WorkerInv /\ [Next]_vars => WorkerInv'
  BY WorkerNext
<1> QED
  BY <1>1, <1>2, TypeCorrect, PTL DEF Spec

\* A patch the desktop receives is the work of one run, however many runs,
\* preparations and acknowledgements want the workspace.
THEOREM PatchCorrect ==
  ASSUME ~RemovalRaces
  PROVE  Spec => []PatchIsOfOneRun
<1>1. WorkerInv => PatchIsOfOneRun
  BY DEF WorkerInv
<1> QED
  BY <1>1, WorkerCorrect, PTL

\* A run works on the revision it was prepared for, and sees its own changes only.
THEOREM BaselineCorrect ==
  ASSUME ~RemovalRaces
  PROVE  Spec => []RunSeesBaseline
<1>1. WorkerInv => RunSeesBaseline
  BY DEF WorkerInv, TreeInv, Inside, RunSeesBaseline
<1> QED
  BY <1>1, WorkerCorrect, PTL

\* Only an acknowledgement takes something out of the tree.
LEMMA OthersTakeNothing ==
  ASSUME TypeOK, [Next]_vars, \A a \in Acks : ~(AckReset(a) \/ AckClean(a))
  PROVE  dirt \subseteq dirt'
<1>1. ASSUME Remove
      PROVE  dirt' = dirt
  BY <1>1, Zenon DEF Remove
<1>2. ASSUME NEW v \in Revisions, PrepareLookup(v) \/ PrepareBegin(v) \/ PrepareEnd(v) \/ Expire(v)
      PROVE  dirt' = dirt
  BY <1>2 DEF PrepareLookup, PrepareBegin, PrepareEnd, Expire, treeVars
<1>3. ASSUME NEW r \in Runs,
             \/ Lookup(r) \/ Track(r) \/ Enter(r) \/ Work(r) \/ AgentEnds(r)
             \/ Build(r) \/ BuildFails(r) \/ Tell(r) \/ Leave(r)
      PROVE  dirt \subseteq dirt'
  BY <1>3 DEF Lookup, Track, Enter, Work, AgentEnds, Build, BuildFails, Tell, Leave, treeVars
<1>4. ASSUME NEW r \in Runs, Begin(r) \/ Desktop(r) \/ CutStream(r) \/ Settle(r)
      PROVE  dirt' = dirt
  BY <1>4 DEF Begin, Desktop, Send, StreamGone, Apply, Acknowledged, CutStream, Settle, Retry, GiveUp, treeVars
<1>5. ASSUME Edit \/ Commit \/ RemoveLookup \/ Restart \/ UNCHANGED vars
      PROVE  dirt' = dirt
  BY <1>5 DEF Edit, Commit, RemoveLookup, Restart, vars, treeVars
<1>6. ASSUME NEW a \in Acks, AckMatch(a) \/ AckRebuild(a) \/ AckRecord(a) \/ AckCut(a)
      PROVE  dirt' = dirt
  BY <1>6 DEF AckMatch, AckRebuild, AckRecord, AckCut, treeVars
<1> QED
  BY <1>1, <1>2, <1>3, <1>4, <1>5, <1>6 DEF Next, Serve, Other

\* Work that has not reached the desktop's checkout stays in the worker's tree:
\* no reset or clean for another run, by a stale acknowledgement or by one that
\* is cut half way takes it away.
THEOREM WorkCorrect ==
  ASSUME ~RemovalRaces
  PROVE  Spec => WorkIsNotLost
<1>1. ASSUME TypeOK, WorkerInv, [Next]_vars, NEW c \in dirt, c \notin dirt'
      PROVE  c \in applied
  <2>1. PICK a \in Acks : AckReset(a) \/ AckClean(a)
    BY <1>1, OthersTakeNothing
  <2>2. Cleaning(a) /\ ack[a] # "none"
    BY <2>1 DEF AckReset, AckClean, Cleaning
  <2>3. dirt \subseteq received[a[1]] /\ received[a[1]] \subseteq applied
    BY <1>1, <2>2 DEF WorkerInv, TreeInv, DeskInv
  <2> QED
    BY <1>1, <2>3
<1>2. TypeOK /\ WorkerInv /\ [Next]_vars => [\A c \in dirt : c \notin dirt' => c \in applied]_vars
  BY <1>1
<1> QED
  BY <1>2, WorkerCorrect, TypeCorrect, PTL DEF Spec, WorkIsNotLost
===============================================================================
