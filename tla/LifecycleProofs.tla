-------------------------- MODULE LifecycleProofs --------------------------
(***************************************************************************)
(* Proofs about Lifecycle for every set of computers, hosts, worker slots, *)
(* API handlers and idempotency keys, and every bound.                     *)
(***************************************************************************)
EXTENDS Lifecycle, FiniteSetTheorems, TLAPS

-----------------------------------------------------------------------------
(* The inductive invariant, part by part. *)

\* A job row that has been inserted names a computer and a type; an unused id
\* has no entry in the queue.
JobsFormed ==
    \A j \in Job :
        /\ job[j].status = "FREE" => entry[j] = NoEntry /\ job[j].attempts = 0
        /\ job[j].status # "FREE" =>
               job[j].computer \in Computer /\ job[j].type \in JobType

Busy(w) == worker[w].pc # "idle"

\* What a handler that is at work has in hand.
Equipped(s) ==
    /\ s.job \in Job
    /\ s.type \in JobType
    /\ s.status \in Contract!Reported
    /\ s.pc \in {"reserve", "create", "record", "start", "operate", "finish"} =>
           s.host \in Host
    /\ s.pc = "operate" => s.type # "PROVISION"

\* The steps that are made once the computer has a host.
PlacedPc == {"create", "record", "start", "operate"}

\* A busy slot has a job of its own, active in the queue, and the computer it
\* works on has a host on record before the provider is called.
SlotsFormed ==
    \A w \in Worker : Busy(w) =>
        /\ Equipped(worker[w])
        /\ Visible(worker[w].job)
        /\ entry[worker[w].job].state = "active"
        /\ \A v \in Worker : Busy(v) /\ v # w => worker[v].job # worker[w].job
        /\ worker[w].pc \in PlacedPc => row[Of(w)].hostId # None

\* A request was checked against a status its action allows. The row it read is
\* not older than the row that is there now, and if it is the same row it is
\* not a deleted one.
ReadsFormed ==
    \A r \in Request :
        /\ request[r].pc # "idle" => request[r].computer \in Computer
        /\ request[r].pc = "created" => row[request[r].computer].status # "ABSENT"
        /\ request[r].pc \in {"read", "open"} =>
               LET c == request[r].computer IN
               /\ request[r].action \in LifecycleAction
               /\ request[r].status \in From[request[r].action]
               /\ row[c].status # "ABSENT"
               /\ request[r].version <= row[c].version
               /\ request[r].version = row[c].version => ~row[c].deleted

\* An open transaction has inserted the job of its request, and nobody has
\* touched the row it has locked, which no other transaction has.
TransactionsFormed ==
    \A r \in Request : request[r].pc = "open" =>
        LET c == request[r].computer IN
        /\ request[r].job \in Job
        /\ job[request[r].job].status = "OPEN"
        /\ job[request[r].job].computer = c
        /\ job[request[r].job].type = jobType[request[r].action]
        /\ Unmoved(r)
        /\ \A s \in Request : request[s].pc = "open" /\ s # r => request[s].computer # c

\* A pass knows the row it is about to write, and a slot makes one when its
\* handler has come to it.
PassesFormed ==
    /\ \A p \in Pass : pass[p].pc = "write" =>
           pass[p].at \in Computer /\ pass[p].status \in Contract!Reported
    /\ \A w \in Worker : pass[w].pc # "off" => worker[w].pc = "settle"

\* Each delivery of an entry ends in a failed attempt or in a stall, but the
\* one in progress or the one that succeeded.
DeliveriesCounted ==
    \A j \in Job :
        LET e == entry[j]  n == IF e.state \in {"active", "completed"} THEN 1 ELSE 0 IN
        /\ job[j].attempts <= e.made + e.stalls + n
        /\ e.made + (IF e.state = "failed" THEN 0 ELSE 1) <= maxAttempts(job[j].type)
        /\ e.stalls <= (IF e.state = "failed" THEN 2 ELSE 1)

IInv ==
    /\ TypeOK
    /\ JobsFormed
    /\ SlotsFormed
    /\ ReadsFormed
    /\ TransactionsFormed
    /\ PassesFormed
    /\ DeliveriesCounted
    /\ PlacementFirst

-----------------------------------------------------------------------------
(* Facts about the tables and the helpers. *)

\* The tables of the lifecycle give statuses and job types, and the same as
\* the contract's tables.
LEMMA TableTypes ==
    /\ \A a \in LifecycleAction : To[a] \in ComputerStatus /\ jobType[a] \in JobType
    /\ \A t \in JobType : finalStatus[t] \in Contract!Reported
    /\ \A s \in BoxState \ {"absent"} : mapDockerState(s) \in Contract!Reported
    /\ Contract!Reported \subseteq ComputerStatus
    /\ "ABSENT" \notin ComputerStatus
  BY DEF LifecycleAction, To, jobType, JobType, finalStatus, BoxState,
         mapDockerState, ComputerStatus, Contract!Reported

\* The job id an insertion takes is one no row has (jobs.ts,
\* provisioningJob.create).
LEMMA NewJobFree ==
    ASSUME FreeJobs # {}
    PROVE  NewJob \in Job /\ job[NewJob].status = "FREE"
  BY DEF FreeJobs, NewJob

\* What the Docker provider makes of a container, a call that throws
\* included, is a container again.
LEMMA BoxTypes ==
    ASSUME NEW b \in Box
    PROVE  /\ Created(b) \in Box
           /\ Created(b).state # "absent"
           /\ HalfCreated(b) \subseteq Box
           /\ \A t \in JobType \ {"PROVISION"} : Performed(t, b) \in Box
           /\ \A t \in JobType \ {"PROVISION"}, n \in Nat : Interrupted(t, b, n) \subseteq Box
<1>1. Created(b) \in Box /\ Created(b).state # "absent"
  BY DEF Box, BoxState, Created
<1>2. \A t \in JobType \ {"PROVISION"} : Performed(t, b) \in Box
  BY DEF Box, BoxState, Performed, JobType
<1>3. \A t \in JobType \ {"PROVISION"}, n \in Nat : Interrupted(t, b, n) \subseteq Box
  <2> SUFFICES ASSUME NEW t \in JobType \ {"PROVISION"}, NEW n \in Nat
               PROVE  Interrupted(t, b, n) \subseteq Box
    OBVIOUS
  <2>1. [b EXCEPT !.state = "absent"] \in Box
    BY DEF Box, BoxState
  <2>2. Performed(t, b) \in Box /\ Performed("STOP", b) \in Box
    BY <1>2 DEF JobType
  <2> QED BY <2>1, <2>2 DEF Interrupted
<1>4. HalfCreated(b) \subseteq Box
  BY <1>1 DEF Box, HalfCreated
<1> QED BY <1>1, <1>2, <1>3, <1>4

\* What a host's computers add up to is a pair of numbers
\* (reconciliation.ts, reconcileHostAllocations).
LEMMA LoadTypes ==
    \A h : Load(h) \in [compute : Int, storage : Int]
<1> SUFFICES ASSUME NEW h PROVE Load(h) \in [compute : Int, storage : Int]
  OBVIOUS
<1>1. IsFiniteSet(Computer)
  BY ConstantsAssumption DEF ConstantsAssumption
<1>2. Placed(h) \subseteq Computer
  BY DEF Placed, Live
<1>3. /\ IsFiniteSet(Placed(h))
      /\ IsFiniteSet({c \in Placed(h) : row[c].status \in computeReservedStatuses})
  BY <1>1, <1>2, FS_Subset
<1>4. Cardinality(Placed(h)) \in Nat
      /\ Cardinality({c \in Placed(h) : row[c].status \in computeReservedStatuses}) \in Nat
  BY <1>3, FS_CardinalityType
<1> QED BY <1>4 DEF Load

\* Every update the handlers make of a computer row leaves a row.
LEMMA UpdateTypes ==
    /\ \A old \in Row, status \in ComputerStatus, deleted \in BOOLEAN :
          /\ Updated(old, status) \in Row
          /\ [Updated(old, status) EXCEPT !.deleted = deleted] \in Row
    /\ \A load \in HostRow, n \in Int : Charged(load, n) \in HostRow
    /\ \A e \in Entry : \A type : AfterFailure(e, type) \in Entry
<1>1. ASSUME NEW old \in Row, NEW status \in ComputerStatus
      PROVE  Updated(old, status) \in Row
  <2>1. \A v \in Nat : [old EXCEPT !.status = status, !.version = v] \in Row
    BY DEF Row
  <2>2. old.version + 1 \in Nat
    BY DEF Row
  <2>3. Updated(old, status) = [old EXCEPT !.status = status, !.version = old.version + 1]
    BY DEF Updated, Row
  <2> QED BY <2>1, <2>2, <2>3
<1>2. ASSUME NEW old \in Row, NEW deleted \in BOOLEAN
      PROVE  [old EXCEPT !.deleted = deleted] \in Row
  BY DEF Row
<1>3. ASSUME NEW load \in HostRow, NEW n \in Int
      PROVE  Charged(load, n) \in HostRow
  <2>1. \A x, y \in Int : [load EXCEPT !.compute = x, !.storage = y] \in HostRow
    BY DEF HostRow
  <2>2. load.compute + n \in Int /\ load.storage + n \in Int
    BY DEF HostRow
  <2>3. Charged(load, n) = [load EXCEPT !.compute = load.compute + n,
                                        !.storage = load.storage + n]
    BY DEF Charged, HostRow
  <2> QED BY <2>1, <2>2, <2>3
<1>4. ASSUME NEW e \in Entry, NEW type
      PROVE  AfterFailure(e, type) \in Entry
  <2> DEFINE state == IF e.made + 1 < QueueAttempts(type) THEN "delayed" ELSE "failed"
  <2>1. \A m \in Nat : [e EXCEPT !.state = state, !.made = m] \in Entry
    BY DEF Entry
  <2>2. e.made + 1 \in Nat
    BY DEF Entry
  <2>3. AfterFailure(e, type) = [e EXCEPT !.state = state, !.made = e.made + 1]
    BY DEF AfterFailure, Entry
  <2> QED BY <2>1, <2>2, <2>3
<1> QED BY <1>1, <1>2, <1>3, <1>4

\* The empty system is well typed.
LEMMA TypeInit == Init => TypeOK
<1> SUFFICES ASSUME Init PROVE TypeOK
  OBVIOUS
<1>1. row \in [Computer -> Row]
  BY DEF Init, AbsentRow, Row, Instance
<1>2. job \in [Job -> JobRow] /\ entry \in [Job -> Entry]
  BY DEF Init, FreeJob, JobRow, JobStatus, NoEntry, Entry
<1>3. worker \in [Worker -> Slot]
  BY DEF Init, IdleSlot, Slot, SlotPc, Instance
<1>4. pass \in [Pass -> PassState]
  BY DEF Init, NoPass, PassState, NoListing, Listing, Instance, NoLoad
<1>5. request \in [Request -> Handler]
  BY DEF Init, IdleHandler, Handler
<1>6. box \in [Host -> [Computer -> Box]] /\ host \in [Host -> HostRow]
  BY DEF Init, NoBox, Box, BoxState, HostRow
<1> QED BY <1>1, <1>2, <1>3, <1>4, <1>5, <1>6 DEF Init, TypeOK

\* The API handlers (computers.ts, jobs.ts) preserve the types.
LEMMA TypeApi ==
    ASSUME IInv, NEW r \in Request, ApiStep(r)
    PROVE  TypeOK'
<1> DEFINE H == request[r]
<1>0. /\ TypeOK
      /\ request \in [Request -> Handler] /\ row \in [Computer -> Row]
      /\ job \in [Job -> JobRow] /\ entry \in [Job -> Entry]
      /\ H \in Handler
  BY DEF IInv, TypeOK
<1>a. /\ H.pc # "idle" => H.computer \in Computer
      /\ H.pc \in {"read", "open"} => H.action \in LifecycleAction
  BY DEF IInv, ReadsFormed
<1>b. IdleHandler \in Handler
  BY DEF IdleHandler, Handler
<1>1. ASSUME NEW c \in Computer, NEW k \in Key \cup {None}, CheckQuota(r, c, k)
      PROVE  TypeOK'
  <2>1. [IdleHandler EXCEPT !.pc = "checked", !.computer = c, !.key = k] \in Handler
    BY DEF IdleHandler, Handler
  <2>2. request' \in [Request -> Handler]
    BY <1>0, <1>1, <2>1 DEF CheckQuota
  <2> QED BY <1>0, <1>1, <2>2 DEF CheckQuota, TypeOK
<1>2. CASE CreateRow(r)
  <2>1. request' \in [Request -> Handler]
    BY <1>0, <1>2 DEF CreateRow, Handler
  <2>2. H.computer \in Computer
    BY <1>2, <1>a DEF CreateRow
  <2>3. row' \in [Computer -> Row]
    BY <1>0, <1>2, <2>2 DEF CreateRow, Row, ComputerStatus
  <2> QED BY <1>0, <1>2, <2>1, <2>3 DEF CreateRow, TypeOK
<1>3. CASE EnqueueCreated(r)
  <2>1. request' \in [Request -> Handler]
    BY <1>0, <1>b, <1>3 DEF EnqueueCreated
  <2>2. job' \in [Job -> JobRow]
    <3>1. NewRow(H.computer, "PROVISION", H.key, "QUEUED") \in JobRow
      BY <1>0 DEF NewRow, JobRow, JobStatus, JobType, Handler
    <3> QED BY <1>0, <1>3, <3>1 DEF EnqueueCreated
  <2>3. entry' \in [Job -> Entry]
    BY <1>0, <1>3 DEF EnqueueCreated, Entry
  <2> QED BY <1>0, <1>3, <2>1, <2>2, <2>3 DEF EnqueueCreated, TypeOK
<1>4. CASE EnqueueLost(r)
  <2>1. request' \in [Request -> Handler]
    BY <1>0, <1>b, <1>4 DEF EnqueueLost
  <2>2. job' \in [Job -> JobRow]
    <3>1. \A status \in {"QUEUED", "FAILED"} :
             NewRow(H.computer, "PROVISION", H.key, status) \in JobRow
      BY <1>0 DEF NewRow, JobRow, JobStatus, JobType, Handler
    <3> QED BY <1>0, <1>4, <3>1 DEF EnqueueLost
  <2> QED BY <1>0, <1>4, <2>1, <2>2 DEF EnqueueLost, Fault, TypeOK
<1>5. ASSUME NEW c \in Computer, NEW a \in Actions, NEW k \in Key \cup {None},
             ReadRow(r, c, a, k)
      PROVE  TypeOK'
  <2>1. a \in LifecycleAction
    BY ConstantsAssumption DEF ConstantsAssumption
  <2>2. [pc |-> "read", action |-> a, computer |-> c, status |-> row[c].status,
         version |-> row[c].version, key |-> k, job |-> 0] \in Handler
    BY <1>0, <2>1 DEF Handler, Row
  <2>3. request' \in [Request -> Handler]
    BY <1>0, <1>5, <2>2 DEF ReadRow
  <2> QED BY <1>0, <1>5, <2>3 DEF ReadRow, TypeOK
<1>6. CASE Submit(r)
  <2>1. NewJob \in Job /\ NewJob \in Nat
    BY <1>6, NewJobFree DEF Submit, Job
  <2>2. [H EXCEPT !.pc = "open", !.job = NewJob] \in Handler
    BY <1>0, <2>1 DEF Handler
  <2>3. request' \in [Request -> Handler]
    BY <1>0, <1>6, <2>2 DEF Submit
  <2>4. job' \in [Job -> JobRow]
    <3>1. NewRow(H.computer, jobType[H.action], H.key, "OPEN") \in JobRow
      BY <1>0, <1>a, <1>6, TableTypes DEF Submit, NewRow, JobRow, JobStatus, Handler
    <3> QED BY <1>0, <1>6, <3>1 DEF Submit
  <2>5. entry' \in [Job -> Entry]
    BY <1>0, <1>6 DEF Submit, Entry
  <2> QED BY <1>0, <1>6, <2>3, <2>4, <2>5 DEF Submit, TypeOK
<1>c. H.pc \in {"read", "open"} => Moved(r) \in Row
  <2> SUFFICES ASSUME H.pc \in {"read", "open"} PROVE Moved(r) \in Row
    OBVIOUS
  <2>1. row[H.computer] \in Row /\ To[H.action] \in ComputerStatus
    BY <1>0, <1>a, TableTypes
  <2> QED BY <2>1, UpdateTypes DEF Moved
<1>7. CASE Commit(r)
  <2>1. request' \in [Request -> Handler]
    BY <1>0, <1>b, <1>7 DEF Commit
  <2>2. row' \in [Computer -> Row]
    BY <1>0, <1>c, <1>7 DEF Commit
  <2>3. job' \in [Job -> JobRow]
    BY <1>0, <1>7 DEF Commit, JobRow, JobStatus
  <2> QED BY <1>0, <1>7, <2>1, <2>2, <2>3 DEF Commit, TypeOK
<1>8. CASE Abort(r)
  <2>1. request' \in [Request -> Handler]
    BY <1>0, <1>b, <1>8 DEF Abort
  <2>2. job' \in [Job -> JobRow]
    BY <1>0, <1>8 DEF Abort, JobRow, JobStatus
  <2> QED BY <1>0, <1>8, <2>1, <2>2 DEF Abort, Fault, TypeOK
<1>9. CASE Replay(r)
  <2>1. request' \in [Request -> Handler]
    BY <1>0, <1>b, <1>9 DEF Replay
  <2>2. row' \in [Computer -> Row]
    BY <1>0, <1>c, <1>9 DEF Replay
  <2> QED BY <1>0, <1>9, <2>1, <2>2 DEF Replay, TypeOK
<1>10. CASE Reject(r)
  <2>1. request' \in [Request -> Handler]
    BY <1>0, <1>b, <1>10 DEF Reject
  <2> QED BY <1>0, <1>10, <2>1 DEF Reject, Fault, TypeOK
<1> QED BY <1>1, <1>2, <1>3, <1>4, <1>5, <1>6, <1>7, <1>8, <1>9, <1>10 DEF ApiStep

\* BullMQ's promotion of delayed entries and its check for stalled ones
\* preserve the types.
LEMMA TypeQueue ==
    ASSUME IInv, NEW j \in Job, Promote(j) \/ Stall(j)
    PROVE  TypeOK'
<1>1. entry \in [Job -> Entry] /\ TypeOK
  BY DEF IInv, TypeOK
<1>2. entry' \in [Job -> Entry]
  BY <1>1 DEF Promote, Stall, Entry
<1> QED BY <1>1, <1>2 DEF Promote, Stall, TypeOK

\* The job handler (worker.ts, processJob) preserves the types.
LEMMA TypeWorker ==
    ASSUME IInv, NEW w \in Worker, WorkerStep(w)
    PROVE  TypeOK'
<1> DEFINE S == worker[w]
           J == job[S.job]
<1>0. /\ TypeOK
      /\ row \in [Computer -> Row] /\ job \in [Job -> JobRow]
      /\ entry \in [Job -> Entry] /\ worker \in [Worker -> Slot]
      /\ box \in [Host -> [Computer -> Box]] /\ host \in [Host -> HostRow]
      /\ S \in Slot
  BY DEF IInv, TypeOK
<1>a. Busy(w) => /\ S.job \in Job
                 /\ J.computer \in Computer /\ J.type \in JobType
                 /\ S.type \in JobType /\ S.status \in ComputerStatus
                 /\ S.pc \in {"reserve", "create", "record", "start", "operate", "finish"} =>
                        S.host \in Host
                 /\ S.pc = "operate" => S.type # "PROVISION"
  BY TableTypes DEF IInv, SlotsFormed, Equipped, JobsFormed, Visible, Of
<1>b. IdleSlot \in Slot
  BY DEF IdleSlot, Slot, SlotPc, Instance
<1>c. ASSUME NEW pc \in SlotPc, Go(w, pc)
      PROVE  worker' \in [Worker -> Slot]
  <2>1. [S EXCEPT !.pc = pc] \in Slot
    BY <1>0 DEF Slot
  <2> QED BY <1>0, <1>c, <2>1 DEF Go
<1>1. ASSUME NEW j \in Job, Take(w, j) PROVE TypeOK'
  <2> DEFINE c == job[j].computer
             type == effectiveType(job[j].type, row[c].instance)
             new == [pc |-> FirstStep(type, row[c].hostId, row[c].instance),
                     job |-> j, type |-> type, host |-> row[c].hostId,
                     instance |-> row[c].instance,
                     status |-> IF row[c].hostId = None THEN "PROVIDER_UNAVAILABLE" ELSE "ERROR"]
  <2>1. c \in Computer /\ job[j].type \in JobType
    BY <1>1 DEF Take, IInv, JobsFormed, Visible
  <2>2. row[c].hostId \in Host \cup {None} /\ row[c].instance \in Instance
    BY <1>0, <2>1 DEF Row
  <2>3. type \in JobType
    BY <2>1 DEF effectiveType, JobType
  <2>4. FirstStep(type, row[c].hostId, row[c].instance) \in SlotPc
    BY <2>3 DEF FirstStep, JobType, SlotPc
  <2>5. j \in Nat
    BY DEF Job
  <2>6. new \in Slot
    <3> HIDE DEF type
    <3> QED BY <2>2, <2>3, <2>4, <2>5 DEF Slot, ComputerStatus
  <2>7. worker' \in [Worker -> Slot]
    <3> HIDE DEF type
    <3>1. worker' = [worker EXCEPT ![w] = new]
      BY <1>1 DEF Take, type
    <3> HIDE DEF new
    <3> QED BY <1>0, <2>6, <3>1
  <2>8. job' \in [Job -> JobRow]
    BY <1>0, <1>1 DEF Take, JobRow, JobStatus
  <2>9. entry' \in [Job -> Entry]
    BY <1>0, <1>1 DEF Take, Entry
  <2> QED BY <1>0, <1>1, <2>7, <2>8, <2>9 DEF Take, TypeOK
<1>2. ASSUME NEW j \in Job, Miss(w, j) PROVE TypeOK'
  <2>1. entry' \in [Job -> Entry]
    BY <1>0, <1>2, UpdateTypes DEF Miss
  <2> QED BY <1>0, <1>2, <2>1 DEF Miss, Fault, TypeOK
<1>3. CASE Schedule(w)
  <2>1. \A h \in Host : [S EXCEPT !.pc = "reserve", !.host = h] \in Slot
    BY <1>0 DEF Slot, SlotPc
  <2>2. [S EXCEPT !.pc = "report", !.status = "ERROR"] \in Slot
    BY <1>0 DEF Slot, SlotPc, ComputerStatus
  <2>3. worker' \in [Worker -> Slot]
    BY <1>0, <1>3, <2>1, <2>2 DEF Schedule
  <2> QED BY <1>0, <1>3, <2>3 DEF Schedule, TypeOK
<1>e. \A h \in Host : Released(h) \in [Host -> HostRow]
  BY <1>0, UpdateTypes DEF Released
<1>4. CASE Reserve(w)
  <2>1. S.host \in Host /\ Of(w) \in Computer
    BY <1>4, <1>a DEF Reserve, Busy, Of
  <2>2. [S EXCEPT !.pc = "create", !.instance = row[Of(w)].instance] \in Slot
    BY <1>0, <2>1 DEF Slot, SlotPc, Row
  <2>3. worker' \in [Worker -> Slot]
    BY <1>0, <1>4, <2>2 DEF Reserve
  <2>4. PlacedRow(row[Of(w)], S.host) \in Row
    BY <1>0, <2>1 DEF PlacedRow, Row, ComputerStatus
  <2>5. row' \in [Computer -> Row]
    BY <1>0, <1>4, <2>4 DEF Reserve
  <2>6. host' \in [Host -> HostRow]
    BY <1>0, <1>4, <2>1, UpdateTypes DEF Reserve
  <2> QED BY <1>0, <1>4, <2>3, <2>5, <2>6 DEF Reserve, TypeOK
<1>5. CASE Release(w)
  <2>1. worker' \in [Worker -> Slot]
    BY <1>5, <1>c DEF Release, SlotPc
  <2>2. row' \in [Computer -> Row]
    BY <1>0, <1>5, <1>a, UpdateTypes DEF Release, Of, Busy, ComputerStatus
  <2>3. host' \in [Host -> HostRow]
    BY <1>0, <1>5, <1>e DEF Release, Slot
  <2> QED BY <1>0, <1>5, <2>1, <2>2, <2>3 DEF Release, TypeOK
<1>6. CASE Create(w)
  <2> DEFINE made == Created(box[S.host][Of(w)])
  <2>1. S.host \in Host /\ Of(w) \in Computer
    BY <1>6, <1>a DEF Create, Busy, Of
  <2>2. made \in Box /\ made.state \in BoxState \ {"absent"} /\ made.made \in Nat
    <3>1. box[S.host][Of(w)] \in Box
      BY <1>0, <2>1
    <3>2. Created(box[S.host][Of(w)]) \in Box /\ Created(box[S.host][Of(w)]).state # "absent"
      BY <3>1, BoxTypes
    <3> QED BY <3>2 DEF Box
  <2>3. mapDockerState(made.state) \in ComputerStatus
    BY <2>2, TableTypes
  <2> HIDE DEF made
  <2>4. [S EXCEPT !.pc = "record", !.instance = <<S.host, made.made>>,
                  !.status = mapDockerState(made.state)] \in Slot
    BY <1>0, <2>1, <2>2, <2>3 DEF Slot, SlotPc, Instance
  <2>5. worker' \in [Worker -> Slot]
    BY <1>0, <1>6, <2>4 DEF Create, made
  <2>6. box' \in [Host -> [Computer -> Box]]
    BY <1>0, <1>6, <2>2 DEF Create, made
  <2> QED BY <1>0, <1>6, <2>5, <2>6 DEF Create, TypeOK
<1>7. CASE Record(w)
  <2>1. worker' \in [Worker -> Slot]
    BY <1>7, <1>c DEF Record, SlotPc
  <2>2. S.status \in ComputerStatus /\ S.instance \in Instance
    BY <1>0, <1>a, <1>7 DEF Record, Busy, Slot
  <2>3. row' \in [Computer -> Row]
    BY <1>0, <1>7, <2>2 DEF Record, Row
  <2> QED BY <1>0, <1>7, <2>1, <2>3 DEF Record, TypeOK
<1>f. S.pc \in {"start", "operate"} => Operation(w) \in JobType \ {"PROVISION"}
  BY <1>a DEF Operation, Busy, JobType
<1>8. CASE Operate(w)
  <2>1. S.host \in Host /\ Of(w) \in Computer
    BY <1>8, <1>a DEF Operate, Busy, Of
  <2>2. [S EXCEPT !.pc = "report", !.status = "ERROR"] \in Slot
    BY <1>0 DEF Slot, SlotPc, ComputerStatus
  <2>3. worker' \in [Worker -> Slot]
    BY <1>0, <1>8, <1>c, <2>2 DEF Operate, SlotPc
  <2>4. box[S.host][Of(w)] \in Box
    BY <1>0, <2>1
  <2>5. Performed(Operation(w), box[S.host][Of(w)]) \in Box
    BY <1>8, <1>f, <2>4, BoxTypes DEF Operate
  <2>6. box' \in [Host -> [Computer -> Box]]
    <3> DEFINE new == Performed(Operation(w), box[S.host][Of(w)])
    <3>1. box' = [box EXCEPT ![S.host][Of(w)] = new] \/ box' = box
      BY <1>8 DEF Operate
    <3> HIDE DEF new
    <3>2. new \in Box
      BY <2>5 DEF new
    <3>3. box \in [Host -> [Computer -> Box]]
      BY <1>0
    <3>4. [box EXCEPT ![S.host][Of(w)] = new] \in [Host -> [Computer -> Box]]
      BY <2>1, <3>2, <3>3
    <3> QED BY <3>1, <3>3, <3>4
  <2> QED BY <1>0, <1>8, <2>3, <2>6 DEF Operate, TypeOK
<1>9. CASE Finish(w)
  <2>1. worker' \in [Worker -> Slot]
    BY <1>9, <1>c DEF Finish, SlotPc
  <2>2. S.host \in Host /\ Of(w) \in Computer /\ finalStatus[S.type] \in ComputerStatus
    BY <1>9, <1>a, TableTypes DEF Finish, Busy, Of
  <2>3. [Updated(row[Of(w)], finalStatus[S.type]) EXCEPT
            !.deleted = row[Of(w)].deleted \/ finalStatus[S.type] = "DELETED"] \in Row
    <3>1. row[Of(w)] \in Row /\ row[Of(w)].deleted \in BOOLEAN
      BY <1>0, <2>2 DEF Row
    <3> QED BY <2>2, <3>1, UpdateTypes
  <2>4. row' \in [Computer -> Row]
    <3> DEFINE new == [Updated(row[Of(w)], finalStatus[S.type]) EXCEPT
                   !.deleted = row[Of(w)].deleted \/ finalStatus[S.type] = "DELETED"]
    <3>1. row' = [row EXCEPT ![Of(w)] = new]
      BY <1>9 DEF Finish
    <3> HIDE DEF new
    <3>2. new \in Row
      BY <2>3 DEF new
    <3> QED BY <1>0, <3>1, <3>2
  <2>5. host' \in [Host -> HostRow]
    BY <1>0, <1>9, <1>e, <2>2 DEF Finish
  <2> QED BY <1>0, <1>9, <2>1, <2>4, <2>5 DEF Finish, TypeOK
<1>10. CASE Succeed(w)
  <2>1. worker' \in [Worker -> Slot]
    BY <1>10, <1>c DEF Succeed, SlotPc
  <2>2. job' \in [Job -> JobRow]
    BY <1>0, <1>10 DEF Succeed, JobRow, JobStatus
  <2> QED BY <1>0, <1>10, <2>1, <2>2 DEF Succeed, TypeOK
<1>11. CASE Ack(w)
  <2>1. entry' \in [Job -> Entry]
    BY <1>0, <1>11 DEF Ack, Entry
  <2>2. worker' \in [Worker -> Slot]
    BY <1>0, <1>b, <1>11 DEF Ack
  <2> QED BY <1>0, <1>11, <2>1, <2>2 DEF Ack, TypeOK
<1>12. CASE Fail(w)
  <2>1. \A status \in ComputerStatus : [S EXCEPT !.pc = "report", !.status = status] \in Slot
    BY <1>0 DEF Slot, SlotPc
  <2>2. worker' \in [Worker -> Slot]
    BY <1>0, <1>12, <2>1 DEF Fail, ComputerStatus
  <2>3. NoPass \in PassState
    BY DEF NoPass, PassState, NoListing, Listing, Instance, NoLoad
  <2>4. pass' \in [Pass -> PassState]
    <3>1. pass \in [Pass -> PassState]
      BY <1>0 DEF TypeOK
    <3> QED BY <3>1, <1>12, <2>3 DEF Fail
  <2>5. ASSUME S.pc \in {"create", "start", "operate"}
        PROVE  PartlyDone(w) \subseteq Box
    <3>1. S.host \in Host /\ Of(w) \in Computer
      BY <2>5, <1>a DEF Busy, Of
    <3>2. box[S.host][Of(w)] \in Box
      BY <1>0, <3>1
    <3>3. Nth(S.host, S.instance) \in Nat
      BY <1>0 DEF Nth, Slot, Instance
    <3> QED BY <2>5, <1>f, <3>2, <3>3, BoxTypes DEF PartlyDone
  <2>6. box' \in [Host -> [Computer -> Box]]
    <3>1. CASE S.pc \in {"create", "start", "operate"}
      <4>1. PICK b \in PartlyDone(w) : box' = [box EXCEPT ![S.host][Of(w)] = b]
        BY <1>12, <3>1 DEF Fail
      <4> QED BY <1>0, <2>5, <3>1, <4>1
    <3>2. CASE S.pc \notin {"create", "start", "operate"}
      BY <1>0, <1>12, <3>2 DEF Fail
    <3> QED BY <3>1, <3>2
  <2> QED BY <1>0, <1>12, <2>2, <2>4, <2>6 DEF Fail, Fault, TypeOK
<1>13. CASE Report(w)
  <2>1. worker' \in [Worker -> Slot]
    BY <1>13, <1>c DEF Report, SlotPc
  <2>2. job' \in [Job -> JobRow]
    <3>1. \A status \in {"RETRYING", "FAILED"} :
             [job EXCEPT ![S.job].status = status] \in [Job -> JobRow]
      BY <1>0 DEF JobRow, JobStatus
    <3> QED BY <1>13, <3>1 DEF Report
  <2> QED BY <1>0, <1>13, <2>1, <2>2 DEF Report, TypeOK
<1>14. CASE Mark(w)
  <2>1. worker' \in [Worker -> Slot]
    BY <1>14, <1>c DEF Mark, SlotPc
  <2>2. Of(w) \in Computer /\ S.status \in ComputerStatus
    BY <1>14, <1>a DEF Mark, Busy, Of
  <2>3. row' \in [Computer -> Row]
    BY <1>0, <1>14, <2>2, UpdateTypes DEF Mark
  <2> QED BY <1>0, <1>14, <2>1, <2>3 DEF Mark, TypeOK
<1>15. CASE FailTwice(w)
  BY <1>0, <1>15, <1>c DEF FailTwice, SlotPc, Fault, TypeOK
<1>16. CASE Nack(w)
  <2>1. entry' \in [Job -> Entry]
    BY <1>0, <1>16, UpdateTypes DEF Nack
  <2>2. worker' \in [Worker -> Slot]
    BY <1>0, <1>b, <1>16 DEF Nack
  <2> QED BY <1>0, <1>16, <2>1, <2>2 DEF Nack, TypeOK
<1> QED BY <1>1, <1>2, <1>3, <1>4, <1>5, <1>6, <1>7, <1>8, <1>9, <1>10, <1>11, <1>12,
           <1>13, <1>14, <1>15, <1>16 DEF WorkerStep

\* A reconciliation pass (reconciliation.ts, reconcile) preserves the types.
LEMMA TypePass ==
    ASSUME IInv, NEW p \in Pass, PassStep(p)
    PROVE  TypeOK'
<1> DEFINE P == pass[p]
<1>0. /\ TypeOK
      /\ row \in [Computer -> Row] /\ worker \in [Worker -> Slot]
      /\ pass \in [Pass -> PassState] /\ host \in [Host -> HostRow]
      /\ P \in PassState
  BY DEF IInv, TypeOK
<1>1. CASE ReadComputers(p)
  <2> DEFINE rows == [c \in Computer |->
                         IF c \in Listed
                         THEN [status |-> row[c].status, hostId |-> row[c].hostId,
                               instance |-> row[c].instance]
                         ELSE NoListing]
  <2>1. \A c \in Listed : /\ row[c] \in Row
                          /\ row[c].status # "ABSENT"
    BY <1>0 DEF Listed, Live
  <2>2. \A c \in Listed : [status |-> row[c].status, hostId |-> row[c].hostId,
                           instance |-> row[c].instance] \in Listing
    BY <2>1 DEF Row, Listing
  <2>3. NoListing \in Listing
    BY DEF NoListing, Listing, Instance
  <2>4. rows \in [Computer -> Listing]
    BY <2>2, <2>3
  <2> HIDE DEF rows
  <2>5. [P EXCEPT !.pc = "inspect", !.todo = Listed, !.rows = rows] \in PassState
    BY <1>0, <2>4 DEF PassState, Listed, Live
  <2>6. pass' = [pass EXCEPT ![p] = [P EXCEPT !.pc = "inspect", !.todo = Listed, !.rows = rows]]
    BY <1>0, <1>1 DEF ReadComputers, rows
  <2>7. pass' \in [Pass -> PassState]
    BY <1>0, <2>5, <2>6
  <2> QED BY <1>0, <1>1, <2>7 DEF ReadComputers, TypeOK
<1>2. ASSUME NEW c \in Computer, Inspect(p, c) PROVE TypeOK'
  <2>1. \A actual \in Copied :
           [P EXCEPT !.todo = @ \ {c}, !.pc = "write", !.at = c, !.status = actual] \in PassState
    BY <1>0 DEF PassState, Copied, ComputerStatus
  <2>2. [P EXCEPT !.todo = @ \ {c}] \in PassState
    BY <1>0 DEF PassState
  <2>3. pass' \in [Pass -> PassState]
    BY <1>0, <1>2, <2>1, <2>2 DEF Inspect
  <2> QED BY <1>0, <1>2, <2>3 DEF Inspect, TypeOK
<1>3. ASSUME NEW c \in Computer, InspectFails(p, c) PROVE TypeOK'
  <2>1. [P EXCEPT !.todo = @ \ {c}, !.pc = "write", !.at = c,
                  !.status = "PROVIDER_UNAVAILABLE"] \in PassState
    BY <1>0 DEF PassState, ComputerStatus
  <2>2. pass' \in [Pass -> PassState]
    BY <1>0, <1>3, <2>1 DEF InspectFails
  <2> QED BY <1>0, <1>3, <2>2 DEF InspectFails, Fault, TypeOK
<1>4. CASE Write(p)
  <2>1. P.at \in Computer /\ P.status \in ComputerStatus
    BY <1>4, TableTypes DEF Write, IInv, PassesFormed
  <2>2. row' \in [Computer -> Row]
    BY <1>0, <1>4, <2>1, UpdateTypes DEF Write
  <2>3. [P EXCEPT !.pc = "inspect", !.at = None, !.status = None] \in PassState
    BY <1>0 DEF PassState
  <2>4. pass' \in [Pass -> PassState]
    BY <1>0, <1>4, <2>3 DEF Write
  <2> QED BY <1>0, <1>4, <2>2, <2>4 DEF Write, TypeOK
<1>5. CASE CheckHosts(p)
  <2> DEFINE rows == [c \in Computer |-> NoListing]
             seen == [h \in Host |-> [compute |-> host[h].compute, storage |-> host[h].storage]]
  <2>1. rows \in [Computer -> Listing]
    BY DEF NoListing, Listing, Instance
  <2>2. seen \in [Host -> [compute : Int, storage : Int]]
    BY <1>0 DEF HostRow
  <2> HIDE DEF rows, seen
  <2>3. [P EXCEPT !.pc = "tally", !.hosts = Host, !.rows = rows, !.seen = seen] \in PassState
    BY <1>0, <2>1, <2>2 DEF PassState
  <2>4. pass' = [pass EXCEPT ![p] =
                    [P EXCEPT !.pc = "tally", !.hosts = Host, !.rows = rows, !.seen = seen]]
    BY <1>0, <1>5 DEF CheckHosts, rows, seen
  <2>5. pass' \in [Pass -> PassState]
    BY <1>0, <2>3, <2>4
  <2>6. host' \in [Host -> HostRow]
    <3>1. PICK down \in SUBSET Host :
             host' = [h \in Host |-> [host[h] EXCEPT !.healthy = h \notin down]]
      BY <1>5 DEF CheckHosts
    <3>2. \A h \in Host, b \in BOOLEAN : [host[h] EXCEPT !.healthy = b] \in HostRow
      BY <1>0 DEF HostRow
    <3> QED BY <3>1, <3>2
  <2>7. faults' \in Nat
    BY <1>0, <1>5 DEF CheckHosts, Fault, TypeOK
  <2> QED BY <1>0, <1>5, <2>5, <2>6, <2>7 DEF CheckHosts, TypeOK
<1>6. ASSUME NEW h \in Host, Tally(p, h) PROVE TypeOK'
  <2>1. [P EXCEPT !.hosts = @ \ {h}, !.pc = "correct", !.on = h, !.tally = Load(h)] \in PassState
    BY <1>0, LoadTypes DEF PassState
  <2>2. [P EXCEPT !.hosts = @ \ {h}] \in PassState
    BY <1>0 DEF PassState
  <2>3. pass' \in [Pass -> PassState]
    BY <1>0, <1>6, <2>1, <2>2 DEF Tally
  <2> QED BY <1>0, <1>6, <2>3 DEF Tally, TypeOK
<1>7. CASE Correct(p)
  <2>1. [P EXCEPT !.pc = "tally", !.on = None, !.tally = NoLoad] \in PassState
    <3>1. NoLoad \in [compute : Int, storage : Int]
      BY DEF NoLoad
    <3> QED BY <1>0, <3>1 DEF PassState
  <2>2. pass' \in [Pass -> PassState]
    BY <1>0, <1>7, <2>1 DEF Correct
  <2>3. P.tally.compute \in Int /\ P.tally.storage \in Int
    BY <1>0 DEF PassState
  <2>4. host' \in [Host -> HostRow]
    BY <1>0, <1>7, <2>3 DEF Correct, HostRow
  <2> QED BY <1>0, <1>7, <2>2, <2>4 DEF Correct, TypeOK
<1>8. CASE EndPass(p)
  <2>1. NoPass \in PassState
    BY DEF NoPass, PassState, NoListing, Listing, Instance, NoLoad
  <2>2. pass' \in [Pass -> PassState]
    BY <1>0, <1>8, <2>1 DEF EndPass
  <2>3. worker' \in [Worker -> Slot]
    <3>1. \A w \in Worker : [worker[w] EXCEPT !.pc = "ack"] \in Slot
      BY <1>0 DEF Slot, SlotPc
    <3> QED BY <1>0, <1>8, <3>1 DEF EndPass, Go, Pass
  <2> QED BY <1>0, <1>8, <2>2, <2>3 DEF EndPass, TypeOK
<1> QED BY <1>1, <1>2, <1>3, <1>4, <1>5, <1>6, <1>7, <1>8 DEF PassStep

\* A container that exits and a worker that dies preserve the types.
LEMMA TypeWorld ==
    ASSUME IInv, (\E h \in Host, c \in Computer : Exit(h, c)) \/ Crash
    PROVE  TypeOK'
<1>0. /\ TypeOK
      /\ box \in [Host -> [Computer -> Box]]
  BY DEF IInv, TypeOK
<1>1. ASSUME NEW h \in Host, NEW c \in Computer, Exit(h, c) PROVE TypeOK'
  <2>1. [box[h][c] EXCEPT !.state = "exited"] \in Box
    BY <1>0 DEF Box, BoxState
  <2>2. box' \in [Host -> [Computer -> Box]]
    BY <1>0, <1>1, <2>1 DEF Exit
  <2> QED BY <1>0, <1>1, <2>2 DEF Exit, Fault, TypeOK
<1>2. CASE Crash
  <2>1. IdleSlot \in Slot /\ NoPass \in PassState
    BY DEF IdleSlot, Slot, SlotPc, NoPass, PassState, NoListing, Listing, Instance, NoLoad
  <2> QED BY <1>0, <1>2, <2>1 DEF Crash, TypeOK
<1> QED BY <1>1, <1>2

\* Every step preserves the types.
LEMMA TypeStep == IInv /\ Next => TypeOK'
  BY TypeApi, TypeQueue, TypeWorker, TypePass, TypeWorld DEF Next

-----------------------------------------------------------------------------
(* What a step may do to a computer row, and to a job row. *)

\* What a versioned update of a row by the worker or by a pass leaves of it.
LEMMA UpdatedFields ==
    ASSUME NEW old \in Row, NEW status
    PROVE  /\ Updated(old, status).status = status
           /\ Updated(old, status).version = old.version + 1
           /\ Updated(old, status).hostId = old.hostId
           /\ Updated(old, status).instance = old.instance
           /\ Updated(old, status).deleted = old.deleted
  BY DEF Updated, Row

\* A row keeps its host once it has one, is never uninserted, and is deleted
\* only together with a new version of it.
RowStep(old, new) ==
    /\ old.status # "ABSENT" => new.status # "ABSENT"
    /\ old.hostId # None => new.hostId # None
    /\ old.version <= new.version
    /\ new.version = old.version => new.deleted = old.deleted
    /\ new.hostId = None => new.instance = old.instance

\* Each kind of update the handlers make of a computer row is one of the
\* steps a row may take.
LEMMA RowSteps ==
    /\ \A old \in Row : RowStep(old, old)
    /\ \A old \in Row, status \in ComputerStatus : RowStep(old, Updated(old, status))
    /\ \A old \in Row, status \in ComputerStatus, deleted \in BOOLEAN :
          RowStep(old, [Updated(old, status) EXCEPT !.deleted = deleted])
    /\ \A old \in Row : RowStep(old, [old EXCEPT !.status = "CREATING"])
    /\ \A old \in Row, h \in Host : RowStep(old, PlacedRow(old, h))
<1>1. \A old \in Row : old.version \in Nat
  BY DEF Row
<1>2. \A old \in Row : RowStep(old, old)
  BY <1>1 DEF RowStep
<1>3. ASSUME NEW old \in Row, NEW status \in ComputerStatus
      PROVE  RowStep(old, Updated(old, status))
  BY <1>1, UpdatedFields, TableTypes DEF RowStep
<1>4. ASSUME NEW old \in Row, NEW status \in ComputerStatus, NEW deleted \in BOOLEAN
      PROVE  RowStep(old, [Updated(old, status) EXCEPT !.deleted = deleted])
  <2> DEFINE new == Updated(old, status)
  <2>1. new \in Row
    BY UpdateTypes
  <2>2. /\ [new EXCEPT !.deleted = deleted].status = new.status
        /\ [new EXCEPT !.deleted = deleted].version = new.version
        /\ [new EXCEPT !.deleted = deleted].hostId = new.hostId
        /\ [new EXCEPT !.deleted = deleted].instance = new.instance
    BY <2>1 DEF Row
  <2> HIDE DEF new
  <2>3. /\ new.status = status /\ new.version = old.version + 1
        /\ new.hostId = old.hostId /\ new.instance = old.instance
    BY UpdatedFields DEF new
  <2>4. RowStep(old, [new EXCEPT !.deleted = deleted])
    BY <1>1, <2>2, <2>3, TableTypes DEF RowStep
  <2> QED BY <2>4 DEF new
<1>5. \A old \in Row : RowStep(old, [old EXCEPT !.status = "CREATING"])
  BY <1>1 DEF RowStep, Row
<1>6. \A old \in Row, h \in Host : RowStep(old, PlacedRow(old, h))
  BY <1>1, ConstantsAssumption DEF RowStep, PlacedRow, Row, ConstantsAssumption
<1> QED BY <1>2, <1>3, <1>4, <1>5, <1>6

\* A row changes by a RowStep, and while a transaction has it locked only by
\* the commit of that transaction.
LEMMA RowKept ==
    ASSUME IInv, Next, NEW c \in Computer
    PROVE  /\ RowStep(row[c], row'[c])
           /\ \/ row'[c] = row[c]
              \/ Unlocked(c)
              \/ \E r \in Request : Commit(r) /\ request[r].computer = c
<1> DEFINE Kept == /\ RowStep(row[c], row'[c])
                   /\ \/ row'[c] = row[c]
                      \/ Unlocked(c)
                      \/ \E r \in Request : Commit(r) /\ request[r].computer = c
<1>0. row \in [Computer -> Row] /\ row[c] \in Row
  BY DEF IInv, TypeOK
<1>1. CASE UNCHANGED row
  BY <1>0, <1>1, RowSteps
<1>2. ASSUME NEW d, NEW new, row' = [row EXCEPT ![d] = new],
             d \in Computer => RowStep(row[d], new) /\
                 (Unlocked(d) \/ \E r \in Request : Commit(r) /\ request[r].computer = d)
      PROVE  Kept
  BY <1>0, <1>2, RowSteps
<1> HIDE DEF Kept
<1>3. ASSUME NEW r \in Request, CreateRow(r) PROVE Kept
  <2> DEFINE d == request[r].computer
  <2>1. row' = [row EXCEPT ![d] = [row[d] EXCEPT !.status = "CREATING"]]
    BY <1>0, <1>3 DEF CreateRow
  <2>2. Unlocked(d)
    BY <1>3 DEF CreateRow, Unlocked, IInv, ReadsFormed
  <2>3. d \in Computer => RowStep(row[d], [row[d] EXCEPT !.status = "CREATING"])
    BY <1>0, RowSteps
  <2> HIDE DEF d
  <2> QED BY <1>2, <2>1, <2>2, <2>3
<1>4. ASSUME NEW r \in Request, Commit(r) \/ Replay(r) PROVE Kept
  <2> DEFINE d == request[r].computer
  <2>1. row' = [row EXCEPT ![d] = Moved(r)]
    BY <1>4 DEF Commit, Replay
  <2>2. d \in Computer /\ To[request[r].action] \in ComputerStatus
    BY <1>4, TableTypes DEF Commit, Replay, IInv, ReadsFormed
  <2>3. RowStep(row[d], Moved(r))
    BY <1>0, <2>2, RowSteps DEF Moved
  <2>4. Unlocked(d) \/ \E s \in Request : Commit(s) /\ request[s].computer = d
    BY <1>4 DEF Replay
  <2> HIDE DEF d
  <2> QED BY <1>2, <2>1, <2>3, <2>4
<1>5. ASSUME NEW w \in Worker, WorkerStep(w) PROVE Kept
  <2> DEFINE d == Of(w)
  <2>0. d \in Computer => row[d] \in Row
    BY <1>0
  <2>a. Busy(w) => /\ worker[w].type \in JobType /\ worker[w].status \in ComputerStatus
                   /\ worker[w].pc = "reserve" => worker[w].host \in Host
                   /\ worker[w].pc = "record" => row[d].hostId # None
    BY TableTypes DEF IInv, SlotsFormed, Equipped, PlacedPc
  <2>1. CASE Reserve(w)
    <3>1. row' = [row EXCEPT ![d] = PlacedRow(row[d], worker[w].host)] /\ Unlocked(d)
      BY <2>1 DEF Reserve
    <3>2. d \in Computer => RowStep(row[d], PlacedRow(row[d], worker[w].host))
      BY <2>0, <2>1, <2>a, RowSteps DEF Reserve, Busy
    <3> HIDE DEF d
    <3> QED BY <1>2, <3>1, <3>2
  <2>2. CASE Release(w)
    <3> DEFINE new == [Updated(row[d], "DELETED") EXCEPT !.deleted = TRUE]
    <3>1. row' = [row EXCEPT ![d] = new] /\ Unlocked(d)
      BY <2>2 DEF Release
    <3>2. d \in Computer => RowStep(row[d], new)
      BY <2>0, RowSteps DEF ComputerStatus
    <3> HIDE DEF d, new
    <3> QED BY <1>2, <3>1, <3>2
  <2>3. CASE Record(w)
    <3> DEFINE new == [row[d] EXCEPT !.instance = worker[w].instance,
                                     !.status = worker[w].status]
    <3>1. row' = [row EXCEPT ![d] = new] /\ Unlocked(d)
      BY <1>0, <2>3 DEF Record
    <3>2. d \in Computer => RowStep(row[d], new)
      BY <2>0, <2>3, <2>a, TableTypes DEF Record, Busy, RowStep, Row
    <3> HIDE DEF d, new
    <3> QED BY <1>2, <3>1, <3>2
  <2>4. CASE Finish(w)
    <3> DEFINE t == finalStatus[worker[w].type]
               new == [Updated(row[d], t) EXCEPT !.deleted = row[d].deleted \/ t = "DELETED"]
    <3>1. row' = [row EXCEPT ![d] = new] /\ Unlocked(d)
      BY <2>4 DEF Finish
    <3>2. t \in ComputerStatus
      BY <2>4, <2>a, TableTypes DEF Finish, Busy
    <3>3. d \in Computer => RowStep(row[d], new)
      <4> HIDE DEF t
      <4>1. d \in Computer => (row[d].deleted \/ t = "DELETED") \in BOOLEAN
        OBVIOUS
      <4> QED BY <2>0, <3>2, <4>1, RowSteps
    <3> HIDE DEF d, new
    <3> QED BY <1>2, <3>1, <3>3
  <2>5. CASE Mark(w)
    <3>1. row' = [row EXCEPT ![d] = Updated(row[d], worker[w].status)] /\ Unlocked(d)
      BY <2>5 DEF Mark
    <3>2. d \in Computer => RowStep(row[d], Updated(row[d], worker[w].status))
      BY <2>0, <2>5, <2>a, RowSteps DEF Mark, Busy
    <3> HIDE DEF d
    <3> QED BY <1>2, <3>1, <3>2
  <2>6. ASSUME ~(Reserve(w) \/ Release(w) \/ Record(w) \/ Finish(w) \/ Mark(w))
        PROVE  UNCHANGED row
    BY <1>5, <2>6 DEF WorkerStep, Take, Miss, Schedule, Create, Operate, Succeed, Ack,
                      Fail, Report, FailTwice, Nack
  <2> QED BY <1>1, <2>1, <2>2, <2>3, <2>4, <2>5, <2>6 DEF Kept
<1>6. ASSUME NEW p \in Pass, Write(p) PROVE Kept
  <2> DEFINE d == pass[p].at
             new == Updated(row[d], pass[p].status)
  <2>1. row' = [row EXCEPT ![d] = new] /\ Unlocked(d)
    BY <1>6 DEF Write
  <2>2. RowStep(row[d], new)
    BY <1>0, <1>6, TableTypes, RowSteps DEF Write, IInv, PassesFormed
  <2> HIDE DEF d, new
  <2> QED BY <1>2, <2>1, <2>2
<1>7. ASSUME ~\E r \in Request : CreateRow(r) \/ Commit(r) \/ Replay(r),
             ~\E w \in Worker : WorkerStep(w), ~\E p \in Pass : Write(p)
      PROVE  UNCHANGED row
  <2>1. ASSUME NEW r \in Request, ApiStep(r) PROVE UNCHANGED row
    BY <1>7, <2>1 DEF ApiStep, CheckQuota, EnqueueCreated, EnqueueLost, ReadRow, Submit,
                      Abort, Reject
  <2>2. ASSUME NEW j \in Job, Promote(j) \/ Stall(j) PROVE UNCHANGED row
    BY <2>2 DEF Promote, Stall
  <2>3. ASSUME NEW p \in Pass, PassStep(p) PROVE UNCHANGED row
    BY <1>7, <2>3 DEF PassStep, ReadComputers, Inspect, InspectFails, CheckHosts, Tally,
                      Correct, EndPass
  <2>4. ASSUME NEW h \in Host, NEW d \in Computer, Exit(h, d) PROVE UNCHANGED row
    BY <2>4 DEF Exit
  <2>5. CASE Crash
    BY <2>5 DEF Crash
  <2> QED BY <1>7, <2>1, <2>2, <2>3, <2>4, <2>5 DEF Next
<1> QED BY <1>1, <1>3, <1>4, <1>5, <1>6, <1>7 DEF Kept

\* A job row is inserted once, and keeps its computer and its type.
JobStep(old, new) ==
    /\ new.computer = old.computer
    /\ new.type = old.type
    /\ new.attempts = old.attempts
    /\ old.status # "FREE" => new.status # "FREE"
    /\ old.status \notin {"FREE", "OPEN", "ABORTED"} =>
           new.status \notin {"FREE", "OPEN", "ABORTED"}
    /\ old.status \in {"FREE", "OPEN"} => new = old

\* The row a request inserts.
Inserted(j) ==
    /\ job[j].status = "FREE"
    /\ job'[j].computer \in Computer
    /\ job'[j].type \in JobType
    /\ job'[j].attempts = 0
    /\ job'[j].status \in {"QUEUED", "FAILED", "OPEN"}
    /\ entry'[j] \in {entry[j], [entry[j] EXCEPT !.state = "waiting"]}

\* The transaction that inserted the row ends.
Closed(j) ==
    /\ \E r \in Request : request[r].job = j /\ (Commit(r) \/ Abort(r))
    /\ \E status \in {"QUEUED", "ABORTED"} : job'[j] = [job[j] EXCEPT !.status = status]
    /\ entry'[j] = entry[j]

\* A step leaves a job row as it is or moves it forward, inserts it, or
\* closes the transaction that inserted it.
LEMMA JobKept ==
    ASSUME IInv, Next, NEW j \in Job
    PROVE  \/ JobStep(job[j], job'[j]) /\ (job'[j].status = "FREE" => entry'[j] = entry[j])
           \/ Inserted(j)
           \/ Closed(j)
           \/ \E w \in Worker : Take(w, j)
<1> DEFINE Kept == \/ JobStep(job[j], job'[j]) /\ (job'[j].status = "FREE" => entry'[j] = entry[j])
                   \/ Inserted(j) \/ Closed(j)
                   \/ \E w \in Worker : Take(w, j)
<1>0. /\ job \in [Job -> JobRow] /\ job[j] \in JobRow
      /\ entry \in [Job -> Entry] /\ entry[j] \in Entry
      /\ worker \in [Worker -> Slot]
  BY DEF IInv, TypeOK
<1>a. job[j].status = "FREE" => entry[j] = NoEntry
  BY DEF IInv, JobsFormed
<1>b. ASSUME job[j].status = "FREE", NEW c \in Computer, NEW type \in JobType, NEW k,
             NEW status \in {"QUEUED", "FAILED", "OPEN"},
             job' = [job EXCEPT ![j] = NewRow(c, type, k, status)],
             entry' = entry \/ entry' = [entry EXCEPT ![j].state = "waiting"]
      PROVE  Inserted(j)
  <2>1. job'[j] = NewRow(c, type, k, status)
    BY <1>0, <1>b
  <2>2. entry'[j] = entry[j] \/ entry'[j] = [entry[j] EXCEPT !.state = "waiting"]
    BY <1>0, <1>b
  <2> QED BY <1>b, <2>1, <2>2 DEF Inserted, NewRow
<1>1. CASE UNCHANGED <<job, entry>>
  BY <1>0, <1>1 DEF JobStep
<1>2. ASSUME NEW r \in Request, ApiStep(r) PROVE Kept
  <2> DEFINE c == request[r].computer
  <2>1. CASE UNCHANGED <<job, entry>>
    BY <1>1, <2>1
  <2>2. CASE EnqueueCreated(r)
    <3>1. c \in Computer
      BY <2>2 DEF EnqueueCreated, IInv, ReadsFormed
    <3>2. CASE FreeJobs # {} /\ NewJob = j /\ ~UNCHANGED <<job, entry>>
      <4>1. job' = [job EXCEPT ![j] = NewRow(c, "PROVISION", request[r].key, "QUEUED")]
            /\ entry' = [entry EXCEPT ![j].state = "waiting"]
        BY <2>2, <3>2 DEF EnqueueCreated
      <4>2. job[j].status = "FREE"
        BY <3>2, NewJobFree
      <4>3. "PROVISION" \in JobType
        BY DEF JobType
      <4>4. Inserted(j)
        BY <1>b, <3>1, <4>1, <4>2, <4>3
      <4> QED BY <4>4
    <3>3. CASE FreeJobs # {} /\ NewJob # j
      BY <1>0, <2>2, <3>3 DEF EnqueueCreated, JobStep
    <3> QED BY <1>1, <2>2, <3>2, <3>3 DEF EnqueueCreated
  <2>3. CASE EnqueueLost(r)
    <3>1. c \in Computer
      BY <2>3 DEF EnqueueLost, IInv, ReadsFormed
    <3>2. ASSUME NEW status \in {"QUEUED", "FAILED"}, FreeJobs # {},
                 job' = [job EXCEPT ![NewJob] = NewRow(c, "PROVISION", request[r].key, status)],
                 UNCHANGED entry
          PROVE  Kept
      <4>1. CASE NewJob = j
        <5>1. job[j].status = "FREE" /\ "PROVISION" \in JobType
          BY <3>2, <4>1, NewJobFree DEF JobType
        <5>2. job' = [job EXCEPT ![j] = NewRow(c, "PROVISION", request[r].key, status)]
          BY <3>2, <4>1
        <5>3. Inserted(j)
          <6> HIDE DEF c
          <6> QED BY <1>b, <3>1, <3>2, <5>1, <5>2
        <5> QED BY <5>3
      <4>2. CASE NewJob # j
        BY <1>0, <3>2, <4>2 DEF JobStep
      <4> QED BY <4>1, <4>2
    <3> QED BY <1>1, <2>3, <3>2 DEF EnqueueLost
  <2>4. CASE Submit(r)
    <3>1. c \in Computer /\ jobType[request[r].action] \in JobType /\ FreeJobs # {}
      BY <2>4, TableTypes DEF Submit, IInv, ReadsFormed
    <3>2. CASE NewJob = j
      <4>1. job' = [job EXCEPT ![j] = NewRow(c, jobType[request[r].action], request[r].key, "OPEN")]
            /\ entry' = [entry EXCEPT ![j].state = "waiting"]
        BY <2>4, <3>2 DEF Submit
      <4>2. job[j].status = "FREE"
        BY <3>1, <3>2, NewJobFree
      <4>3. Inserted(j)
        BY <1>b, <3>1, <4>1, <4>2
      <4> QED BY <4>3
    <3>3. CASE NewJob # j
      BY <1>0, <2>4, <3>3 DEF Submit, JobStep
    <3> QED BY <3>2, <3>3
  <2>5. CASE Commit(r) \/ Abort(r)
    <3>1. CASE request[r].job = j
      BY <1>0, <2>5, <3>1 DEF Commit, Abort, Closed
    <3>2. CASE request[r].job # j
      BY <1>0, <2>5, <3>2 DEF Commit, Abort, JobStep
    <3> QED BY <3>1, <3>2
  <2>6. ASSUME ~(EnqueueCreated(r) \/ EnqueueLost(r) \/ Submit(r) \/ Commit(r) \/ Abort(r))
        PROVE  UNCHANGED <<job, entry>>
    BY <1>2, <2>6 DEF ApiStep, CheckQuota, CreateRow, ReadRow, Replay, Reject
  <2> QED BY <2>1, <2>2, <2>3, <2>4, <2>5, <2>6
<1>3. ASSUME NEW i \in Job, Promote(i) \/ Stall(i) PROVE Kept
  <2>1. UNCHANGED job /\ entry[i].state # "none"
    BY <1>3 DEF Promote, Stall
  <2>2. job[j].status = "FREE" => i # j
    BY <1>a, <2>1 DEF NoEntry
  <2>3. i # j => entry'[j] = entry[j]
    BY <1>0, <1>3 DEF Promote, Stall
  <2> QED BY <1>0, <2>1, <2>2, <2>3 DEF JobStep
<1>4. ASSUME NEW w \in Worker, WorkerStep(w) PROVE Kept
  <2> DEFINE i == worker[w].job
  <2>a. Busy(w) => i \in Job /\ Visible(i)
    BY DEF IInv, SlotsFormed, Equipped
  <2>1. ASSUME NEW k \in Job, Take(w, k) PROVE Kept
    BY <1>0, <1>4, <2>1 DEF Take, JobStep
  <2>2. ASSUME NEW k \in Job, Miss(w, k) PROVE Kept
    <3>1. UNCHANGED job /\ entry[k].state # "none" /\ (k # j => entry'[j] = entry[j])
      BY <1>0, <2>2 DEF Miss
    <3>2. job[j].status = "FREE" => k # j
      BY <1>a, <3>1 DEF NoEntry
    <3> QED BY <1>0, <3>1, <3>2 DEF JobStep
  <2>3. ASSUME Succeed(w) \/ Report(w) PROVE Kept
    <3>1. Visible(i) /\ UNCHANGED entry
      BY <2>3, <2>a DEF Succeed, Report, Busy
    <3>2. PICK status \in {"SUCCEEDED", "RETRYING", "FAILED"} :
             job' = [job EXCEPT ![i].status = status]
      BY <2>3 DEF Succeed, Report
    <3> HIDE DEF i
    <3>3. CASE i = j
      <4>1. job'[j] = [job[j] EXCEPT !.status = status]
        BY <1>0, <3>2, <3>3
      <4>2. JobStep(job[j], job'[j]) /\ job'[j].status # "FREE"
        BY <1>0, <3>1, <3>3, <4>1 DEF JobStep, Visible, JobRow
      <4> QED BY <4>2
    <3>4. CASE i # j
      BY <1>0, <3>1, <3>2, <3>4 DEF JobStep
    <3> QED BY <3>3, <3>4
  <2>4. ASSUME Ack(w) \/ Nack(w) PROVE Kept
    <3>1. Visible(i) /\ UNCHANGED job /\ (i # j => entry'[j] = entry[j])
      BY <1>0, <2>4, <2>a DEF Ack, Nack, Busy
    <3> HIDE DEF i
    <3> QED BY <1>0, <3>1 DEF JobStep, Visible
  <2>5. CASE UNCHANGED <<job, entry>>
    BY <1>1, <2>5
  <2>6. ASSUME ~\E k \in Job : Take(w, k) \/ Miss(w, k),
               ~(Succeed(w) \/ Report(w) \/ Ack(w) \/ Nack(w))
        PROVE  UNCHANGED <<job, entry>>
    BY <1>4, <2>6 DEF WorkerStep, Schedule, Reserve, Release, Create, Record, Operate, Finish,
                      Fail, Mark, FailTwice
  <2> QED BY <2>1, <2>2, <2>3, <2>4, <2>5, <2>6
<1>5. ASSUME NEW p \in Pass, PassStep(p) PROVE UNCHANGED <<job, entry>>
  BY <1>5 DEF PassStep, ReadComputers, Inspect, InspectFails, Write, CheckHosts, Tally,
              Correct, EndPass
<1>6. ASSUME NEW h \in Host, NEW c \in Computer, Exit(h, c) PROVE UNCHANGED <<job, entry>>
  BY <1>6 DEF Exit
<1>7. CASE Crash
  BY <1>1, <1>7 DEF Crash
<1> QED BY <1>1, <1>2, <1>3, <1>4, <1>5, <1>6, <1>7 DEF Next

\* What JobKept means for the fields of a row.
LEMMA JobFields ==
    ASSUME IInv, Next, NEW j \in Job
    PROVE  /\ job[j].status # "FREE" => /\ job'[j].status # "FREE"
                                        /\ job'[j].computer = job[j].computer
                                        /\ job'[j].type = job[j].type
           /\ Visible(j) => Visible(j)'
           /\ job'[j].status = "FREE" => job'[j] = job[j] /\ entry'[j] = entry[j]
           /\ job[j].status = "FREE" /\ job'[j].status # "FREE" => Inserted(j)
<1>0. job \in [Job -> JobRow] /\ job[j] \in JobRow
  BY DEF IInv, TypeOK
<1>1. CASE JobStep(job[j], job'[j]) /\ (job'[j].status = "FREE" => entry'[j] = entry[j])
  BY <1>1 DEF JobStep, Visible
<1>2. CASE Inserted(j)
  BY <1>2 DEF Inserted, Visible
<1>3. CASE Closed(j)
  <2>1. job[j].status = "OPEN"
    BY <1>3 DEF Closed, Commit, Abort, IInv, TransactionsFormed
  <2>2. PICK status \in {"QUEUED", "ABORTED"} : job'[j] = [job[j] EXCEPT !.status = status]
    BY <1>3 DEF Closed
  <2> QED BY <1>0, <2>1, <2>2 DEF Visible, JobRow
<1>4. ASSUME NEW w \in Worker, Take(w, j)
      PROVE  /\ Visible(j) /\ job'[j].status = "RUNNING"
             /\ job'[j].computer = job[j].computer /\ job'[j].type = job[j].type
  BY <1>0, <1>4 DEF Take, JobRow
<1> QED BY <1>1, <1>2, <1>3, <1>4, JobKept DEF Visible

\* Every step keeps the job rows well formed: an id no row has is in no
\* queue, and a row that exists has a type and a computer.
LEMMA JobsFormedStep == IInv /\ Next => JobsFormed'
<1> SUFFICES ASSUME IInv, Next, NEW j \in Job
             PROVE  /\ job'[j].status = "FREE" => entry'[j] = NoEntry /\ job'[j].attempts = 0
                    /\ job'[j].status # "FREE" =>
                           job'[j].computer \in Computer /\ job'[j].type \in JobType
  BY DEF JobsFormed, Job
<1>1. /\ job[j].status = "FREE" => entry[j] = NoEntry /\ job[j].attempts = 0
      /\ job[j].status # "FREE" => job[j].computer \in Computer /\ job[j].type \in JobType
  BY DEF IInv, JobsFormed
<1> QED BY <1>1, JobFields DEF Inserted

\* Every step keeps a container, and an instance id on record, behind a host
\* on record.
LEMMA PlacementStep == IInv /\ Next => PlacementFirst'
<1> SUFFICES ASSUME IInv, Next, NEW c \in Computer, row'[c].hostId = None
             PROVE  /\ row'[c].instance = None
                    /\ \A h \in Host : box'[h][c].state = "absent"
  BY DEF PlacementFirst
<1>0. /\ box \in [Host -> [Computer -> Box]] /\ job \in [Job -> JobRow]
      /\ worker \in [Worker -> Slot]
  BY DEF IInv, TypeOK
<1>1. row[c].hostId = None /\ row'[c].instance = row[c].instance
  BY RowKept DEF RowStep
<1>2. row[c].instance = None /\ \A h \in Host : box[h][c].state = "absent"
  BY <1>1 DEF IInv, PlacementFirst
<1>3. \A h \in Host : box'[h][c] = box[h][c]
  <2>1. ASSUME NEW h \in Host, NEW d \in Computer, d # c, NEW b,
               box' = [box EXCEPT ![h][d] = b]
        PROVE  \A g \in Host : box'[g][c] = box[g][c]
    BY <1>0, <2>1
  <2>2. ASSUME NEW w \in Worker, WorkerStep(w)
        PROVE  \A g \in Host : box'[g][c] = box[g][c]
    <3>a. worker[w].pc \in PlacedPc =>
              /\ worker[w].host \in Host
              /\ Of(w) \in Computer
              /\ row[Of(w)].hostId # None
      BY DEF IInv, SlotsFormed, Equipped, JobsFormed, Visible, PlacedPc, Busy, Of
    <3>1. CASE Create(w)
      <4>1. /\ worker[w].host \in Host /\ Of(w) \in Computer /\ Of(w) # c
            /\ box' = [box EXCEPT ![worker[w].host][Of(w)] =
                           Created(box[worker[w].host][Of(w)])]
        BY <1>1, <3>1, <3>a DEF Create, PlacedPc
      <4> QED BY <2>1, <4>1
    <3>2. CASE Operate(w)
      <4>1. worker[w].host \in Host /\ Of(w) \in Computer /\ Of(w) # c
        BY <1>1, <3>2, <3>a DEF Operate, PlacedPc
      <4>2. \/ box' = box
            \/ box' = [box EXCEPT ![worker[w].host][Of(w)] =
                           Performed(Operation(w), box[worker[w].host][Of(w)])]
        BY <3>2 DEF Operate
      <4> QED BY <2>1, <4>1, <4>2
    <3>3. CASE Fail(w)
      <4>1. CASE worker[w].pc \in {"create", "start", "operate"}
        <5>1. worker[w].host \in Host /\ Of(w) \in Computer /\ Of(w) # c
          BY <1>1, <4>1, <3>a DEF PlacedPc
        <5>2. PICK b \in PartlyDone(w) : box' = [box EXCEPT ![worker[w].host][Of(w)] = b]
          BY <3>3, <4>1 DEF Fail
        <5> QED BY <2>1, <5>1, <5>2
      <4>2. CASE worker[w].pc \notin {"create", "start", "operate"}
        BY <3>3, <4>2 DEF Fail
      <4> QED BY <4>1, <4>2
    <3>4. ASSUME ~(Create(w) \/ Operate(w) \/ Fail(w)) PROVE UNCHANGED box
      BY <2>2, <3>4 DEF WorkerStep, Take, Miss, Schedule, Reserve, Release, Record, Finish,
                        Succeed, Ack, Report, Mark, FailTwice, Nack
    <3> QED BY <3>1, <3>2, <3>3, <3>4
  <2>3. ASSUME NEW h \in Host, NEW d \in Computer, Exit(h, d)
        PROVE  \A g \in Host : box'[g][c] = box[g][c]
    <3>1. d # c
      BY <1>2, <2>3 DEF Exit
    <3>2. box' = [box EXCEPT ![h][d] = [box[h][d] EXCEPT !.state = "exited"]]
      BY <1>0, <2>3 DEF Exit
    <3> QED BY <2>1, <3>1, <3>2
  <2>4. ASSUME NEW r \in Request, ApiStep(r) PROVE UNCHANGED box
    BY <2>4 DEF ApiStep, CheckQuota, CreateRow, EnqueueCreated, EnqueueLost, ReadRow, Submit,
                Commit, Abort, Replay, Reject
  <2>5. ASSUME NEW j \in Job, Promote(j) \/ Stall(j) PROVE UNCHANGED box
    BY <2>5 DEF Promote, Stall
  <2>6. ASSUME NEW p \in Pass, PassStep(p) PROVE UNCHANGED box
    BY <2>6 DEF PassStep, ReadComputers, Inspect, InspectFails, Write, CheckHosts, Tally,
                Correct, EndPass
  <2>7. CASE Crash
    BY <2>7 DEF Crash
  <2> QED BY <2>2, <2>3, <2>4, <2>5, <2>6, <2>7 DEF Next
<1> QED BY <1>1, <1>2, <1>3

-----------------------------------------------------------------------------
(* The slots of the worker. *)

\* A handler that goes on keeps its job and what it needs for its next call.
Continues(w) ==
    /\ Busy(w)
    /\ worker'[w].job = worker[w].job
    /\ Equipped(worker'[w])
    /\ worker'[w].pc \in PlacedPc => worker[w].pc \in PlacedPc \/ row'[Of(w)].hostId # None

\* What one step of the job handler, or the end of the pass it makes, does
\* to the worker's slots and to its queue entry.
LEMMA SlotMoves ==
    ASSUME IInv, NEW w \in Worker, WorkerStep(w) \/ EndPass(w)
    PROVE  /\ \A v \in Worker \ {w} : worker'[v] = worker[v]
           /\ \/ worker'[w].pc = "idle"
              \/ Continues(w)
              \/ \E j \in Job : Take(w, j)
<1> DEFINE S == worker[w]
           Moved1 == /\ \A v \in Worker \ {w} : worker'[v] = worker[v]
                     /\ \/ worker'[w].pc = "idle"
                        \/ Continues(w)
                        \/ \E j \in Job : Take(w, j)
<1>0. /\ worker \in [Worker -> Slot] /\ row \in [Computer -> Row]
      /\ S \in Slot
  BY DEF IInv, TypeOK
<1>a. Busy(w) => Equipped(S) /\ Of(w) \in Computer
  BY DEF IInv, SlotsFormed, JobsFormed, Equipped, Visible, Of
<1>1. ASSUME NEW pc \in SlotPc \ {"idle", "create", "reserve", "operate"}, Go(w, pc), Busy(w),
             pc \in {"record", "start", "finish"} => S.host \in Host /\ S.pc \in PlacedPc
      PROVE  Moved1
  <2>1. worker' = [worker EXCEPT ![w].pc = pc]
    BY <1>1 DEF Go
  <2>2. worker'[w] = [S EXCEPT !.pc = pc] /\ \A v \in Worker \ {w} : worker'[v] = worker[v]
    BY <1>0, <2>1
  <2>3. /\ worker'[w].pc = pc /\ worker'[w].job = S.job /\ worker'[w].type = S.type
        /\ worker'[w].status = S.status /\ worker'[w].host = S.host
    BY <1>0, <2>2 DEF Slot
  <2>4. Equipped(worker'[w])
    BY <1>1, <1>a, <2>3 DEF Equipped
  <2>5. pc \in PlacedPc => S.pc \in PlacedPc
    BY <1>1 DEF PlacedPc
  <2> QED BY <1>1, <2>2, <2>3, <2>4, <2>5 DEF Continues
<1>2. ASSUME NEW s \in Slot, worker' = [worker EXCEPT ![w] = s], Busy(w),
             s.job = S.job, Equipped(s),
             s.pc \in PlacedPc => S.pc \in PlacedPc \/ row'[Of(w)].hostId # None
      PROVE  Moved1
  BY <1>0, <1>2 DEF Continues
<1>3. ASSUME NEW j \in Job, Take(w, j) PROVE Moved1
  BY <1>0, <1>3 DEF Take
<1>4. ASSUME NEW j \in Job, Miss(w, j) PROVE Moved1
  BY <1>4 DEF Miss
<1>5. CASE Ack(w) \/ Nack(w)
  BY <1>0, <1>5 DEF Ack, Nack, IdleSlot
<1> HIDE DEF Moved1
<1>6. ASSUME \/ Release(w) \/ Record(w) \/ Finish(w) \/ Succeed(w) \/ Report(w) \/ Mark(w)
             \/ FailTwice(w) \/ EndPass(w)
      PROVE  Moved1
  <2>1. Busy(w)
    <3>1. EndPass(w) => S.pc = "settle"
      BY DEF EndPass, IInv, PassesFormed
    <3> QED BY <1>6, <3>1 DEF Release, Record, Finish, Succeed, Report, Mark, FailTwice, Busy
  <2>2. PICK pc \in SlotPc \ {"idle", "create", "reserve", "operate", "record", "finish"} :
           Go(w, pc) /\ (pc = "start" => S.pc = "record")
    BY <1>6, TimerAssumption
       DEF Release, Record, Finish, Succeed, Report, Mark, FailTwice, EndPass, SlotPc,
           Timer, TimerAssumption
  <2>3. S.pc = "record" => S.host \in Host /\ S.pc \in PlacedPc
    BY <1>a, <2>1 DEF Equipped, PlacedPc
  <2> QED BY <1>1, <2>1, <2>2, <2>3
<1>7. ASSUME Schedule(w) PROVE Moved1
  <2>1. Busy(w)
    BY <1>7 DEF Schedule, Busy
  <2>2. ASSUME NEW h \in Host,
               worker' = [worker EXCEPT ![w].pc = "reserve", ![w].host = h]
        PROVE  Moved1
    <3> DEFINE s == [S EXCEPT !.pc = "reserve", !.host = h]
    <3>1. /\ s \in Slot /\ s.pc = "reserve" /\ s.host = h /\ s.job = S.job /\ s.type = S.type
          /\ s.status = S.status
      BY <1>0 DEF Slot, SlotPc
    <3>2. worker' = [worker EXCEPT ![w] = s]
      BY <1>0, <2>2
    <3> HIDE DEF s
    <3>3. Equipped(s) /\ s.pc \notin PlacedPc
      BY <1>a, <2>1, <3>1 DEF Equipped, PlacedPc
    <3> QED BY <1>2, <2>1, <3>1, <3>2, <3>3
  <2>3. ASSUME worker' = [worker EXCEPT ![w].pc = "report", ![w].status = "ERROR"]
        PROVE  Moved1
    <3> DEFINE s == [S EXCEPT !.pc = "report", !.status = "ERROR"]
    <3>1. /\ s \in Slot /\ s.pc = "report" /\ s.job = S.job /\ s.type = S.type
          /\ s.status = "ERROR"
      BY <1>0 DEF Slot, SlotPc, ComputerStatus
    <3>2. worker' = [worker EXCEPT ![w] = s]
      BY <1>0, <2>3
    <3> HIDE DEF s
    <3>3. Equipped(s) /\ s.pc \notin PlacedPc
      BY <1>a, <2>1, <3>1 DEF Equipped, PlacedPc, Contract!Reported
    <3> QED BY <1>2, <2>1, <3>1, <3>2, <3>3
  <2>4. \/ \E h \in Host : worker' = [worker EXCEPT ![w].pc = "reserve", ![w].host = h]
        \/ worker' = [worker EXCEPT ![w].pc = "report", ![w].status = "ERROR"]
    BY <1>7 DEF Schedule
  <2> QED BY <2>2, <2>3, <2>4
<1>8. ASSUME Reserve(w) PROVE Moved1
  <2> DEFINE s == [S EXCEPT !.pc = "create", !.instance = row[Of(w)].instance]
  <2>1. Busy(w) /\ S.host \in Host
    BY <1>8, <1>a DEF Reserve, Busy, Equipped
  <2>2. /\ s \in Slot /\ s.pc = "create" /\ s.host = S.host /\ s.job = S.job
        /\ s.type = S.type /\ s.status = S.status
    BY <1>0, <1>a, <2>1 DEF Slot, SlotPc, Row
  <2>3. worker' = [worker EXCEPT ![w] = s]
    BY <1>0, <1>8 DEF Reserve
  <2> HIDE DEF s
  <2>4. Equipped(s)
    BY <1>a, <2>1, <2>2 DEF Equipped
  <2>5. row'[Of(w)].hostId # None
    <3>1. row'[Of(w)] = PlacedRow(row[Of(w)], S.host)
      BY <1>0, <1>8, <1>a, <2>1 DEF Reserve
    <3>2. PlacedRow(row[Of(w)], S.host).hostId = S.host
      BY <1>0, <1>a, <2>1 DEF PlacedRow, Row
    <3> QED BY <2>1, <3>1, <3>2, ConstantsAssumption DEF ConstantsAssumption
  <2> QED BY <1>2, <2>1, <2>2, <2>3, <2>4, <2>5
<1>9. ASSUME Create(w) PROVE Moved1
  <2> DEFINE made == Created(box[S.host][Of(w)])
             s == [S EXCEPT !.pc = "record", !.instance = <<S.host, made.made>>,
                            !.status = mapDockerState(made.state)]
  <2>1. Busy(w) /\ S.host \in Host /\ S.pc \in PlacedPc
    BY <1>9, <1>a DEF Create, Busy, Equipped, PlacedPc
  <2>2. made \in Box /\ made.state # "absent"
    BY <1>a, <2>1, BoxTypes DEF IInv, TypeOK
  <2>3. made.state \in BoxState \ {"absent"} /\ made.made \in Nat
    BY <2>2 DEF Box
  <2>4. mapDockerState(made.state) \in Contract!Reported \cap ComputerStatus
    BY <2>3, TableTypes
  <2>5. worker' = [worker EXCEPT ![w] = s]
    BY <1>0, <1>9 DEF Create
  <2> HIDE DEF made
  <2>6. /\ s \in Slot /\ s.pc = "record" /\ s.host = S.host /\ s.job = S.job
        /\ s.type = S.type /\ s.status = mapDockerState(made.state)
    BY <1>0, <2>1, <2>3, <2>4 DEF Slot, SlotPc, Instance
  <2> HIDE DEF s
  <2>7. Equipped(s)
    BY <1>a, <2>1, <2>4, <2>6 DEF Equipped
  <2> QED BY <1>2, <2>1, <2>5, <2>6, <2>7
<1>10. ASSUME Operate(w) PROVE Moved1
  <2>1. Busy(w) /\ S.host \in Host /\ S.pc \in PlacedPc
    BY <1>10, <1>a DEF Operate, Busy, Equipped, PlacedPc
  <2>2. ASSUME Go(w, "finish") PROVE Moved1
    BY <1>1, <2>1, <2>2 DEF SlotPc
  <2>3. ASSUME worker' = [worker EXCEPT ![w].pc = "report", ![w].status = "ERROR"]
        PROVE  Moved1
    <3> DEFINE s == [S EXCEPT !.pc = "report", !.status = "ERROR"]
    <3>1. /\ s \in Slot /\ s.pc = "report" /\ s.job = S.job /\ s.type = S.type
          /\ s.status = "ERROR"
      BY <1>0 DEF Slot, SlotPc, ComputerStatus
    <3>2. worker' = [worker EXCEPT ![w] = s]
      BY <1>0, <2>3
    <3> HIDE DEF s
    <3>3. Equipped(s) /\ s.pc \notin PlacedPc
      BY <1>a, <2>1, <3>1 DEF Equipped, PlacedPc, Contract!Reported
    <3> QED BY <1>2, <2>1, <3>1, <3>2, <3>3
  <2> QED BY <1>10, <2>2, <2>3 DEF Operate
<1>11. ASSUME Fail(w) PROVE Moved1
  <2>1. PICK status \in {"ERROR", "PROVIDER_UNAVAILABLE"} :
           worker' = [worker EXCEPT ![w].pc = "report", ![w].status = status]
    BY <1>11 DEF Fail
  <2> DEFINE s == [S EXCEPT !.pc = "report", !.status = status]
  <2>2. Busy(w)
    BY <1>11 DEF Fail, Busy
  <2>3. /\ s \in Slot /\ s.pc = "report" /\ s.job = S.job /\ s.type = S.type
        /\ s.status = status /\ status \in Contract!Reported
    BY <1>0 DEF Slot, SlotPc, ComputerStatus, Contract!Reported
  <2>4. worker' = [worker EXCEPT ![w] = s]
    BY <1>0, <2>1
  <2> HIDE DEF s
  <2>5. Equipped(s) /\ s.pc \notin PlacedPc
    BY <1>a, <2>2, <2>3 DEF Equipped, PlacedPc
  <2> QED BY <1>2, <2>2, <2>3, <2>4, <2>5
<1> QED BY <1>3, <1>4, <1>5, <1>6, <1>7, <1>8, <1>9, <1>10, <1>11 DEF Moved1, WorkerStep

\* Steps that are not the worker's leave the slots alone, or empty them.
LEMMA SlotsStill ==
    ASSUME IInv, Next, ~\E w \in Worker : WorkerStep(w) \/ EndPass(w)
    PROVE  UNCHANGED worker \/ \A w \in Worker : worker'[w].pc = "idle"
<1>1. ASSUME NEW r \in Request, ApiStep(r) PROVE UNCHANGED worker
  BY <1>1 DEF ApiStep, CheckQuota, CreateRow, EnqueueCreated, EnqueueLost, ReadRow, Submit,
              Commit, Abort, Replay, Reject
<1>2. ASSUME NEW j \in Job, Promote(j) \/ Stall(j) PROVE UNCHANGED worker
  BY <1>2 DEF Promote, Stall
<1>3. ASSUME NEW p \in Pass, PassStep(p) PROVE UNCHANGED worker
  BY <1>3 DEF PassStep, ReadComputers, Inspect, InspectFails, Write, CheckHosts, Tally,
              Correct, EndPass, Pass
<1>4. ASSUME NEW h \in Host, NEW c \in Computer, Exit(h, c) PROVE UNCHANGED worker
  BY <1>4 DEF Exit
<1>5. CASE Crash
  BY <1>5 DEF Crash, IdleSlot
<1> QED BY <1>1, <1>2, <1>3, <1>4, <1>5 DEF Next

\* The entry of a job stays active while a handler is at work on it.
LEMMA EntryHeld ==
    ASSUME IInv, Next, NEW v \in Worker, Busy(v), Busy(v)'
    PROVE  entry'[worker[v].job].state = "active"
<1> DEFINE j == worker[v].job
<1>0. /\ entry \in [Job -> Entry] /\ worker \in [Worker -> Slot]
      /\ j \in Job /\ Visible(j) /\ entry[j].state = "active"
      /\ \A w \in Worker : Busy(w) /\ w # v => worker[w].job # j
  BY DEF IInv, TypeOK, SlotsFormed, Equipped
<1> HIDE DEF j
<1>1. ASSUME NEW i \in Job, NEW e, i # j, entry' = [entry EXCEPT ![i] = e]
      PROVE  entry'[j].state = "active"
  BY <1>0, <1>1
<1>2. ASSUME NEW r \in Request, ApiStep(r) PROVE entry'[j].state = "active"
  <2>1. CASE UNCHANGED entry
    BY <1>0, <2>1
  <2>2. CASE EnqueueCreated(r) \/ Submit(r)
    <3>1. \/ entry' = entry
          \/ FreeJobs # {} /\ entry' = [entry EXCEPT ![NewJob].state = "waiting"]
      BY <2>2 DEF EnqueueCreated, Submit
    <3>2. FreeJobs # {} => NewJob # j
      BY <1>0, NewJobFree DEF Visible
    <3> QED BY <1>0, <3>1, <3>2
  <2> QED BY <1>2, <2>1, <2>2 DEF ApiStep, CheckQuota, CreateRow, EnqueueLost, ReadRow,
                                  Commit, Abort, Replay, Reject
<1>3. ASSUME NEW i \in Job, Promote(i) \/ Stall(i) PROVE entry'[j].state = "active"
  <2>1. i # j
    BY <1>0, <1>3 DEF Promote, Stall, Holds, Busy, j
  <2> QED BY <1>0, <1>3, <2>1 DEF Promote, Stall
<1>4. ASSUME NEW w \in Worker, WorkerStep(w) PROVE entry'[j].state = "active"
  <2>1. ASSUME NEW i \in Job, Take(w, i) PROVE entry'[j].state = "active"
    BY <1>0, <2>1 DEF Take
  <2>2. ASSUME NEW i \in Job, Miss(w, i) PROVE entry'[j].state = "active"
    <3>1. i # j
      BY <1>0, <2>2 DEF Miss
    <3> QED BY <1>0, <2>2, <3>1 DEF Miss
  <2>3. CASE Ack(w) \/ Nack(w)
    <3>1. ~Busy(w)' /\ Busy(w)
      BY <1>0, <2>3 DEF Ack, Nack, IdleSlot, Busy
    <3>2. worker[w].job # j
      BY <1>0, <3>1
    <3> QED BY <1>0, <2>3, <3>2 DEF Ack, Nack
  <2>4. ASSUME ~(Ack(w) \/ Nack(w)), ~\E i \in Job : Take(w, i) \/ Miss(w, i)
        PROVE  UNCHANGED entry
    BY <1>4, <2>4 DEF WorkerStep, Schedule, Reserve, Release, Create, Record, Operate, Finish,
                      Succeed, Fail, Report, Mark, FailTwice
  <2> QED BY <1>0, <2>1, <2>2, <2>3, <2>4
<1>5. ASSUME NEW p \in Pass, PassStep(p) PROVE UNCHANGED entry
  BY <1>5 DEF PassStep, ReadComputers, Inspect, InspectFails, Write, CheckHosts, Tally,
              Correct, EndPass
<1>6. ASSUME NEW h \in Host, NEW c \in Computer, Exit(h, c) PROVE UNCHANGED entry
  BY <1>6 DEF Exit
<1>7. ASSUME Crash PROVE UNCHANGED entry
  BY <1>7 DEF Crash
<1>8. entry'[j].state = "active"
  BY <1>0, <1>2, <1>3, <1>4, <1>5, <1>6, <1>7 DEF Next
<1> QED BY <1>8 DEF j

\* Every step keeps the worker's slots well formed: a handler has the host
\* and the instance its next call needs, and no two handlers have the same
\* entry.
LEMMA SlotsFormedStep == IInv /\ Next => SlotsFormed'
<1> SUFFICES ASSUME IInv, Next, NEW v \in Worker, Busy(v)'
             PROVE  /\ Equipped(worker'[v])
                    /\ Visible(worker[v].job)'
                    /\ entry'[worker'[v].job].state = "active"
                    /\ \A u \in Worker : Busy(u)' /\ u # v => worker'[u].job # worker'[v].job
                    /\ worker'[v].pc \in PlacedPc => row'[Of(v)'].hostId # None
  BY DEF SlotsFormed
<1>0. /\ worker \in [Worker -> Slot] /\ job \in [Job -> JobRow]
      /\ row \in [Computer -> Row] /\ entry \in [Job -> Entry]
  BY DEF IInv, TypeOK
<1>a. ASSUME NEW u \in Worker, Busy(u)
      PROVE  /\ Equipped(worker[u]) /\ worker[u].job \in Job /\ Visible(worker[u].job)
             /\ entry[worker[u].job].state = "active"
             /\ \A w \in Worker : Busy(w) /\ w # u => worker[w].job # worker[u].job
             /\ worker[u].pc \in PlacedPc => row[Of(u)].hostId # None
             /\ Of(u) \in Computer
  BY <1>a DEF IInv, SlotsFormed, Equipped, JobsFormed, Visible, Of
\* A slot at work after the step has the job it had, or takes one.
<1>1. \A u \in Worker : Busy(u)' => \/ worker'[u] = worker[u] /\ Busy(u)
                                  \/ Continues(u)
                                  \/ \E j \in Job : Take(u, j)
  <2>1. ASSUME NEW w \in Worker, WorkerStep(w) \/ EndPass(w), NEW u \in Worker, Busy(u)'
        PROVE  \/ worker'[u] = worker[u] /\ Busy(u)
               \/ Continues(u)
               \/ \E j \in Job : Take(u, j)
    BY <2>1, SlotMoves DEF Busy
  <2>2. ASSUME ~\E w \in Worker : WorkerStep(w) \/ EndPass(w), NEW u \in Worker, Busy(u)'
        PROVE  worker'[u] = worker[u] /\ Busy(u)
    BY <2>2, SlotsStill DEF Busy
  <2> QED BY <2>1, <2>2
<1>2. ASSUME NEW u \in Worker, Busy(u)', ~\E j \in Job : Take(u, j)
      PROVE  Busy(u) /\ worker'[u].job = worker[u].job
  BY <1>1, <1>2 DEF Continues
<1>3. ASSUME NEW u \in Worker, NEW j \in Job, Take(u, j)
      PROVE  /\ ~Busy(u) /\ worker'[u].job = j /\ entry[j].state = "waiting" /\ Visible(j)
             /\ entry'[j].state = "active"
             /\ \A w \in Worker, i \in Job : Take(w, i) => w = u
  <2>1. worker'[u].pc # "idle" /\ worker'[u].job = j
    <3>1. worker'[u].pc = FirstStep(effectiveType(job[j].type, row[job[j].computer].instance),
                                    row[job[j].computer].hostId,
                                    row[job[j].computer].instance)
          /\ worker'[u].job = j
      BY <1>0, <1>3 DEF Take
    <3> QED BY <3>1 DEF FirstStep
  <2>2. \A w \in Worker, i \in Job : Take(w, i) => w = u
    <3> SUFFICES ASSUME NEW w \in Worker, NEW i \in Job, Take(w, i), w # u PROVE FALSE
      OBVIOUS
    <3>1. worker'[u] = worker[u]
      BY <1>0 DEF Take
    <3>2. worker[u].pc = "idle"
      BY <1>3 DEF Take
    <3> QED BY <2>1, <3>1, <3>2
  <2>3. ~Busy(u) /\ entry[j].state = "waiting" /\ Visible(j)
    BY <1>3 DEF Take, Busy
  <2>4. entry'[j].state = "active"
    BY <1>0, <1>3 DEF Take
  <2> QED BY <2>1, <2>2, <2>3, <2>4
<1>4. \A u \in Worker : Busy(u)' /\ u # v => worker'[u].job # worker'[v].job
  BY <1>a, <1>2, <1>3
<1>5. ASSUME NEW j \in Job, Take(v, j)
      PROVE  /\ Equipped(worker'[v])
             /\ worker'[v].pc \in PlacedPc => row'[Of(v)'].hostId # None
  <2> DEFINE c == job[j].computer
             t == effectiveType(job[j].type, row[c].instance)
             h == row[c].hostId
  <2>1. /\ c \in Computer /\ job[j].type \in JobType /\ h \in Host \cup {None}
    BY <1>0, <1>5 DEF Take, IInv, JobsFormed, Visible, Row
  <2>2. t \in JobType
    BY <2>1 DEF effectiveType, JobType
  <2>3. /\ worker'[v].pc = FirstStep(t, h, row[c].instance)
        /\ worker'[v].job = j /\ worker'[v].type = t /\ worker'[v].host = h
        /\ worker'[v].status \in {"PROVIDER_UNAVAILABLE", "ERROR"}
        /\ UNCHANGED row /\ job'[j].computer = c
    BY <1>0, <1>5 DEF Take, JobRow
  <2> HIDE DEF t
  <2>4. FirstStep(t, h, row[c].instance) \in PlacedPc \cup {"reserve", "finish"} => h # None
    BY DEF FirstStep, PlacedPc
  <2>5. FirstStep(t, h, row[c].instance) = "operate" => t # "PROVISION"
    BY DEF FirstStep
  <2>6. Equipped(worker'[v])
    BY <2>1, <2>2, <2>3, <2>4, <2>5 DEF Equipped, PlacedPc, Contract!Reported
  <2>7. Of(v)' = c
    BY <2>3 DEF Of
  <2> QED BY <2>3, <2>4, <2>6, <2>7
<1>6. ASSUME Busy(v), worker'[v].job = worker[v].job,
             worker'[v] = worker[v] \/ Continues(v)
      PROVE  /\ Equipped(worker'[v])
             /\ Visible(worker[v].job)'
             /\ entry'[worker'[v].job].state = "active"
             /\ worker'[v].pc \in PlacedPc => row'[Of(v)'].hostId # None
  <2>1. Equipped(worker'[v])
    BY <1>a, <1>6 DEF Continues
  <2>2. /\ Visible(worker[v].job)' /\ job'[worker[v].job].computer = job[worker[v].job].computer
    <3>1. Visible(worker[v].job) => job[worker[v].job].status # "FREE"
      BY DEF Visible
    <3> QED BY <1>a, <1>6, <3>1, JobFields DEF Visible
  <2>3. entry'[worker'[v].job].state = "active"
    BY <1>6, EntryHeld
  <2>4. Of(v)' = Of(v)
    BY <1>6, <2>2 DEF Of
  <2>5. row[Of(v)].hostId # None => row'[Of(v)].hostId # None
    BY <1>a, <1>6, RowKept DEF RowStep
  <2>6. worker'[v].pc \in PlacedPc => row'[Of(v)].hostId # None
    BY <1>a, <1>6, <2>5 DEF Continues
  <2> QED BY <1>6, <2>1, <2>2, <2>3, <2>4, <2>6
<1>7. CASE \E j \in Job : Take(v, j)
  BY <1>3, <1>4, <1>5, <1>7, JobFields
<1>8. CASE ~\E j \in Job : Take(v, j)
  BY <1>1, <1>2, <1>4, <1>6, <1>8
<1> QED BY <1>7, <1>8

-----------------------------------------------------------------------------
(* The API handlers. *)

\* How a handler gets to a state in which it has something in hand.
LEMMA RequestMoves ==
    ASSUME IInv, Next, NEW r \in Request
    PROVE  \/ request'[r] = request[r]
           \/ request'[r].pc = "idle"
           \/ /\ request'[r].pc \in {"checked", "created"}
              /\ request'[r].computer \in Computer
              /\ request'[r].pc = "created" => row'[request'[r].computer].status # "ABSENT"
           \/ \E c \in Computer, a \in Actions, k \in Key \cup {None} : ReadRow(r, c, a, k)
           \/ Submit(r)
<1> DEFINE Moves == \/ request'[r] = request[r]
                    \/ request'[r].pc = "idle"
                    \/ /\ request'[r].pc \in {"checked", "created"}
                       /\ request'[r].computer \in Computer
                       /\ request'[r].pc = "created" =>
                              row'[request'[r].computer].status # "ABSENT"
                    \/ \E c \in Computer, a \in Actions, k \in Key \cup {None} :
                          ReadRow(r, c, a, k)
                    \/ Submit(r)
<1>0. request \in [Request -> Handler] /\ request[r] \in Handler
  BY DEF IInv, TypeOK
<1>a. request[r].pc # "idle" => request[r].computer \in Computer
  BY DEF IInv, ReadsFormed
<1>b. row \in [Computer -> Row]
  BY DEF IInv, TypeOK
<1>1. ASSUME NEW s \in Request, ApiStep(s), s # r PROVE request'[r] = request[r]
  BY <1>0, <1>1 DEF ApiStep, CheckQuota, CreateRow, EnqueueCreated, EnqueueLost, ReadRow,
                    Submit, Commit, Abort, Replay, Reject
<1>2. ASSUME ApiStep(r) PROVE Moves
  <2>1. ASSUME NEW c \in Computer, NEW k \in Key \cup {None}, CheckQuota(r, c, k)
        PROVE  Moves
    <3>1. request'[r] = [IdleHandler EXCEPT !.pc = "checked", !.computer = c, !.key = k]
      BY <1>0, <2>1 DEF CheckQuota
    <3>2. request'[r].pc = "checked" /\ request'[r].computer = c
      BY <3>1 DEF IdleHandler
    <3> QED BY <3>2
  <2>2. CASE CreateRow(r)
    <3>1. request'[r] = [request[r] EXCEPT !.pc = "created"] /\ request[r].pc = "checked"
      BY <1>0, <2>2 DEF CreateRow
    <3>2. request'[r].pc = "created" /\ request'[r].computer = request[r].computer
      BY <1>0, <3>1 DEF Handler
    <3>3. row'[request[r].computer].status = "CREATING"
      BY <1>a, <1>b, <2>2, <3>1 DEF CreateRow, Row
    <3> QED BY <1>a, <3>1, <3>2, <3>3
  <2>3. CASE \/ EnqueueCreated(r) \/ EnqueueLost(r) \/ Commit(r) \/ Abort(r)
             \/ Replay(r) \/ Reject(r)
    <3>1. request' = [request EXCEPT ![r] = IdleHandler]
      BY <2>3 DEF EnqueueCreated, EnqueueLost, Commit, Abort, Replay, Reject
    <3>2. request'[r].pc = "idle"
      BY <1>0, <3>1 DEF IdleHandler
    <3> QED BY <3>2
  <2> HIDE DEF Moves
  <2>4. ASSUME \/ \E c \in Computer, a \in Actions, k \in Key \cup {None} : ReadRow(r, c, a, k)
               \/ Submit(r)
        PROVE  Moves
    BY <2>4 DEF Moves
  <2> QED BY <1>2, <2>1, <2>2, <2>3, <2>4 DEF ApiStep
<1>3. ASSUME NEW j \in Job, Promote(j) \/ Stall(j) PROVE UNCHANGED request
  BY <1>3 DEF Promote, Stall
<1>4. ASSUME NEW w \in Worker, WorkerStep(w) PROVE UNCHANGED request
  BY <1>4 DEF WorkerStep, Take, Miss, Schedule, Reserve, Release, Create, Record, Operate,
              Finish, Succeed, Ack, Fail, Report, Mark, FailTwice, Nack
<1>5. ASSUME NEW p \in Pass, PassStep(p) PROVE UNCHANGED request
  BY <1>5 DEF PassStep, ReadComputers, Inspect, InspectFails, Write, CheckHosts, Tally,
              Correct, EndPass
<1>6. ASSUME NEW h \in Host, NEW c \in Computer, Exit(h, c) PROVE UNCHANGED request
  BY <1>6 DEF Exit
<1>7. ASSUME Crash PROVE UNCHANGED request
  BY <1>7 DEF Crash
<1> HIDE DEF Moves
<1>8. request'[r] = request[r] => Moves
  BY DEF Moves
<1>9. ASSUME NEW s \in Request, ApiStep(s) PROVE Moves
  BY <1>1, <1>2, <1>8, <1>9
<1>10. ASSUME UNCHANGED request PROVE Moves
  BY <1>8, <1>10
<1>11. Moves
  BY <1>3, <1>4, <1>5, <1>6, <1>7, <1>9, <1>10 DEF Next
<1> QED BY <1>11 DEF Moves

\* What a handler has read of a row stays behind the row.
LEMMA ReadsFormedStep == IInv /\ Next => ReadsFormed'
<1> DEFINE Formed(q, rows) ==
        /\ q.pc # "idle" => q.computer \in Computer
        /\ q.pc = "created" => rows[q.computer].status # "ABSENT"
        /\ q.pc \in {"read", "open"} =>
               /\ q.action \in LifecycleAction
               /\ q.status \in From[q.action]
               /\ rows[q.computer].status # "ABSENT"
               /\ q.version <= rows[q.computer].version
               /\ q.version = rows[q.computer].version => ~rows[q.computer].deleted
<1> SUFFICES ASSUME IInv, Next, NEW r \in Request
             PROVE  Formed(request'[r], row')
  BY DEF ReadsFormed
<1>0. /\ request \in [Request -> Handler] /\ request[r] \in Handler
      /\ row \in [Computer -> Row]
  BY DEF IInv, TypeOK
<1>1. Formed(request[r], row)
  BY DEF IInv, ReadsFormed
<1>2. CASE request'[r] = request[r]
  <2>1. CASE request[r].pc = "idle"
    BY <1>2, <2>1
  <2>2. CASE request[r].pc # "idle"
    <3> DEFINE c == request[r].computer
    <3>1. c \in Computer /\ row[c] \in Row
      BY <1>0, <1>1, <2>2
    <3>2. row'[c] \in Row
      BY <3>1, TypeStep DEF TypeOK
    <3>3. /\ row[c].status # "ABSENT" => row'[c].status # "ABSENT"
          /\ row[c].version <= row'[c].version
          /\ row'[c].version = row[c].version => row'[c].deleted = row[c].deleted
      BY <3>1, RowKept DEF RowStep
    <3>4. row[c].version \in Nat /\ row'[c].version \in Nat /\ request[r].version \in Nat
      BY <1>0, <3>1, <3>2 DEF Row, Handler
    <3> QED BY <1>1, <1>2, <3>1, <3>3, <3>4
  <2> QED BY <2>1, <2>2
<1>3. CASE request'[r].pc = "idle"
  BY <1>3
<1>4. CASE /\ request'[r].pc \in {"checked", "created"}
           /\ request'[r].computer \in Computer
           /\ request'[r].pc = "created" => row'[request'[r].computer].status # "ABSENT"
  BY <1>4
<1>5. ASSUME NEW c \in Computer, NEW a \in Actions, NEW k \in Key \cup {None},
             ReadRow(r, c, a, k)
      PROVE  Formed(request'[r], row')
  <2>1. request'[r] = [pc |-> "read", action |-> a, computer |-> c,
                       status |-> row[c].status, version |-> row[c].version, key |-> k,
                       job |-> 0]
        /\ row' = row
    BY <1>0, <1>5 DEF ReadRow
  <2>2. /\ a \in LifecycleAction /\ row[c].status \in From[a]
        /\ row[c].status # "ABSENT" /\ ~row[c].deleted
    BY <1>5, ConstantsAssumption DEF ReadRow, Live, ConstantsAssumption
  <2>3. row[c].version \in Nat
    BY <1>0 DEF Row
  <2> QED BY <2>1, <2>2, <2>3
<1>6. CASE Submit(r)
  <2>1. /\ request'[r] = [request[r] EXCEPT !.pc = "open", !.job = NewJob]
        /\ row' = row /\ request[r].pc = "read"
    BY <1>0, <1>6 DEF Submit
  <2>2. /\ request'[r].computer = request[r].computer /\ request'[r].action = request[r].action
        /\ request'[r].status = request[r].status /\ request'[r].version = request[r].version
    BY <1>0, <2>1 DEF Handler
  <2> QED BY <1>1, <2>1, <2>2
<1> HIDE DEF Formed
<1> QED BY <1>2, <1>3, <1>4, <1>5, <1>6, RequestMoves

\* An open transaction keeps the row it has locked, and the job it inserted.
LEMMA TransactionsFormedStep == IInv /\ Next => TransactionsFormed'
<1> DEFINE c(r) == request[r].computer
<1> SUFFICES ASSUME IInv, Next, NEW r \in Request, request'[r].pc = "open"
             PROVE  /\ request'[r].job \in Job
                    /\ job'[request'[r].job].status = "OPEN"
                    /\ job'[request'[r].job].computer = request'[r].computer
                    /\ job'[request'[r].job].type = jobType[request'[r].action]
                    /\ Unmoved(r)'
                    /\ \A s \in Request : request'[s].pc = "open" /\ s # r =>
                           request'[s].computer # request'[r].computer
  BY DEF TransactionsFormed, Job
<1>0. /\ request \in [Request -> Handler] /\ request[r] \in Handler
      /\ row \in [Computer -> Row] /\ job \in [Job -> JobRow]
  BY DEF IInv, TypeOK
\* A transaction that is open after the step was open, or is opened by it.
<1>1. \A s \in Request : request'[s].pc = "open" =>
         \/ request'[s] = request[s] /\ request[s].pc = "open"
         \/ Submit(s)
  <2> SUFFICES ASSUME NEW s \in Request, request'[s].pc = "open",
                      request'[s] # request[s], ~Submit(s)
               PROVE  FALSE
    OBVIOUS
  <2>1. PICK d \in Computer, a \in Actions, k \in Key \cup {None} : ReadRow(s, d, a, k)
    BY RequestMoves
  <2>2. request'[s].pc = "read"
    BY <1>0, <2>1 DEF ReadRow
  <2> QED BY <2>2
<1>2. ASSUME NEW s \in Request, Submit(s)
      PROVE  /\ request'[s] = [request[s] EXCEPT !.pc = "open", !.job = NewJob]
             /\ request'[s].computer = c(s) /\ request'[s].job = NewJob
             /\ request'[s].action = request[s].action
             /\ request'[s].status = request[s].status
             /\ request'[s].version = request[s].version
             /\ \A t \in Request \ {s} : request'[t] = request[t]
             /\ \A t \in Request : request[t].pc = "open" => c(t) # c(s)
             /\ row' = row /\ Unmoved(s)
  <2>1. request' = [request EXCEPT ![s] = [request[s] EXCEPT !.pc = "open", !.job = NewJob]]
    BY <1>0, <1>2 DEF Submit
  <2>2. request[s] \in Handler
    BY <1>0
  <2> QED BY <1>0, <1>2, <2>1, <2>2 DEF Submit, Unlocked, Handler
<1>3. \A s \in Request : request'[s].pc = "open" /\ s # r =>
         request'[s].computer # request'[r].computer
  <2>1. ASSUME NEW s \in Request, NEW t \in Request, request'[s].pc = "open", s # t,
               request'[s] = request[s], request[s].pc = "open",
               request'[t].pc = "open"
        PROVE  request'[s].computer # request'[t].computer
    <3>1. CASE request'[t] = request[t] /\ request[t].pc = "open"
      BY <2>1, <3>1 DEF IInv, TransactionsFormed
    <3>2. CASE Submit(t)
      BY <1>2, <2>1, <3>2
    <3> QED BY <1>1, <2>1, <3>1, <3>2
  <2>2. ASSUME NEW s \in Request, s # r, Submit(s), Submit(r) PROVE FALSE
    BY <1>0, <1>2, <2>2 DEF Submit
  <2> QED BY <1>1, <2>1, <2>2
<1>4. CASE request'[r] = request[r] /\ request[r].pc = "open"
  <2> DEFINE i == request[r].job
  <2>1. /\ i \in Job /\ job[i].status = "OPEN" /\ job[i].computer = c(r)
        /\ job[i].type = jobType[request[r].action] /\ Unmoved(r) /\ c(r) \in Computer
        /\ \A s \in Request : request[s].pc = "open" /\ s # r => c(s) # c(r)
    BY <1>4 DEF IInv, TransactionsFormed, ReadsFormed
  <2>2. ASSUME NEW s \in Request, Commit(s) \/ Abort(s)
        PROVE  s # r /\ c(s) # c(r) /\ request[s].job # i
    <3>1. request[s].pc = "open" /\ request'[s].pc = "idle"
      BY <1>0, <2>2 DEF Commit, Abort, IdleHandler
    <3>2. s # r
      BY <1>4, <3>1
    <3>3. job[request[s].job].computer = c(s)
      BY <3>1 DEF IInv, TransactionsFormed
    <3> QED BY <2>1, <3>1, <3>2, <3>3
  <2>3. row'[c(r)] = row[c(r)]
    <3>1. ~Unlocked(c(r))
      BY <1>4 DEF Unlocked
    <3> QED BY <2>1, <2>2, <3>1, RowKept
  <2>4. job'[i] = job[i]
    <3>1. ~Inserted(i) /\ ~Closed(i) /\ ~\E w \in Worker : Take(w, i)
      BY <2>1, <2>2 DEF Inserted, Closed, Take, Visible
    <3>2. JobStep(job[i], job'[i])
      BY <2>1, <3>1, JobKept
    <3> QED BY <2>1, <3>2 DEF JobStep
  <2> QED BY <1>3, <1>4, <2>1, <2>3, <2>4 DEF Unmoved
<1>5. CASE Submit(r)
  <2>1. NewJob \in Job
    BY <1>5, NewJobFree DEF Submit
  <2>2. job'[NewJob] = NewRow(c(r), jobType[request[r].action], request[r].key, "OPEN")
    BY <1>0, <1>5, <2>1 DEF Submit
  <2>3. /\ job'[NewJob].status = "OPEN" /\ job'[NewJob].computer = c(r)
        /\ job'[NewJob].type = jobType[request[r].action]
    BY <2>2 DEF NewRow
  <2>4. Unmoved(r)'
    BY <1>2, <1>5 DEF Unmoved
  <2> QED BY <1>2, <1>3, <1>5, <2>1, <2>3, <2>4
<1> QED BY <1>1, <1>4, <1>5

\* A pass knows what it is about to write.
LEMMA PassesFormedStep == IInv /\ Next => PassesFormed'
<1> SUFFICES ASSUME IInv, Next PROVE PassesFormed'
  OBVIOUS
<1>0. /\ pass \in [Pass -> PassState] /\ worker \in [Worker -> Slot]
  BY DEF IInv, TypeOK
<1>a. /\ \A p \in Pass : pass[p].pc = "write" =>
             pass[p].at \in Computer /\ pass[p].status \in Contract!Reported
      /\ \A w \in Worker : pass[w].pc # "off" => worker[w].pc = "settle"
      /\ Worker \subseteq Pass
  BY DEF IInv, PassesFormed, Pass
<1>1. CASE UNCHANGED <<pass, worker>>
  BY <1>1, <1>a DEF PassesFormed, Pass
<1>2. ASSUME NEW w \in Worker, WorkerStep(w) PROVE PassesFormed'
  <2>1. \A v \in Worker \ {w} : worker'[v] = worker[v]
    BY <1>2, SlotMoves
  <2>2. pass' = pass \/ pass' = [pass EXCEPT ![w] = NoPass]
    BY <1>2 DEF WorkerStep, Take, Miss, Schedule, Reserve, Release, Create, Record, Operate,
                Finish, Succeed, Ack, Fail, Report, Mark, FailTwice, Nack
  <2>3. worker[w].pc = "settle" => pass' = [pass EXCEPT ![w] = NoPass]
    BY <1>2 DEF WorkerStep, Take, Miss, Schedule, Reserve, Release, Create, Record, Operate,
                Finish, Succeed, Ack, Fail, Report, Mark, FailTwice, Nack
  <2>4. pass'[w].pc = "off"
    BY <1>0, <1>a, <2>2, <2>3 DEF NoPass, PassState
  <2>5. \A p \in Pass \ {w} : pass'[p] = pass[p]
    BY <1>0, <2>2
  <2> QED BY <1>a, <2>1, <2>4, <2>5 DEF PassesFormed, Pass
<1>3. ASSUME NEW p \in Pass, PassStep(p) PROVE PassesFormed'
  <2>1. \A q \in Pass \ {p} : pass'[q] = pass[q]
    BY <1>0, <1>3 DEF PassStep, ReadComputers, Inspect, InspectFails, Write, CheckHosts,
                      Tally, Correct, EndPass
  <2>2. pass'[p].pc = "write" => pass'[p].at \in Computer /\ pass'[p].status \in Contract!Reported
    <3>1. ASSUME NEW c \in Computer, Inspect(p, c) \/ InspectFails(p, c)
          PROVE  pass'[p].pc = "write" =>
                     pass'[p].at \in Computer /\ pass'[p].status \in Contract!Reported
      <4>1. PICK status \in Copied \cup {"PROVIDER_UNAVAILABLE"} :
               \/ pass' = [pass EXCEPT ![p].todo = @ \ {c}, ![p].pc = "write",
                                      ![p].at = c, ![p].status = status]
               \/ pass' = [pass EXCEPT ![p].todo = @ \ {c}] /\ pass[p].pc = "inspect"
        BY <3>1 DEF Inspect, InspectFails
      <4>2. status \in Contract!Reported
        BY DEF Copied, Contract!Reported
      <4> QED BY <1>0, <4>1, <4>2 DEF PassState
    <3>2. ASSUME ~\E c \in Computer : Inspect(p, c) \/ InspectFails(p, c)
          PROVE  pass'[p].pc # "write"
      <4>1. CASE ReadComputers(p) \/ Write(p)
        BY <1>0, <4>1 DEF ReadComputers, Write, PassState
      <4>2. ASSUME NEW h \in Host, Tally(p, h) PROVE pass'[p].pc # "write"
        BY <1>0, <4>2 DEF Tally, PassState
      <4>3. CASE CheckHosts(p) \/ Correct(p)
        BY <1>0, <4>3 DEF CheckHosts, Correct, PassState
      <4>4. CASE EndPass(p)
        BY <1>0, <4>4 DEF EndPass, NoPass
      <4> QED BY <1>3, <3>2, <4>1, <4>2, <4>3, <4>4 DEF PassStep
    <3> QED BY <3>1, <3>2
  <2>3. \A w \in Worker : pass'[w].pc # "off" => worker'[w].pc = "settle"
    <3>1. CASE EndPass(p)
      <4>1. pass'[p].pc = "off"
        BY <1>0, <3>1 DEF EndPass, NoPass
      <4>2. \A w \in Worker \ {p} : worker'[w] = worker[w]
        BY <1>0, <3>1 DEF EndPass, Go
      <4> QED BY <1>a, <2>1, <4>1, <4>2
    <3>2. CASE ~EndPass(p)
      <4>1. worker' = worker /\ (p \in Worker => worker[p].pc = "settle")
        BY <1>3, <1>a, <3>2, TimerAssumption
           DEF PassStep, ReadComputers, Inspect, InspectFails, Write, CheckHosts, Tally,
               Correct, Timer, TimerAssumption
      <4> QED BY <1>a, <2>1, <4>1
    <3> QED BY <3>1, <3>2
  <2> QED BY <1>a, <2>1, <2>2, <2>3 DEF PassesFormed, Pass
<1>4. CASE Crash
  <2>1. \A p \in Pass : pass'[p].pc = "off"
    BY <1>4 DEF Crash, NoPass
  <2> QED BY <1>a, <2>1 DEF PassesFormed, Pass
<1>5. ASSUME NEW r \in Request, ApiStep(r) PROVE UNCHANGED <<pass, worker>>
  BY <1>5 DEF ApiStep, CheckQuota, CreateRow, EnqueueCreated, EnqueueLost, ReadRow, Submit,
              Commit, Abort, Replay, Reject
<1>6. ASSUME NEW j \in Job, Promote(j) \/ Stall(j) PROVE UNCHANGED <<pass, worker>>
  BY <1>6 DEF Promote, Stall
<1>7. ASSUME NEW h \in Host, NEW c \in Computer, Exit(h, c) PROVE UNCHANGED <<pass, worker>>
  BY <1>7 DEF Exit
<1> QED BY <1>1, <1>2, <1>3, <1>4, <1>5, <1>6, <1>7 DEF Next

-----------------------------------------------------------------------------
(* The queue. *)

\* The ways an entry changes.
LEMMA EntrySteps ==
    ASSUME IInv, Next, NEW j \in Job
    PROVE  \/ entry'[j] = entry[j]
           \/ job[j].status = "FREE" /\ entry'[j] = [entry[j] EXCEPT !.state = "waiting"]
           \/ Promote(j) \/ Stall(j)
           \/ \E w \in Worker : Take(w, j) \/ Miss(w, j)
           \/ \E w \in Worker : Holds(w, j) /\ (Ack(w) \/ Nack(w))
<1> DEFINE Steps == \/ entry'[j] = entry[j]
                    \/ job[j].status = "FREE" /\ entry'[j] = [entry[j] EXCEPT !.state = "waiting"]
                    \/ Promote(j) \/ Stall(j)
                    \/ \E w \in Worker : Take(w, j) \/ Miss(w, j)
                    \/ \E w \in Worker : Holds(w, j) /\ (Ack(w) \/ Nack(w))
<1>0. entry \in [Job -> Entry]
  BY DEF IInv, TypeOK
<1>1. ASSUME UNCHANGED entry PROVE Steps
  BY <1>1
<1>2. ASSUME NEW r \in Request, ApiStep(r) PROVE Steps
  <2>1. ASSUME EnqueueCreated(r) \/ Submit(r) PROVE Steps
    <3>1. \/ entry' = entry
          \/ FreeJobs # {} /\ entry' = [entry EXCEPT ![NewJob].state = "waiting"]
      BY <2>1 DEF EnqueueCreated, Submit
    <3>2. FreeJobs # {} => NewJob \in Job /\ job[NewJob].status = "FREE"
      BY NewJobFree
    <3> QED BY <1>0, <3>1, <3>2
  <2>2. ASSUME ~(EnqueueCreated(r) \/ Submit(r)) PROVE UNCHANGED entry
    BY <1>2, <2>2 DEF ApiStep, CheckQuota, CreateRow, EnqueueLost, ReadRow, Commit, Abort,
                      Replay, Reject
  <2> HIDE DEF Steps
  <2> QED BY <1>1, <2>1, <2>2
<1>3. ASSUME NEW i \in Job, Promote(i) \/ Stall(i) PROVE Steps
  BY <1>0, <1>3 DEF Promote, Stall
<1>4. ASSUME NEW w \in Worker, WorkerStep(w) PROVE Steps
  <2>1. ASSUME NEW i \in Job, Take(w, i) \/ Miss(w, i) PROVE Steps
    BY <1>0, <2>1 DEF Take, Miss
  <2>2. ASSUME Ack(w) \/ Nack(w) PROVE Steps
    BY <1>0, <2>2 DEF Ack, Nack, Holds
  <2>3. ASSUME ~(Ack(w) \/ Nack(w)), ~\E i \in Job : Take(w, i) \/ Miss(w, i)
        PROVE  UNCHANGED entry
    BY <1>4, <2>3 DEF WorkerStep, Schedule, Reserve, Release, Create, Record, Operate, Finish,
                      Succeed, Fail, Report, Mark, FailTwice
  <2> HIDE DEF Steps
  <2> QED BY <1>1, <2>1, <2>2, <2>3
<1>5. ASSUME NEW p \in Pass, PassStep(p) PROVE UNCHANGED entry
  BY <1>5 DEF PassStep, ReadComputers, Inspect, InspectFails, Write, CheckHosts, Tally,
              Correct, EndPass
<1>6. ASSUME NEW h \in Host, NEW c \in Computer, Exit(h, c) PROVE UNCHANGED entry
  BY <1>6 DEF Exit
<1>7. ASSUME Crash PROVE UNCHANGED entry
  BY <1>7 DEF Crash
<1> HIDE DEF Steps
<1>8. Steps
  BY <1>1, <1>2, <1>3, <1>4, <1>5, <1>6, <1>7 DEF Next
<1> QED BY <1>8 DEF Steps

\* Every delivery is accounted for.
LEMMA DeliveriesCountedStep == IInv /\ Next => DeliveriesCounted'
<1> DEFINE Now(e) == IF e.state \in {"active", "completed"} THEN 1 ELSE 0
           Due(e) == IF e.state = "failed" THEN 0 ELSE 1
           Counted(e, n, max) ==
               /\ n <= e.made + e.stalls + Now(e)
               /\ e.made + Due(e) <= max
               /\ e.stalls <= 2 - Due(e)
<1> SUFFICES ASSUME IInv, Next, NEW j \in Job
             PROVE  Counted(entry'[j], job'[j].attempts, maxAttempts(job'[j].type))
  <2>1. DeliveriesCounted' <=> \A j \in Job :
          Counted(entry'[j], job'[j].attempts, maxAttempts(job'[j].type))
    BY DEF DeliveriesCounted, Job
  <2> QED BY <2>1
<1> DEFINE E == entry[j]
           n == job[j].attempts
           max == maxAttempts(job[j].type)
<1>0. /\ entry \in [Job -> Entry] /\ job \in [Job -> JobRow] /\ worker \in [Worker -> Slot]
      /\ E \in Entry /\ job[j] \in JobRow
  BY DEF IInv, TypeOK
<1>1. /\ E.made \in Nat /\ E.stalls \in Nat /\ n \in Nat
      /\ max \in {1, 3}
      /\ E.state \in {"none", "waiting", "active", "delayed", "completed", "failed"}
  BY <1>0 DEF Entry, JobRow, maxAttempts
<1>2. Counted(E, n, max)
  BY DEF IInv, DeliveriesCounted
\* Only a take counts one more attempt.
<1>3. \/ job'[j].attempts = n
      \/ \E w \in Worker : Take(w, j)
  <2>1. CASE Inserted(j)
    BY <2>1 DEF Inserted, IInv, JobsFormed
  <2>2. CASE Closed(j)
    <3>1. PICK status \in {"QUEUED", "ABORTED"} : job'[j] = [job[j] EXCEPT !.status = status]
      BY <2>2 DEF Closed
    <3> QED BY <1>0, <3>1 DEF JobRow
  <2> QED BY <2>1, <2>2, JobKept DEF JobStep
<1>4. CASE job[j].status = "FREE"
  <2>1. E = NoEntry /\ n = 0
    BY <1>4 DEF IInv, JobsFormed
  <2>2. job'[j].attempts = 0
    <3>1. ~\E w \in Worker : Take(w, j)
      BY <1>4 DEF Take, Visible
    <3> QED BY <1>3, <2>1, <3>1
  <2>3. entry'[j] \in {E, [E EXCEPT !.state = "waiting"]}
    <3>1. ~(Promote(j) \/ Stall(j)) /\ ~\E w \in Worker : Take(w, j) \/ Miss(w, j)
      BY <2>1 DEF NoEntry, Promote, Stall, Take, Miss
    <3>2. ~\E w \in Worker : Holds(w, j)
      BY <1>4 DEF Holds, IInv, SlotsFormed, Busy, Visible
    <3> QED BY <3>1, <3>2, EntrySteps
  <2>4. maxAttempts(job'[j].type) \in {1, 3}
    BY DEF maxAttempts
  <2>5. /\ entry'[j].state \in {"none", "waiting"}
        /\ entry'[j].made = 0 /\ entry'[j].stalls = 0
    BY <2>1, <2>3 DEF NoEntry
  <2> QED BY <2>2, <2>4, <2>5
<1>5. CASE job[j].status # "FREE"
  <2>1. maxAttempts(job'[j].type) = max
    BY <1>5, JobFields
  <2>2. ASSUME entry'[j] = E PROVE Counted(entry'[j], job'[j].attempts, max)
    <3>1. ASSUME NEW w \in Worker, Take(w, j) PROVE FALSE
      <4>1. E.state = "waiting" /\ entry'[j] = [E EXCEPT !.state = "active"]
        BY <1>0, <3>1 DEF Take
      <4>2. entry'[j].state = "active"
        BY <1>0, <4>1 DEF Entry
      <4> QED BY <2>2, <4>1, <4>2
    <3>2. job'[j].attempts = n
      BY <1>3, <3>1
    <3> QED BY <1>2, <2>2, <3>2
  <2>3. ASSUME Promote(j) PROVE Counted(entry'[j], job'[j].attempts, max)
    <3>1. /\ entry'[j] = [E EXCEPT !.state = "waiting"] /\ E.state = "delayed"
          /\ job'[j].attempts = n
      BY <1>0, <2>3 DEF Promote
    <3>2. entry'[j].state = "waiting" /\ entry'[j].made = E.made /\ entry'[j].stalls = E.stalls
      BY <1>0, <3>1 DEF Entry
    <3> QED BY <1>1, <1>2, <3>1, <3>2
  <2>4. ASSUME Stall(j) PROVE Counted(entry'[j], job'[j].attempts, max)
    <3>1. /\ entry'[j] = [E EXCEPT !.state = IF E.stalls = 0 THEN "waiting" ELSE "failed",
                                   !.stalls = E.stalls + 1]
          /\ E.state = "active" /\ job'[j].attempts = n
      BY <1>0, <2>4 DEF Stall
    <3>2. /\ entry'[j].state = IF E.stalls = 0 THEN "waiting" ELSE "failed"
          /\ entry'[j].made = E.made /\ entry'[j].stalls = E.stalls + 1
      BY <1>0, <3>1 DEF Entry
    <3> QED BY <1>1, <1>2, <3>1, <3>2
  <2>5. ASSUME NEW w \in Worker, Take(w, j)
        PROVE  Counted(entry'[j], job'[j].attempts, max)
    <3>1. /\ entry'[j] = [E EXCEPT !.state = "active"] /\ E.state = "waiting"
          /\ job'[j].attempts = n + 1
      BY <1>0, <2>5 DEF Take, JobRow
    <3>2. entry'[j].state = "active" /\ entry'[j].made = E.made /\ entry'[j].stalls = E.stalls
      BY <1>0, <3>1 DEF Entry
    <3> QED BY <1>1, <1>2, <3>1, <3>2
  <2>6. ASSUME entry'[j] = AfterFailure(E, job[j].type), job'[j].attempts = n,
               E.state \in {"waiting", "active"}
        PROVE  Counted(entry'[j], job'[j].attempts, max)
    <3>1. /\ entry'[j].state = IF E.made + 1 < max THEN "delayed" ELSE "failed"
          /\ entry'[j].made = E.made + 1 /\ entry'[j].stalls = E.stalls
      BY <1>0, <2>6 DEF AfterFailure, QueueAttempts, Entry
    <3> QED BY <1>1, <1>2, <2>6, <3>1
  <2>7. ASSUME NEW w \in Worker, Miss(w, j)
        PROVE  Counted(entry'[j], job'[j].attempts, max)
    BY <1>0, <2>6, <2>7 DEF Miss
  <2>8. ASSUME NEW w \in Worker, Holds(w, j), Ack(w)
        PROVE  Counted(entry'[j], job'[j].attempts, max)
    <3>1. E.state = "active"
      BY <2>8 DEF Holds, IInv, SlotsFormed, Busy
    <3>2. entry'[j] = [E EXCEPT !.state = "completed"] /\ job'[j].attempts = n
      BY <1>0, <2>8 DEF Ack, Holds
    <3>3. entry'[j].state = "completed" /\ entry'[j].made = E.made /\ entry'[j].stalls = E.stalls
      BY <1>0, <3>2 DEF Entry
    <3> QED BY <1>1, <1>2, <3>1, <3>2, <3>3
  <2>9. ASSUME NEW w \in Worker, Holds(w, j), Nack(w)
        PROVE  Counted(entry'[j], job'[j].attempts, max)
    <3>1. E.state = "active"
      BY <2>9 DEF Holds, IInv, SlotsFormed, Busy
    <3>2. entry'[j] = AfterFailure(E, job[j].type) /\ job'[j].attempts = n
      BY <1>0, <2>9 DEF Nack, Holds
    <3> QED BY <2>6, <3>1, <3>2
  <2>10. Counted(entry'[j], job'[j].attempts, max)
    <3> HIDE DEF Counted, max, n, E
    <3>1. entry'[j] = entry[j] => Counted(entry'[j], job'[j].attempts, max)
      BY <2>2 DEF E
    <3> QED BY <1>5, <2>3, <2>4, <2>5, <2>7, <2>8, <2>9, <3>1, EntrySteps
  <2> QED BY <2>1, <2>10
<1> QED BY <1>4, <1>5

-----------------------------------------------------------------------------
(* The theorems. *)

\* The empty system satisfies the inductive invariant.
LEMMA IInit == Init => IInv
<1> SUFFICES ASSUME Init PROVE IInv
  OBVIOUS
<1>1. \A j \in Job : job[j] = FreeJob /\ entry[j] = NoEntry
  BY DEF Init
<1>2. JobsFormed
  BY <1>1 DEF JobsFormed, FreeJob
<1>3. SlotsFormed
  BY DEF Init, SlotsFormed, Busy, IdleSlot
<1>4. ReadsFormed /\ TransactionsFormed
  BY DEF Init, ReadsFormed, TransactionsFormed, IdleHandler
<1>5. PassesFormed
  BY DEF Init, PassesFormed, NoPass, Pass
<1>6. DeliveriesCounted
  BY <1>1, ConstantsAssumption
     DEF DeliveriesCounted, FreeJob, NoEntry, maxAttempts, ConstantsAssumption
<1>7. PlacementFirst
  BY DEF Init, PlacementFirst, AbsentRow, NoBox
<1> QED BY <1>2, <1>3, <1>4, <1>5, <1>6, <1>7, TypeInit DEF IInv

\* A step that changes nothing keeps the invariant.
LEMMA IStutter == IInv /\ UNCHANGED vars => IInv'
<1> SUFFICES ASSUME IInv, UNCHANGED vars PROVE IInv'
  OBVIOUS
<1>1. /\ row' = row /\ job' = job /\ entry' = entry /\ worker' = worker /\ pass' = pass
      /\ request' = request /\ box' = box /\ host' = host /\ faults' = faults
      /\ crashes' = crashes
  BY DEF vars
<1>2. TypeOK' /\ PlacementFirst' /\ DeliveriesCounted' /\ PassesFormed' /\ JobsFormed'
  BY <1>1 DEF IInv, TypeOK, PlacementFirst, DeliveriesCounted, PassesFormed, JobsFormed, Job, Pass
<1>3. SlotsFormed'
  BY <1>1 DEF IInv, SlotsFormed, Busy, Visible, Of
<1>4. ReadsFormed' /\ TransactionsFormed'
  BY <1>1 DEF IInv, ReadsFormed, TransactionsFormed, Unmoved
<1> QED BY <1>2, <1>3, <1>4 DEF IInv

\* IInv is inductive.
LEMMA IStep == IInv /\ [Next]_vars => IInv'
<1>1. IInv /\ Next => IInv'
  BY TypeStep, JobsFormedStep, SlotsFormedStep, ReadsFormedStep, TransactionsFormedStep,
     PassesFormedStep, DeliveriesCountedStep, PlacementStep DEF IInv
<1> QED BY <1>1, IStutter

\* The inductive invariant holds in every reachable state, whatever the
\* constants.
LEMMA Invariant == Spec => []IInv
<1>1. Init => IInv
  BY IInit
<1>2. IInv /\ [Next]_vars => IInv'
  BY IStep
<1> QED BY <1>1, <1>2, PTL DEF Spec

\* The state keeps its shape, whatever fails: in particular every status a
\* handler, a retry or a pass writes is one of the program's.
THEOREM TypeCorrect == Spec => []TypeOK
<1>1. IInv => TypeOK
  BY DEF IInv
<1> QED BY <1>1, Invariant, PTL

\* No container is ever made, and no instance id recorded, for a computer that
\* has no host on record: worker.ts may skip the provider when it deletes one.
THEOREM Placement == Spec => []PlacementFirst
<1>1. IInv => PlacementFirst
  BY DEF IInv
<1> QED BY <1>1, Invariant, PTL

\* The queue delivers a job as often as its row allows, and once more if the
\* worker died: however the deliveries interleave with backoff, stalls and
\* attempts that failed before they reached the row.
THEOREM Attempts == Spec => []AttemptsBounded
<1>1. IInv => AttemptsBounded
  <2> SUFFICES ASSUME IInv, NEW j \in Job
               PROVE  /\ entry[j].stalls <= 2
                      /\ job[j].attempts <= maxAttempts(job[j].type) + entry[j].stalls
    BY DEF AttemptsBounded
  <2> DEFINE max == maxAttempts(job[j].type)
  <2>1. /\ entry[j].made \in Nat /\ entry[j].stalls \in Nat /\ job[j].attempts \in Nat
        /\ max \in {1, 3}
    BY DEF IInv, TypeOK, Entry, JobRow, maxAttempts
  <2>2. /\ job[j].attempts <= entry[j].made + entry[j].stalls +
               (IF entry[j].state \in {"active", "completed"} THEN 1 ELSE 0)
        /\ entry[j].made + (IF entry[j].state = "failed" THEN 0 ELSE 1) <= max
        /\ entry[j].stalls <= (IF entry[j].state = "failed" THEN 2 ELSE 1)
    BY DEF IInv, DeliveriesCounted
  <2> HIDE DEF max
  <2>3. entry[j].stalls <= 2 /\ job[j].attempts <= max + entry[j].stalls
    BY <2>1, <2>2
  <2> QED BY <2>3 DEF max
<1> QED BY <1>1, Invariant, PTL

\* A request is accepted in one step, from a status the table allows, that the
\* row still has, and never for a deleted computer: whatever other handlers, the
\* worker and the passes have done since the row was read.
THEOREM Acceptance == Spec => AcceptedAtomically
<1> DEFINE Accepted ==
        \A j \in Job :
          job[j].status = "OPEN" /\ job'[j].status = "QUEUED" =>
              \E a \in LifecycleAction :
                  /\ job[j].type = jobType[a]
                  /\ row[job[j].computer].status \in From[a]
                  /\ ~row[job[j].computer].deleted
                  /\ row'[job[j].computer].status = To[a]
                  /\ row'[job[j].computer].version = row[job[j].computer].version + 1
<1>1. ASSUME IInv, Next PROVE Accepted
  <2> SUFFICES ASSUME NEW j \in Job, job[j].status = "OPEN", job'[j].status = "QUEUED"
               PROVE  \E a \in LifecycleAction :
                          /\ job[j].type = jobType[a]
                          /\ row[job[j].computer].status \in From[a]
                          /\ ~row[job[j].computer].deleted
                          /\ row'[job[j].computer].status = To[a]
                          /\ row'[job[j].computer].version = row[job[j].computer].version + 1
    OBVIOUS
  <2>0. /\ row \in [Computer -> Row] /\ job \in [Job -> JobRow]
    BY <1>1 DEF IInv, TypeOK
  <2>1. Closed(j)
    BY <1>1, JobKept DEF JobStep, Inserted, Take, Visible
  <2>2. PICK r \in Request : request[r].job = j /\ (Commit(r) \/ Abort(r))
    BY <2>1 DEF Closed
  <2>3. Commit(r)
    <3>1. Abort(r) => job'[j].status = "ABORTED"
      BY <2>0, <2>2 DEF Abort, JobRow
    <3> QED BY <2>2, <3>1
  <2> DEFINE c == request[r].computer
             a == request[r].action
  <2>4. /\ job[j].computer = c /\ job[j].type = jobType[a] /\ Unmoved(r)
        /\ a \in LifecycleAction /\ request[r].status \in From[a] /\ c \in Computer
        /\ request[r].version = row[c].version => ~row[c].deleted
    BY <1>1, <2>2, <2>3 DEF Commit, IInv, TransactionsFormed, ReadsFormed
  <2>5. row[c].status \in From[a] /\ ~row[c].deleted
    BY <2>4 DEF Unmoved
  <2>6. row'[c] = Updated(row[c], To[a])
    BY <2>0, <2>3, <2>4 DEF Commit, Moved
  <2>7. row'[c].status = To[a] /\ row'[c].version = row[c].version + 1
    BY <2>0, <2>4, <2>6, UpdatedFields
  <2> QED BY <2>4, <2>5, <2>7
<1>2. ASSUME UNCHANGED vars PROVE Accepted
  BY <1>2 DEF vars
<1>3. IInv /\ [Next]_vars => [Accepted]_vars
  BY <1>1, <1>2
<1>4. AcceptedAtomically <=> [][Accepted]_vars
  BY DEF AcceptedAtomically
<1> HIDE DEF Accepted
<1> QED BY <1>3, <1>4, Invariant, PTL DEF Spec
=============================================================================
