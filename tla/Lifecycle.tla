----------------------------- MODULE Lifecycle -----------------------------
(***************************************************************************)
(* The lifecycle of AI Computers on Docker hosts: the API handlers that    *)
(* accept a request (services/computers.ts, services/jobs.ts), the BullMQ  *)
(* queue between them and the worker, the worker's job handler (worker.ts) *)
(* and the reconciliation pass (services/reconciliation.ts), over the      *)
(* PostgreSQL rows, the Redis queue and the Docker containers they share.  *)
(*                                                                         *)
(* Every step is what runs between two awaits on PostgreSQL, Redis or      *)
(* Docker, so the handlers interleave as they do in the program. A row     *)
(* that an open transaction has updated is locked until it ends.           *)
(***************************************************************************)
EXTENDS Integers, FiniteSets, ComputerStates, DockerContainer

CONSTANTS
    Computer,         \* computer ids
    Host,             \* compute hosts, all of the same capacity
    Worker,           \* concurrent slots of the infrastructure worker
    Request,          \* concurrent API handlers
    Key,              \* idempotency keys clients send
    None,             \* no host, no key, no computer
    Actions,          \* the lifecycle actions clients request
    TimerOn,          \* whether the periodic reconciliation runs
    Capacity,         \* computers a host can hold, of CPU and memory as of storage
    ComputerLimit,    \* plan.computerLimit
    RunningLimit,     \* plan.runningComputerLimit
    MaxJobs,          \* bound: job rows
    MaxFaults,        \* bound: failures of a call or of a container
    MaxCrashes        \* bound: crashes of the worker process

ASSUME ConstantsAssumption ==
    /\ IsFiniteSet(Computer)
    /\ None \notin Computer \cup Host \cup Key \cup JobType \cup ComputerStatus
    /\ None \notin Host \X Nat
    /\ Actions \subseteq LifecycleAction
    /\ TimerOn \in BOOLEAN
    /\ {Capacity, ComputerLimit, RunningLimit, MaxJobs, MaxFaults, MaxCrashes}
           \subseteq Nat

ASSUME TimerAssumption == "timer" \notin Worker

VARIABLES
    row,       \* the Computer rows
    job,       \* the ProvisioningJob rows
    entry,     \* the BullMQ entries, one per job id
    worker,    \* the slots of the worker and what each handler has in hand
    pass,      \* the reconciliation passes in progress
    request,   \* the API handlers in progress
    box,       \* the Docker containers
    host,      \* the ComputeHost rows
    faults,    \* failures so far
    crashes    \* crashes so far

vars == <<row, job, entry, worker, pass, request, box, host, faults, crashes>>

Job == 1..MaxJobs
Timer == "timer"
Pass == Worker \cup {Timer}

-----------------------------------------------------------------------------
(* State. *)

\* A provider instance id: the daemon that made the container, and which one.
Instance == (Host \X Nat) \cup {None}

\* A row nobody has inserted yet is "ABSENT".
Row == [status : ComputerStatus \cup {"ABSENT"}, version : Nat,
        hostId : Host \cup {None}, instance : Instance, deleted : BOOLEAN]

\* FREE: id not used; OPEN: inserted by a transaction still open; ABORTED:
\* that transaction was rolled back. The others are enum JobStatus.
JobStatus == {"FREE", "OPEN", "ABORTED", "QUEUED", "RUNNING", "RETRYING",
              "SUCCEEDED", "FAILED"}

JobRow == [computer : Computer \cup {None}, type : JobType \cup {None},
           key : Key \cup {None}, status : JobStatus, attempts : Nat]

\* made: attempts that have failed (attemptsMade); stalls: times the entry was
\* found active with nobody working on it.
Entry == [state : {"none", "waiting", "active", "delayed", "completed", "failed"},
          made : Nat, stalls : Nat]

\* Where a handler of the worker is: each value but "idle" is the call it is
\* about to make.
SlotPc == {"idle", "schedule", "reserve", "release", "create", "record", "start",
           "operate", "finish", "succeed", "settle", "ack", "report", "mark", "nack"}

\* host and instance are read from the row when the job is taken and used for
\* the rest of the handler. status is what the handler is about to write.
Slot == [pc : SlotPc, job : Nat, type : JobType \cup {None}, host : Host \cup {None},
         instance : Instance, status : ComputerStatus \cup {None}]

\* A computer as a pass has read it.
Listing == [status : ComputerStatus \cup {None}, hostId : Host \cup {None},
            instance : Instance]

\* rows and seen are what the pass has read of the computers and of the hosts.
PassState == [pc : {"off", "inspect", "write", "tally", "correct"},
              todo : SUBSET Computer,
              rows : [Computer -> Listing],
              at : Computer \cup {None}, status : ComputerStatus \cup {None},
              hosts : SUBSET Host, seen : [Host -> [compute : Int, storage : Int]],
              on : Host \cup {None}, tally : [compute : Int, storage : Int]]

Handler == [pc : {"idle", "read", "open", "checked", "created"},
            action : LifecycleAction \cup {None}, computer : Computer \cup {None},
            status : ComputerStatus \cup {"ABSENT", None}, version : Nat,
            key : Key \cup {None}, job : Nat]

HostRow == [compute : Int, storage : Int, healthy : BOOLEAN]

NoLoad == [compute |-> 0, storage |-> 0]
AbsentRow == [status |-> "ABSENT", version |-> 0, hostId |-> None,
              instance |-> None, deleted |-> FALSE]
FreeJob == [computer |-> None, type |-> None, key |-> None, status |-> "FREE",
            attempts |-> 0]
NoEntry == [state |-> "none", made |-> 0, stalls |-> 0]
IdleSlot == [pc |-> "idle", job |-> 0, type |-> None, host |-> None,
             instance |-> None, status |-> None]
NoListing == [status |-> None, hostId |-> None, instance |-> None]
NoPass == [pc |-> "off", todo |-> {},
           rows |-> [c \in Computer |-> NoListing],
           at |-> None, status |-> None, hosts |-> {},
           seen |-> [h \in Host |-> NoLoad], on |-> None, tally |-> NoLoad]
IdleHandler == [pc |-> "idle", action |-> None, computer |-> None,
                status |-> None, version |-> 0, key |-> None, job |-> 0]

Init ==
    /\ row = [c \in Computer |-> AbsentRow]
    /\ job = [j \in Job |-> FreeJob]
    /\ entry = [j \in Job |-> NoEntry]
    /\ worker = [w \in Worker |-> IdleSlot]
    /\ pass = [p \in Pass |-> NoPass]
    /\ request = [r \in Request |-> IdleHandler]
    /\ box = [h \in Host |-> [c \in Computer |-> NoBox]]
    /\ host = [h \in Host |-> [compute |-> 0, storage |-> 0, healthy |-> TRUE]]
    /\ faults = 0
    /\ crashes = 0

-----------------------------------------------------------------------------
(* Shared by the handlers. *)

\* Bound: a call fails.
Fault == faults < MaxFaults /\ faults' = faults + 1

Live == {c \in Computer : row[c].status # "ABSENT" /\ ~row[c].deleted}

\* No open transaction has updated the row: another update of it would wait.
Unlocked(c) == \A r \in Request : request[r].pc = "open" => request[r].computer # c

\* A job row other transactions can read.
Visible(j) == job[j].status \notin {"FREE", "OPEN", "ABORTED"}

FreeJobs == {j \in Job : job[j].status = "FREE"}
NewJob == CHOOSE j \in FreeJobs : TRUE

\* The job row enqueueInfrastructureJob finds for a repeated idempotency key.
Prior(k) == {j \in Job : k # None /\ job[j].key = k /\ Visible(j)}

\* A row given a status, by any update that counts as a version of it.
Updated(old, status) == [old EXCEPT !.status = status, !.version = @ + 1]

\* A host's allocation when n computers more, or less, are charged to it.
Charged(load, n) == [load EXCEPT !.compute = @ + n, !.storage = @ + n]

\* Mutant of QueueAttempts: the queue's attempts are not those of the job row.
QueueAttemptsFixed(type) == 3

\* Mutant of QueueAttempts: the queue is not told to try again.
QueueAttemptsOnce(type) == 1

\* The attempts BullMQ is told to make.
QueueAttempts(type) == maxAttempts(type)

NewRow(c, type, k, status) ==
    [computer |-> c, type |-> type, key |-> k, status |-> status, attempts |-> 0]

-----------------------------------------------------------------------------
(* POST /computers and POST /computers/:id/<action>. *)

\* enforceCreateQuota, for a computer whose id is yet to be given to a row.
CheckQuota(r, c, k) ==
    /\ request[r].pc = "idle"
    /\ FreeJobs # {}
    /\ row[c].status = "ABSENT"
    /\ \A s \in Request : request[s].computer # c
    /\ Cardinality(Live) < ComputerLimit
    /\ Cardinality({d \in Live : row[d].status \in
           runningStatuses \cup {"PROVISIONING", "CREATING"}}) < RunningLimit
    /\ request' = [request EXCEPT ![r] =
           [IdleHandler EXCEPT !.pc = "checked", !.computer = c, !.key = k]]
    /\ UNCHANGED <<row, job, entry, worker, pass, box, host, faults, crashes>>

\* The row is inserted, under an id no row has; its job follows, outside any
\* transaction.
CreateRow(r) ==
    /\ request[r].pc = "checked"
    /\ row[request[r].computer].status = "ABSENT"
    /\ row' = [row EXCEPT ![request[r].computer].status = "CREATING"]
    /\ request' = [request EXCEPT ![r].pc = "created"]
    /\ UNCHANGED <<job, entry, worker, pass, box, host, faults, crashes>>

\* enqueueInfrastructureJob for the new computer. A key seen before answers
\* with the earlier job, and the computer gets none.
EnqueueCreated(r) ==
    /\ request[r].pc = "created"
    /\ IF Prior(request[r].key) # {}
       THEN UNCHANGED <<job, entry>>
       ELSE /\ FreeJobs # {}
            /\ job' = [job EXCEPT ![NewJob] =
                   NewRow(request[r].computer, "PROVISION", request[r].key, "QUEUED")]
            /\ entry' = [entry EXCEPT ![NewJob].state = "waiting"]
    /\ request' = [request EXCEPT ![r] = IdleHandler]
    /\ UNCHANGED <<row, worker, pass, box, host, faults, crashes>>

\* The handler dies before the job row, or between it and queue.add, or
\* queue.add fails and the job row is marked.
EnqueueLost(r) ==
    /\ request[r].pc = "created"
    /\ Fault
    /\ \/ UNCHANGED job
       \/ /\ FreeJobs # {} /\ Prior(request[r].key) = {}
          /\ \E status \in {"QUEUED", "FAILED"} :
                job' = [job EXCEPT ![NewJob] =
                    NewRow(request[r].computer, "PROVISION", request[r].key, status)]
    /\ request' = [request EXCEPT ![r] = IdleHandler]
    /\ UNCHANGED <<row, entry, worker, pass, box, host, crashes>>

\* requestLifecycle: the row is read and the transition looked up.
ReadRow(r, c, a, k) ==
    /\ request[r].pc = "idle"
    /\ FreeJobs # {}
    /\ c \in Live
    /\ a \in {"start", "resume"} =>
           Cardinality({d \in Live : row[d].status \in runningStatuses}) < RunningLimit
    /\ row[c].status \in From[a]
    /\ request' = [request EXCEPT ![r] =
           [pc |-> "read", action |-> a, computer |-> c, status |-> row[c].status,
            version |-> row[c].version, key |-> k, job |-> 0]]
    /\ UNCHANGED <<row, job, entry, worker, pass, box, host, faults, crashes>>

\* Mutant of Unmoved: the update is by id alone.
UnmovedById(r) == row[request[r].computer].status # "ABSENT"

\* The compare of the compare-and-update.
Unmoved(r) ==
    LET c == request[r].computer IN
    /\ row[c].status = request[r].status
    /\ row[c].version = request[r].version

\* The update of it, as the transaction will commit it.
Moved(r) == Updated(row[request[r].computer], To[request[r].action])

\* updateMany matches, the job row is inserted and its id is in the queue,
\* all before the transaction commits.
Submit(r) ==
    /\ request[r].pc = "read"
    /\ Unlocked(request[r].computer)
    /\ Unmoved(r)
    /\ Prior(request[r].key) = {}
    /\ \A j \in Job : job[j].status = "OPEN" =>
           job[j].key = None \/ job[j].key # request[r].key
    /\ FreeJobs # {}
    /\ job' = [job EXCEPT ![NewJob] =
           NewRow(request[r].computer, jobType[request[r].action], request[r].key, "OPEN")]
    /\ entry' = [entry EXCEPT ![NewJob].state = "waiting"]
    /\ request' = [request EXCEPT ![r].pc = "open", ![r].job = NewJob]
    /\ UNCHANGED <<row, worker, pass, box, host, faults, crashes>>

Commit(r) ==
    /\ request[r].pc = "open"
    /\ row' = [row EXCEPT ![request[r].computer] = Moved(r)]
    /\ job' = [job EXCEPT ![request[r].job].status = "QUEUED"]
    /\ request' = [request EXCEPT ![r] = IdleHandler]
    /\ UNCHANGED <<entry, worker, pass, box, host, faults, crashes>>

\* The transaction times out, or the API dies before it commits: the rows are
\* rolled back and the queue entry stays.
Abort(r) ==
    /\ request[r].pc = "open"
    /\ Fault
    /\ job' = [job EXCEPT ![request[r].job].status = "ABORTED"]
    /\ request' = [request EXCEPT ![r] = IdleHandler]
    /\ UNCHANGED <<row, entry, worker, pass, box, host, crashes>>

\* A key seen before: the row moves, the earlier job is the answer.
Replay(r) ==
    /\ request[r].pc = "read"
    /\ Unlocked(request[r].computer)
    /\ Unmoved(r)
    /\ Prior(request[r].key) # {}
    /\ row' = [row EXCEPT ![request[r].computer] = Moved(r)]
    /\ request' = [request EXCEPT ![r] = IdleHandler]
    /\ UNCHANGED <<job, entry, worker, pass, box, host, faults, crashes>>

\* CONCURRENT_OPERATION, or the queue refuses the entry and all is rolled back.
Reject(r) ==
    /\ request[r].pc = "read"
    /\ Unlocked(request[r].computer)
    /\ \/ ~Unmoved(r) /\ UNCHANGED faults
       \/ Fault
    /\ request' = [request EXCEPT ![r] = IdleHandler]
    /\ UNCHANGED <<row, job, entry, worker, pass, box, host, crashes>>

ApiStep(r) ==
    \/ \E c \in Computer, k \in Key \cup {None} : CheckQuota(r, c, k)
    \/ CreateRow(r) \/ EnqueueCreated(r) \/ EnqueueLost(r)
    \/ \E c \in Computer, a \in Actions, k \in Key \cup {None} : ReadRow(r, c, a, k)
    \/ Submit(r) \/ Commit(r) \/ Abort(r) \/ Replay(r) \/ Reject(r)

-----------------------------------------------------------------------------
(* BullMQ: delivery, backoff, and the check for stalled entries. *)

\* What a failed attempt makes of an entry.
AfterFailure(e, type) ==
    [e EXCEPT !.state = IF e.made + 1 < QueueAttempts(type) THEN "delayed" ELSE "failed",
              !.made = @ + 1]

Promote(j) ==
    /\ entry[j].state = "delayed"
    /\ entry' = [entry EXCEPT ![j].state = "waiting"]
    /\ UNCHANGED <<row, job, worker, pass, request, box, host, faults, crashes>>

Holds(w, j) == worker[w].pc # "idle" /\ worker[w].job = j

\* An entry whose worker died goes back to the queue once, then fails.
Stall(j) ==
    /\ entry[j].state = "active"
    /\ \A w \in Worker : ~Holds(w, j)
    /\ entry' = [entry EXCEPT ![j].state = IF entry[j].stalls = 0
                                           THEN "waiting" ELSE "failed",
                              ![j].stalls = @ + 1]
    /\ UNCHANGED <<row, job, worker, pass, request, box, host, faults, crashes>>

-----------------------------------------------------------------------------
(* processJob. *)

Of(w) == job[worker[w].job].computer

\* A START of a computer that has no instance is carried out as a PROVISION.
effectiveType(type, instance) ==
    IF type = "START" /\ instance = None THEN "PROVISION" ELSE type

\* Where the handler goes first, by what it read of the row.
FirstStep(type, hostId, instance) ==
    IF type = "PROVISION"
    THEN IF hostId = None THEN "schedule" ELSE "create"
    ELSE IF None \notin {hostId, instance} THEN "operate"
    ELSE IF type = "DELETE" THEN "release" ELSE "report"

Go(w, pc) == worker' = [worker EXCEPT ![w].pc = pc]

\* The job row is marked RUNNING and the computer read with it. The status is
\* what "report" would go on to write: no host, or no instance.
Take(w, j) ==
    LET c == job[j].computer
        type == effectiveType(job[j].type, row[c].instance) IN
    /\ worker[w].pc = "idle"
    /\ entry[j].state = "waiting"
    /\ Visible(j)
    /\ entry' = [entry EXCEPT ![j].state = "active"]
    /\ job' = [job EXCEPT ![j].status = "RUNNING", ![j].attempts = @ + 1]
    /\ worker' = [worker EXCEPT ![w] =
           [pc |-> FirstStep(type, row[c].hostId, row[c].instance),
            job |-> j, type |-> type, host |-> row[c].hostId, instance |-> row[c].instance,
            status |-> IF row[c].hostId = None THEN "PROVIDER_UNAVAILABLE" ELSE "ERROR"]]
    /\ UNCHANGED <<row, pass, request, box, host, faults, crashes>>

\* There is no such job row, or the update of it fails: outside the try, so
\* neither row is touched and BullMQ counts a failed attempt. The transaction
\* that inserts the row ends within its 5 s limit, before a third delivery.
Miss(w, j) ==
    /\ worker[w].pc = "idle"
    /\ entry[j].state = "waiting"
    /\ IF Visible(j) THEN Fault ELSE UNCHANGED faults
    /\ job[j].status = "OPEN" => entry[j].made < 2
    /\ entry' = [entry EXCEPT ![j] = AfterFailure(@, job[j].type)]
    /\ UNCHANGED <<row, job, worker, pass, request, box, host, crashes>>

Fits(h) ==
    /\ host[h].healthy
    /\ host[h].compute < Capacity
    /\ host[h].storage < Capacity

\* scheduleHost reads the hosts and picks the least allocated that fits.
Schedule(w) ==
    /\ worker[w].pc = "schedule"
    /\ IF \E h \in Host : Fits(h)
       THEN \E h \in Host :
               /\ Fits(h)
               /\ \A g \in Host : Fits(g) => host[h].compute <= host[g].compute
               /\ worker' = [worker EXCEPT ![w].pc = "reserve", ![w].host = h]
       ELSE worker' = [worker EXCEPT ![w].pc = "report", ![w].status = "ERROR"]
    /\ UNCHANGED <<row, job, entry, pass, request, box, host, faults, crashes>>

\* Mutant of PlacedRow: the placement does not record the host.
PlacedRowNoHost(r, h) == [r EXCEPT !.status = "PROVISIONING"]

PlacedRow(r, h) == [r EXCEPT !.hostId = h, !.status = "PROVISIONING"]

\* The reservation, which reads the row again but not the host's free capacity.
Reserve(w) ==
    /\ worker[w].pc = "reserve"
    /\ Unlocked(Of(w))
    /\ host' = [host EXCEPT ![worker[w].host] = Charged(@, 1)]
    /\ row' = [row EXCEPT ![Of(w)] = PlacedRow(@, worker[w].host)]
    /\ worker' = [worker EXCEPT ![w].pc = "create", ![w].instance = row[Of(w)].instance]
    /\ UNCHANGED <<job, entry, pass, request, box, faults, crashes>>

Released(h) == [host EXCEPT ![h] = Charged(@, -1)]

\* A DELETE that has nothing to remove at the provider.
Release(w) ==
    /\ worker[w].pc = "release"
    /\ Unlocked(Of(w))
    /\ row' = [row EXCEPT ![Of(w)] = [Updated(@, "DELETED") EXCEPT !.deleted = TRUE]]
    /\ host' = IF worker[w].host = None THEN host ELSE Released(worker[w].host)
    /\ Go(w, "succeed")
    /\ UNCHANGED <<job, entry, pass, request, box, faults, crashes>>

Create(w) ==
    LET h == worker[w].host
        made == Created(box[h][Of(w)]) IN
    /\ worker[w].pc = "create"
    /\ box' = [box EXCEPT ![h][Of(w)] = made]
    /\ worker' = [worker EXCEPT ![w].pc = "record", ![w].instance = <<h, made.made>>,
                                ![w].status = mapDockerState(made.state)]
    /\ UNCHANGED <<row, job, entry, pass, request, host, faults, crashes>>

Record(w) ==
    /\ worker[w].pc = "record"
    /\ Unlocked(Of(w))
    /\ row' = [row EXCEPT ![Of(w)].instance = worker[w].instance,
                          ![Of(w)].status = worker[w].status]
    /\ Go(w, "start")
    /\ UNCHANGED <<job, entry, pass, request, box, host, faults, crashes>>

\* Which of h's containers an instance id names: 0 is none of them.
Nth(h, instance) == IF instance # None /\ instance[1] = h THEN instance[2] ELSE 0

\* The provider call of the job: the start that ends a PROVISION, or the
\* operation the job is named for.
Operation(w) == IF worker[w].pc = "start" THEN "START" ELSE worker[w].type

Operate(w) ==
    LET h == worker[w].host  c == Of(w) IN
    /\ worker[w].pc \in {"start", "operate"}
    /\ IF Performs(Operation(w), box[h][c], Nth(h, worker[w].instance))
       THEN /\ box' = [box EXCEPT ![h][c] = Performed(Operation(w), @)]
            /\ Go(w, "finish")
       ELSE /\ worker' = [worker EXCEPT ![w].pc = "report", ![w].status = "ERROR"]
            /\ UNCHANGED box
    /\ UNCHANGED <<row, job, entry, pass, request, host, faults, crashes>>

\* The status is written whatever the row has become meanwhile.
Finish(w) ==
    LET target == finalStatus[worker[w].type] IN
    /\ worker[w].pc = "finish"
    /\ Unlocked(Of(w))
    /\ row' = [row EXCEPT ![Of(w)] =
           [Updated(@, target) EXCEPT
               !.deleted = row[Of(w)].deleted \/ target = "DELETED"]]
    /\ host' = IF target = "DELETED" THEN Released(worker[w].host) ELSE host
    /\ Go(w, "succeed")
    /\ UNCHANGED <<job, entry, pass, request, box, faults, crashes>>

\* A stop, a deletion and a provision are followed by a reconciliation pass.
Succeed(w) ==
    /\ worker[w].pc = "succeed"
    /\ job' = [job EXCEPT ![worker[w].job].status = "SUCCEEDED"]
    /\ Go(w, IF worker[w].type \in {"STOP", "DELETE", "PROVISION"} THEN "settle" ELSE "ack")
    /\ UNCHANGED <<row, entry, pass, request, box, host, faults, crashes>>

Ack(w) ==
    /\ worker[w].pc = "ack"
    /\ entry' = [entry EXCEPT ![worker[w].job].state = "completed"]
    /\ worker' = [worker EXCEPT ![w] = IdleSlot]
    /\ UNCHANGED <<row, job, pass, request, box, host, faults, crashes>>

\* The containers a provider call that throws may leave.
PartlyDone(w) ==
    LET b == box[worker[w].host][Of(w)] IN
    IF worker[w].pc = "create" THEN HalfCreated(b)
    ELSE Interrupted(Operation(w), b, Nth(worker[w].host, worker[w].instance))

\* A call inside the try throws: a provider call may have taken effect in part,
\* and a pass the handler was making ends.
Fail(w) ==
    /\ worker[w].pc \in {"schedule", "reserve", "release", "create", "record", "start",
                         "operate", "finish", "succeed", "settle"}
    /\ Fault
    /\ \E status \in {"ERROR", "PROVIDER_UNAVAILABLE"} :
          worker' = [worker EXCEPT ![w].pc = "report", ![w].status = status]
    /\ IF worker[w].pc \in {"create", "start", "operate"}
       THEN \E b \in PartlyDone(w) : box' = [box EXCEPT ![worker[w].host][Of(w)] = b]
       ELSE UNCHANGED box
    /\ pass' = [pass EXCEPT ![w] = NoPass]
    /\ UNCHANGED <<row, job, entry, request, host, crashes>>

\* Mutant of WillRetry: attemptsMade taken to count the attempt in progress.
WillRetryLate(j) == entry[j].made < maxAttempts(job[j].type)

WillRetry(j) == entry[j].made + 1 < maxAttempts(job[j].type)

\* The catch block: the job row says whether BullMQ will try again, ...
Report(w) ==
    LET j == worker[w].job IN
    /\ worker[w].pc = "report"
    /\ job' = [job EXCEPT ![j].status = IF WillRetry(j) THEN "RETRYING" ELSE "FAILED"]
    /\ Go(w, "mark")
    /\ UNCHANGED <<row, entry, pass, request, box, host, faults, crashes>>

\* ... and the computer, whatever it has become, is marked.
Mark(w) ==
    /\ worker[w].pc = "mark"
    /\ Unlocked(Of(w))
    /\ row' = [row EXCEPT ![Of(w)] = Updated(@, worker[w].status)]
    /\ Go(w, "nack")
    /\ UNCHANGED <<job, entry, pass, request, box, host, faults, crashes>>

\* The catch block itself throws: where calls may fail, this failure is not
\* counted, since an entry has few attempts.
FailTwice(w) ==
    /\ worker[w].pc \in {"report", "mark"}
    /\ MaxFaults > 0
    /\ Go(w, "nack")
    /\ UNCHANGED <<row, job, entry, pass, request, box, host, faults, crashes>>

Nack(w) ==
    LET j == worker[w].job IN
    /\ worker[w].pc = "nack"
    /\ entry' = [entry EXCEPT ![j] = AfterFailure(@, job[j].type)]
    /\ worker' = [worker EXCEPT ![w] = IdleSlot]
    /\ UNCHANGED <<row, job, pass, request, box, host, faults, crashes>>

WorkerStep(w) ==
    \/ \E j \in Job : Take(w, j) \/ Miss(w, j)
    \/ Schedule(w) \/ Reserve(w) \/ Release(w) \/ Create(w) \/ Record(w)
    \/ Operate(w) \/ Finish(w) \/ Succeed(w) \/ Ack(w)
    \/ Fail(w) \/ Report(w) \/ Mark(w) \/ FailTwice(w) \/ Nack(w)

-----------------------------------------------------------------------------
(* reconcile: made by the timer, and by a handler that has succeeded. *)

Listed == {c \in Live : row[c].instance # None /\ row[c].hostId # None}

ReadComputers(p) ==
    /\ pass[p].pc = "off"
    /\ IF p = Timer THEN TimerOn ELSE worker[p].pc = "settle"
    /\ pass' = [pass EXCEPT ![p].pc = "inspect", ![p].todo = Listed,
           ![p].rows = [c \in Computer |->
               IF c \in Listed
               THEN [status |-> row[c].status, hostId |-> row[c].hostId,
                     instance |-> row[c].instance]
               ELSE NoListing]]
    /\ UNCHANGED <<row, job, entry, worker, request, box, host, faults, crashes>>

\* Mutant of Copied: a container that has ended is not noticed.
CopiedNotStopped == {"RUNNING", "SUSPENDED", "ERROR"}

\* The provider statuses a pass copies to the row.
Copied == {"RUNNING", "STOPPED", "SUSPENDED", "ERROR"}

\* The container is inspected and compared with the status read before.
Inspect(p, c) ==
    LET seen == pass[p].rows[c]
        b == box[seen.hostId][c]
        actual == mapDockerState(b.state)
        drifted == /\ Present(b, Nth(seen.hostId, seen.instance))
                   /\ actual # seen.status
                   /\ actual \in Copied IN
    /\ pass[p].pc = "inspect"
    /\ c \in pass[p].todo
    /\ pass' = IF drifted
               THEN [pass EXCEPT ![p].todo = @ \ {c}, ![p].pc = "write",
                                 ![p].at = c, ![p].status = actual]
               ELSE [pass EXCEPT ![p].todo = @ \ {c}]
    /\ UNCHANGED <<row, job, entry, worker, request, box, host, faults, crashes>>

InspectFails(p, c) ==
    /\ pass[p].pc = "inspect"
    /\ c \in pass[p].todo
    /\ Fault
    /\ pass' = [pass EXCEPT ![p].todo = @ \ {c}, ![p].pc = "write",
                            ![p].at = c, ![p].status = "PROVIDER_UNAVAILABLE"]
    /\ UNCHANGED <<row, job, entry, worker, request, box, host, crashes>>

\* The update by id alone: whatever the row has become since it was read.
Write(p) ==
    /\ pass[p].pc = "write"
    /\ Unlocked(pass[p].at)
    /\ row' = [row EXCEPT ![pass[p].at] = Updated(@, pass[p].status)]
    /\ pass' = [pass EXCEPT ![p].pc = "inspect", ![p].at = None, ![p].status = None]
    /\ UNCHANGED <<job, entry, worker, request, box, host, faults, crashes>>

\* The health of the hosts is recorded; then reconcileHostAllocations lists them.
CheckHosts(p) ==
    /\ pass[p].pc = "inspect"
    /\ pass[p].todo = {}
    /\ \E down \in SUBSET Host :
          /\ IF down = {} THEN UNCHANGED faults ELSE Fault
          /\ host' = [h \in Host |-> [host[h] EXCEPT !.healthy = h \notin down]]
    /\ pass' = [pass EXCEPT ![p].pc = "tally", ![p].hosts = Host,
           ![p].rows = [c \in Computer |-> NoListing],
           ![p].seen = [h \in Host |->
               [compute |-> host[h].compute, storage |-> host[h].storage]]]
    /\ UNCHANGED <<row, job, entry, worker, request, box, crashes>>

Placed(h) ==
    {c \in Live : row[c].hostId = h /\ row[c].status # "DELETED"}

Load(h) ==
    [compute |-> Cardinality({c \in Placed(h) : row[c].status \in computeReservedStatuses}),
     storage |-> Cardinality(Placed(h))]

\* Mutant of Miscounted: only the storage figures are compared.
MiscountedStorage(p, h) == Load(h).storage # pass[p].seen[h].storage

Miscounted(p, h) == Load(h) # pass[p].seen[h]

\* The host's computers are added up and compared with the figures read before.
Tally(p, h) ==
    /\ pass[p].pc = "tally"
    /\ h \in pass[p].hosts
    /\ pass' = IF Miscounted(p, h)
               THEN [pass EXCEPT ![p].hosts = @ \ {h}, ![p].pc = "correct",
                                 ![p].on = h, ![p].tally = Load(h)]
               ELSE [pass EXCEPT ![p].hosts = @ \ {h}]
    /\ UNCHANGED <<row, job, entry, worker, request, box, host, faults, crashes>>

Correct(p) ==
    /\ pass[p].pc = "correct"
    /\ host' = [host EXCEPT ![pass[p].on].compute = pass[p].tally.compute,
                            ![pass[p].on].storage = pass[p].tally.storage]
    /\ pass' = [pass EXCEPT ![p].pc = "tally", ![p].on = None, ![p].tally = NoLoad]
    /\ UNCHANGED <<row, job, entry, worker, request, box, faults, crashes>>

EndPass(p) ==
    /\ pass[p].pc = "tally"
    /\ pass[p].hosts = {}
    /\ pass' = [pass EXCEPT ![p] = NoPass]
    /\ IF p = Timer THEN UNCHANGED worker ELSE Go(p, "ack")
    /\ UNCHANGED <<row, job, entry, request, box, host, faults, crashes>>

PassStep(p) ==
    \/ ReadComputers(p)
    \/ \E c \in Computer : Inspect(p, c) \/ InspectFails(p, c)
    \/ Write(p) \/ CheckHosts(p)
    \/ \E h \in Host : Tally(p, h)
    \/ Correct(p) \/ EndPass(p)

-----------------------------------------------------------------------------
(* The world. *)

\* The process of a container ends by itself.
Exit(h, c) ==
    /\ box[h][c].state = "running"
    /\ Fault
    /\ box' = [box EXCEPT ![h][c].state = "exited"]
    /\ UNCHANGED <<row, job, entry, worker, pass, request, host, crashes>>

\* The worker process dies and is started again: every handler and pass is gone.
Crash ==
    /\ crashes < MaxCrashes
    /\ crashes' = crashes + 1
    /\ worker' = [w \in Worker |-> IdleSlot]
    /\ pass' = [p \in Pass |-> NoPass]
    /\ UNCHANGED <<row, job, entry, request, box, host, faults>>

Next ==
    \/ \E r \in Request : ApiStep(r)
    \/ \E j \in Job : Promote(j) \/ Stall(j)
    \/ \E w \in Worker : WorkerStep(w)
    \/ \E p \in Pass : PassStep(p)
    \/ \E h \in Host, c \in Computer : Exit(h, c)
    \/ Crash

Spec == Init /\ [][Next]_vars

\* Node and BullMQ run what is due: an open transaction ends, the worker serves
\* its queue, a delayed entry comes due, stalled entries are looked for, and the
\* timer makes its passes. No client is obliged to send anything, and no
\* failure to happen.
Fairness ==
    /\ \A r \in Request : WF_vars(CreateRow(r) \/ EnqueueCreated(r)) /\ WF_vars(Commit(r))
    /\ \A j \in Job : WF_vars(Promote(j) \/ Stall(j))
    /\ \A w \in Worker : WF_vars(WorkerStep(w))
    /\ \A p \in Pass : WF_vars(PassStep(p))

FairSpec == Spec /\ Fairness
-----------------------------------------------------------------------------
(* Properties. *)

\* The rows, the queue, the handlers and the passes have the shape above.
TypeOK ==
    /\ row \in [Computer -> Row]
    /\ job \in [Job -> JobRow]
    /\ entry \in [Job -> Entry]
    /\ worker \in [Worker -> Slot]
    /\ pass \in [Pass -> PassState]
    /\ request \in [Request -> Handler]
    /\ box \in [Host -> [Computer -> Box]]
    /\ host \in [Host -> HostRow]
    /\ faults \in Nat
    /\ crashes \in Nat

\* A container, or an instance id on record, has a host on record: a deletion
\* that finds no host (worker.ts, the branch that skips the provider) leaves no
\* container behind.
PlacementFirst ==
    \A c \in Computer :
        \/ row[c].hostId # None
        \/ /\ row[c].instance = None
           /\ \A h \in Host : box[h][c].state = "absent"

\* A job is started as often as its row allows, plus once if its worker died:
\* a deletion, which gets one attempt, is repeated only after a crash.
AttemptsBounded ==
    \A j \in Job :
        /\ entry[j].stalls <= 2
        /\ job[j].type # None =>
               job[j].attempts <= maxAttempts(job[j].type) + entry[j].stalls

\* What the job row tells the client is what the queue will do (no crashes): a
\* job that is FAILED is not delivered again, and one that is RETRYING will be,
\* unless a later delivery never got as far as its row.
VerdictsHold ==
    \A j \in Job :
        /\ job[j].status = "FAILED" => entry[j].state \notin {"waiting", "delayed"}
        /\ job[j].status = "RETRYING" /\ job[j].attempts >= entry[j].made =>
               entry[j].state \in {"waiting", "delayed", "active"}

\* The jobs of a computer that still have provider calls or the row's status
\* to make.
Unfinished(c) ==
    {j \in Job :
        /\ job[j].computer = c
        /\ job[j].status \in {"OPEN", "QUEUED", "RUNNING", "RETRYING"}
        /\ \A w \in Worker : Holds(w, j) => worker[w].pc \notin {"succeed", "settle", "ack"}}

\* The status of a computer keeps lifecycle operations apart: it never has two
\* jobs under way (state-machine.test.ts, "prevents conflicting operations").
ExclusiveOperation == \A c \in Computer : Cardinality(Unfinished(c)) <= 1

\* An accepted job can be run: its row does not wait on an entry the queue has
\* given up (docs/ARCHITECTURE.md, "records a durable ProvisioningJob").
QueuedJobsRun ==
    \A j \in Job : job[j].status = "QUEUED" => entry[j].state # "failed"

\* Where no call fails, a job that the overview counts as active (admin.ts,
\* activeJobs) is one the queue has yet to finish, through deliveries before its
\* commit, retries and crashes, unless it has stalled twice or is a deletion,
\* which is delivered once.
NothingLost ==
    \A j \in Job :
        /\ job[j].status \in {"QUEUED", "RUNNING", "RETRYING"}
        /\ job[j].type # "DELETE"
        /\ entry[j].stalls < 2
        => entry[j].state \in {"waiting", "active", "delayed"}

\* A deleted computer at rest has left no container and no volume behind
\* (docs/ARCHITECTURE.md, "Delete removes the verified managed container and its
\* workspace").
DeletionRemoves ==
    \A c \in Computer : row[c].deleted /\ Unfinished(c) = {} =>
        \A h \in Host : box[h][c].state = "absent" /\ ~box[h][c].volume

\* A computer at rest is what its row says: its one container is up when the row
\* says RUNNING, paused or exited when it says SUSPENDED or STOPPED.
AtRestTruthful ==
    \A c \in Live :
        Unfinished(c) = {} /\ row[c].hostId # None =>
            LET state == box[row[c].hostId][c].state IN
            /\ row[c].status = "RUNNING" => state \in {"running", "paused"}
            /\ row[c].status = "SUSPENDED" => state = "paused"
            /\ row[c].status = "STOPPED" => state = "exited"

\* A request is accepted by compare-and-update: the job becomes visible in the
\* step that moves the row, from a status the transition table allows and that
\* the row still has, and never for a computer that is deleted.
AcceptedAtomically ==
    [][\A j \in Job :
          job[j].status = "OPEN" /\ job'[j].status = "QUEUED" =>
              \E a \in LifecycleAction :
                  LET c == job[j].computer IN
                  /\ job[j].type = jobType[a]
                  /\ row[c].status \in From[a]
                  /\ ~row[c].deleted
                  /\ row'[c].status = To[a]
                  /\ row'[c].version = row[c].version + 1]_vars

Contract ==
    INSTANCE LifecycleContract WITH
        Order  <- Job,
        status <- [c \in Computer |-> row[c].status],
        gone   <- [c \in Computer |-> row[c].deleted],
        orders <- [j \in Job |->
                      IF Visible(j)
                      THEN [computer |-> job[j].computer, type |-> job[j].type]
                      ELSE [computer |-> None, type |-> None]]

\* The handlers, with their transactions, retries and crashes, implement the
\* contract of the lifecycle API.
ContractKept == Contract!CSpec

\* An accepted job ends: it is reported as succeeded or failed.
JobsResolve ==
    \A j \in Job : Visible(j) ~> job[j].status \in {"SUCCEEDED", "FAILED"}

\* Reconciliation makes a row say what its container does once everything else
\* has come to rest.
StatusConverges ==
    <>[](\A c \in Listed :
            LET b == box[row[c].hostId][c] IN
            Present(b, Nth(row[c].hostId, row[c].instance)) /\ b.state # "created" =>
                row[c].status = mapDockerState(b.state))

\* Reconciliation makes a host's allocation the sum of what its computers hold.
LoadConverges ==
    <>[](\A h \in Host : /\ host[h].compute = Load(h).compute
                         /\ host[h].storage = Load(h).storage)

=============================================================================
