--------------------------- MODULE VerdictProofs ---------------------------
(***************************************************************************)
(* The queue and the job rows, for every number of slots, handlers and     *)
(* jobs. While the worker process lives, what the row tells the client is  *)
(* what the queue will do, whatever calls fail; where no call fails, the   *)
(* queue keeps every job that has not ended, however often it dies.        *)
(***************************************************************************)
EXTENDS LifecycleProofs

\* An entry that is active is in the hands of a slot, and none ever stalled.
NoneLost ==
    \A j \in Job :
        /\ entry[j].stalls = 0
        /\ entry[j].state = "active" => \E w \in Worker : Holds(w, j)

\* The row's verdict and the state of the entry, also while the catch block
\* is between the one and the other.
Sure(j) ==
    /\ job[j].status = "FAILED" =>
           \/ entry[j].state \in {"none", "failed", "completed"}
           \/ entry[j].state = "active" /\ ~WillRetry(j)
    /\ job[j].status = "RETRYING" /\ job[j].attempts >= entry[j].made =>
           \/ entry[j].state \in {"waiting", "delayed"}
           \/ entry[j].state = "active" /\ WillRetry(j)

\* A handler that has not reported a failure has not a row that says so.
Reporting ==
    \A w \in Worker :
        Busy(w) /\ worker[w].pc \notin {"mark", "nack"} =>
            job[worker[w].job].status # "RETRYING"

VInv ==
    /\ NoneLost
    /\ \A j \in Job : Sure(j)
    /\ Reporting

-----------------------------------------------------------------------------
(* The steps that matter to it. *)

\* A handler goes on to another call and changes neither row nor entry.
Onward(w) ==
    /\ Busy(w)
    /\ UNCHANGED <<job, entry>>
    /\ \A v \in Worker \ {w} : worker'[v] = worker[v]
    /\ worker'[w].job = worker[w].job
    /\ worker'[w].pc # "idle"
    /\ worker'[w].pc \notin {"mark", "nack"} => worker[w].pc \notin {"mark", "nack"}
    /\ worker'[w].pc \in {"settle", "ack"} => worker[w].pc \in {"settle", "ack"}
    /\ MaxFaults = 0 /\ worker'[w].pc \in {"mark", "nack"} => worker[w].pc \in {"mark", "nack"}

Inserts(r) == EnqueueCreated(r) \/ EnqueueLost(r) \/ Submit(r)

Decides(w) == Succeed(w) \/ Ack(w) \/ Report(w) \/ Nack(w)

\* A step is one of these as far as jobs, entries and slots go.
LEMMA VerdictMoves ==
    ASSUME IInv, Next
    PROVE  \/ UNCHANGED <<job, entry, worker>>
           \/ \E r \in Request : Inserts(r) \/ Commit(r) \/ Abort(r)
           \/ \E j \in Job : Promote(j) \/ Stall(j)
           \/ \E w \in Worker, j \in Job : Take(w, j) \/ Miss(w, j)
           \/ \E w \in Worker : Decides(w) \/ Onward(w)
           \/ Crash
<1> DEFINE Some == \/ UNCHANGED <<job, entry, worker>>
                   \/ \E r \in Request : Inserts(r) \/ Commit(r) \/ Abort(r)
                   \/ \E j \in Job : Promote(j) \/ Stall(j)
                   \/ \E w \in Worker, j \in Job : Take(w, j) \/ Miss(w, j)
                   \/ \E w \in Worker : Decides(w) \/ Onward(w)
                   \/ Crash
<1>0. worker \in [Worker -> Slot] /\ crashes \in Nat
  BY DEF IInv, TypeOK
<1>1. ASSUME NEW r \in Request, ApiStep(r) PROVE Some
  BY <1>1 DEF ApiStep, Inserts, CheckQuota, CreateRow, ReadRow, Replay, Reject
<1>2. ASSUME NEW w \in Worker, Busy(w), UNCHANGED <<job, entry>>,
             NEW s \in Slot, worker' = [worker EXCEPT ![w] = s],
             s.job = worker[w].job, s.pc # "idle",
             s.pc \notin {"mark", "nack"} => worker[w].pc \notin {"mark", "nack"},
             s.pc \in {"settle", "ack"} => worker[w].pc \in {"settle", "ack"},
             MaxFaults = 0 /\ s.pc \in {"mark", "nack"} => worker[w].pc \in {"mark", "nack"}
      PROVE  Onward(w)
  BY <1>0, <1>2 DEF Onward
<1>3. ASSUME NEW w \in Worker, WorkerStep(w) PROVE Some
  <2> DEFINE S == worker[w]
  <2>0. S \in Slot /\ (Busy(w) => S.job \in Job)
    BY <1>0 DEF IInv, SlotsFormed, Equipped
  <2>1. ASSUME NEW pc \in SlotPc \ {"idle"}, Go(w, pc), Busy(w), UNCHANGED <<job, entry>>,
               pc \in {"mark", "nack"} \/ S.pc \notin {"mark", "nack"},
               pc \in {"settle", "ack"} => S.pc \in {"settle", "ack"},
               MaxFaults = 0 /\ pc \in {"mark", "nack"} => S.pc \in {"mark", "nack"}
        PROVE  Onward(w)
    <3>1. worker' = [worker EXCEPT ![w] = [S EXCEPT !.pc = pc]]
      BY <1>0, <2>1 DEF Go
    <3>2. /\ [S EXCEPT !.pc = pc] \in Slot /\ [S EXCEPT !.pc = pc].pc = pc
          /\ [S EXCEPT !.pc = pc].job = S.job
      BY <2>0 DEF Slot
    <3> QED BY <1>2, <2>1, <3>1, <3>2
  <2>2. CASE Release(w) \/ Record(w) \/ Finish(w) \/ Mark(w) \/ FailTwice(w)
    BY <2>1, <2>2 DEF Release, Record, Finish, Mark, FailTwice, Busy, SlotPc
  <2>3. CASE Schedule(w) \/ Reserve(w) \/ Create(w) \/ Operate(w) \/ Fail(w)
    <3>1. Busy(w) /\ S.pc \notin {"mark", "nack"} /\ UNCHANGED <<job, entry>>
      BY <2>3 DEF Schedule, Reserve, Create, Operate, Fail, Busy
    <3>2. \A v \in Worker \ {w} : worker'[v] = worker[v]
      BY <1>0, <2>3 DEF Schedule, Reserve, Create, Operate, Fail, Go
    <3>3. worker'[w].job = S.job
      BY <1>0, <2>3 DEF Schedule, Reserve, Create, Operate, Fail, Go, Slot
    <3>4. worker'[w].pc \notin {"idle", "settle", "ack", "mark", "nack"}
      BY <1>0, <2>3 DEF Schedule, Reserve, Create, Operate, Fail, Go, Slot
    <3> QED BY <3>1, <3>2, <3>3, <3>4 DEF Onward
  <2> QED BY <1>3, <2>2, <2>3 DEF WorkerStep, Decides
<1>4. ASSUME NEW p \in Pass, PassStep(p) PROVE Some
  <2>1. CASE EndPass(p) /\ p # Timer
    <3>1. p \in Worker /\ worker[p].pc = "settle"
      BY <2>1 DEF Pass, EndPass, IInv, PassesFormed
    <3>2. /\ worker' = [worker EXCEPT ![p] = [worker[p] EXCEPT !.pc = "ack"]]
          /\ UNCHANGED <<job, entry>>
      BY <1>0, <2>1 DEF EndPass, Go
    <3>3. /\ [worker[p] EXCEPT !.pc = "ack"] \in Slot
          /\ [worker[p] EXCEPT !.pc = "ack"].pc = "ack"
          /\ [worker[p] EXCEPT !.pc = "ack"].job = worker[p].job
      BY <1>0, <3>1 DEF Slot, SlotPc
    <3>4. Onward(p)
      BY <1>2, <3>1, <3>2, <3>3 DEF Busy
    <3> QED BY <3>1, <3>4
  <2>2. CASE ~(EndPass(p) /\ p # Timer)
    BY <1>4, <2>2 DEF PassStep, ReadComputers, Inspect, InspectFails, Write, CheckHosts, Tally,
                      Correct, EndPass
  <2> QED BY <2>1, <2>2
<1>5. ASSUME NEW h \in Host, NEW c \in Computer, Exit(h, c) PROVE Some
  BY <1>5 DEF Exit
<1> QED BY <1>1, <1>3, <1>4, <1>5 DEF Next

\* What MaxCrashes = 0 and MaxFaults = 0 rule out.
LEMMA Spared ==
    ASSUME TypeOK
    PROVE  /\ MaxCrashes = 0 => ~Crash
           /\ MaxFaults = 0 => ~Fault
  BY DEF TypeOK, Crash, Fault

\* An inserted job is one whose id was free, and waits or will never be run.
LEMMA InsertsNew ==
    ASSUME IInv, NEW r \in Request, Inserts(r), NEW j \in Job
    PROVE  \/ job'[j] = job[j] /\ entry'[j] = entry[j]
           \/ /\ job[j].status = "FREE"
              /\ job'[j].status \in {"OPEN", "QUEUED", "FAILED"}
              /\ entry'[j].stalls = 0
              /\ entry'[j].state \in {"none", "waiting"}
              /\ job'[j].status = "FAILED" => entry'[j].state = "none"
<1>0. /\ job \in [Job -> JobRow] /\ entry \in [Job -> Entry]
      /\ job[j].status = "FREE" => entry[j] = NoEntry
  BY DEF IInv, TypeOK, JobsFormed
<1>1. FreeJobs # {} => NewJob \in Job /\ job[NewJob].status = "FREE"
  BY NewJobFree
<1>2. CASE EnqueueCreated(r)
  <2>1. CASE UNCHANGED <<job, entry>>
    BY <2>1
  <2>2. CASE ~UNCHANGED <<job, entry>>
    <3>1. /\ FreeJobs # {}
          /\ job' = [job EXCEPT ![NewJob] =
                 NewRow(request[r].computer, "PROVISION", request[r].key, "QUEUED")]
          /\ entry' = [entry EXCEPT ![NewJob].state = "waiting"]
      BY <1>2, <2>2 DEF EnqueueCreated
    <3>2. CASE j = NewJob
      <4>1. job'[j].status = "QUEUED" /\ entry'[j] = [NoEntry EXCEPT !.state = "waiting"]
        BY <1>0, <1>1, <3>1, <3>2 DEF NewRow
      <4> QED BY <1>1, <3>1, <3>2, <4>1 DEF NoEntry
    <3>3. CASE j # NewJob
      BY <1>0, <3>1, <3>3
    <3> QED BY <3>2, <3>3
  <2> QED BY <2>1, <2>2
<1>3. CASE Submit(r)
  <2>1. /\ FreeJobs # {}
        /\ job' = [job EXCEPT ![NewJob] =
               NewRow(request[r].computer, jobType[request[r].action], request[r].key, "OPEN")]
        /\ entry' = [entry EXCEPT ![NewJob].state = "waiting"]
    BY <1>3 DEF Submit
  <2>2. CASE j = NewJob
    <3>1. job'[j].status = "OPEN" /\ entry'[j] = [NoEntry EXCEPT !.state = "waiting"]
      BY <1>0, <1>1, <2>1, <2>2 DEF NewRow
    <3> QED BY <1>1, <2>1, <2>2, <3>1 DEF NoEntry
  <2>3. CASE j # NewJob
    BY <1>0, <2>1, <2>3
  <2> QED BY <2>2, <2>3
<1>4. CASE EnqueueLost(r)
  <2>1. entry' = entry
    BY <1>4 DEF EnqueueLost
  <2>2. CASE job' = job
    BY <2>1, <2>2
  <2>3. CASE job' # job
    <3>1. PICK status \in {"QUEUED", "FAILED"} :
              /\ FreeJobs # {}
              /\ job' = [job EXCEPT ![NewJob] =
                     NewRow(request[r].computer, "PROVISION", request[r].key, status)]
      BY <1>4, <2>3 DEF EnqueueLost
    <3>2. CASE j = NewJob
      <4>1. job'[j].status = status /\ entry'[j] = NoEntry
        BY <1>0, <1>1, <2>1, <3>1, <3>2 DEF NewRow
      <4> QED BY <1>1, <3>1, <3>2, <4>1 DEF NoEntry
    <3>3. CASE j # NewJob
      BY <1>0, <2>1, <3>1, <3>3
    <3> QED BY <3>2, <3>3
  <2> QED BY <2>2, <2>3
<1> QED BY <1>2, <1>3, <1>4 DEF Inserts

\* The closing of a transaction, and nothing else, touches the job it opened.
LEMMA ClosesOpen ==
    ASSUME IInv, NEW r \in Request, Commit(r) \/ Abort(r), NEW j \in Job
    PROVE  /\ entry' = entry /\ worker' = worker
           /\ \/ job'[j] = job[j]
              \/ job[j].status = "OPEN" /\ job'[j].status \in {"QUEUED", "ABORTED"}
<1>1. job \in [Job -> JobRow] /\ job[request[r].job].status = "OPEN"
  BY DEF IInv, TypeOK, TransactionsFormed, Commit, Abort
<1>2. PICK status \in {"QUEUED", "ABORTED"} :
          job' = [job EXCEPT ![request[r].job].status = status]
  BY DEF Commit, Abort
<1> QED BY <1>1, <1>2 DEF Commit, Abort, JobRow

-----------------------------------------------------------------------------
(* The three parts are kept. *)

\* Without crashes no entry is left active with nobody at work on it.
LEMMA NoneLostStep ==
    ASSUME IInv, VInv, Next, MaxCrashes = 0
    PROVE  NoneLost'
<1> SUFFICES ASSUME NEW j \in Job
             PROVE  /\ entry'[j].stalls = 0
                    /\ entry'[j].state = "active" => \E w \in Worker : Holds(w, j)'
  BY DEF NoneLost, Job
<1> DEFINE Right == /\ entry'[j].stalls = 0
                    /\ entry'[j].state = "active" => \E w \in Worker : Holds(w, j)'
<1>0. /\ entry \in [Job -> Entry] /\ worker \in [Worker -> Slot] /\ entry[j] \in Entry
      /\ entry[j].stalls = 0
      /\ entry[j].state = "active" => \E w \in Worker : Holds(w, j)
  BY DEF IInv, TypeOK, VInv, NoneLost
<1>1. ASSUME entry'[j] = entry[j], UNCHANGED worker PROVE Right
  BY <1>0, <1>1 DEF Holds
<1>2. ASSUME NEW r \in Request, Inserts(r) \/ Commit(r) \/ Abort(r) PROVE Right
  <2>1. UNCHANGED worker
    BY <1>2 DEF Inserts, EnqueueCreated, EnqueueLost, Submit, Commit, Abort
  <2> QED BY <1>1, <1>2, <2>1, InsertsNew, ClosesOpen
<1>3. ASSUME NEW i \in Job, Promote(i) PROVE Right
  <2>1. UNCHANGED worker /\ entry[i].state = "delayed"
        /\ entry' = [entry EXCEPT ![i] = [entry[i] EXCEPT !.state = "waiting"]]
    BY <1>0, <1>3 DEF Promote
  <2>2. i = j => entry'[j].stalls = 0 /\ entry'[j].state = "waiting"
    BY <1>0, <2>1 DEF Entry
  <2> QED BY <1>0, <1>1, <2>1, <2>2
<1>4. ASSUME NEW i \in Job, Stall(i) PROVE FALSE
  BY <1>4 DEF Stall, VInv, NoneLost
<1>5. ASSUME NEW w \in Worker, NEW i \in Job, Take(w, i) PROVE Right
  <2>1. /\ worker[w].pc = "idle" /\ worker'[w].pc # "idle" /\ worker'[w].job = i
        /\ \A v \in Worker \ {w} : worker'[v] = worker[v]
    BY <1>0, <1>5 DEF Take, FirstStep
  <2>2. entry' = [entry EXCEPT ![i] = [entry[i] EXCEPT !.state = "active"]]
    BY <1>0, <1>5 DEF Take
  <2>3. i = j => entry'[j].stalls = 0 /\ Holds(w, j)'
    BY <1>0, <2>1, <2>2 DEF Holds, Entry
  <2>4. \A v \in Worker : Holds(v, j) => Holds(v, j)'
    BY <2>1 DEF Holds
  <2> QED BY <1>0, <2>2, <2>3, <2>4
<1>6. ASSUME NEW w \in Worker, NEW i \in Job, Miss(w, i) PROVE Right
  <2>1. UNCHANGED worker /\ entry' = [entry EXCEPT ![i] = AfterFailure(entry[i], job[i].type)]
    BY <1>6 DEF Miss
  <2>2. i = j => entry'[j].stalls = 0 /\ entry'[j].state # "active"
    BY <1>0, <2>1 DEF AfterFailure, Entry
  <2> QED BY <1>0, <1>1, <2>1, <2>2
<1>7. ASSUME NEW w \in Worker, Succeed(w) \/ Report(w) PROVE Right
  <2>1. PICK pc \in SlotPc \ {"idle"} : Go(w, pc) /\ UNCHANGED entry /\ Busy(w)
    BY <1>7 DEF Succeed, Report, SlotPc, Busy
  <2>2. \A v \in Worker : Holds(v, j) => Holds(v, j)'
    BY <1>0, <2>1 DEF Holds, Go, Slot
  <2> QED BY <1>0, <2>1, <2>2
<1>8. ASSUME NEW w \in Worker, Onward(w) PROVE Right
  <2>1. \A v \in Worker : Holds(v, j) => Holds(v, j)'
    BY <1>8 DEF Onward, Holds
  <2> QED BY <1>0, <1>8, <2>1 DEF Onward
<1>9. ASSUME NEW w \in Worker, Ack(w) \/ Nack(w) PROVE Right
  <2> DEFINE i == worker[w].job
  <2>1. /\ \A v \in Worker \ {w} : worker'[v] = worker[v]
        /\ \/ entry' = [entry EXCEPT ![i] = [entry[i] EXCEPT !.state = "completed"]]
           \/ entry' = [entry EXCEPT ![i] = AfterFailure(entry[i], job[i].type)]
    BY <1>0, <1>9 DEF Ack, Nack
  <2>2. CASE i = j
    <3>1. \/ entry'[j] = [entry[j] EXCEPT !.state = "completed"]
          \/ entry'[j] = AfterFailure(entry[j], job[j].type)
      BY <1>0, <2>1, <2>2
    <3>2. entry'[j].stalls = 0 /\ entry'[j].state # "active"
      BY <1>0, <3>1 DEF AfterFailure, Entry
    <3> QED BY <3>2
  <2>3. CASE i # j
    <3>1. entry'[j] = entry[j]
      BY <1>0, <2>1, <2>3
    <3>2. \A v \in Worker : Holds(v, j) => Holds(v, j)'
      BY <2>1, <2>3 DEF Holds
    <3> QED BY <1>0, <3>1, <3>2
  <2> QED BY <1>0, <2>2, <2>3
<1> HIDE DEF Right
<1>10. Right
  BY <1>1, <1>2, <1>3, <1>4, <1>5, <1>6, <1>7, <1>8, <1>9, VerdictMoves, Spared DEF Decides, IInv
<1> QED BY <1>10 DEF Right

\* The catch block writes the verdict before the queue acts on it, and every
\* other step that changes the one or the other leaves them in agreement.
LEMMA SureStep ==
    ASSUME IInv, VInv, Next, MaxCrashes = 0, NEW j \in Job
    PROVE  Sure(j)'
<1> DEFINE max == maxAttempts(job[j].type)
<1>0. /\ entry \in [Job -> Entry] /\ job \in [Job -> JobRow] /\ worker \in [Worker -> Slot]
      /\ entry[j] \in Entry /\ job[j] \in JobRow
  BY DEF IInv, TypeOK
<1>a. entry[j].made \in Nat /\ job[j].attempts \in Nat /\ max \in {1, 3}
  BY <1>0 DEF Entry, JobRow, maxAttempts
<1>b. Sure(j)
  BY DEF VInv
<1>1. ASSUME entry'[j] = entry[j], job'[j] = job[j] PROVE Sure(j)'
  BY <1>b, <1>1 DEF Sure, WillRetry
<1>2. ASSUME NEW r \in Request, Inserts(r) \/ Commit(r) \/ Abort(r) PROVE Sure(j)'
  <2>1. job'[j].status \notin {"FAILED", "RETRYING"} => Sure(j)'
    BY DEF Sure
  <2> QED BY <1>1, <1>2, <2>1, InsertsNew, ClosesOpen DEF Sure
<1>3. ASSUME NEW i \in Job, Promote(i) PROVE Sure(j)'
  <2>1. job' = job /\ entry[i].state = "delayed"
        /\ entry' = [entry EXCEPT ![i] = [entry[i] EXCEPT !.state = "waiting"]]
    BY <1>0, <1>3 DEF Promote
  <2>2. i = j => entry'[j].state = "waiting" /\ entry'[j].made = entry[j].made
    BY <1>0, <2>1 DEF Entry
  <2> QED BY <1>0, <1>1, <1>b, <2>1, <2>2 DEF Sure
<1>4. ASSUME NEW i \in Job, Stall(i) PROVE FALSE
  BY <1>4 DEF Stall, VInv, NoneLost
<1>5. ASSUME NEW w \in Worker, NEW i \in Job, Take(w, i) PROVE Sure(j)'
  <2>1. i = j => job'[j].status = "RUNNING"
    BY <1>0, <1>5 DEF Take, JobRow
  <2>2. i # j => entry'[j] = entry[j] /\ job'[j] = job[j]
    BY <1>0, <1>5 DEF Take
  <2> QED BY <1>1, <2>1, <2>2 DEF Sure
<1>6. ASSUME NEW w \in Worker, NEW i \in Job, Miss(w, i) PROVE Sure(j)'
  <2>1. /\ entry[i].state = "waiting" /\ job' = job
        /\ entry' = [entry EXCEPT ![i] = AfterFailure(entry[i], job[i].type)]
    BY <1>6 DEF Miss
  <2>2. CASE i = j
    \* Each earlier delivery has been a failed attempt, so this one leaves the
    \* row behind the queue.
    <3>1. job[j].attempts <= entry[j].made
      BY <1>0, <1>a, <2>1, <2>2 DEF IInv, DeliveriesCounted, VInv, NoneLost
    <3>2. entry'[j].made = entry[j].made + 1
      BY <1>0, <2>1, <2>2 DEF AfterFailure, Entry
    <3>3. job[j].status # "FAILED"
      BY <1>b, <2>1, <2>2 DEF Sure
    <3> QED BY <1>a, <2>1, <3>1, <3>2, <3>3 DEF Sure
  <2>3. CASE i # j
    BY <1>0, <1>1, <2>1, <2>3
  <2> QED BY <2>2, <2>3
<1>7. ASSUME NEW w \in Worker, Decides(w), worker[w].job # j PROVE Sure(j)'
  BY <1>0, <1>1, <1>7 DEF Decides, Succeed, Ack, Report, Nack
<1>8. ASSUME NEW w \in Worker, Decides(w), worker[w].job = j PROVE Sure(j)'
  <2>0. entry[j].state = "active" /\ Busy(w)
    BY <1>8 DEF Decides, Succeed, Ack, Report, Nack, Busy, IInv, SlotsFormed
  <2>1. CASE Succeed(w)
    BY <1>0, <1>8, <2>1 DEF Succeed, JobRow, Sure
  <2>2. CASE Ack(w)
    <3>1. /\ job'[j] = job[j] /\ job[j].status # "RETRYING"
          /\ entry'[j] = [entry[j] EXCEPT !.state = "completed"]
      BY <1>0, <1>8, <2>0, <2>2 DEF Ack, VInv, Reporting
    <3>2. entry'[j].state = "completed"
      BY <1>0, <3>1 DEF Entry
    <3> QED BY <3>1, <3>2 DEF Sure
  <2>3. CASE Report(w)
    <3>1. /\ entry' = entry
          /\ job'[j] = [job[j] EXCEPT !.status = IF WillRetry(j) THEN "RETRYING" ELSE "FAILED"]
      BY <1>0, <1>8, <2>3 DEF Report
    <3>2. /\ job'[j].status = IF WillRetry(j) THEN "RETRYING" ELSE "FAILED"
          /\ job'[j].type = job[j].type
      BY <1>0, <3>1 DEF JobRow
    <3>3. WillRetry(j)' <=> WillRetry(j)
      BY <3>1, <3>2 DEF WillRetry
    <3> QED BY <2>0, <3>1, <3>2, <3>3 DEF Sure
  <2>4. CASE Nack(w)
    <3>1. job'[j] = job[j] /\ entry'[j] = AfterFailure(entry[j], job[j].type)
      BY <1>0, <1>8, <2>4 DEF Nack
    <3>2. /\ entry'[j].made = entry[j].made + 1
          /\ entry'[j].state = IF WillRetry(j) THEN "delayed" ELSE "failed"
      BY <1>0, <3>1 DEF AfterFailure, Entry, WillRetry, QueueAttempts
    <3>3. job[j].status = "FAILED" => ~WillRetry(j)
      BY <1>b, <2>0 DEF Sure
    <3>4. job[j].status = "RETRYING" /\ job[j].attempts >= entry[j].made + 1 => WillRetry(j)
      BY <1>a, <1>b, <2>0 DEF Sure
    <3> QED BY <3>1, <3>2, <3>3, <3>4 DEF Sure
  <2> QED BY <1>8, <2>1, <2>2, <2>3, <2>4 DEF Decides
<1>9. ASSUME NEW w \in Worker, Onward(w) PROVE Sure(j)'
  BY <1>1, <1>9 DEF Onward
<1> QED BY <1>1, <1>2, <1>3, <1>4, <1>5, <1>6, <1>7, <1>8, <1>9, VerdictMoves, Spared DEF IInv

\* Only the catch block says that a job will be tried again, and its handler
\* has nothing left to do then but to fail.
LEMMA ReportingStep ==
    ASSUME IInv, VInv, Next, MaxCrashes = 0
    PROVE  Reporting'
<1> SUFFICES ASSUME NEW v \in Worker, Busy(v)', worker'[v].pc \notin {"mark", "nack"}
             PROVE  job'[worker'[v].job].status # "RETRYING"
  BY DEF Reporting
<1> DEFINE j == worker[v].job
           Right == job'[worker'[v].job].status # "RETRYING"
<1>0. /\ job \in [Job -> JobRow] /\ worker \in [Worker -> Slot]
      /\ Busy(v) => j \in Job /\ Visible(j)
      /\ Busy(v) /\ worker[v].pc \notin {"mark", "nack"} => job[j].status # "RETRYING"
      /\ Busy(v) => \A w \in Worker : Busy(w) /\ w # v => worker[w].job # j
  BY DEF IInv, TypeOK, SlotsFormed, Equipped, VInv, Reporting
<1>1. ASSUME worker'[v] = worker[v], job'[j] = job[j] PROVE Right
  BY <1>0, <1>1 DEF Busy
<1>2. ASSUME NEW r \in Request, Inserts(r) \/ Commit(r) \/ Abort(r) PROVE Right
  <2>1. UNCHANGED worker
    BY <1>2 DEF Inserts, EnqueueCreated, EnqueueLost, Submit, Commit, Abort
  <2>2. Busy(v) /\ j \in Job
    BY <1>0, <2>1 DEF Busy
  <2>3. job'[j] = job[j] \/ job'[j].status \in {"OPEN", "QUEUED", "FAILED", "ABORTED"}
    BY <1>2, <2>2, InsertsNew, ClosesOpen
  <2> QED BY <1>1, <2>1, <2>3
<1>3. ASSUME NEW i \in Job, Promote(i) \/ Stall(i) PROVE Right
  BY <1>1, <1>3 DEF Promote, Stall
<1>4. ASSUME NEW w \in Worker, NEW i \in Job, Take(w, i) PROVE Right
  <2>1. CASE w = v
    <3>1. worker'[v].job = i /\ job'[i].status = "RUNNING"
      BY <1>0, <1>4, <2>1 DEF Take, JobRow
    <3> QED BY <3>1
  <2>2. CASE w # v
    <3>0. worker'[v] = worker[v]
      BY <1>0, <1>4, <2>2 DEF Take
    <3>1. i # j => job'[j] = job[j]
      BY <1>0, <1>4, <3>0 DEF Take, Busy
    <3>2. i = j => job'[j].status = "RUNNING"
      BY <1>0, <1>4 DEF Take, JobRow
    <3> QED BY <1>1, <3>0, <3>1, <3>2
  <2> QED BY <2>1, <2>2
<1>5. ASSUME NEW w \in Worker, NEW i \in Job, Miss(w, i) PROVE Right
  BY <1>1, <1>5 DEF Miss
<1>6. ASSUME NEW w \in Worker, Decides(w), w = v PROVE Right
  <2>1. CASE Succeed(w)
    <3>1. worker'[v].job = j /\ Busy(v)
      BY <1>0, <1>6, <2>1 DEF Succeed, Go, Slot, Busy
    <3>2. job'[j].status = "SUCCEEDED"
      BY <1>0, <1>6, <2>1, <3>1 DEF Succeed, JobRow
    <3> QED BY <3>1, <3>2
  <2>2. CASE Report(w)
    <3>1. worker'[v].pc = "mark"
      BY <1>0, <1>6, <2>2 DEF Report, Go, Slot
    <3> QED BY <3>1
  <2>3. CASE Ack(w) \/ Nack(w)
    <3>1. worker'[v].pc = "idle"
      BY <1>0, <1>6, <2>3 DEF Ack, Nack, IdleSlot
    <3> QED BY <3>1 DEF Busy
  <2> QED BY <1>6, <2>1, <2>2, <2>3 DEF Decides
<1>7. ASSUME NEW w \in Worker, Decides(w), w # v PROVE Right
  <2>1. worker'[v] = worker[v] /\ Busy(w) /\ Busy(v)
    BY <1>0, <1>7 DEF Decides, Succeed, Ack, Report, Nack, Go, Busy
  <2>2. worker[w].job # j
    BY <1>0, <1>7, <2>1
  <2>3. job'[j] = job[j]
    BY <1>0, <1>7, <2>1, <2>2 DEF Decides, Succeed, Ack, Report, Nack
  <2> QED BY <1>1, <2>1, <2>3
<1>8. ASSUME NEW w \in Worker, Onward(w) PROVE Right
  BY <1>0, <1>1, <1>8 DEF Onward, Busy
<1> HIDE DEF Right
<1>9. Right
  BY <1>1, <1>2, <1>3, <1>4, <1>5, <1>6, <1>7, <1>8, VerdictMoves, Spared DEF IInv
<1> QED BY <1>9 DEF Right

-----------------------------------------------------------------------------
(* The theorem. *)

\* Nothing is reported, and nothing delivered, in a system with no jobs.
LEMMA VInit ==
    ASSUME \A j \in Job : job[j] = FreeJob /\ entry[j] = NoEntry,
           \A w \in Worker : worker[w] = IdleSlot
    PROVE  VInv
<1>1. NoneLost /\ \A j \in Job : Sure(j)
  BY DEF NoneLost, Sure, NoEntry, FreeJob
<1>2. Reporting
  BY DEF Reporting, Busy, IdleSlot
<1> QED BY <1>1, <1>2 DEF VInv

\* Without crashes the three parts are inductive, on top of IInv.
LEMMA VStep == MaxCrashes = 0 /\ IInv /\ VInv /\ [Next]_vars => VInv'
<1>1. ASSUME MaxCrashes = 0, IInv, VInv, Next PROVE VInv'
  <2>1. (\A j \in Job : Sure(j))'
    BY <1>1, SureStep DEF Job
  <2> QED BY <1>1, <2>1, NoneLostStep, ReportingStep DEF VInv
<1>2. ASSUME VInv, UNCHANGED vars PROVE VInv'
  <2>1. job' = job /\ entry' = entry /\ worker' = worker
    BY <1>2 DEF vars
  <2>2. NoneLost' /\ Reporting'
    BY <1>2, <2>1 DEF VInv, NoneLost, Reporting, Holds, Busy, Job
  <2>3. (\A j \in Job : Sure(j))'
    BY <1>2, <2>1 DEF VInv, Sure, WillRetry, Job
  <2> QED BY <2>2, <2>3 DEF VInv
<1> QED BY <1>1, <1>2

\* As long as the worker process does not crash, a job whose row says FAILED is
\* delivered no more, and one whose row says RETRYING will be, unless a later
\* delivery never got as far as the row: the retry arithmetic of worker.ts and
\* the attempts jobs.ts asks of the queue agree, whatever fails.
THEOREM Verdicts == ASSUME MaxCrashes = 0 PROVE Spec => []VerdictsHold
<1>1. Init => VInv
  BY VInit DEF Init
<1>2. IInv /\ VInv /\ [Next]_vars => VInv'
  BY VStep
<1>3. VInv => VerdictsHold
  BY DEF VInv, Sure, VerdictsHold
<1> QED BY <1>1, <1>2, <1>3, Invariant, PTL DEF Spec

-----------------------------------------------------------------------------
(* Where no call fails, nothing the client waits for is lost.              *)

\* The queue has an entry that is not finished for a row that is not, one whose
\* transaction is open included.
Owed(j) ==
    /\ job[j].status \in {"OPEN", "QUEUED", "RUNNING", "RETRYING"}
    /\ job[j].type # "DELETE"
    /\ entry[j].stalls < 2
    => entry[j].state \in {"waiting", "active", "delayed"}

\* What the row says is settled before the queue is told: the verdict on a
\* failed attempt, or the success.
Settled(w) ==
    /\ Busy(w) /\ worker[w].pc \in {"mark", "nack"} =>
           \/ job[worker[w].job].status = "FAILED"
           \/ job[worker[w].job].status = "RETRYING" /\ WillRetry(worker[w].job)
    /\ Busy(w) /\ worker[w].pc \in {"settle", "ack"} =>
           job[worker[w].job].status = "SUCCEEDED"

LInv == (\A j \in Job : Owed(j)) /\ (\A w \in Worker : Settled(w))

\* A delivery before the commit leaves the entry in the queue, and so does each
\* step of the retries.
LEMMA OwedStep ==
    ASSUME IInv, LInv, Next, MaxFaults = 0, NEW j \in Job
    PROVE  Owed(j)'
<1>0. /\ entry \in [Job -> Entry] /\ job \in [Job -> JobRow] /\ worker \in [Worker -> Slot]
      /\ entry[j] \in Entry /\ job[j] \in JobRow
  BY DEF IInv, TypeOK
<1>a. entry[j].made \in Nat /\ entry[j].stalls \in Nat /\ ~Fault
  BY <1>0, Spared DEF Entry, IInv
<1>b. Owed(j)
  BY DEF LInv
<1>1. ASSUME entry'[j] = entry[j], job'[j] = job[j] PROVE Owed(j)'
  BY <1>b, <1>1 DEF Owed
<1>2. ASSUME NEW r \in Request, Inserts(r) PROVE Owed(j)'
  <2>1. EnqueueCreated(r) \/ Submit(r)
    BY <1>a, <1>2 DEF Inserts, EnqueueLost
  <2>2. \/ job'[j] = job[j] /\ entry'[j] = entry[j]
        \/ entry'[j].state = "waiting"
    <3>1. FreeJobs # {} => NewJob \in Job
      BY NewJobFree
    <3>2. CASE UNCHANGED <<job, entry>>
      BY <3>2
    <3>3. CASE ~UNCHANGED <<job, entry>>
      <4>1. /\ FreeJobs # {}
            /\ entry' = [entry EXCEPT ![NewJob] = [entry[NewJob] EXCEPT !.state = "waiting"]]
            /\ \E new : job' = [job EXCEPT ![NewJob] = new]
        BY <1>0, <2>1, <3>1, <3>3 DEF EnqueueCreated, Submit
      <4>2. j # NewJob => job'[j] = job[j] /\ entry'[j] = entry[j]
        BY <1>0, <3>1, <4>1
      <4>3. j = NewJob => entry'[j].state = "waiting"
        BY <1>0, <3>1, <4>1 DEF Entry
      <4> QED BY <4>2, <4>3
    <3> QED BY <3>2, <3>3
  <2> QED BY <1>1, <2>2 DEF Owed
<1>3. ASSUME NEW r \in Request, Commit(r) \/ Abort(r) PROVE Owed(j)'
  <2>1. job'[j].type = job[j].type
    BY <1>0, <1>3 DEF Commit, Abort, JobRow
  <2> QED BY <1>1, <1>3, <1>b, <2>1, ClosesOpen DEF Owed
<1>4. ASSUME NEW i \in Job, Promote(i) \/ Stall(i) PROVE Owed(j)'
  <2>1. job' = job /\ (i # j => entry'[j] = entry[j])
    BY <1>0, <1>4 DEF Promote, Stall
  <2>2. i = j => entry'[j].state = "waiting" \/ ~(entry'[j].stalls < 2)
    <3>1. CASE Promote(i)
      BY <1>0, <3>1 DEF Promote, Entry
    <3>2. CASE i = j /\ Stall(i)
      <4>1. entry'[j] = [entry[j] EXCEPT !.state = IF entry[j].stalls = 0 THEN "waiting"
                                                  ELSE "failed", !.stalls = @ + 1]
        BY <1>0, <3>2 DEF Stall
      <4>2. entry'[j] = [state |-> IF entry[j].stalls = 0 THEN "waiting" ELSE "failed",
                         made |-> entry[j].made, stalls |-> entry[j].stalls + 1]
        BY <1>0, <4>1 DEF Entry
      <4> QED BY <1>a, <4>2
    <3> QED BY <1>4, <3>1, <3>2
  <2> QED BY <1>1, <1>a, <2>1, <2>2 DEF Owed
<1>5. ASSUME NEW w \in Worker, NEW i \in Job, Take(w, i) PROVE Owed(j)'
  <2>1. i # j => entry'[j] = entry[j] /\ job'[j] = job[j]
    BY <1>0, <1>5 DEF Take
  <2>2. i = j => entry'[j].state = "active"
    BY <1>0, <1>5 DEF Take, Entry
  <2> QED BY <1>1, <2>1, <2>2 DEF Owed
<1>6. ASSUME NEW w \in Worker, NEW i \in Job, Miss(w, i) PROVE Owed(j)'
  <2>1. /\ ~Visible(i) /\ job' = job
        /\ job[i].status = "OPEN" => entry[i].made < 2
        /\ entry' = [entry EXCEPT ![i] = AfterFailure(entry[i], job[i].type)]
    BY <1>6, <1>a DEF Miss
  <2>2. i # j => entry'[j] = entry[j]
    BY <1>0, <2>1
  <2>3. CASE i = j /\ job[j].status = "OPEN" /\ job[j].type # "DELETE"
    <3>1. maxAttempts(job[j].type) = 3 /\ entry'[j] = AfterFailure(entry[j], job[j].type)
      BY <1>0, <2>1, <2>3 DEF maxAttempts
    <3>2. entry'[j].state = "delayed"
      BY <1>0, <1>a, <2>1, <2>3, <3>1 DEF AfterFailure, QueueAttempts, Entry
    <3> QED BY <3>2 DEF Owed
  <2> QED BY <1>1, <2>1, <2>2, <2>3 DEF Owed, Visible
<1>7. ASSUME NEW w \in Worker, Decides(w), worker[w].job # j PROVE Owed(j)'
  BY <1>0, <1>1, <1>7 DEF Decides, Succeed, Ack, Report, Nack
<1>8. ASSUME NEW w \in Worker, Decides(w), worker[w].job = j PROVE Owed(j)'
  <2>0. entry[j].state = "active" /\ Busy(w) /\ Settled(w)
    BY <1>8 DEF Decides, Succeed, Ack, Report, Nack, Busy, IInv, SlotsFormed, LInv
  <2>1. CASE Succeed(w)
    <3>1. job'[j].status = "SUCCEEDED"
      BY <1>0, <1>8, <2>1 DEF Succeed, JobRow
    <3> QED BY <3>1 DEF Owed
  <2>2. CASE Ack(w)
    BY <1>8, <2>0, <2>2 DEF Ack, Settled, Owed
  <2>3. CASE Report(w)
    BY <2>0, <2>3 DEF Report, Owed
  <2>4. CASE Nack(w)
    <3>1. job'[j] = job[j] /\ entry'[j] = AfterFailure(entry[j], job[j].type)
      BY <1>0, <1>8, <2>4 DEF Nack
    <3>2. job[j].status = "FAILED" \/ WillRetry(j)
      BY <1>8, <2>0, <2>4 DEF Nack, Settled
    <3>3. WillRetry(j) => entry'[j].state = "delayed"
      BY <1>0, <3>1 DEF AfterFailure, Entry, WillRetry, QueueAttempts
    <3> QED BY <3>1, <3>2, <3>3 DEF Owed
  <2> QED BY <1>8, <2>1, <2>2, <2>3, <2>4 DEF Decides
<1>9. ASSUME NEW w \in Worker, Onward(w) PROVE Owed(j)'
  BY <1>1, <1>9 DEF Onward
<1>10. ASSUME Crash PROVE Owed(j)'
  BY <1>1, <1>10 DEF Crash
<1> QED BY <1>1, <1>2, <1>3, <1>4, <1>5, <1>6, <1>7, <1>8, <1>9, <1>10, VerdictMoves

\* A slot comes to the end of its handler by way of the row, and nobody else
\* touches the row of a job it holds.
LEMMA SettledStep ==
    ASSUME IInv, LInv, Next, MaxFaults = 0, NEW v \in Worker
    PROVE  Settled(v)'
<1> DEFINE j == worker[v].job
<1>0. /\ job \in [Job -> JobRow] /\ worker \in [Worker -> Slot] /\ entry \in [Job -> Entry]
      /\ Busy(v) => j \in Job /\ Visible(j) /\ entry[j].state = "active"
      /\ Busy(v) => \A w \in Worker : Busy(w) /\ w # v => worker[w].job # j
      /\ Settled(v) /\ ~Fault
  BY Spared DEF IInv, TypeOK, SlotsFormed, Equipped, LInv
<1>1. ASSUME worker'[v] = worker[v], Busy(v) => job'[j] = job[j] /\ entry'[j] = entry[j]
      PROVE  Settled(v)'
  BY <1>0, <1>1 DEF Settled, Busy, WillRetry
<1>2. ASSUME NEW r \in Request, Inserts(r) \/ Commit(r) \/ Abort(r) PROVE Settled(v)'
  <2>1. UNCHANGED worker
    BY <1>2 DEF Inserts, EnqueueCreated, EnqueueLost, Submit, Commit, Abort
  <2>2. Busy(v) => job'[j] = job[j] /\ entry'[j] = entry[j]
    BY <1>0, <1>2, InsertsNew, ClosesOpen DEF Visible
  <2> QED BY <1>1, <2>1, <2>2
<1>3. ASSUME NEW i \in Job, Promote(i) \/ Stall(i) PROVE Settled(v)'
  <2>1. Busy(v) => i # j
    BY <1>0, <1>3 DEF Promote, Stall, Holds, Busy
  <2>2. UNCHANGED <<worker, job>> /\ (Busy(v) => entry'[j] = entry[j])
    BY <1>0, <1>3, <2>1 DEF Promote, Stall
  <2> QED BY <1>1, <2>2
<1>4. ASSUME NEW w \in Worker, NEW i \in Job, Take(w, i) PROVE Settled(v)'
  <2>1. CASE w = v
    <3>1. worker'[v].pc \notin {"mark", "nack", "settle", "ack"}
      BY <1>0, <1>4, <2>1 DEF Take, FirstStep
    <3> QED BY <3>1 DEF Settled
  <2>2. CASE w # v
    BY <1>0, <1>1, <1>4, <2>2 DEF Take
  <2> QED BY <2>1, <2>2
<1>5. ASSUME NEW w \in Worker, NEW i \in Job, Miss(w, i) PROVE Settled(v)'
  BY <1>0, <1>1, <1>5 DEF Miss
<1>6. ASSUME NEW w \in Worker, Decides(w), w = v PROVE Settled(v)'
  <2>1. CASE Succeed(w)
    <3>1. worker'[v].job = j /\ worker'[v].pc \in {"settle", "ack"} /\ Busy(v)
      BY <1>0, <1>6, <2>1 DEF Succeed, Go, Slot, Busy
    <3>2. job'[j].status = "SUCCEEDED"
      BY <1>0, <1>6, <2>1, <3>1 DEF Succeed, JobRow
    <3> QED BY <3>1, <3>2 DEF Settled
  <2>2. CASE Report(w)
    <3>1. worker'[v].job = j /\ worker'[v].pc = "mark" /\ Busy(v) /\ entry' = entry
      BY <1>0, <1>6, <2>2 DEF Report, Go, Slot, Busy
    <3>2. /\ job'[j].status = IF WillRetry(j) THEN "RETRYING" ELSE "FAILED"
          /\ job'[j].type = job[j].type
      BY <1>0, <1>6, <2>2, <3>1 DEF Report, JobRow
    <3>3. WillRetry(j)' <=> WillRetry(j)
      BY <3>1, <3>2 DEF WillRetry
    <3> QED BY <3>1, <3>2, <3>3 DEF Settled, WillRetry
  <2>3. CASE Ack(w) \/ Nack(w)
    <3>1. worker'[v].pc = "idle"
      BY <1>0, <1>6, <2>3 DEF Ack, Nack, IdleSlot
    <3> QED BY <3>1 DEF Settled
  <2> QED BY <1>6, <2>1, <2>2, <2>3 DEF Decides
<1>7. ASSUME NEW w \in Worker, Decides(w), w # v PROVE Settled(v)'
  <2>1. worker'[v] = worker[v] /\ Busy(w)
    BY <1>0, <1>7 DEF Decides, Succeed, Ack, Report, Nack, Go, Busy
  <2>2. Busy(v) => worker[w].job # j
    BY <1>0, <1>7, <2>1
  <2>3. Busy(v) => job'[j] = job[j] /\ entry'[j] = entry[j]
    BY <1>0, <1>7, <2>2 DEF Decides, Succeed, Ack, Report, Nack
  <2> QED BY <1>1, <2>1, <2>3
<1>8. ASSUME NEW w \in Worker, Onward(w) PROVE Settled(v)'
  <2>1. CASE w = v
    BY <1>0, <1>8, <2>1 DEF Onward, Settled, Busy, WillRetry
  <2>2. CASE w # v
    BY <1>1, <1>8, <2>2 DEF Onward
  <2> QED BY <2>1, <2>2
<1>9. ASSUME Crash PROVE Settled(v)'
  BY <1>9 DEF Crash, Settled, IdleSlot
<1>10. ASSUME UNCHANGED <<job, entry, worker>> PROVE Settled(v)'
  BY <1>1, <1>10
<1> QED BY <1>2, <1>3, <1>4, <1>5, <1>6, <1>7, <1>8, <1>9, <1>10, VerdictMoves

\* Nothing is owed in a system with no jobs.
LEMMA LInit ==
    ASSUME \A j \in Job : job[j] = FreeJob /\ entry[j] = NoEntry,
           \A w \in Worker : worker[w] = IdleSlot
    PROVE  LInv
  BY DEF LInv, Owed, Settled, Busy, FreeJob, IdleSlot

\* Where no call fails the two parts are inductive, on top of IInv.
LEMMA LStep == MaxFaults = 0 /\ IInv /\ LInv /\ [Next]_vars => LInv'
<1>1. ASSUME MaxFaults = 0, IInv, LInv, Next PROVE LInv'
  <2>1. (\A j \in Job : Owed(j))'
    BY <1>1, OwedStep DEF Job
  <2> QED BY <1>1, <2>1, SettledStep DEF LInv
<1>2. ASSUME LInv, UNCHANGED vars PROVE LInv'
  BY <1>2 DEF vars, LInv, Owed, Settled, Busy, WillRetry, Job
<1> QED BY <1>1, <1>2

\* Where no call fails, a job that is QUEUED, RUNNING or RETRYING is one the
\* queue has yet to finish, however often the worker process dies, however many
\* slots take deliveries and however long a transaction stays open, unless the
\* entry has stalled twice or is a deletion: the attempts jobs.ts asks of the
\* queue outlast the deliveries made before the commit.
THEOREM Undropped == ASSUME MaxFaults = 0 PROVE Spec => []NothingLost
<1>1. Init => LInv
  BY LInit DEF Init
<1>2. IInv /\ LInv /\ [Next]_vars => LInv'
  BY LStep
<1>3. LInv => NothingLost
  BY DEF LInv, Owed, NothingLost
<1> QED BY <1>1, <1>2, <1>3, Invariant, PTL DEF Spec
=============================================================================
