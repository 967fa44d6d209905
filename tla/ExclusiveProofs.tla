-------------------------- MODULE ExclusiveProofs --------------------------
(***************************************************************************)
(* Where nothing fails and no reconciliation pass is made, operations on a *)
(* computer exclude one another and a computer at rest is what its row     *)
(* says: for every number of computers, slots, handlers and jobs. It is    *)
(* the setting of the run LifecycleExclusive.                              *)
(***************************************************************************)
EXTENDS VerdictProofs, MCLifecycle

\* The operations that no pass follows.
QuietActions == {"start", "restart", "suspend", "resume"}
QuietTypes   == {"START", "RESTART", "SUSPEND", "RESUME"}

Calm ==
    /\ MaxFaults = 0
    /\ MaxCrashes = 0
    /\ TimerOn = FALSE
    /\ Actions \subseteq QuietActions

\* The statuses in which none of them is accepted.
Blocked == {"STARTING", "REBOOTING", "SUSPENDING", "ERROR"}

\* A job that still has a provider call or the row's status to make.
Pending(j) ==
    /\ job[j].status \in {"OPEN", "QUEUED", "RUNNING", "RETRYING"}
    /\ \A w \in Worker : Holds(w, j) => worker[w].pc \notin {"succeed", "settle", "ack"}

-----------------------------------------------------------------------------
(* The inductive invariant, part by part. *)

RowsPlaced ==
    \A c \in Computer :
        /\ row[c].hostId \in Host
        /\ row[c].instance # None
        /\ row[c].status \in {"RUNNING", "SUSPENDED"} \cup Blocked

RequestsQuiet ==
    \A r \in Request :
        /\ request[r].pc \in {"idle", "read", "open"}
        /\ request[r].pc # "idle" => request[r].action \in QuietActions

\* An open job row has a transaction that will close it, and one that is done
\* is not delivered again.
JobsQuiet ==
    \A j \in Job :
        /\ job[j].status # "FREE" => job[j].type \in QuietTypes
        /\ job[j].status = "OPEN" =>
               \E r \in Request : request[r].pc = "open" /\ request[r].job = j
        /\ job[j].status = "SUCCEEDED" => entry[j].state \in {"active", "completed"}

PassesOff == \A p \in Pass : pass[p].pc = "off"

\* A handler carries out the job it has read, and the job row says how far it is.
SlotsQuiet ==
    \A w \in Worker : Busy(w) =>
        LET s == worker[w] IN
        /\ s.type = job[s.job].type
        /\ s.host = row[Of(w)].hostId
        /\ s.status = "ERROR"
        /\ \/ s.pc \in {"operate", "finish", "succeed", "report"} /\ job[s.job].status = "RUNNING"
           \/ s.pc = "ack" /\ job[s.job].status = "SUCCEEDED"
           \/ s.pc \in {"mark", "nack"} /\ job[s.job].status \in {"RETRYING", "FAILED"}

OneJob ==
    \A j, k \in Job :
        Pending(j) /\ Pending(k) /\ job[j].computer = job[k].computer => j = k

\* The row of an accepted job refuses others until the job has written it.
Waits ==
    \A j \in Job : Pending(j) /\ Visible(j) => row[job[j].computer].status \in Blocked

\* The container is up, and paused if the row says so or is about to.
BoxesKept ==
    /\ \A c \in Computer :
          LET state == box[row[c].hostId][c].state IN
          /\ state \in {"running", "paused"}
          /\ row[c].status = "SUSPENDED" => state = "paused"
    /\ \A w \in Worker :
          worker[w].pc = "finish" /\ worker[w].type = "SUSPEND" =>
              box[worker[w].host][Of(w)].state = "paused"

EInv ==
    /\ IInv
    /\ VInv
    /\ RowsPlaced
    /\ RequestsQuiet
    /\ JobsQuiet
    /\ PassesOff
    /\ SlotsQuiet
    /\ OneJob
    /\ Waits
    /\ BoxesKept

-----------------------------------------------------------------------------
(* The steps there are. *)

\* No other action is possible.
LEMMA CalmMoves ==
    ASSUME EInv, Next, Calm
    PROVE  \/ \E r \in Request :
                 \/ \E c \in Computer, a \in Actions, k \in Key \cup {None} : ReadRow(r, c, a, k)
                 \/ Submit(r) \/ Commit(r) \/ Replay(r) \/ Reject(r)
           \/ \E j \in Job : Promote(j)
           \/ \E w \in Worker, j \in Job : Take(w, j) \/ Miss(w, j)
           \/ \E w \in Worker : Operate(w) \/ Finish(w) \/ Mark(w) \/ Decides(w)
<1>0. faults \in Nat /\ crashes \in Nat
  BY DEF EInv, IInv, TypeOK
<1>1. ~Fault /\ ~Crash
  BY <1>0 DEF Calm, Fault, Crash
<1>2. ASSUME NEW r \in Request, ApiStep(r)
      PROVE  \/ \E c \in Computer, a \in Actions, k \in Key \cup {None} : ReadRow(r, c, a, k)
             \/ Submit(r) \/ Commit(r) \/ Replay(r) \/ Reject(r)
  <2>1. ASSUME NEW c \in Computer, NEW k \in Key \cup {None}, CheckQuota(r, c, k) PROVE FALSE
    BY <2>1 DEF CheckQuota, EInv, RowsPlaced, Blocked
  <2>2. ~CreateRow(r) /\ ~EnqueueCreated(r) /\ ~EnqueueLost(r) /\ ~Abort(r)
    BY <1>1 DEF CreateRow, EnqueueCreated, EnqueueLost, Abort, EInv, RequestsQuiet
  <2> QED BY <1>2, <2>1, <2>2 DEF ApiStep
<1>3. ASSUME NEW j \in Job, Stall(j) PROVE FALSE
  BY <1>3 DEF Stall, EInv, VInv, NoneLost
<1>4. ASSUME NEW w \in Worker, WorkerStep(w)
      PROVE  \/ \E j \in Job : Take(w, j) \/ Miss(w, j)
             \/ Operate(w) \/ Finish(w) \/ Mark(w) \/ Decides(w)
  <2>1. ~Schedule(w) /\ ~Reserve(w) /\ ~Release(w) /\ ~Create(w) /\ ~Record(w)
    BY DEF Schedule, Reserve, Release, Create, Record, EInv, SlotsQuiet, Busy
  <2>2. ~Fail(w) /\ ~FailTwice(w)
    BY <1>1 DEF Fail, FailTwice, Calm
  <2> QED BY <1>4, <2>1, <2>2 DEF WorkerStep, Decides
<1>5. ASSUME NEW p \in Pass, PassStep(p) PROVE FALSE
  <2>1. pass[p].pc = "off" /\ ReadComputers(p)
    BY <1>5 DEF PassStep, Inspect, InspectFails, Write, CheckHosts, Tally, Correct, EndPass,
                EInv, PassesOff
  <2>2. p \in Worker /\ worker[p].pc = "settle"
    BY <2>1 DEF ReadComputers, Calm, Pass
  <2> QED BY <2>2 DEF EInv, SlotsQuiet, Busy
<1>6. ASSUME NEW h \in Host, NEW c \in Computer, Exit(h, c) PROVE FALSE
  BY <1>1, <1>6 DEF Exit
<1> QED BY <1>1, <1>2, <1>3, <1>4, <1>5, <1>6 DEF Next

\* What a step does to a computer's row.
LEMMA RowMoves ==
    ASSUME EInv, Next, Calm, NEW c \in Computer
    PROVE  /\ row'[c].hostId = row[c].hostId /\ row'[c].instance = row[c].instance
           /\ \/ row'[c].status = row[c].status
              \/ row'[c].status \in Blocked
              \/ \E w \in Worker : Finish(w) /\ Of(w) = c /\ row'[c].status = finalStatus[worker[w].type]
<1> DEFINE Moves == /\ row'[c].hostId = row[c].hostId /\ row'[c].instance = row[c].instance
                    /\ \/ row'[c].status = row[c].status
                       \/ row'[c].status \in Blocked
                       \/ \E w \in Worker : /\ Finish(w) /\ Of(w) = c
                                            /\ row'[c].status = finalStatus[worker[w].type]
<1>0. row \in [Computer -> Row] /\ row[c] \in Row
  BY DEF EInv, IInv, TypeOK
<1>1. ASSUME UNCHANGED row PROVE Moves
  BY <1>1
<1>2. ASSUME NEW r \in Request, Commit(r) \/ Replay(r) PROVE Moves
  <2>1. row' = [row EXCEPT ![request[r].computer] = Moved(r)]
    BY <1>2 DEF Commit, Replay
  <2>2. To[request[r].action] \in Blocked
    BY <1>2 DEF Commit, Replay, EInv, RequestsQuiet, QuietActions, To, Blocked
  <2>3. c = request[r].computer =>
            /\ row'[c].hostId = row[c].hostId /\ row'[c].instance = row[c].instance
            /\ row'[c].status = To[request[r].action]
    BY <1>0, <2>1 DEF Moved, Updated, Row
  <2>4. c # request[r].computer => row'[c] = row[c]
    BY <1>0, <2>1
  <2> QED BY <2>2, <2>3, <2>4
<1>3. ASSUME NEW w \in Worker, Finish(w) PROVE Moves
  <2>1. row' = [row EXCEPT ![Of(w)] =
            [Updated(row[Of(w)], finalStatus[worker[w].type]) EXCEPT
                !.deleted = row[Of(w)].deleted \/ finalStatus[worker[w].type] = "DELETED"]]
    BY <1>3 DEF Finish
  <2>2. c = Of(w) =>
            /\ row'[c].hostId = row[c].hostId /\ row'[c].instance = row[c].instance
            /\ row'[c].status = finalStatus[worker[w].type]
    BY <1>0, <2>1 DEF Updated, Row
  <2>3. c # Of(w) => row'[c] = row[c]
    BY <1>0, <2>1
  <2> QED BY <1>3, <2>2, <2>3
<1>4. ASSUME NEW w \in Worker, Mark(w) PROVE Moves
  <2>1. row' = [row EXCEPT ![Of(w)] = Updated(row[Of(w)], worker[w].status)]
    BY <1>4 DEF Mark
  <2>2. worker[w].status = "ERROR"
    BY <1>4 DEF Mark, EInv, SlotsQuiet, Busy
  <2>3. c = Of(w) =>
            /\ row'[c].hostId = row[c].hostId /\ row'[c].instance = row[c].instance
            /\ row'[c].status = "ERROR"
    BY <1>0, <2>1, <2>2 DEF Updated, Row
  <2>4. c # Of(w) => row'[c] = row[c]
    BY <1>0, <2>1
  <2> QED BY <2>3, <2>4 DEF Blocked
<1>5. ASSUME NEW r \in Request PROVE /\ Submit(r) \/ Reject(r) => UNCHANGED row
                                     /\ \A d \in Computer, a \in Actions, k \in Key \cup {None} :
                                            ReadRow(r, d, a, k) => UNCHANGED row
  BY DEF Submit, Reject, ReadRow
<1>6. ASSUME NEW w \in Worker PROVE /\ Operate(w) \/ Decides(w) => UNCHANGED row
                                    /\ \A j \in Job : Take(w, j) \/ Miss(w, j) => UNCHANGED row
  BY DEF Operate, Decides, Succeed, Ack, Report, Nack, Take, Miss
<1>7. ASSUME NEW j \in Job, Promote(j) PROVE UNCHANGED row
  BY <1>7 DEF Promote
<1> HIDE DEF Moves
<1>8. Moves
  BY <1>1, <1>2, <1>3, <1>4, <1>5, <1>6, <1>7, CalmMoves
<1> QED BY <1>8 DEF Moves

\* What a step does to a job: it is opened or closed, or it is in the hands of
\* the slot that moves it on.
LEMMA JobMoves ==
    ASSUME EInv, Next, Calm, NEW j \in Job
    PROVE  \/ job'[j] = job[j]
           \/ /\ j = NewJob /\ job[j].status = "FREE" /\ job'[j].status = "OPEN"
              /\ \E r \in Request :
                    /\ Submit(r) /\ request'[r].pc = "open" /\ request'[r].job = j
                    /\ job'[j].computer = request[r].computer
                    /\ job'[j].type = jobType[request[r].action]
           \/ /\ job'[j].computer = job[j].computer /\ job'[j].type = job[j].type
              /\ \/ /\ job[j].status = "OPEN" /\ job'[j].status = "QUEUED"
                    /\ \E r \in Request : Commit(r) /\ request[r].job = j
                 \/ job'[j].status = "RUNNING" /\ \E w \in Worker : Take(w, j)
                 \/ \E w \in Worker :
                       /\ worker[w].job = j
                       /\ \/ Succeed(w) /\ job'[j].status = "SUCCEEDED"
                          \/ Report(w) /\ job'[j].status \in {"RETRYING", "FAILED"}
<1> DEFINE Moves ==
           \/ job'[j] = job[j]
           \/ /\ j = NewJob /\ job[j].status = "FREE" /\ job'[j].status = "OPEN"
              /\ \E r \in Request :
                    /\ Submit(r) /\ request'[r].pc = "open" /\ request'[r].job = j
                    /\ job'[j].computer = request[r].computer
                    /\ job'[j].type = jobType[request[r].action]
           \/ /\ job'[j].computer = job[j].computer /\ job'[j].type = job[j].type
              /\ \/ /\ job[j].status = "OPEN" /\ job'[j].status = "QUEUED"
                    /\ \E r \in Request : Commit(r) /\ request[r].job = j
                 \/ job'[j].status = "RUNNING" /\ \E w \in Worker : Take(w, j)
                 \/ \E w \in Worker :
                       /\ worker[w].job = j
                       /\ \/ Succeed(w) /\ job'[j].status = "SUCCEEDED"
                          \/ Report(w) /\ job'[j].status \in {"RETRYING", "FAILED"}
<1>0. job \in [Job -> JobRow] /\ job[j] \in JobRow /\ request \in [Request -> Handler]
  BY DEF EInv, IInv, TypeOK
<1>1. ASSUME UNCHANGED job PROVE Moves
  BY <1>1
<1>2. ASSUME NEW r \in Request, Submit(r) PROVE Moves
  <2>1. /\ NewJob \in Job /\ job[NewJob].status = "FREE"
        /\ job' = [job EXCEPT ![NewJob] =
               NewRow(request[r].computer, jobType[request[r].action], request[r].key, "OPEN")]
        /\ request' = [request EXCEPT ![r] = [request[r] EXCEPT !.pc = "open", !.job = NewJob]]
    BY <1>2, NewJobFree DEF Submit
  <2>2. request'[r].pc = "open" /\ request'[r].job = NewJob
    BY <1>0, <2>1 DEF Handler
  <2>3. CASE j = NewJob
    <3>1. job'[j] = NewRow(request[r].computer, jobType[request[r].action], request[r].key, "OPEN")
      BY <1>0, <2>1, <2>3
    <3>2. /\ job'[j].status = "OPEN" /\ job'[j].computer = request[r].computer
          /\ job'[j].type = jobType[request[r].action]
      BY <3>1 DEF NewRow
    <3> QED BY <1>2, <2>1, <2>2, <2>3, <3>2
  <2>4. CASE j # NewJob
    BY <1>0, <2>1, <2>4
  <2> QED BY <2>3, <2>4
<1>3. ASSUME NEW r \in Request, Commit(r) PROVE Moves
  <2>1. /\ job[request[r].job].status = "OPEN"
        /\ job' = [job EXCEPT ![request[r].job] = [job[request[r].job] EXCEPT !.status = "QUEUED"]]
    BY <1>3 DEF Commit, EInv, IInv, TransactionsFormed
  <2>2. CASE j = request[r].job
    <3>1. /\ job'[j].status = "QUEUED" /\ job'[j].computer = job[j].computer
          /\ job'[j].type = job[j].type
      BY <1>0, <2>1, <2>2 DEF JobRow
    <3> QED BY <1>3, <2>1, <2>2, <3>1
  <2>3. CASE j # request[r].job
    BY <1>0, <2>1, <2>3
  <2> QED BY <2>2, <2>3
<1>4. ASSUME NEW w \in Worker, NEW i \in Job, Take(w, i) PROVE Moves
  <2>1. job' = [job EXCEPT ![i] = [job[i] EXCEPT !.status = "RUNNING",
                                                 !.attempts = job[i].attempts + 1]]
    BY <1>0, <1>4 DEF Take
  <2>2. CASE j = i
    <3>1. /\ job'[j].status = "RUNNING" /\ job'[j].computer = job[j].computer
          /\ job'[j].type = job[j].type
      BY <1>0, <2>1, <2>2 DEF JobRow
    <3> QED BY <1>4, <2>2, <3>1
  <2>3. CASE j # i
    BY <1>0, <2>1, <2>3
  <2> QED BY <2>2, <2>3
<1>5. ASSUME NEW w \in Worker, NEW status,
             job' = [job EXCEPT ![worker[w].job] = [job[worker[w].job] EXCEPT !.status = status]],
             \/ Succeed(w) /\ status = "SUCCEEDED"
             \/ Report(w) /\ status \in {"RETRYING", "FAILED"}
      PROVE  Moves
  <2>1. CASE j = worker[w].job
    <3>1. /\ job'[j].status = status /\ job'[j].computer = job[j].computer
          /\ job'[j].type = job[j].type
      BY <1>0, <1>5, <2>1 DEF JobRow
    <3> QED BY <1>5, <2>1, <3>1
  <2>2. CASE j # worker[w].job
    BY <1>0, <1>5, <2>2
  <2> QED BY <2>1, <2>2
<1>a. ASSUME NEW w \in Worker, Succeed(w) PROVE Moves
  BY <1>5, <1>a DEF Succeed
<1>b. ASSUME NEW w \in Worker, Report(w) PROVE Moves
  BY <1>5, <1>b DEF Report
<1>6. ASSUME NEW r \in Request PROVE /\ Replay(r) \/ Reject(r) => UNCHANGED job
                                     /\ \A c \in Computer, a \in Actions, k \in Key \cup {None} :
                                            ReadRow(r, c, a, k) => UNCHANGED job
  BY DEF Replay, Reject, ReadRow
<1>7. ASSUME NEW w \in Worker PROVE /\ Operate(w) \/ Finish(w) \/ Mark(w) => UNCHANGED job
                                    /\ Ack(w) \/ Nack(w) => UNCHANGED job
                                    /\ \A i \in Job : Miss(w, i) => UNCHANGED job
  BY DEF Operate, Finish, Mark, Ack, Nack, Miss
<1>8. ASSUME NEW i \in Job, Promote(i) PROVE UNCHANGED job
  BY <1>8 DEF Promote
<1> HIDE DEF Moves
<1>9. Moves
  BY <1>1, <1>2, <1>3, <1>4, <1>a, <1>b, <1>6, <1>7, <1>8, CalmMoves DEF Decides
<1> QED BY <1>9 DEF Moves

\* A slot takes a job, gives it back, or moves on with the job it has.
LEMMA HandMoves ==
    ASSUME EInv, Next, Calm, NEW w \in Worker
    PROVE  \/ worker'[w] = worker[w]
           \/ (Ack(w) \/ Nack(w)) /\ worker'[w].pc = "idle"
           \/ \E j \in Job :
                 /\ Take(w, j) /\ worker'[w].pc = "operate" /\ worker'[w].job = j
                 /\ worker'[w].type = job[j].type
                 /\ worker'[w].host = row[job[j].computer].hostId
                 /\ worker'[w].status = "ERROR"
           \/ /\ Busy(w)
              /\ worker'[w].job = worker[w].job /\ worker'[w].type = worker[w].type
              /\ worker'[w].host = worker[w].host /\ worker'[w].status = "ERROR"
              /\ \/ Operate(w) /\ worker'[w].pc \in {"finish", "report"}
                 \/ Finish(w) /\ worker'[w].pc = "succeed"
                 \/ Succeed(w) /\ worker'[w].pc = "ack"
                 \/ Report(w) /\ worker'[w].pc = "mark"
                 \/ Mark(w) /\ worker'[w].pc = "nack"
<1> DEFINE S == worker[w]
           Goes(pc) == /\ worker'[w].job = S.job /\ worker'[w].type = S.type
                       /\ worker'[w].host = S.host /\ worker'[w].status = "ERROR"
                       /\ worker'[w].pc = pc
           Moves == \/ worker'[w] = S
                    \/ (Ack(w) \/ Nack(w)) /\ worker'[w].pc = "idle"
                    \/ \E j \in Job :
                          /\ Take(w, j) /\ worker'[w].pc = "operate" /\ worker'[w].job = j
                          /\ worker'[w].type = job[j].type
                          /\ worker'[w].host = row[job[j].computer].hostId
                          /\ worker'[w].status = "ERROR"
                    \/ /\ Busy(w)
                       /\ worker'[w].job = S.job /\ worker'[w].type = S.type
                       /\ worker'[w].host = S.host /\ worker'[w].status = "ERROR"
                       /\ \/ Operate(w) /\ worker'[w].pc \in {"finish", "report"}
                          \/ Finish(w) /\ worker'[w].pc = "succeed"
                          \/ Succeed(w) /\ worker'[w].pc = "ack"
                          \/ Report(w) /\ worker'[w].pc = "mark"
                          \/ Mark(w) /\ worker'[w].pc = "nack"
<1>0. /\ worker \in [Worker -> Slot] /\ S \in Slot
      /\ Busy(w) => /\ S.status = "ERROR" /\ S.type = job[S.job].type
                    /\ job[S.job].type \in QuietTypes
  BY DEF EInv, IInv, TypeOK, SlotsQuiet, SlotsFormed, JobsQuiet, Equipped, Visible
<1>1. ASSUME UNCHANGED worker PROVE Moves
  BY <1>1
<1>2. ASSUME NEW v \in Worker, v # w,
             \/ \E j \in Job : Take(v, j)
             \/ Operate(v) \/ Finish(v) \/ Mark(v) \/ Decides(v)
      PROVE  worker'[w] = S
  BY <1>0, <1>2 DEF Take, Operate, Finish, Mark, Decides, Succeed, Ack, Report, Nack, Go
<1>3. ASSUME NEW pc, Go(w, pc), Busy(w) PROVE Goes(pc)
  BY <1>0, <1>3 DEF Go, Slot
<1>4. ASSUME Operate(w) PROVE Moves
  <2>1. Busy(w)
    BY <1>4 DEF Operate, Busy
  <2>2. CASE Go(w, "finish")
    BY <1>3, <1>4, <2>1, <2>2
  <2>3. CASE worker' = [worker EXCEPT ![w].pc = "report", ![w].status = "ERROR"]
    <3>1. Goes("report")
      BY <1>0, <2>1, <2>3 DEF Slot
    <3> QED BY <1>4, <2>1, <3>1
  <2> QED BY <1>4, <2>2, <2>3 DEF Operate
<1>5. ASSUME Finish(w) PROVE Moves
  BY <1>3, <1>5 DEF Finish, Busy
<1>6. ASSUME Mark(w) PROVE Moves
  BY <1>3, <1>6 DEF Mark, Busy
<1>7. ASSUME Succeed(w) PROVE Moves
  <2>1. Busy(w)
    BY <1>7 DEF Succeed, Busy
  <2>2. S.type \notin {"STOP", "DELETE", "PROVISION"}
    BY <1>0, <2>1 DEF QuietTypes
  <2>3. Go(w, "ack")
    BY <1>7, <2>2 DEF Succeed
  <2> QED BY <1>3, <1>7, <2>1, <2>3
<1>8. ASSUME Report(w) PROVE Moves
  BY <1>3, <1>8 DEF Report, Busy
<1>9. ASSUME Ack(w) \/ Nack(w) PROVE Moves
  BY <1>0, <1>9 DEF Ack, Nack, IdleSlot
<1>10. ASSUME NEW j \in Job, Take(w, j) PROVE Moves
  <2> DEFINE c == job[j].computer
  <2>1. c \in Computer /\ job[j].type \in QuietTypes
    BY <1>10 DEF Take, Visible, EInv, IInv, JobsFormed, JobsQuiet
  <2>2. /\ row[c].hostId \in Host /\ row[c].hostId # None /\ row[c].instance # None
    BY <2>1, ConstantsAssumption DEF EInv, RowsPlaced, ConstantsAssumption
  <2>3. effectiveType(job[j].type, row[c].instance) = job[j].type
    BY <2>2 DEF effectiveType
  <2>4. FirstStep(job[j].type, row[c].hostId, row[c].instance) = "operate"
    BY <2>1, <2>2 DEF FirstStep, QuietTypes
  <2>5. worker'[w] = [pc |-> "operate", job |-> j, type |-> job[j].type,
                      host |-> row[c].hostId, instance |-> row[c].instance, status |-> "ERROR"]
    BY <1>0, <1>10, <2>2, <2>3, <2>4 DEF Take
  <2> QED BY <1>10, <2>5
<1>11. ASSUME NEW r \in Request PROVE /\ Submit(r) \/ Commit(r) \/ Replay(r) \/ Reject(r) =>
                                             UNCHANGED worker
                                      /\ \A c \in Computer, a \in Actions, k \in Key \cup {None} :
                                             ReadRow(r, c, a, k) => UNCHANGED worker
  BY DEF Submit, Commit, Replay, Reject, ReadRow
<1>12. ASSUME NEW v \in Worker, NEW j \in Job PROVE Miss(v, j) \/ Promote(j) => UNCHANGED worker
  BY DEF Miss, Promote
<1>13. ASSUME NEW j \in Job PROVE Promote(j) => UNCHANGED worker
  BY DEF Promote
<1> HIDE DEF Moves
<1>14. worker'[w] = S => Moves
  BY DEF Moves
<1> HIDE DEF S
<1>15. Moves
  BY <1>1, <1>2, <1>4, <1>5, <1>6, <1>7, <1>8, <1>9, <1>10, <1>11, <1>12, <1>13, <1>14,
     CalmMoves DEF Decides
<1> QED BY <1>15 DEF Moves, S

\* The job in a handler's hands, up to its last write of the row, is pending.
LEMMA HeldPending ==
    ASSUME EInv, NEW w \in Worker, worker[w].pc \in {"operate", "finish", "report"}
    PROVE  /\ worker[w].job \in Job /\ Visible(worker[w].job) /\ Pending(worker[w].job)
           /\ Of(w) = job[worker[w].job].computer /\ Of(w) \in Computer
           /\ worker[w].host = row[Of(w)].hostId
           /\ worker[w].type \in QuietTypes
<1>1. Busy(w)
  BY DEF Busy
<1>2. /\ worker[w].job \in Job /\ Visible(worker[w].job)
      /\ \A v \in Worker : Busy(v) /\ v # w => worker[v].job # worker[w].job
  BY <1>1 DEF EInv, IInv, SlotsFormed, Equipped
<1>3. /\ job[worker[w].job].status = "RUNNING" /\ worker[w].type = job[worker[w].job].type
      /\ worker[w].host = row[Of(w)].hostId
  BY <1>1 DEF EInv, SlotsQuiet
<1>4. Pending(worker[w].job)
  BY <1>2, <1>3 DEF Pending, Holds, Busy
<1> QED BY <1>2, <1>3, <1>4 DEF EInv, IInv, JobsFormed, JobsQuiet, Of, Visible

\* A pending job was pending before, or is the one a handler has just opened.
LEMMA PendingMoves ==
    ASSUME EInv, Next, Calm, NEW j \in Job, Pending(j)'
    PROVE  \/ /\ Pending(j) /\ job'[j].computer = job[j].computer
              /\ \/ Visible(j)' => Visible(j)
                 \/ \E r \in Request : Commit(r) /\ request[r].job = j
           \/ /\ j = NewJob /\ job'[j].status = "OPEN"
              /\ \E r \in Request : Submit(r) /\ job'[j].computer = request[r].computer
<1>0. \A w \in Worker : Holds(w, j) =>
          /\ Busy(w) /\ Visible(j) /\ entry[j].state = "active"
          /\ \A v \in Worker : Holds(v, j) => v = w
  BY DEF Holds, Busy, EInv, IInv, SlotsFormed
<1>1. CASE job'[j] = job[j]
  <2>1. job[j].status \in {"OPEN", "QUEUED", "RUNNING", "RETRYING"}
    BY <1>1 DEF Pending
  <2>2. ASSUME NEW w \in Worker, Holds(w, j), worker[w].pc \in {"succeed", "settle", "ack"}
        PROVE  FALSE
    <3>1. worker[w].pc = "succeed"
      BY <2>1, <2>2 DEF Holds, Busy, EInv, SlotsQuiet
    <3>2. worker'[w] = worker[w] \/ Succeed(w)
      BY <3>1, HandMoves DEF Ack, Nack, Take, Operate, Finish, Report, Mark
    <3>3. Holds(w, j)' /\ worker'[w].pc \in {"succeed", "settle", "ack"}
      <4>1. CASE worker'[w] = worker[w]
        BY <2>2, <3>1, <4>1 DEF Holds
      <4>2. CASE worker'[w] # worker[w]
        BY <2>2, <3>1, <3>2, <4>2, HandMoves
           DEF Holds, Ack, Nack, Take, Operate, Finish, Report, Mark, Succeed
      <4> QED BY <4>1, <4>2
    <3> QED BY <3>3 DEF Pending
  <2>3. Pending(j)
    BY <2>1, <2>2 DEF Pending
  <2> QED BY <1>1, <2>3 DEF Visible
<1>2. CASE \E w \in Worker : Take(w, j)
  <2>1. Visible(j) /\ entry[j].state = "waiting"
    BY <1>2 DEF Take
  <2>2. job[j].status \notin {"SUCCEEDED", "FAILED"}
    BY <2>1 DEF EInv, JobsQuiet, VInv, Sure
  <2>3. job[j].status \in {"QUEUED", "RUNNING", "RETRYING"}
    BY <2>1, <2>2 DEF EInv, IInv, TypeOK, JobRow, JobStatus, Visible
  <2>4. Pending(j)
    BY <1>0, <2>1, <2>3 DEF Pending
  <2>5. job[j].status # "FREE"
    BY <2>3
  <2> QED BY <2>1, <2>4, <2>5, JobFields DEF EInv
<1>3. CASE \E w \in Worker : worker[w].job = j /\ Report(w)
  <2>1. PICK w \in Worker : worker[w].job = j /\ Report(w)
    BY <1>3
  <2>2. worker[w].pc = "report"
    BY <2>1 DEF Report
  <2>3. Pending(j) /\ Visible(j)
    BY <2>1, <2>2, HeldPending
  <2>4. job[j].status # "FREE"
    BY <2>3 DEF Visible
  <2> QED BY <2>3, <2>4, JobFields DEF EInv
<1>4. CASE \E r \in Request : Commit(r) /\ request[r].job = j
  <2>1. job[j].status = "OPEN"
    BY <1>4 DEF Commit, EInv, IInv, TransactionsFormed
  <2>2. Pending(j)
    BY <1>0, <2>1 DEF Pending, Visible
  <2>3. job'[j].computer = job[j].computer
    BY <2>1, JobFields DEF EInv
  <2> QED BY <1>4, <2>2, <2>3
<1>5. CASE \E w \in Worker : worker[w].job = j /\ Succeed(w) /\ job'[j].status = "SUCCEEDED"
  BY <1>5 DEF Pending
<1> QED BY <1>1, <1>2, <1>3, <1>4, <1>5, JobMoves

-----------------------------------------------------------------------------
(* Each part is kept. *)

\* A computer stays where it is, in a status of these.
LEMMA RowsPlacedStep == EInv /\ Next /\ Calm => RowsPlaced'
<1> SUFFICES ASSUME EInv, Next, Calm, NEW c \in Computer
             PROVE  /\ row'[c].hostId \in Host /\ row'[c].instance # None
                    /\ row'[c].status \in {"RUNNING", "SUSPENDED"} \cup Blocked
  BY DEF RowsPlaced
<1>1. /\ row[c].hostId \in Host /\ row[c].instance # None
      /\ row[c].status \in {"RUNNING", "SUSPENDED"} \cup Blocked
  BY DEF EInv, RowsPlaced
<1>2. ASSUME NEW w \in Worker, Finish(w)
      PROVE  finalStatus[worker[w].type] \in {"RUNNING", "SUSPENDED"}
  <2>1. worker[w].type \in QuietTypes
    BY <1>2, HeldPending DEF Finish
  <2> QED BY <2>1 DEF finalStatus, QuietTypes
<1> QED BY <1>1, <1>2, RowMoves

\* The handlers carry out the actions of this setting only, and create nothing.
LEMMA RequestsQuietStep == EInv /\ Next /\ Calm => RequestsQuiet'
<1> SUFFICES ASSUME EInv, Next, Calm, NEW r \in Request
             PROVE  /\ request'[r].pc \in {"idle", "read", "open"}
                    /\ request'[r].pc # "idle" => request'[r].action \in QuietActions
  BY DEF RequestsQuiet
<1> DEFINE Right == /\ request'[r].pc \in {"idle", "read", "open"}
                    /\ request'[r].pc # "idle" => request'[r].action \in QuietActions
<1>0. /\ request \in [Request -> Handler]
      /\ request[r].pc \in {"idle", "read", "open"}
      /\ request[r].pc # "idle" => request[r].action \in QuietActions
  BY DEF EInv, IInv, TypeOK, RequestsQuiet
<1>1. ASSUME request'[r] = request[r] PROVE Right
  BY <1>0, <1>1
<1>2. ASSUME NEW q \in Request, NEW c \in Computer, NEW a \in Actions, NEW k \in Key \cup {None},
             ReadRow(q, c, a, k)
      PROVE  Right
  <2>1. q # r => request'[r] = request[r]
    BY <1>0, <1>2 DEF ReadRow
  <2>2. q = r => request'[r].pc = "read" /\ request'[r].action = a
    BY <1>0, <1>2 DEF ReadRow
  <2> QED BY <1>1, <2>1, <2>2 DEF Calm
<1>3. ASSUME NEW q \in Request, Submit(q) PROVE Right
  <2>1. q # r => request'[r] = request[r]
    BY <1>0, <1>3 DEF Submit
  <2>2. q = r => /\ request[r].pc = "read" /\ request'[r].pc = "open"
                 /\ request'[r].action = request[r].action
    BY <1>0, <1>3 DEF Submit, Handler
  <2> QED BY <1>0, <1>1, <2>1, <2>2
<1>4. ASSUME NEW q \in Request, Commit(q) \/ Replay(q) \/ Reject(q) PROVE Right
  <2>1. request' = [request EXCEPT ![q] = IdleHandler]
    BY <1>4 DEF Commit, Replay, Reject
  <2>2. q = r => request'[r].pc = "idle"
    BY <1>0, <2>1 DEF IdleHandler
  <2> QED BY <1>0, <1>1, <2>1, <2>2
<1>5. ASSUME NEW w \in Worker PROVE /\ Operate(w) \/ Finish(w) \/ Mark(w) \/ Decides(w) =>
                                           UNCHANGED request
                                    /\ \A j \in Job : Take(w, j) \/ Miss(w, j) => UNCHANGED request
  BY DEF Operate, Finish, Mark, Decides, Succeed, Ack, Report, Nack, Take, Miss
<1>6. ASSUME NEW j \in Job, Promote(j) PROVE UNCHANGED request
  BY <1>6 DEF Promote
<1> HIDE DEF Right
<1>7. Right
  BY <1>1, <1>2, <1>3, <1>4, <1>5, <1>6, CalmMoves
<1> QED BY <1>7 DEF Right

\* No handler comes to a pass, and the timer is off.
LEMMA PassesOffStep == EInv /\ Next /\ Calm => PassesOff'
<1> SUFFICES ASSUME EInv, Next, Calm PROVE UNCHANGED pass
  BY DEF EInv, PassesOff, Pass
<1>1. ASSUME NEW r \in Request PROVE /\ Submit(r) \/ Commit(r) \/ Replay(r) \/ Reject(r) =>
                                            UNCHANGED pass
                                     /\ \A c \in Computer, a \in Actions, k \in Key \cup {None} :
                                            ReadRow(r, c, a, k) => UNCHANGED pass
  BY DEF Submit, Commit, Replay, Reject, ReadRow
<1>2. ASSUME NEW w \in Worker PROVE /\ Operate(w) \/ Finish(w) \/ Mark(w) \/ Decides(w) =>
                                           UNCHANGED pass
                                    /\ \A j \in Job : Take(w, j) \/ Miss(w, j) => UNCHANGED pass
  BY DEF Operate, Finish, Mark, Decides, Succeed, Ack, Report, Nack, Take, Miss
<1>3. ASSUME NEW j \in Job, Promote(j) PROVE UNCHANGED pass
  BY <1>3 DEF Promote
<1> QED BY <1>1, <1>2, <1>3, CalmMoves

\* A transaction closes the row it has opened, and a job is done when its entry is
\* still in a handler's hands.
LEMMA JobsQuietStep == EInv /\ Next /\ Calm => JobsQuiet'
<1> SUFFICES ASSUME EInv, Next, Calm, NEW j \in Job
             PROVE  /\ job'[j].status # "FREE" => job'[j].type \in QuietTypes
                    /\ job'[j].status = "OPEN" =>
                           \E r \in Request : request'[r].pc = "open" /\ request'[r].job = j
                    /\ job'[j].status = "SUCCEEDED" => entry'[j].state \in {"active", "completed"}
  BY DEF JobsQuiet, Job
<1>0. /\ request \in [Request -> Handler] /\ entry \in [Job -> Entry] /\ entry[j] \in Entry
      /\ job[j].status # "FREE" => job[j].type \in QuietTypes
      /\ job[j].status = "SUCCEEDED" => entry[j].state \in {"active", "completed"}
  BY DEF EInv, IInv, TypeOK, JobsQuiet
<1>1. job'[j].status # "FREE" => job'[j].type \in QuietTypes
  <2>1. ASSUME NEW r \in Request, Submit(r) PROVE jobType[request[r].action] \in QuietTypes
    BY <2>1 DEF Submit, EInv, RequestsQuiet, QuietActions, QuietTypes, jobType
  <2>2. \A w \in Worker : Take(w, j) => job[j].status # "FREE"
    BY DEF Take, Visible
  <2>3. \A w \in Worker : worker[w].job = j /\ (Succeed(w) \/ Report(w)) => job[j].status # "FREE"
    BY DEF Succeed, Report, Busy, Visible, EInv, IInv, SlotsFormed
  <2> QED BY <1>0, <2>1, <2>2, <2>3, JobMoves
<1>2. job'[j].status = "OPEN" =>
          \E r \in Request : request'[r].pc = "open" /\ request'[r].job = j
  <2>1. ASSUME job'[j] = job[j], job[j].status = "OPEN"
        PROVE  \E r \in Request : request'[r].pc = "open" /\ request'[r].job = j
    <3>1. PICK r \in Request : request[r].pc = "open" /\ request[r].job = j
      BY <2>1 DEF EInv, JobsQuiet
    <3>2. ~Commit(r)
      BY <2>1, <3>1 DEF Commit, EInv, IInv, TypeOK, JobRow
    <3>3. ASSUME NEW q \in Request, NEW c \in Computer, NEW a \in Actions, NEW k \in Key \cup {None},
                 ReadRow(q, c, a, k)
          PROVE  request'[r] = request[r]
      BY <1>0, <3>1, <3>3 DEF ReadRow
    <3>4. ASSUME NEW q \in Request, Submit(q) \/ Replay(q) \/ Reject(q)
          PROVE  request'[r] = request[r]
      BY <1>0, <3>1, <3>4 DEF Submit, Replay, Reject
    <3>5. ASSUME NEW q \in Request, Commit(q)
          PROVE  request'[r] = request[r]
      BY <1>0, <3>2, <3>5 DEF Commit
    <3>6. ASSUME NEW w \in Worker
          PROVE  /\ Operate(w) \/ Finish(w) \/ Mark(w) \/ Decides(w) => UNCHANGED request
                 /\ \A i \in Job : Take(w, i) \/ Miss(w, i) => UNCHANGED request
      BY DEF Operate, Finish, Mark, Decides, Succeed, Ack, Report, Nack, Take, Miss
    <3>7. ASSUME NEW i \in Job, Promote(i) PROVE UNCHANGED request
      BY <3>7 DEF Promote
    <3>8. request'[r] = request[r]
      BY <3>3, <3>4, <3>5, <3>6, <3>7, CalmMoves
    <3> QED BY <3>1, <3>8
  <2>2. job'[j].status = "OPEN" =>
            \/ job'[j] = job[j]
            \/ \E r \in Request : request'[r].pc = "open" /\ request'[r].job = j
    BY JobMoves
  <2> QED BY <2>1, <2>2
<1>3. job'[j].status = "SUCCEEDED" => entry'[j].state \in {"active", "completed"}
  <2>1. ASSUME job'[j] = job[j], job[j].status = "SUCCEEDED"
        PROVE  entry'[j].state \in {"active", "completed"}
    <3>1. ~Promote(j) /\ ~\E w \in Worker : Take(w, j) \/ Miss(w, j)
      BY <1>0, <2>1 DEF Promote, Take, Miss
    <3>2. ~Stall(j)
      BY DEF Stall, EInv, VInv, NoneLost
    <3>3. ASSUME NEW w \in Worker, Holds(w, j), Ack(w) \/ Nack(w)
          PROVE  entry'[j].state = "completed"
      <4>1. ~Nack(w)
        BY <2>1, <3>3 DEF Nack, Holds, Busy, EInv, SlotsQuiet
      <4> QED BY <1>0, <3>3, <4>1 DEF Ack, Holds, Entry
    <3> QED BY <1>0, <2>1, <3>1, <3>2, <3>3, EntrySteps DEF EInv
  <2>2. ASSUME NEW w \in Worker, worker[w].job = j, Succeed(w)
        PROVE  entry'[j].state = "active"
    BY <2>2 DEF Succeed, Busy, EInv, IInv, SlotsFormed
  <2>3. job'[j].status = "SUCCEEDED" =>
            \/ job'[j] = job[j]
            \/ \E w \in Worker : worker[w].job = j /\ Succeed(w)
    BY JobMoves
  <2> QED BY <2>1, <2>2, <2>3
<1> QED BY <1>1, <1>2, <1>3

\* A job in a slot's hands is changed by that slot only.
LEMMA HeldKept ==
    ASSUME EInv, Next, Calm, NEW w \in Worker, Busy(w)
    PROVE  LET j == worker[w].job IN
           /\ j \in Job /\ job'[j].type = job[j].type /\ job'[j].computer = job[j].computer
           /\ \/ job'[j] = job[j]
              \/ Succeed(w) /\ job'[j].status = "SUCCEEDED"
              \/ Report(w) /\ job'[j].status \in {"RETRYING", "FAILED"}
<1> DEFINE j == worker[w].job
<1>1. /\ j \in Job /\ Visible(j) /\ entry[j].state = "active"
      /\ \A v \in Worker : Busy(v) /\ v # w => worker[v].job # j
  BY DEF EInv, IInv, SlotsFormed, Equipped
<1>2. \A v \in Worker : worker[v].job = j /\ (Succeed(v) \/ Report(v)) => v = w
  BY <1>1 DEF Succeed, Report, Busy
<1>3. \A v \in Worker : ~Take(v, j)
  BY <1>1 DEF Take
<1>4. job[j].status \notin {"FREE", "OPEN"}
  BY <1>1 DEF Visible
<1> HIDE DEF j
<1>5. /\ job'[j].type = job[j].type /\ job'[j].computer = job[j].computer
      /\ \/ job'[j] = job[j]
         \/ Succeed(w) /\ job'[j].status = "SUCCEEDED"
         \/ Report(w) /\ job'[j].status \in {"RETRYING", "FAILED"}
  BY <1>1, <1>2, <1>3, <1>4, JobMoves
<1> QED BY <1>1, <1>5 DEF j

\* What a handler has read of its job and its computer stays true while it works.
LEMMA SlotsQuietStep == EInv /\ Next /\ Calm => SlotsQuiet'
<1> DEFINE Paced(pc, status) ==
               \/ pc \in {"operate", "finish", "succeed", "report"} /\ status = "RUNNING"
               \/ pc = "ack" /\ status = "SUCCEEDED"
               \/ pc \in {"mark", "nack"} /\ status \in {"RETRYING", "FAILED"}
<1> SUFFICES ASSUME EInv, Next, Calm, NEW w \in Worker, Busy(w)'
             PROVE  LET s == worker'[w] IN
                    /\ s.type = job'[s.job].type
                    /\ s.host = row'[job'[s.job].computer].hostId
                    /\ s.status = "ERROR"
                    /\ Paced(s.pc, job'[s.job].status)
  BY DEF SlotsQuiet, Of
<1> DEFINE j == worker[w].job
           T == worker'[w]
<1>1. Busy(w) => /\ worker[w].type = job[j].type
                 /\ worker[w].host = row[job[j].computer].hostId
                 /\ worker[w].status = "ERROR"
                 /\ Paced(worker[w].pc, job[j].status)
                 /\ job[j].computer \in Computer
  BY DEF EInv, IInv, SlotsQuiet, Of, SlotsFormed, JobsFormed, Equipped, Visible
<1>2. ASSUME Busy(w)
      PROVE  row'[job'[j].computer].hostId = row[job[j].computer].hostId
  BY <1>1, <1>2, HeldKept, RowMoves
<1>3. CASE T = worker[w]
  <2>1. Busy(w)
    BY <1>3 DEF Busy
  <2>2. ~Succeed(w) /\ ~Report(w)
    <3>1. worker \in [Worker -> Slot]
      BY DEF EInv, IInv, TypeOK
    <3> QED BY <1>3, <3>1 DEF Succeed, Report, Go, Slot
  <2>3. job'[j] = job[j]
    BY <2>1, <2>2, HeldKept
  <2> QED BY <1>1, <1>2, <1>3, <2>1, <2>3
<1>4. ASSUME NEW i \in Job, Take(w, i), T.pc = "operate", T.job = i, T.type = job[i].type,
             T.host = row[job[i].computer].hostId, T.status = "ERROR"
      PROVE  /\ T.type = job'[T.job].type
             /\ T.host = row'[job'[T.job].computer].hostId
             /\ T.status = "ERROR"
             /\ Paced(T.pc, job'[T.job].status)
  <2>1. /\ job'[i].status = "RUNNING" /\ job'[i].type = job[i].type
        /\ job'[i].computer = job[i].computer /\ job[i].computer \in Computer
    BY <1>4 DEF Take, Visible, EInv, IInv, TypeOK, JobRow, JobsFormed
  <2> QED BY <1>4, <2>1, RowMoves
<1>5. ASSUME Busy(w), T.job = j, T.type = worker[w].type, T.host = worker[w].host,
             T.status = "ERROR",
             \/ Operate(w) /\ T.pc \in {"finish", "report"}
             \/ Finish(w) /\ T.pc = "succeed"
             \/ Succeed(w) /\ T.pc = "ack"
             \/ Report(w) /\ T.pc = "mark"
             \/ Mark(w) /\ T.pc = "nack"
      PROVE  /\ T.type = job'[T.job].type
             /\ T.host = row'[job'[T.job].computer].hostId
             /\ T.status = "ERROR"
             /\ Paced(T.pc, job'[T.job].status)
  <2>1. Paced(T.pc, job'[j].status)
    <3>1. CASE Operate(w) /\ T.pc \in {"finish", "report"}
      <4>1. job'[j] = job[j] /\ worker[w].pc = "operate"
        BY <1>1, <1>5, <3>1 DEF Operate
      <4> QED BY <1>1, <1>5, <3>1, <4>1
    <3>2. CASE Finish(w) /\ T.pc = "succeed"
      BY <1>1, <1>5, <3>2 DEF Finish
    <3>3. CASE Succeed(w) /\ T.pc = "ack"
      <4>1. job'[j].status = "SUCCEEDED"
        BY <3>3 DEF Succeed, EInv, IInv, TypeOK, JobRow, SlotsFormed, Busy, Equipped
      <4> QED BY <3>3, <4>1
    <3>4. CASE Report(w) /\ T.pc = "mark"
      <4>1. job'[j].status \in {"RETRYING", "FAILED"}
        BY <3>4 DEF Report, EInv, IInv, TypeOK, JobRow, SlotsFormed, Busy, Equipped
      <4> QED BY <3>4, <4>1
    <3>5. CASE Mark(w) /\ T.pc = "nack"
      BY <1>1, <1>5, <3>5 DEF Mark
    <3> QED BY <1>5, <3>1, <3>2, <3>3, <3>4, <3>5
  <2> HIDE DEF Paced
  <2>2. job'[j].type = job[j].type
    BY <1>5, HeldKept
  <2> QED BY <1>1, <1>2, <1>5, <2>1, <2>2
<1> HIDE DEF Paced, j
<1>6. T.pc # "idle"
  BY DEF Busy
<1> QED BY <1>3, <1>4, <1>5, <1>6, HandMoves DEF j

\* A request is accepted only of a computer that has no pending job.
LEMMA SubmitAlone ==
    ASSUME EInv, NEW r \in Request, Submit(r), NEW j \in Job, Pending(j)
    PROVE  job[j].computer # request[r].computer
<1> SUFFICES ASSUME job[j].computer = request[r].computer PROVE FALSE
  OBVIOUS
<1>1. CASE Visible(j)
  <2>1. row[request[r].computer].status \in Blocked
    BY <1>1 DEF EInv, Waits
  <2>2. /\ row[request[r].computer].status \in From[request[r].action]
        /\ request[r].action \in QuietActions
    BY DEF Submit, Unmoved, EInv, IInv, ReadsFormed, RequestsQuiet
  <2> QED BY <2>1, <2>2 DEF Blocked, From, QuietActions
<1>2. CASE ~Visible(j)
  <2>1. job[j].status = "OPEN"
    BY <1>2 DEF Pending, Visible
  <2>2. PICK q \in Request : request[q].pc = "open" /\ request[q].job = j
    BY <2>1 DEF EInv, JobsQuiet
  <2>3. request[q].computer = request[r].computer
    BY <2>2 DEF EInv, IInv, TransactionsFormed
  <2> QED BY <2>2, <2>3 DEF Submit, Unlocked
<1> QED BY <1>1, <1>2

\* A computer that has a pending job gets no other.
LEMMA OneJobStep == EInv /\ Next /\ Calm => OneJob'
<1> SUFFICES ASSUME EInv, Next, Calm, NEW j \in Job, NEW k \in Job,
                    Pending(j)', Pending(k)', job'[j].computer = job'[k].computer
             PROVE  j = k
  BY DEF OneJob, Job
<1>1. ASSUME NEW i \in Job, Pending(i)'
      PROVE  \/ Pending(i) /\ job'[i].computer = job[i].computer
             \/ /\ i = NewJob
                /\ \E r \in Request : Submit(r) /\ job'[i].computer = request[r].computer
  BY <1>1, PendingMoves
<1>2. ASSUME NEW i \in Job, NEW n \in Job, job'[i].computer = job'[n].computer,
             Pending(i), job'[i].computer = job[i].computer,
             NEW r \in Request, Submit(r), job'[n].computer = request[r].computer
      PROVE  FALSE
  BY <1>2, SubmitAlone
<1>3. Pending(j) /\ Pending(k) /\ job[j].computer = job[k].computer => j = k
  BY DEF EInv, OneJob
<1> QED BY <1>1, <1>2, <1>3

\* A job's row blocks until that job's own final write.
LEMMA WaitsStep == EInv /\ Next /\ Calm => Waits'
<1> SUFFICES ASSUME EInv, Next, Calm, NEW j \in Job, Pending(j)', Visible(j)'
             PROVE  row'[job'[j].computer].status \in Blocked
  BY DEF Waits, Job
<1>0. job'[j].status # "OPEN"
  BY DEF Visible
<1>1. CASE Pending(j) /\ Visible(j) /\ job'[j].computer = job[j].computer
  <2> DEFINE c == job[j].computer
  <2>1. c \in Computer /\ row[c].status \in Blocked
    BY <1>1 DEF EInv, IInv, Waits, JobsFormed, Visible
  <2>2. ASSUME NEW w \in Worker, Finish(w), Of(w) = c PROVE FALSE
    <3>1. worker[w].pc = "finish"
      BY <2>2 DEF Finish
    <3>2. worker[w].job = j
      BY <1>1, <2>2, <3>1, HeldPending DEF EInv, OneJob
    <3>3. worker'[w].pc = "succeed" /\ worker'[w].job = j
      BY <2>2, <3>2 DEF Finish, Go, EInv, IInv, TypeOK, Slot
    <3> QED BY <3>3 DEF Pending, Holds
  <2> HIDE DEF c
  <2>3. row'[c].status \in Blocked
    BY <2>1, <2>2, RowMoves
  <2> QED BY <1>1, <2>3 DEF c
<1>2. ASSUME NEW r \in Request, Commit(r), request[r].job = j,
             job'[j].computer = job[j].computer
      PROVE  row'[job'[j].computer].status \in Blocked
  <2>1. /\ job[j].computer = request[r].computer /\ request[r].computer \in Computer
        /\ request[r].action \in QuietActions
    BY <1>2 DEF Commit, EInv, IInv, TransactionsFormed, ReadsFormed, RequestsQuiet
  <2>2. row'[request[r].computer] = Moved(r)
    BY <1>2, <2>1 DEF Commit, EInv, IInv, TypeOK
  <2>3. Moved(r).status = To[request[r].action]
    BY <2>1 DEF Moved, Updated, EInv, IInv, TypeOK, Row
  <2>4. To[request[r].action] \in Blocked
    BY <2>1 DEF To, Blocked, QuietActions
  <2> QED BY <1>2, <2>1, <2>2, <2>3, <2>4
<1> QED BY <1>0, <1>1, <1>2, PendingMoves

\* Only the provider call of a job changes a container, and leaves it up.
LEMMA BoxMoves ==
    ASSUME EInv, Next, Calm, NEW c \in Computer
    PROVE  LET b == box[row[c].hostId][c]  after == box'[row[c].hostId][c] IN
           \/ after = b
           \/ /\ after.state \in {"running", "paused"}
              /\ \E w \in Worker :
                    /\ Operate(w) /\ Of(w) = c
                    /\ worker[w].type = "SUSPEND" => after.state = "paused"
<1> DEFINE h == row[c].hostId
           Moves == \/ box'[h][c] = box[h][c]
                    \/ /\ box'[h][c].state \in {"running", "paused"}
                       /\ \E w \in Worker :
                             /\ Operate(w) /\ Of(w) = c
                             /\ worker[w].type = "SUSPEND" => box'[h][c].state = "paused"
<1>0. /\ box \in [Host -> [Computer -> Box]] /\ h \in Host
      /\ box[h][c] \in Box /\ box[h][c].state \in {"running", "paused"}
  BY DEF EInv, IInv, TypeOK, RowsPlaced, BoxesKept
<1> HIDE DEF h
<1>1. ASSUME UNCHANGED box PROVE Moves
  BY <1>1
<1>2. ASSUME NEW w \in Worker, Operate(w) PROVE Moves
  <2> DEFINE g == worker[w].host  d == Of(w)
  <2>0. worker[w].pc = "operate"
    BY <1>2 DEF Operate, EInv, SlotsQuiet, Busy
  <2>1. CASE box' = [box EXCEPT ![g][d] = Performed(Operation(w), box[g][d])]
    <3>1. CASE g = h /\ d = c
      <4>1. box'[h][c] = Performed(worker[w].type, box[h][c])
        BY <1>0, <2>0, <2>1, <3>1 DEF Operation
      <4>2. worker[w].type \in QuietTypes
        BY <2>0, HeldPending
      <4>3. /\ box'[h][c].state \in {"running", "paused"}
            /\ worker[w].type = "SUSPEND" => box'[h][c].state = "paused"
        BY <1>0, <4>1, <4>2 DEF Performed, QuietTypes, Up, Box
      <4> QED BY <1>2, <3>1, <4>3
    <3>2. CASE ~(g = h /\ d = c)
      <4>1. box'[h][c] = box[h][c]
        BY <1>0, <2>1, <3>2
      <4> QED BY <4>1
    <3> QED BY <3>1, <3>2
  <2>2. CASE UNCHANGED box
    BY <1>1, <2>2
  <2> QED BY <1>2, <2>1, <2>2 DEF Operate
<1>3. ASSUME NEW r \in Request PROVE /\ Submit(r) \/ Commit(r) \/ Replay(r) \/ Reject(r) =>
                                            UNCHANGED box
                                     /\ \A d \in Computer, a \in Actions, k \in Key \cup {None} :
                                            ReadRow(r, d, a, k) => UNCHANGED box
  BY DEF Submit, Commit, Replay, Reject, ReadRow
<1>4. ASSUME NEW w \in Worker PROVE /\ Finish(w) \/ Mark(w) \/ Decides(w) => UNCHANGED box
                                    /\ \A j \in Job : Take(w, j) \/ Miss(w, j) => UNCHANGED box
  BY DEF Finish, Mark, Decides, Succeed, Ack, Report, Nack, Take, Miss
<1>5. ASSUME NEW j \in Job, Promote(j) PROVE UNCHANGED box
  BY <1>5 DEF Promote
<1> HIDE DEF Moves
<1>6. Moves
  BY <1>1, <1>2, <1>3, <1>4, <1>5, CalmMoves
<1> QED BY <1>6 DEF Moves, h

\* Two handlers are not at their provider calls, or past them, on one computer.
LEMMA OneHand ==
    ASSUME EInv, NEW v \in Worker, NEW w \in Worker, Of(v) = Of(w),
           worker[v].pc \in {"operate", "finish"}, worker[w].pc \in {"operate", "finish"}
    PROVE  v = w
<1>1. worker[v].job = worker[w].job /\ Busy(v) /\ Busy(w)
  BY HeldPending DEF EInv, OneJob, Busy
<1> QED BY <1>1 DEF EInv, IInv, SlotsFormed

\* The container a SUSPEND has paused is not touched before the row says so, and
\* one that the row calls SUSPENDED is not touched before a RESUME.
LEMMA BoxesKeptStep == EInv /\ Next /\ Calm => BoxesKept'
<1> SUFFICES ASSUME EInv, Next, Calm PROVE BoxesKept'
  OBVIOUS
<1>a. ASSUME NEW w \in Worker, Operate(w) PROVE worker[w].pc = "operate"
  BY <1>a DEF Operate, EInv, SlotsQuiet, Busy
<1>1. ASSUME NEW c \in Computer
      PROVE  /\ box'[row'[c].hostId][c].state \in {"running", "paused"}
             /\ row'[c].status = "SUSPENDED" => box'[row'[c].hostId][c].state = "paused"
  <2> DEFINE after == box'[row[c].hostId][c]
             b == box[row[c].hostId][c]
  <2>0. /\ row'[c].hostId = row[c].hostId
        /\ b.state \in {"running", "paused"}
        /\ row[c].status = "SUSPENDED" => b.state = "paused"
    BY RowMoves DEF EInv, BoxesKept
  <2>1. after.state \in {"running", "paused"}
    BY <2>0, BoxMoves
  <2>2. ASSUME row'[c].status = "SUSPENDED", row[c].status = "SUSPENDED"
        PROVE  after.state = "paused"
    <3>1. ASSUME NEW w \in Worker, Operate(w), Of(w) = c PROVE FALSE
      <4>1. row[c].status \in Blocked
        BY <1>a, <3>1, HeldPending DEF EInv, Waits
      <4> QED BY <2>2, <4>1 DEF Blocked
    <3> QED BY <2>0, <2>2, <3>1, BoxMoves
  <2>3. ASSUME row'[c].status = "SUSPENDED", row[c].status # "SUSPENDED"
        PROVE  after.state = "paused"
    <3>1. PICK w \in Worker : /\ Finish(w) /\ Of(w) = c
                              /\ finalStatus[worker[w].type] = "SUSPENDED"
      BY <2>3, RowMoves DEF Blocked
    <3>2. worker[w].pc = "finish"
      BY <3>1 DEF Finish
    <3>3. worker[w].type = "SUSPEND" /\ worker[w].host = row[c].hostId
      BY <3>1, <3>2, HeldPending DEF finalStatus, QuietTypes
    <3>4. b.state = "paused"
      BY <3>1, <3>2, <3>3 DEF EInv, BoxesKept
    <3>5. UNCHANGED box
      BY <3>1 DEF Finish
    <3> QED BY <3>4, <3>5
  <2> QED BY <2>0, <2>1, <2>2, <2>3
<1>2. ASSUME NEW w \in Worker, worker'[w].pc = "finish", worker'[w].type = "SUSPEND"
      PROVE  box'[worker'[w].host][Of(w)'].state = "paused"
  <2>1. CASE worker'[w] = worker[w]
    <3> DEFINE c == Of(w)
    <3>1. /\ worker[w].host = row[c].hostId /\ c \in Computer
          /\ box[worker[w].host][c].state = "paused"
      BY <1>2, <2>1, HeldPending DEF EInv, BoxesKept
    <3>2. Of(w)' = c
      BY <1>2, <2>1, HeldKept DEF Of, Busy
    <3>3. ASSUME NEW v \in Worker, Operate(v), Of(v) = c PROVE FALSE
      <4>1. v = w
        BY <1>2, <1>a, <2>1, <3>3, OneHand
      <4> QED BY <1>2, <1>a, <2>1, <3>3, <4>1
    <3> HIDE DEF c
    <3>4. box'[row[c].hostId][c] = box[row[c].hostId][c]
      BY <3>1, <3>3, BoxMoves
    <3> QED BY <2>1, <3>1, <3>2, <3>4
  <2>2. CASE Operate(w) /\ Busy(w) /\ worker'[w].job = worker[w].job
             /\ worker'[w].type = worker[w].type /\ worker'[w].host = worker[w].host
    <3> DEFINE c == Of(w)
    <3>1. /\ worker[w].pc = "operate" /\ worker[w].host = row[c].hostId /\ c \in Computer
      BY <1>a, <2>2, HeldPending
    <3>2. Of(w)' = c
      BY <2>2, HeldKept DEF Of
    <3>3. box' = [box EXCEPT ![worker[w].host][c] = Performed("SUSPEND", box[worker[w].host][c])]
      <4>1. Operation(w) = "SUSPEND"
        BY <1>2, <2>2, <3>1 DEF Operation
      <4>2. worker'[w].pc # "report"
        BY <1>2
      <4> QED BY <2>2, <4>1, <4>2 DEF Operate, EInv, IInv, TypeOK, Slot
    <3>4. /\ box \in [Host -> [Computer -> Box]] /\ row[c].hostId \in Host
      BY <3>1 DEF EInv, IInv, TypeOK, RowsPlaced
    <3> HIDE DEF c
    <3>5. box'[row[c].hostId][c] = Performed("SUSPEND", box[row[c].hostId][c])
      BY <3>1, <3>3, <3>4
    <3>6. box'[row[c].hostId][c].state = "paused"
      BY <3>1, <3>4, <3>5 DEF Performed, Box
    <3> QED BY <2>2, <3>1, <3>2, <3>6
  <2> QED BY <1>2, <2>1, <2>2, HandMoves
<1>3. ASSUME NEW w \in Worker
      PROVE  worker'[w].pc = "finish" /\ worker'[w].type = "SUSPEND" =>
                 box'[worker'[w].host][Of(w)'].state = "paused"
  BY <1>2
<1> QED BY <1>1, <1>3 DEF BoxesKept, Of

-----------------------------------------------------------------------------
(* The theorems. *)

\* Computers that run on one host, with nothing asked of them yet, satisfy the
\* invariants of every setting.
LEMMA RunningInit == InitRunning => IInv /\ VInv
<1> SUFFICES ASSUME InitRunning PROVE IInv /\ VInv
  OBVIOUS
<1>0. PICK h \in Host :
          /\ row = [c \in Computer |-> [AbsentRow EXCEPT !.status = "RUNNING",
                        !.hostId = h, !.instance = <<h, 1>>]]
          /\ box = [g \in Host |-> [c \in Computer |->
                        IF g = h THEN [made |-> 1, state |-> "running", volume |-> TRUE]
                        ELSE NoBox]]
          /\ host = [g \in Host |-> [compute |-> IF g = h THEN Cardinality(Computer) ELSE 0,
                        storage |-> IF g = h THEN Cardinality(Computer) ELSE 0,
                        healthy |-> TRUE]]
          /\ job = [j \in Job |-> FreeJob]
          /\ entry = [j \in Job |-> NoEntry]
          /\ worker = [w \in Worker |-> IdleSlot]
          /\ pass = [p \in Pass |-> NoPass]
          /\ request = [r \in Request |-> IdleHandler]
          /\ faults = 0
          /\ crashes = 0
  BY DEF InitRunning
<1>1. \A j \in Job : job[j] = FreeJob /\ entry[j] = NoEntry
  BY <1>0
<1>2. \A w \in Worker : worker[w] = IdleSlot
  BY <1>0
<1>3. TypeOK
  <2>1. row \in [Computer -> Row]
    <3>1. <<h, 1>> \in Instance
      BY DEF Instance
    <3>2. [AbsentRow EXCEPT !.status = "RUNNING", !.hostId = h, !.instance = <<h, 1>>] \in Row
      BY <3>1 DEF AbsentRow, Row, ComputerStatus
    <3> QED BY <1>0, <3>2
  <2>2. job \in [Job -> JobRow] /\ entry \in [Job -> Entry]
    BY <1>0 DEF FreeJob, JobRow, JobStatus, NoEntry, Entry
  <2>3. worker \in [Worker -> Slot]
    BY <1>0 DEF IdleSlot, Slot, SlotPc, Instance
  <2>4. pass \in [Pass -> PassState]
    BY <1>0 DEF NoPass, PassState, NoListing, Listing, Instance, NoLoad
  <2>5. request \in [Request -> Handler]
    BY <1>0 DEF IdleHandler, Handler
  <2>6. box \in [Host -> [Computer -> Box]]
    BY <1>0 DEF NoBox, Box, BoxState
  <2>7. host \in [Host -> HostRow]
    <3>1. Cardinality(Computer) \in Int
      BY ConstantsAssumption, FS_CardinalityType DEF ConstantsAssumption
    <3> QED BY <1>0, <3>1 DEF HostRow
  <2> QED BY <1>0, <2>1, <2>2, <2>3, <2>4, <2>5, <2>6, <2>7 DEF TypeOK
<1>4. JobsFormed
  BY <1>1 DEF JobsFormed, FreeJob
<1>5. SlotsFormed
  BY <1>2 DEF SlotsFormed, Busy, IdleSlot
<1>6. ReadsFormed /\ TransactionsFormed
  BY <1>0 DEF ReadsFormed, TransactionsFormed, IdleHandler
<1>7. PassesFormed
  BY <1>0 DEF PassesFormed, NoPass, Pass
<1>8. DeliveriesCounted
  BY <1>1, ConstantsAssumption
     DEF DeliveriesCounted, FreeJob, NoEntry, maxAttempts, ConstantsAssumption
<1>9. PlacementFirst
  <2>1. \A c \in Computer : row[c].hostId = h
    BY <1>0 DEF AbsentRow
  <2>2. h # None
    BY ConstantsAssumption DEF ConstantsAssumption
  <2> QED BY <2>1, <2>2 DEF PlacementFirst
<1> QED BY <1>1, <1>2, <1>3, <1>4, <1>5, <1>6, <1>7, <1>8, <1>9, VInit DEF IInv

\* They satisfy the rest of the invariant as well.
LEMMA EInit == InitRunning => EInv
<1> SUFFICES ASSUME InitRunning PROVE EInv
  OBVIOUS
<1>0. PICK h \in Host :
          /\ row = [c \in Computer |-> [AbsentRow EXCEPT !.status = "RUNNING",
                        !.hostId = h, !.instance = <<h, 1>>]]
          /\ box = [g \in Host |-> [c \in Computer |->
                        IF g = h THEN [made |-> 1, state |-> "running", volume |-> TRUE]
                        ELSE NoBox]]
  BY DEF InitRunning
<1>1. \A c \in Computer : /\ row[c].hostId = h /\ row[c].instance = <<h, 1>>
                           /\ row[c].status = "RUNNING"
                           /\ box[h][c].state = "running"
  BY <1>0 DEF AbsentRow
<1>2. \A w \in Worker : worker[w].pc = "idle"
  BY DEF InitRunning, IdleSlot
<1>3. \A j \in Job : job[j].status = "FREE"
  BY DEF InitRunning, FreeJob
<1>4. RowsPlaced
  <2>1. None \notin Host \X Nat
    BY ConstantsAssumption DEF ConstantsAssumption
  <2>2. <<h, 1>> \in Host \X Nat
    OBVIOUS
  <2> QED BY <1>1, <2>1, <2>2 DEF RowsPlaced
<1>5. RequestsQuiet /\ PassesOff
  BY DEF InitRunning, RequestsQuiet, PassesOff, IdleHandler, NoPass
<1>6. JobsQuiet /\ OneJob /\ Waits
  BY <1>3 DEF JobsQuiet, OneJob, Waits, Pending
<1>7. SlotsQuiet
  BY <1>2 DEF SlotsQuiet, Busy
<1>8. BoxesKept
  BY <1>1, <1>2 DEF BoxesKept
<1> QED BY <1>4, <1>5, <1>6, <1>7, <1>8, RunningInit DEF EInv

\* The invariant is kept by every step of this setting.
LEMMA EStep == EInv /\ [Next]_vars /\ Calm => EInv'
<1>1. EInv /\ Next /\ Calm => EInv'
  <2>1. EInv /\ Next /\ Calm => IInv' /\ VInv'
    BY IStep, VStep DEF EInv, Calm
  <2> QED BY <2>1, RowsPlacedStep, RequestsQuietStep, JobsQuietStep, PassesOffStep,
             SlotsQuietStep, OneJobStep, WaitsStep, BoxesKeptStep DEF EInv
<1>2. ASSUME EInv, UNCHANGED vars, Calm PROVE EInv'
  <2>1. /\ row' = row /\ job' = job /\ entry' = entry /\ worker' = worker /\ pass' = pass
        /\ request' = request /\ box' = box
    BY <1>2 DEF vars
  <2>2. IInv' /\ VInv'
    BY <1>2, IStep, VStep DEF EInv, Calm
  <2>3. RowsPlaced' /\ RequestsQuiet' /\ JobsQuiet' /\ PassesOff'
    BY <1>2, <2>1 DEF EInv, RowsPlaced, RequestsQuiet, JobsQuiet, PassesOff, Job, Pass
  <2>4. \A j \in Job : (Pending(j)' <=> Pending(j)) /\ (Visible(j)' <=> Visible(j))
    BY <2>1 DEF Pending, Holds, Visible
  <2>5. OneJob' /\ Waits'
    BY <1>2, <2>1, <2>4 DEF EInv, OneJob, Waits, Job
  <2>6. SlotsQuiet' /\ BoxesKept'
    BY <1>2, <2>1 DEF EInv, SlotsQuiet, BoxesKept, Busy, Of
  <2> QED BY <2>2, <2>3, <2>5, <2>6 DEF EInv
<1> QED BY <1>1, <1>2

\* It holds in every state the running computers can come to.
LEMMA EInvariant == ASSUME Calm PROVE RunningSpec => []EInv
<1>1. InitRunning => EInv
  BY EInit
<1>2. EInv /\ [Next]_vars => EInv'
  BY EStep
<1> QED BY <1>1, <1>2, PTL DEF RunningSpec

\* A computer never has two operations under way: however many handlers have
\* read its row at once, the update that is conditional on its status and
\* version accepts one of them, and the row then refuses the others until the
\* worker has written the outcome.
THEOREM Exclusive == ASSUME Calm PROVE RunningSpec => []ExclusiveOperation
<1>1. EInv => ExclusiveOperation
  <2> SUFFICES ASSUME EInv, NEW c \in Computer
               PROVE  Cardinality(Unfinished(c)) <= 1
    BY DEF ExclusiveOperation
  <2>1. Unfinished(c) = {j \in Job : job[j].computer = c /\ Pending(j)}
    BY DEF Unfinished, Pending
  <2>2. CASE Unfinished(c) = {}
    BY <2>2, FS_EmptySet
  <2>3. CASE Unfinished(c) # {}
    <3>1. PICK j \in Job : job[j].computer = c /\ Pending(j)
      BY <2>1, <2>3
    <3>2. Unfinished(c) = {j}
      BY <2>1, <3>1 DEF EInv, OneJob
    <3> QED BY <3>2, FS_Singleton
  <2> QED BY <2>2, <2>3
<1> QED BY <1>1, EInvariant, PTL

\* A computer that nothing is under way on is what its row says: the status the
\* worker writes last is that of the container the provider call has left. (In
\* this setting that is RUNNING or SUSPENDED.)
THEOREM AtRest == ASSUME Calm PROVE RunningSpec => []AtRestTruthful
<1>1. EInv => AtRestTruthful
  BY DEF EInv, RowsPlaced, BoxesKept, AtRestTruthful, Live, Blocked
<1> QED BY <1>1, EInvariant, PTL

\* The same as Undropped, for computers that already run.
THEOREM UndroppedRunning == ASSUME MaxFaults = 0 PROVE RunningSpec => []NothingLost
<1>1. InitRunning => IInv /\ LInv
  BY RunningInit, LInit DEF InitRunning
<1>2. IInv /\ LInv /\ [Next]_vars => IInv' /\ LInv'
  BY IStep, LStep
<1>3. LInv => NothingLost
  BY DEF LInv, Owed, NothingLost
<1> QED BY <1>1, <1>2, <1>3, PTL DEF RunningSpec
=============================================================================
