------------------------ MODULE LifecycleRefinement ------------------------
(***************************************************************************)
(* Lifecycle implements LifecycleContract: the handlers, their open        *)
(* transactions, retries and crashes, seen through the rows a client can   *)
(* read, make the steps of the contract and no other.                      *)
(***************************************************************************)
EXTENDS LifecycleProofs

-----------------------------------------------------------------------------
(* The mapping, and what a step on the rows means under it. *)

Statuses == [c \in Computer |-> row[c].status]
Gone     == [c \in Computer |-> row[c].deleted]
Orders   == [j \in Job |-> IF Visible(j)
                           THEN [computer |-> job[j].computer, type |-> job[j].type]
                           ELSE [computer |-> None, type |-> None]]

Simulated == [Contract!CNext]_(Contract!cvars)

\* The contract's tables are the program's.
LEMMA SameTables ==
    /\ Contract!From = From /\ Contract!To = To /\ Contract!jobType = jobType
    /\ Contract!LifecycleAction = LifecycleAction
  BY DEF Contract!From, From, Contract!To, To, Contract!jobType, jobType,
         Contract!LifecycleAction, LifecycleAction

\* A row given a new value changes one status and one mark of deletion.
LEMMA RowMaps ==
    ASSUME row \in [Computer -> Row], NEW c \in Computer, NEW new,
           row' = [row EXCEPT ![c] = new]
    PROVE  /\ Statuses' = [Statuses EXCEPT ![c] = new.status]
           /\ Gone' = [Gone EXCEPT ![c] = new.deleted]
           /\ new.deleted = row[c].deleted => UNCHANGED Gone
<1>1. \A d \in Computer : row'[d] = IF d = c THEN new ELSE row[d]
  OBVIOUS
<1>2. Statuses' = [Statuses EXCEPT ![c] = new.status]
  BY <1>1 DEF Statuses
<1>3. Gone' = [Gone EXCEPT ![c] = new.deleted]
  BY <1>1 DEF Gone
<1>4. new.deleted = row[c].deleted => UNCHANGED Gone
  BY <1>1 DEF Gone
<1> QED BY <1>2, <1>3, <1>4

\* A step that leaves the visible jobs visible, and the others not, takes and
\* gives no order.
LEMMA OrdersStay ==
    ASSUME IInv, Next, \A j \in Job : ~Visible(j) => ~Visible(j)'
    PROVE  Orders' = Orders
<1>1. ASSUME NEW j \in Job
      PROVE  /\ Visible(j)' <=> Visible(j)
             /\ Visible(j) => /\ job'[j].computer = job[j].computer
                              /\ job'[j].type = job[j].type
  <2>1. Visible(j) => job[j].status # "FREE"
    BY DEF Visible
  <2> QED BY <2>1, JobFields
<1> QED BY <1>1 DEF Orders, Job

\* A row's status is reported anew.
LEMMA Observed ==
    ASSUME row \in [Computer -> Row], NEW c \in Computer, NEW new,
           row' = [row EXCEPT ![c] = new], new.status \in Contract!Reported,
           new.deleted = row[c].deleted, Orders' = Orders
    PROVE  Simulated
<1>1. Contract!Observe(c, new.status)
  <2>1. Statuses' = [Statuses EXCEPT ![c] = new.status] /\ Gone' = Gone
    BY RowMaps
  <2> QED BY <2>1 DEF Contract!Observe, Statuses, Gone, Orders
<1> QED BY <1>1 DEF Simulated, Contract!CNext

\* A row is deleted.
LEMMA Retired ==
    ASSUME row \in [Computer -> Row], NEW c \in Computer, NEW new,
           row' = [row EXCEPT ![c] = new], new.status = "DELETED", new.deleted = TRUE,
           Orders' = Orders
    PROVE  Simulated
<1>1. Contract!Retire(c)
  <2>1. Statuses' = [Statuses EXCEPT ![c] = "DELETED"] /\ Gone' = [Gone EXCEPT ![c] = TRUE]
    BY RowMaps
  <2> QED BY <2>1 DEF Contract!Retire, Statuses, Gone, Orders
<1> QED BY <1>1 DEF Simulated, Contract!CNext

\* A step that leaves the computer rows and the visible jobs alone is a
\* stutter of the contract.
LEMMA Unchanged ==
    ASSUME UNCHANGED row, Orders' = Orders
    PROVE  Simulated
<1>1. Statuses' = Statuses /\ Gone' = Gone
  BY DEF Statuses, Gone
<1> QED BY <1>1 DEF Simulated, Contract!cvars, Statuses, Gone, Orders

-----------------------------------------------------------------------------
(* Step by step. *)

\* Every step of an API handler is a step of the contract, or a stutter.
LEMMA ApiSimulated ==
    ASSUME IInv, Next, NEW r \in Request, ApiStep(r)
    PROVE  Simulated
<1> SUFFICES ASSUME NEW c, c = request[r].computer, NEW a, a = request[r].action
             PROVE  Simulated
  OBVIOUS
<1>0. /\ row \in [Computer -> Row] /\ job \in [Job -> JobRow]
      /\ request[r].pc # "idle" => c \in Computer
      /\ request[r].pc = "created" => row[c].status # "ABSENT"
  BY DEF IInv, TypeOK, ReadsFormed
<1>1. ASSUME UNCHANGED <<row, job>> PROVE Simulated
  <2>1. Orders' = Orders
    BY <1>1 DEF Orders, Visible, Job
  <2> QED BY <1>1, <2>1, Unchanged
<1>2. CASE CreateRow(r)
  <2> SUFFICES ASSUME NEW new, new = [row[c] EXCEPT !.status = "CREATING"]
               PROVE  Simulated
    OBVIOUS
  <2>1. /\ row' = [row EXCEPT ![c] = new]
        /\ c \in Computer /\ row[c].status = "ABSENT" /\ UNCHANGED job
    BY <1>0, <1>2 DEF CreateRow
  <2>2. new.status = "CREATING" /\ new.deleted = row[c].deleted
    BY <1>0, <2>1 DEF Row
  <2>3. Statuses' = [Statuses EXCEPT ![c] = "CREATING"] /\ UNCHANGED Gone
    <3>1. /\ Statuses' = [Statuses EXCEPT ![c] = new.status]
          /\ new.deleted = row[c].deleted => UNCHANGED Gone
      BY <1>0, <2>1, RowMaps
    <3> QED BY <2>2, <3>1
  <2>4. Orders' = Orders
    BY <2>1 DEF Orders, Visible, Job
  <2>5. Contract!Register(c)
    BY <2>1, <2>3, <2>4 DEF Contract!Register, Statuses, Gone, Orders
  <2>6. Contract!CNext
    BY <2>1, <2>5 DEF Contract!CNext
  <2> QED BY <2>6 DEF Simulated
<1>3. ASSUME EnqueueCreated(r) \/ EnqueueLost(r), ~UNCHANGED job PROVE Simulated
  <2>1. /\ FreeJobs # {} /\ UNCHANGED row /\ c \in Computer /\ row[c].status # "ABSENT"
        /\ \E status \in {"QUEUED", "FAILED"} :
              job' = [job EXCEPT ![NewJob] =
                          NewRow(c, "PROVISION", request[r].key, status)]
    BY <1>0, <1>3 DEF EnqueueCreated, EnqueueLost
  <2> SUFFICES ASSUME NEW n, n = NewJob
               PROVE  Simulated
    OBVIOUS
  <2>2. PICK status \in {"QUEUED", "FAILED"} :
           job' = [job EXCEPT ![n] = NewRow(c, "PROVISION", request[r].key, status)]
    BY <2>1
  <2>3. n \in Job /\ ~Visible(n)
    BY <2>1, NewJobFree DEF Visible
  <2>4. /\ job'[n].status = status /\ job'[n].computer = c
        /\ job'[n].type = "PROVISION"
        /\ \A j \in Job \ {n} : job'[j] = job[j]
    BY <1>0, <2>2, <2>3 DEF NewRow
  <2>5. Orders' = [Orders EXCEPT ![n] = [computer |-> c, type |-> "PROVISION"]]
    BY <2>3, <2>4 DEF Orders, Visible, Job
  <2>6. Orders[n] = Contract!NoOrder
    BY <2>3 DEF Orders, Contract!NoOrder
  <2>7. Statuses[c] # "ABSENT" /\ UNCHANGED <<Statuses, Gone>>
    BY <2>1 DEF Statuses, Gone
  <2>8. Contract!Build(c, n)
    BY <2>5, <2>6, <2>7 DEF Contract!Build, Statuses, Gone, Orders
  <2>9. Contract!CNext
    BY <2>1, <2>3, <2>8 DEF Contract!CNext
  <2> QED BY <2>9 DEF Simulated
<1>4. CASE Submit(r)
  <2>1. /\ FreeJobs # {} /\ UNCHANGED row
        /\ job' = [job EXCEPT ![NewJob] = NewRow(c, jobType[a], request[r].key, "OPEN")]
    BY <1>4 DEF Submit
  <2>2. ASSUME NEW j \in Job, ~Visible(j) PROVE ~Visible(j)'
    <3>1. CASE j = NewJob
      BY <1>0, <2>1, <3>1 DEF NewRow, Visible
    <3>2. CASE j # NewJob
      BY <1>0, <2>1, <2>2, <3>2 DEF Visible
    <3> QED BY <3>1, <3>2
  <2> QED BY <2>1, <2>2, OrdersStay, Unchanged
<1>5. CASE Commit(r)
  <2> SUFFICES ASSUME NEW j, j = request[r].job
               PROVE  Simulated
    OBVIOUS
  <2>1. /\ c \in Computer /\ a \in LifecycleAction /\ row[c].status \in From[a]
        /\ ~row[c].deleted /\ j \in Job /\ job[j].status = "OPEN" /\ job[j].computer = c
        /\ job[j].type = jobType[a]
    BY <1>5 DEF Commit, IInv, TransactionsFormed, ReadsFormed, Unmoved
  <2> SUFFICES ASSUME NEW new, new = Updated(row[c], To[a])
               PROVE  Simulated
    OBVIOUS
  <2>2. row' = [row EXCEPT ![c] = new] /\ job' = [job EXCEPT ![j].status = "QUEUED"]
    BY <1>5 DEF Commit, Moved
  <2>3. new.status = To[a] /\ new.deleted = row[c].deleted
    BY <1>0, <2>1, UpdatedFields
  <2>4. Statuses' = [Statuses EXCEPT ![c] = To[a]] /\ UNCHANGED Gone
    <3>1. /\ Statuses' = [Statuses EXCEPT ![c] = new.status]
          /\ new.deleted = row[c].deleted => UNCHANGED Gone
      BY <1>0, <2>1, <2>2, RowMaps
    <3> QED BY <2>3, <3>1
  <2>5. /\ job'[j].status = "QUEUED" /\ job'[j].computer = c /\ job'[j].type = jobType[a]
        /\ \A i \in Job \ {j} : job'[i] = job[i]
    BY <1>0, <2>1, <2>2 DEF JobRow
  <2>6. Orders' = [Orders EXCEPT ![j] = [computer |-> c, type |-> jobType[a]]]
    BY <2>1, <2>5 DEF Orders, Visible, Job
  <2>7. Orders[j] = Contract!NoOrder
    BY <2>1 DEF Orders, Visible, Contract!NoOrder
  <2>8. Statuses[c] \in From[a] /\ ~Gone[c]
    BY <2>1 DEF Statuses, Gone
  <2>9. Contract!Accept(c, a, j)
    BY <2>4, <2>6, <2>7, <2>8, SameTables DEF Contract!Accept, Statuses, Gone, Orders
  <2>10. Contract!CNext
    BY <2>1, <2>9, SameTables DEF Contract!CNext
  <2> QED BY <2>10 DEF Simulated
<1>6. CASE Abort(r)
  <2>1. UNCHANGED row /\ job' = [job EXCEPT ![request[r].job].status = "ABORTED"]
    BY <1>6 DEF Abort
  <2>2. ASSUME NEW j \in Job, ~Visible(j) PROVE ~Visible(j)'
    <3>1. CASE j = request[r].job
      BY <1>0, <2>1, <3>1 DEF JobRow, Visible
    <3>2. CASE j # request[r].job
      BY <1>0, <2>1, <2>2, <3>2 DEF Visible
    <3> QED BY <3>1, <3>2
  <2> QED BY <2>1, <2>2, OrdersStay, Unchanged
<1>7. CASE Replay(r)
  <2>1. /\ c \in Computer /\ a \in LifecycleAction /\ row[c].status \in From[a]
        /\ ~row[c].deleted
    BY <1>7 DEF Replay, IInv, ReadsFormed, Unmoved
  <2> SUFFICES ASSUME NEW new, new = Updated(row[c], To[a])
               PROVE  Simulated
    OBVIOUS
  <2>2. row' = [row EXCEPT ![c] = new] /\ UNCHANGED job
    BY <1>7 DEF Replay, Moved
  <2>3. new.status = To[a] /\ new.deleted = row[c].deleted
    BY <1>0, <2>1, UpdatedFields
  <2>4. Statuses' = [Statuses EXCEPT ![c] = To[a]] /\ UNCHANGED Gone
    <3>1. /\ Statuses' = [Statuses EXCEPT ![c] = new.status]
          /\ new.deleted = row[c].deleted => UNCHANGED Gone
      BY <1>0, <2>1, <2>2, RowMaps
    <3> QED BY <2>3, <3>1
  <2>5. Orders' = Orders
    BY <2>2 DEF Orders, Visible, Job
  <2>6. PICK j \in Job : Visible(j)
    BY <1>7 DEF Replay, Prior
  <2>7. job[j].computer \in Computer
    BY <2>6 DEF IInv, JobsFormed, Visible
  <2>8. Orders[j] # Contract!NoOrder
    BY <2>6, <2>7, ConstantsAssumption DEF Orders, Contract!NoOrder, ConstantsAssumption
  <2>9. Statuses[c] \in From[a] /\ ~Gone[c]
    BY <2>1 DEF Statuses, Gone
  <2>10. Contract!Repeat(c, a)
    BY <2>4, <2>5, <2>8, <2>9, SameTables DEF Contract!Repeat, Statuses, Gone, Orders
  <2>11. Contract!CNext
    BY <2>1, <2>10, SameTables DEF Contract!CNext
  <2> QED BY <2>11 DEF Simulated
<1>8. ASSUME ~(CreateRow(r) \/ Submit(r) \/ Commit(r) \/ Abort(r) \/ Replay(r)),
             (EnqueueCreated(r) \/ EnqueueLost(r)) => UNCHANGED job
      PROVE  UNCHANGED <<row, job>>
  BY <1>8 DEF ApiStep, CheckQuota, EnqueueCreated, EnqueueLost, ReadRow, Reject
<1> QED BY <1>1, <1>2, <1>3, <1>4, <1>5, <1>6, <1>7, <1>8

\* Every step of the job handler is a report or a retirement of the
\* contract, or a stutter.
LEMMA WorkerSimulated ==
    ASSUME IInv, Next, NEW w \in Worker, WorkerStep(w)
    PROVE  Simulated
<1> DEFINE c == Of(w)
<1>0. /\ row \in [Computer -> Row] /\ job \in [Job -> JobRow]
      /\ Busy(w) => /\ c \in Computer /\ worker[w].type \in JobType
                    /\ worker[w].status \in Contract!Reported
                    /\ Visible(worker[w].job)
  BY DEF IInv, TypeOK, SlotsFormed, JobsFormed, Equipped, Visible, Of
<1>1. Orders' = Orders
  <2>1. ASSUME NEW j \in Job, ~Visible(j) PROVE ~Visible(j)'
    <3>1. job'[j] = job[j]
      <4>1. ASSUME NEW i \in Job, Take(w, i) PROVE job'[j] = job[j]
        BY <1>0, <2>1, <4>1 DEF Take
      <4>2. ASSUME Succeed(w) \/ Report(w) PROVE job'[j] = job[j]
        <5>1. worker[w].job # j
          BY <1>0, <2>1, <4>2 DEF Succeed, Report, Busy
        <5> QED BY <1>0, <4>2, <5>1 DEF Succeed, Report
      <4>3. ASSUME ~\E i \in Job : Take(w, i), ~(Succeed(w) \/ Report(w))
            PROVE  UNCHANGED job
        BY <4>3 DEF WorkerStep, Miss, Schedule, Reserve, Release, Create, Record, Operate,
                    Finish, Ack, Fail, Mark, FailTwice, Nack
      <4> QED BY <4>1, <4>2, <4>3
    <3> QED BY <2>1, <3>1 DEF Visible
  <2> QED BY <2>1, OrdersStay
<1>2. CASE Reserve(w)
  <2> DEFINE new == PlacedRow(row[c], worker[w].host)
  <2>1. row' = [row EXCEPT ![c] = new] /\ c \in Computer
    BY <1>0, <1>2 DEF Reserve, Busy
  <2>2. new.status = "PROVISIONING" /\ new.deleted = row[c].deleted
    BY <1>0, <2>1 DEF PlacedRow, Row
  <2>3. new.status \in Contract!Reported
    BY <2>2 DEF Contract!Reported
  <2> HIDE DEF new, c
  <2> QED BY <1>0, <1>1, <2>1, <2>2, <2>3, Observed
<1>3. CASE Release(w)
  <2> DEFINE new == [Updated(row[c], "DELETED") EXCEPT !.deleted = TRUE]
  <2>1. row' = [row EXCEPT ![c] = new] /\ c \in Computer
    BY <1>0, <1>3 DEF Release, Busy
  <2>2. new.status = "DELETED" /\ new.deleted = TRUE
    BY <1>0, <2>1 DEF Updated, Row
  <2> HIDE DEF new, c
  <2> QED BY <1>0, <1>1, <2>1, <2>2, Retired
<1>4. CASE Record(w)
  <2> DEFINE new == [row[c] EXCEPT !.instance = worker[w].instance, !.status = worker[w].status]
  <2>1. row' = [row EXCEPT ![c] = new] /\ c \in Computer
    BY <1>0, <1>4 DEF Record, Busy
  <2>2. new.status = worker[w].status /\ new.deleted = row[c].deleted
    BY <1>0, <2>1 DEF Row
  <2>3. worker[w].status \in Contract!Reported
    BY <1>0, <1>4 DEF Record, Busy
  <2> HIDE DEF new, c
  <2> QED BY <1>0, <1>1, <2>1, <2>2, <2>3, Observed
<1>5. CASE Finish(w)
  <2> DEFINE target == finalStatus[worker[w].type]
             new == [Updated(row[c], target) EXCEPT
                        !.deleted = row[c].deleted \/ target = "DELETED"]
  <2>1. row' = [row EXCEPT ![c] = new] /\ c \in Computer
    BY <1>0, <1>5 DEF Finish, Busy
  <2>2. target \in Contract!Reported
    BY <1>0, <1>5, TableTypes DEF Finish, Busy
  <2> HIDE DEF target
  <2>3. new.status = target /\ new.deleted = (row[c].deleted \/ target = "DELETED")
        /\ row[c].deleted \in BOOLEAN
    BY <1>0, <2>1 DEF Updated, Row
  <2> HIDE DEF new, c
  <2>4. CASE target = "DELETED"
    <3>1. new.status = "DELETED" /\ new.deleted = TRUE
      BY <2>3, <2>4
    <3> QED BY <1>0, <1>1, <2>1, <3>1, Retired
  <2>5. CASE target # "DELETED"
    <3>1. new.status \in Contract!Reported /\ new.deleted = row[c].deleted
      BY <2>2, <2>3, <2>5
    <3> QED BY <1>0, <1>1, <2>1, <3>1, Observed
  <2> QED BY <2>4, <2>5
<1>6. CASE Mark(w)
  <2> DEFINE new == Updated(row[c], worker[w].status)
  <2>1. row' = [row EXCEPT ![c] = new] /\ c \in Computer
    BY <1>0, <1>6 DEF Mark, Busy
  <2>2. new.status = worker[w].status /\ new.deleted = row[c].deleted
    BY <1>0, <2>1, UpdatedFields
  <2>3. worker[w].status \in Contract!Reported
    BY <1>0, <1>6 DEF Mark, Busy
  <2> HIDE DEF new, c
  <2> QED BY <1>0, <1>1, <2>1, <2>2, <2>3, Observed
<1>7. ASSUME ~(Reserve(w) \/ Release(w) \/ Record(w) \/ Finish(w) \/ Mark(w))
      PROVE  UNCHANGED row
  BY <1>7 DEF WorkerStep, Take, Miss, Schedule, Create, Operate, Succeed, Ack, Fail, Report,
              FailTwice, Nack
<1> QED BY <1>1, <1>2, <1>3, <1>4, <1>5, <1>6, <1>7, Unchanged

\* Every step of a reconciliation pass is a report of the contract, or a
\* stutter.
LEMMA PassSimulated ==
    ASSUME IInv, Next, NEW p \in Pass, PassStep(p)
    PROVE  Simulated
<1>0. row \in [Computer -> Row]
  BY DEF IInv, TypeOK
<1>1. UNCHANGED job
  BY DEF PassStep, ReadComputers, Inspect, InspectFails, Write, CheckHosts, Tally, Correct,
         EndPass
<1>2. Orders' = Orders
  BY <1>1 DEF Orders, Visible, Job
<1>3. CASE Write(p)
  <2> DEFINE c == pass[p].at
             new == Updated(row[c], pass[p].status)
  <2>1. /\ row' = [row EXCEPT ![c] = new] /\ c \in Computer
        /\ pass[p].status \in Contract!Reported
    BY <1>3 DEF Write, IInv, PassesFormed
  <2>2. new.status = pass[p].status /\ new.deleted = row[c].deleted
    BY <1>0, <2>1, UpdatedFields
  <2> HIDE DEF new, c
  <2> QED BY <1>0, <1>2, <2>1, <2>2, Observed
<1>4. ASSUME ~Write(p) PROVE UNCHANGED row
  BY <1>4 DEF PassStep, ReadComputers, Inspect, InspectFails, CheckHosts, Tally, Correct, EndPass
<1> QED BY <1>2, <1>3, <1>4, Unchanged

\* Every step is one of the contract's, or changes nothing a client can read.
LEMMA Simulation == IInv /\ [Next]_vars => Simulated
<1>1. ASSUME UNCHANGED <<row, job>> PROVE Simulated
  <2>1. Orders' = Orders
    BY <1>1 DEF Orders, Visible, Job
  <2> QED BY <1>1, <2>1, Unchanged
<1>2. ASSUME IInv, Next PROVE Simulated
  <2>1. ASSUME NEW j \in Job, Promote(j) \/ Stall(j) PROVE UNCHANGED <<row, job>>
    BY <2>1 DEF Promote, Stall
  <2>2. ASSUME NEW h \in Host, NEW c \in Computer, Exit(h, c) PROVE UNCHANGED <<row, job>>
    BY <2>2 DEF Exit
  <2>3. ASSUME Crash PROVE UNCHANGED <<row, job>>
    BY <2>3 DEF Crash
  <2> QED BY <1>1, <1>2, <2>1, <2>2, <2>3, ApiSimulated, WorkerSimulated, PassSimulated DEF Next
<1>3. UNCHANGED vars => UNCHANGED <<row, job>>
  BY DEF vars
<1> QED BY <1>1, <1>2, <1>3

\* The empty system is one the contract may start in.
LEMMA Starts == Init => Contract!CInit
<1> SUFFICES ASSUME Init PROVE Contract!CInit
  OBVIOUS
<1>1. /\ \A c \in Computer : row[c].status = "ABSENT" /\ row[c].deleted = FALSE
      /\ \A j \in Job : ~Visible(j)
  BY DEF Init, AbsentRow, FreeJob, Visible
<1> QED BY <1>1 DEF Contract!CInit, Contract!NoOrder

\* The control plane keeps its contract with the clients of the lifecycle API,
\* whatever the number of handlers, worker slots and computers, and whatever
\* fails: a request is accepted in one step against the status the computer has
\* then, a deletion is final, and no accepted order is taken back.
THEOREM Refinement == Spec => ContractKept
<1>1. Spec => Contract!CInit /\ [][Contract!CNext]_(Contract!cvars)
  BY Starts, Simulation, Invariant, PTL DEF Spec, Simulated
<1> QED BY <1>1 DEF ContractKept, Contract!CSpec
=============================================================================
