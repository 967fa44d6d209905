---------------------------- MODULE AgentControl ----------------------------
(***************************************************************************)
(* Who drives the desktop of one AI Computer: the control lock in Redis    *)
(* (services/control.ts), the agent runs bound to the computer and the API *)
(* handlers that attach, detach, pause and resume them (routes/agent.ts,   *)
(* routes/desktop.ts), and the executors that carry out a run step by step *)
(* (services/agent.ts) on the agent worker or in the API process, told of  *)
(* a change of control over the activity channel (services/activity.ts).   *)
(*                                                                         *)
(* Every step is what runs between two awaits on Redis, PostgreSQL or the  *)
(* container. An executor polls: its waits last as long as they like, up   *)
(* to a deadline that comes at no particular moment.                       *)
(***************************************************************************)
EXTENDS Naturals, FiniteSets

CONSTANTS
    Human,        \* signed-in operators
    Caller,       \* concurrent API handlers
    WorkerSlot,   \* concurrent slots of the agent worker
    ApiSlot,      \* concurrent executions in the API process
    None,         \* no operator
    Requests,     \* the requests clients make
    MaxRuns,      \* bound: agent runs
    MaxSteps,     \* bound: steps of a recipe
    MaxCrashes    \* bound: crashes of the worker or of the API process

ASSUME AgentAssumption ==
    /\ None \notin Human
    /\ Caller \cap (WorkerSlot \cup ApiSlot) = {}
    /\ WorkerSlot \cap ApiSlot = {}
    /\ MaxRuns \in Nat /\ MaxSteps \in Nat \ {0} /\ MaxCrashes \in Nat

VARIABLES
    lock,      \* the hash of the computer in Redis, and whether it has a TTL
    run,       \* the status of each AgentRun
    entry,     \* the BullMQ entry of each run
    exec,      \* the executors and what each has in hand
    call,      \* the API handlers in progress
    tuned,     \* whether each process's Redis subscriber has the channel
    crashes,   \* crashes so far
    stray      \* for StrayInput: inputs of each actor since an operator took control

avars == <<lock, run, entry, exec, call, tuned, crashes, stray>>

Run == 1..MaxRuns
Executor == WorkerSlot \cup ApiSlot
Process == {"worker", "api"}
Home(e) == IF e \in WorkerSlot THEN "worker" ELSE "api"

-----------------------------------------------------------------------------
(* State. *)

ACTIVE_RUN_STATUSES == {"QUEUED", "ATTACHED", "OBSERVING", "ACTING", "WAITING_FOR_HUMAN"}
TERMINAL_RUN_STATUSES == {"COMPLETED", "FAILED", "DETACHED"}
RunStatus == {"ABSENT"} \cup ACTIVE_RUN_STATUSES \cup TERMINAL_RUN_STATUSES

Lock == [holder : Human \cup {None}, timed : BOOLEAN]

AgentEntry == [state : {"none", "waiting", "active", "done", "failed"}, stalls : Nat]

\* Where an executor is: each value but "idle" is the call it is about to make.
ExecPc == {"idle", "begin", "hold", "held", "check", "mark", "step", "park", "ask", "tune",
           "wait", "look", "leave", "settle", "observe", "fail", "drop", "complete", "ack"}

\* begun: the hold before the first step is over. resumed: what the wait for a
\* human came to.
Exec == [pc : ExecPc, run : Nat, steps : Nat, begun : BOOLEAN,
         sawHuman : BOOLEAN, released : BOOLEAN, resumed : BOOLEAN]

CallPc == {"idle", "create", "submit", "end", "pause", "input", "arm", "taken", "find",
           "reopen", "released"}

Call == [pc : CallPc, run : Nat]

NoLock == [holder |-> None, timed |-> FALSE]
NoAgentEntry == [state |-> "none", stalls |-> 0]
IdleExec == [pc |-> "idle", run |-> 0, steps |-> 0, begun |-> FALSE,
             sawHuman |-> FALSE, released |-> FALSE, resumed |-> FALSE]
IdleCall == [pc |-> "idle", run |-> 0]
Unstrayed == [x \in Executor \cup Caller |-> 0]

AInit ==
    /\ lock = NoLock
    /\ run = [r \in Run |-> "ABSENT"]
    /\ entry = [r \in Run |-> NoAgentEntry]
    /\ exec = [e \in Executor |-> IdleExec]
    /\ call = [c \in Caller |-> IdleCall]
    /\ tuned = [p \in Process |-> FALSE]
    /\ crashes = 0
    /\ stray = Unstrayed

-----------------------------------------------------------------------------
(* Shared. *)

Over(r) == run[r] \in TERMINAL_RUN_STATUSES

Active == {r \in Run : run[r] \in ACTIVE_RUN_STATUSES}

\* activeRunFor: the newest of them; run ids are given in order of creation.
ActiveRunFor(r) == r \in Active /\ \A s \in Active : s <= r

Absent == {r \in Run : run[r] = "ABSENT"}
NewRun(r) == r \in Absent /\ \A s \in Absent : r <= s

\* The state of the lock that lets an agent act.
AgentControls == lock.holder = None

\* Mutant of Gate: the route for an action has no gate.
GateOpen == TRUE

\* gate, for a caller that is an agent.
Gate == AgentControls

\* An input to the desktop: counted against its author while an operator is in
\* control.
Inputs(x) == stray' = IF AgentControls THEN stray ELSE [stray EXCEPT ![x] = @ + 1]

\* The hash is gone.
Free == /\ lock' = NoLock
        /\ stray' = Unstrayed

\* An event on the activity channel, for the executors whose listener is on and
\* whose process has the channel.
Listening(e) == exec[e].pc \in {"tune", "wait", "look"} /\ tuned[Home(e)]

Told(e, kind) ==
    IF ~Listening(e) THEN exec[e]
    ELSE IF kind = "human.took_control" THEN [exec[e] EXCEPT !.sawHuman = TRUE]
    ELSE [exec[e] EXCEPT !.released = TRUE]

Idle(c) == call[c].pc = "idle"
Reply(c) == call' = [call EXCEPT ![c] = IdleCall]
Then(c, pc, r) == call' = [call EXCEPT ![c] = [pc |-> pc, run |-> r]]

-----------------------------------------------------------------------------
(* POST /computers/:id/attach, /detach and /actions. *)

\* A new run: refused to an agent while a run is active, and not to an operator.
Attach(c) ==
    /\ Idle(c)
    /\ \/ "attach" \in Requests /\ Active = {}
       \/ "console" \in Requests
    /\ Absent # {}
    /\ Then(c, "create", 0)
    /\ UNCHANGED <<lock, run, entry, exec, tuned, crashes, stray>>

\* The run, and with a task its job.
CreateRun(c) ==
    /\ call[c].pc = "create"
    /\ \E r \in Run : /\ NewRun(r)
                      /\ run' = [run EXCEPT ![r] = "ATTACHED"]
                      /\ Then(c, "submit", r) \/ Reply(c)
    /\ UNCHANGED <<lock, entry, exec, tuned, crashes, stray>>

\* An attach that names a run still ATTACHED submits its task, perhaps again.
Rejoin(c, r) ==
    /\ Idle(c)
    /\ "attach" \in Requests
    /\ run[r] = "ATTACHED"
    /\ Then(c, "submit", r)
    /\ UNCHANGED <<lock, run, entry, exec, tuned, crashes, stray>>

\* Mutant of Queued: the entry does not have the run's id.
QueuedAnew(e) == [e EXCEPT !.state = "waiting"]

\* queue.add under the run's id: nothing if there is such an entry.
Queued(e) == IF e.state = "none" THEN [e EXCEPT !.state = "waiting"] ELSE e

Submit(c) ==
    /\ call[c].pc = "submit"
    /\ entry' = [entry EXCEPT ![call[c].run] = Queued(@)]
    /\ Reply(c)
    /\ UNCHANGED <<lock, run, exec, tuned, crashes, stray>>

Detach(c, r) ==
    /\ Idle(c)
    /\ "detach" \in Requests
    /\ run[r] # "ABSENT"
    /\ ~Over(r)
    /\ Then(c, "end", r)
    /\ UNCHANGED <<lock, run, entry, exec, tuned, crashes, stray>>

\* finishRun, whatever the run has become.
EndRun(c) ==
    /\ call[c].pc = "end"
    /\ run' = [run EXCEPT ![call[c].run] = "DETACHED"]
    /\ Reply(c)
    /\ UNCHANGED <<lock, entry, exec, tuned, crashes, stray>>

\* An input from an agent that drives the desktop itself passes the gate ...
Input(c) ==
    /\ Idle(c)
    /\ "input" \in Requests
    /\ Gate
    /\ Then(c, "input", 0)
    /\ UNCHANGED <<lock, run, entry, exec, tuned, crashes, stray>>

\* ... and reaches the container.
Perform(c) ==
    /\ call[c].pc = "input"
    /\ Inputs(c)
    /\ Reply(c)
    /\ UNCHANGED <<lock, run, entry, exec, tuned, crashes>>

-----------------------------------------------------------------------------
(* Requests for control. *)

\* controller/request from an agent: any run of the computer it names.
Summon(c, r) ==
    /\ Idle(c)
    /\ "summon" \in Requests
    /\ run[r] # "ABSENT"
    /\ Then(c, "pause", r)
    /\ UNCHANGED <<lock, run, entry, exec, tuned, crashes, stray>>

PauseRun(c) ==
    /\ call[c].pc = "pause"
    /\ run' = [run EXCEPT ![call[c].run] = "WAITING_FOR_HUMAN"]
    /\ Reply(c)
    /\ UNCHANGED <<lock, entry, exec, tuned, crashes, stray>>

\* ControlLock.take: hset, which leaves a TTL as it is, ...
TakeControl(c, h) ==
    /\ Idle(c)
    /\ "control" \in Requests
    /\ lock' = [lock EXCEPT !.holder = h]
    /\ Then(c, "arm", 0)
    /\ UNCHANGED <<run, entry, exec, tuned, crashes, stray>>

\* Mutant of Armed: the key gets no TTL.
ArmedNever(l) == l

\* expire, on a key that may be gone.
Armed(l) == IF l.holder = None THEN l ELSE [l EXCEPT !.timed = TRUE]

\* ... then expire, ...
Arm(c) ==
    /\ call[c].pc = "arm"
    /\ lock' = Armed(lock)
    /\ Then(c, "taken", 0)
    /\ UNCHANGED <<run, entry, exec, tuned, crashes, stray>>

\* ... and the event.
AnnounceTaken(c) ==
    /\ call[c].pc = "taken"
    /\ exec' = [e \in Executor |-> Told(e, "human.took_control")]
    /\ Reply(c)
    /\ UNCHANGED <<lock, run, entry, tuned, crashes, stray>>

\* Any operator may release; then the newest active run is looked up, ...
ReleaseControl(c) ==
    /\ Idle(c)
    /\ "control" \in Requests
    /\ Free
    /\ Then(c, "find", 0)
    /\ UNCHANGED <<run, entry, exec, tuned, crashes>>

FindWaiting(c) ==
    /\ call[c].pc = "find"
    /\ \/ \E r \in Run : /\ ActiveRunFor(r)
                         /\ run[r] = "WAITING_FOR_HUMAN"
                         /\ Then(c, "reopen", r)
       \/ /\ ~\E r \in Run : ActiveRunFor(r) /\ run[r] = "WAITING_FOR_HUMAN"
          /\ Then(c, "released", 0)
    /\ UNCHANGED <<lock, run, entry, exec, tuned, crashes, stray>>

\* ... and no longer waits, ...
Reopen(c) ==
    /\ call[c].pc = "reopen"
    /\ run' = [run EXCEPT ![call[c].run] = "ATTACHED"]
    /\ Then(c, "released", 0)
    /\ UNCHANGED <<lock, entry, exec, tuned, crashes, stray>>

\* ... and the event.
AnnounceReleased(c) ==
    /\ call[c].pc = "released"
    /\ exec' = [e \in Executor |-> Told(e, "human.control_released")]
    /\ Reply(c)
    /\ UNCHANGED <<lock, run, entry, tuned, crashes, stray>>

CallStep(c) ==
    \/ Attach(c) \/ CreateRun(c) \/ Submit(c) \/ EndRun(c)
    \/ Input(c) \/ Perform(c) \/ PauseRun(c)
    \/ \E r \in Run : Rejoin(c, r) \/ Detach(c, r) \/ Summon(c, r)
    \/ \E h \in Human : TakeControl(c, h)
    \/ Arm(c) \/ AnnounceTaken(c) \/ ReleaseControl(c)
    \/ FindWaiting(c) \/ Reopen(c) \/ AnnounceReleased(c)

-----------------------------------------------------------------------------
(* The desktop stream and the events stream. *)

\* Every minute of a desktop stream: a lock its operator holds is refreshed.
KeepAlive ==
    /\ "stream" \in Requests
    /\ ~AgentControls
    /\ lock' = [lock EXCEPT !.timed = TRUE]
    /\ UNCHANGED <<run, entry, exec, call, tuned, crashes, stray>>

\* The TTL runs out: between two refreshes, or with nobody to refresh it.
Expire ==
    /\ lock.timed
    /\ Free
    /\ UNCHANGED <<run, entry, exec, call, tuned, crashes>>

\* A viewer opens the events socket of the computer, or closes one.
Events ==
    /\ "events" \in Requests
    /\ tuned' = [tuned EXCEPT !["api"] = ~@]
    /\ UNCHANGED <<lock, run, entry, exec, call, crashes, stray>>

-----------------------------------------------------------------------------
(* executeRun. *)

At(e, pc) == exec[e].pc = pc
Goes(e, pc) == exec' = [exec EXCEPT ![e].pc = pc]
SetRun(e, status) == run' = [run EXCEPT ![exec[e].run] = status]

\* The worker takes a queued run, or the API is asked to execute one. Nothing
\* is done for a run that is over.
Accept(e, r) ==
    /\ At(e, "idle")
    /\ IF e \in WorkerSlot
       THEN /\ entry[r].state = "waiting"
            /\ entry' = [entry EXCEPT ![r].state = "active"]
       ELSE "execute" \in Requests /\ ~Over(r) /\ run[r] # "ABSENT" /\ UNCHANGED entry
    /\ exec' = [exec EXCEPT ![e] =
           [IdleExec EXCEPT !.pc = IF Over(r) THEN "ack" ELSE "begin", !.run = r]]
    /\ UNCHANGED <<lock, run, call, tuned, crashes, stray>>

\* How many steps a recipe has.
RecipeLengths == 1..MaxSteps

\* The desktop is found, and the run marked ACTING.
Begin(e) ==
    /\ At(e, "begin")
    /\ SetRun(e, "ACTING")
    /\ \E n \in RecipeLengths :
          exec' = [exec EXCEPT ![e].pc = "hold", ![e].steps = n]
    /\ UNCHANGED <<lock, entry, call, tuned, crashes, stray>>

\* checkHumanHold: the lock is read, and while it is held the run, ...
Hold(e) ==
    /\ At(e, "hold")
    /\ IF AgentControls
       THEN exec' = [exec EXCEPT ![e].pc = IF exec[e].begun THEN "mark" ELSE "check",
                                 ![e].begun = TRUE]
       ELSE Goes(e, "held")
    /\ UNCHANGED <<lock, run, entry, call, tuned, crashes, stray>>

Held(e) ==
    /\ At(e, "held")
    /\ Goes(e, IF Over(exec[e].run) THEN "drop" ELSE "hold")
    /\ UNCHANGED <<lock, run, entry, call, tuned, crashes, stray>>

\* Before each step: a run that is over is left as it is.
Check(e) ==
    /\ At(e, "check")
    /\ Goes(e, IF Over(exec[e].run) THEN "ack" ELSE "hold")
    /\ UNCHANGED <<lock, run, entry, call, tuned, crashes, stray>>

Mark(e) ==
    /\ At(e, "mark")
    /\ SetRun(e, "ACTING")
    /\ Goes(e, "step")
    /\ UNCHANGED <<lock, entry, call, tuned, crashes, stray>>

\* Mutant of After: the loop does not end with the recipe.
AfterAlways(n) == "check"

\* Where the loop goes with n steps left.
After(n) == IF n = 0 THEN "complete" ELSE "check"

\* What a step comes to with n steps left after it: it is done, it fails, or it
\* finds that a human has to sign in.
Outcomes(n) == {After(n), "fail", "park"}

\* A step of the recipe acts on the desktop.
Step(e) ==
    /\ At(e, "step")
    /\ Inputs(e)
    /\ \E pc \in Outcomes(exec[e].steps - 1) :
          exec' = [exec EXCEPT ![e].pc = pc, ![e].steps = @ - 1]
    /\ UNCHANGED <<lock, run, entry, call, tuned, crashes>>

\* The desktop is out of reach, before anything is done.
Throw(e) ==
    /\ At(e, "begin")
    /\ Goes(e, "fail")
    /\ UNCHANGED <<lock, run, entry, call, tuned, crashes, stray>>

\* parkUntilHumanReleases: the run is marked, the lock is read, ...
Park(e) ==
    /\ At(e, "park")
    /\ SetRun(e, "WAITING_FOR_HUMAN")
    /\ Goes(e, "ask")
    /\ UNCHANGED <<lock, entry, call, tuned, crashes, stray>>

Ask(e) ==
    /\ At(e, "ask")
    /\ exec' = [exec EXCEPT ![e].pc = "tune", ![e].sawHuman = ~AgentControls,
                            ![e].released = FALSE]
    /\ UNCHANGED <<lock, run, entry, call, tuned, crashes, stray>>

\* ... the channel subscribed to, ...
Tune(e) ==
    /\ At(e, "tune")
    /\ tuned' = [tuned EXCEPT ![Home(e)] = TRUE]
    /\ Goes(e, "wait")
    /\ UNCHANGED <<lock, run, entry, call, crashes, stray>>

\* ... and the loop: the run is over, or the release was heard of, ...
Wait(e) ==
    /\ At(e, "wait")
    /\ \/ /\ Over(exec[e].run) \/ exec[e].released
          /\ exec' = [exec EXCEPT ![e].pc = "leave", ![e].resumed = ~Over(exec[e].run)]
       \/ /\ ~Over(exec[e].run) /\ ~exec[e].released /\ exec[e].sawHuman
          /\ Goes(e, "look")
    /\ UNCHANGED <<lock, run, entry, call, tuned, crashes, stray>>

\* ... or a human who was seen in control is not any more.
Look(e) ==
    /\ At(e, "look")
    /\ IF AgentControls
       THEN exec' = [exec EXCEPT ![e].pc = "leave", ![e].resumed = TRUE]
       ELSE Goes(e, "wait")
    /\ UNCHANGED <<lock, run, entry, call, tuned, crashes, stray>>

\* Mutant of Deadlines: a hold has none.
DeadlinesNotHeld == {"wait"}

\* Where an executor waits for a human no longer than WAIT_FOR_HUMAN_TIMEOUT_MS.
Deadlines == {"held", "wait"}

GiveUp(e) ==
    /\ exec[e].pc \in Deadlines
    /\ exec' = [exec EXCEPT ![e].pc = IF @ = "held" THEN "drop" ELSE "leave",
                            ![e].resumed = FALSE]
    /\ UNCHANGED <<lock, run, entry, call, tuned, crashes, stray>>

\* The disposer takes the channel from every listener of the process.
Leave(e) ==
    /\ At(e, "leave")
    /\ tuned' = [tuned EXCEPT ![Home(e)] = FALSE]
    /\ exec' = [exec EXCEPT ![e].pc = IF exec[e].resumed THEN "observe" ELSE "settle",
                            ![e].sawHuman = FALSE, ![e].released = FALSE,
                            ![e].resumed = FALSE]
    /\ UNCHANGED <<lock, run, entry, call, crashes, stray>>

\* Nobody came: a run that is over stays as it is.
Settle(e) ==
    /\ At(e, "settle")
    /\ Goes(e, IF Over(exec[e].run) THEN "ack" ELSE "fail")
    /\ UNCHANGED <<lock, run, entry, call, tuned, crashes, stray>>

\* The desktop is looked at again.
Observe(e) ==
    /\ At(e, "observe")
    /\ SetRun(e, "OBSERVING")
    /\ \E pc \in {After(exec[e].steps), "fail"} : Goes(e, pc)
    /\ UNCHANGED <<lock, entry, call, tuned, crashes, stray>>

\* finishRun, whatever the run has become.
Verdict == [fail |-> "FAILED", drop |-> "DETACHED", complete |-> "COMPLETED"]

Finish(e) ==
    /\ exec[e].pc \in DOMAIN Verdict
    /\ SetRun(e, Verdict[exec[e].pc])
    /\ Goes(e, "ack")
    /\ UNCHANGED <<lock, entry, call, tuned, crashes, stray>>

Ack(e) ==
    /\ At(e, "ack")
    /\ entry' = IF e \in WorkerSlot THEN [entry EXCEPT ![exec[e].run].state = "done"]
                ELSE entry
    /\ exec' = [exec EXCEPT ![e] = IdleExec]
    /\ UNCHANGED <<lock, run, call, tuned, crashes, stray>>

ExecStep(e) ==
    \/ \E r \in Run : Accept(e, r)
    \/ Begin(e) \/ Hold(e) \/ Held(e) \/ Check(e) \/ Mark(e) \/ Step(e) \/ Throw(e)
    \/ Park(e) \/ Ask(e) \/ Tune(e) \/ Wait(e) \/ Look(e) \/ Leave(e) \/ Settle(e)
    \/ Observe(e) \/ Finish(e) \/ Ack(e)

-----------------------------------------------------------------------------
(* The queue and the processes. *)

Executes(w, r) == ~At(w, "idle") /\ exec[w].run = r

\* Mutant of Stalled: an entry goes back to the queue each time.
StalledAnew(e) == [state |-> "waiting", stalls |-> e.stalls + 1]

\* An entry whose worker died goes back to the queue once, then fails.
Stalled(e) == [state |-> IF e.stalls = 0 THEN "waiting" ELSE "failed", stalls |-> e.stalls + 1]

StallRun(r) ==
    /\ entry[r].state = "active"
    /\ \A w \in WorkerSlot : ~Executes(w, r)
    /\ entry' = [entry EXCEPT ![r] = Stalled(@)]
    /\ UNCHANGED <<lock, run, exec, call, tuned, crashes, stray>>

CrashWorker ==
    /\ crashes < MaxCrashes
    /\ crashes' = crashes + 1
    /\ exec' = [e \in Executor |-> IF e \in WorkerSlot THEN IdleExec ELSE exec[e]]
    /\ tuned' = [tuned EXCEPT !["worker"] = FALSE]
    /\ UNCHANGED <<lock, run, entry, call, stray>>

CrashApi ==
    /\ crashes < MaxCrashes
    /\ crashes' = crashes + 1
    /\ exec' = [e \in Executor |-> IF e \in WorkerSlot THEN exec[e] ELSE IdleExec]
    /\ call' = [c \in Caller |-> IdleCall]
    /\ tuned' = [tuned EXCEPT !["api"] = FALSE]
    /\ UNCHANGED <<lock, run, entry, stray>>

ANext ==
    \/ \E c \in Caller : CallStep(c)
    \/ KeepAlive \/ Expire \/ Events
    \/ \E e \in Executor : ExecStep(e) \/ GiveUp(e)
    \/ \E r \in Run : StallRun(r)
    \/ CrashWorker \/ CrashApi

ASpec == AInit /\ [][ANext]_avars

\* The worker serves its queue, executors go on, stalled entries are looked for;
\* a wait that is entered again and again ends, as the clock reaches its
\* deadline. No client and no operator is obliged to do anything.
AFairness ==
    /\ \A e \in WorkerSlot : WF_avars(ExecStep(e))
    /\ \A e \in ApiSlot : WF_avars(ExecStep(e) /\ ~At(e, "idle"))
    /\ \A e \in Executor : SF_avars(GiveUp(e))
    /\ \A r \in Run : WF_avars(StallRun(r))

AFairSpec == ASpec /\ AFairness

-----------------------------------------------------------------------------
(* Properties. *)

\* The lock, the runs, the queue, the executors and the handlers have the shape
\* above.
ATypeOK ==
    /\ lock \in Lock
    /\ run \in [Run -> RunStatus]
    /\ entry \in [Run -> AgentEntry]
    /\ exec \in [Executor -> Exec]
    /\ call \in [Caller -> Call]
    /\ tuned \in [Process -> BOOLEAN]
    /\ crashes \in Nat
    /\ stray \in [Executor \cup Caller -> Nat]

\* While an operator stays in control, at most one input of each agent still
\* gets in: the one that was past its gate (docs/API.md, "agent input is
\* refused"), whatever is released, expired, restarted or taken over.
StrayInput ==
    \A x \in Executor \cup Caller : stray[x] <= 1

\* The worker never carries out a run twice at once, whoever attaches to it
\* again and however its entry is redelivered.
OneExecutor ==
    \A r \in Run : \A v, w \in WorkerSlot : Executes(v, r) /\ Executes(w, r) => v = w

\* A run that was submitted comes to an end, although operators may hold the
\* computer forever and the worker may die.
SubmittedRunsEnd ==
    \A r \in Run : entry[r].state = "waiting" ~> entry[r].state \in {"done", "failed"}

\* A lock that is held runs out, or is about to be made to.
Leased == ~AgentControls => lock.timed \/ \E c \in Caller : call[c].pc = "arm"

\* Only a crash of the API leaves a lock that never runs out (control.ts, "A human
\* operator holds the lock for at most CONTROL_TTL_SECONDS"): not the handlers of
\* several operators, nor a release or an expiry between hset and expire.
LockLeased == [][Leased => Leased' \/ CrashApi]_avars

\* A run that was detached is over for good (docs/API.md, "End the run").
DetachedStays ==
    [][\A r \in Run : run[r] = "DETACHED" => run'[r] \in TERMINAL_RUN_STATUSES]_avars

\* What the worker has made of a run, by its entry and the slots.
Turn(r) ==
    LET first == entry[r].stalls = 0 IN
    CASE entry[r].state = "none" -> "unasked"
      [] entry[r].state = "waiting" -> IF first THEN "asked" ELSE "lost"
      [] entry[r].state = "active" ->
             IF \E w \in WorkerSlot : Executes(w, r)
             THEN IF first THEN "first" ELSE "second"
             ELSE IF first THEN "lost" ELSE "over"
      [] OTHER -> "over"

Contract ==
    INSTANCE AgentContract WITH
        Operator   <- Human,
        Agent      <- Executor \cup Caller,
        Slot       <- WorkerSlot,
        controller <- lock.holder,
        cleared    <- {c \in Caller : call[c].pc = "input"} \cup
                      {e \in Executor : exec[e].pc \in {"mark", "step"}},
        late       <- stray,
        turn       <- [r \in Run |-> Turn(r)],
        hands      <- [r \in Run |-> {w \in WorkerSlot : Executes(w, r)}]

\* The lock, the gates and the queue implement the contract of the shared
\* desktop, whatever is released, expires, is delivered again or dies
\* (docs/API.md, "agent input is refused"; agent.ts, the gate before each step).
AgentContractKept == Contract!CSpec

=============================================================================
