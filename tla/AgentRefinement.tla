-------------------------- MODULE AgentRefinement --------------------------
(***************************************************************************)
(* AgentControl implements AgentContract: the handlers, the executors, the *)
(* queue and the crashes, seen as who drives the desktop and who has which *)
(* run in hand, make the steps of the contract and no other.               *)
(***************************************************************************)
EXTENDS AgentControlProofs

-----------------------------------------------------------------------------
(* The mapping, and what a step means under it. *)

Cleared == {c \in Caller : call[c].pc = "input"} \cup
           {e \in Executor : exec[e].pc \in {"mark", "step"}}
Turns == [r \in Run |-> Turn(r)]
Hands == [r \in Run |-> {w \in WorkerSlot : Executes(w, r)}]

Drivers == <<lock.holder, Cleared, stray>>
Runs == <<Turns, Hands>>

Simulated == [Contract!CNext]_(Contract!cvars)

\* A run that was never submitted has never stalled.
Unstalled == \A r \in Run : entry[r].state = "none" => entry[r].stalls = 0

RInv == AInv /\ SlotInv /\ Unstalled

\* Nobody is let in, and nobody makes an input or takes control.
LEMMA DriversKept ==
    ASSUME lock'.holder = lock.holder, stray' = stray,
           \A c \in Caller : call'[c].pc = "input" <=> call[c].pc = "input",
           \A e \in Executor :
               exec'[e].pc \in {"mark", "step"} <=> exec[e].pc \in {"mark", "step"}
    PROVE  UNCHANGED Drivers
BY DEF Drivers, Cleared

\* What the worker has made of a run depends on its entry and on who has it.
LEMMA TurnKept ==
    ASSUME NEW r \in Run, entry'[r].state = entry[r].state, entry'[r].stalls = entry[r].stalls,
           \A w \in WorkerSlot : Executes(w, r)' <=> Executes(w, r)
    PROVE  Turn(r)' = Turn(r)
BY DEF Turn

\* No slot takes or ends a run, and no entry moves.
LEMMA RunsKept ==
    ASSUME \A r \in Run : entry'[r].state = entry[r].state /\ entry'[r].stalls = entry[r].stalls,
           \A w \in WorkerSlot, r \in Run : Executes(w, r)' <=> Executes(w, r)
    PROVE  UNCHANGED Runs
<1>1. \A r \in Run : Turn(r)' = Turn(r)
    BY TurnKept
<1>2. Turns' = Turns
    BY <1>1 DEF Turns, Run
<1>3. Hands' = Hands
    BY DEF Hands, Run
<1> QED
    BY <1>2, <1>3 DEF Runs

\* A step that leaves both alone is a stutter.
LEMMA Stutters == UNCHANGED Drivers /\ UNCHANGED Runs => Simulated
BY DEF Simulated, Contract!cvars, Drivers, Runs, Cleared, Turns, Hands

\* A step of one run, and nothing else.
LEMMA RunStep ==
    ASSUME NEW r \in Run, UNCHANGED Drivers,
           Contract!Submit(r) \/ \E w \in WorkerSlot : Contract!Begin(w, r) \/ Contract!End(w, r)
    PROVE  Simulated
BY DEF Simulated, Contract!CNext

\* A step of one agent, and nothing else.
LEMMA AgentStep ==
    ASSUME NEW a \in Executor \cup Caller, Contract!Clear(a) \/ Contract!Act(a)
    PROVE  Simulated
BY DEF Simulated, Contract!CNext

\* With no run taken up or ended, an agent that is let in, or makes its input.
LEMMA LetIn ==
    ASSUME NEW a \in Executor \cup Caller, UNCHANGED Runs, lock' = lock,
           \/ /\ AgentControls /\ stray' = stray
              /\ a \notin Cleared /\ Cleared' = Cleared \cup {a}
           \/ a \in Cleared /\ Cleared' = Cleared \ {a} /\ Inputs(a)
    PROVE  Simulated
<1>1. CASE AgentControls /\ stray' = stray /\ a \notin Cleared /\ Cleared' = Cleared \cup {a}
  <2>1. Contract!Clear(a)
      BY <1>1 DEF Contract!Clear, Contract!runs, AgentControls, Cleared, Runs, Turns, Hands
  <2> QED
      BY <2>1, AgentStep
<1>2. CASE a \in Cleared /\ Cleared' = Cleared \ {a} /\ Inputs(a)
  <2>1. Contract!Act(a)
      BY <1>2 DEF Contract!Act, Contract!runs, Inputs, AgentControls, Cleared, Runs, Turns, Hands
  <2> QED
      BY <2>1, AgentStep
<1> QED
    BY <1>1, <1>2

\* The lock is freed, by an operator or by the clock.
LEMMA Yields ==
    ASSUME Free, UNCHANGED Runs, Cleared' = Cleared
    PROVE  Simulated
<1>1. Contract!Yield
    BY DEF Contract!Yield, Contract!NoneLate, Contract!runs, Free, NoLock, Unstrayed, Cleared,
           Runs, Turns, Hands
<1> QED
    BY <1>1 DEF Simulated, Contract!CNext

-----------------------------------------------------------------------------
(* Step by step. *)

\* A handler takes no run in hand; it may submit one.
LEMMA CallRuns ==
    ASSUME RInv, NEW c \in Caller, CallStep(c), ~Submit(c)
    PROVE  UNCHANGED Runs
<1>t. exec \in [Executor -> Exec] /\ \A w \in WorkerSlot : w \in Executor
    BY DEF RInv, AInv, ATypeOK, Executor
<1>1. entry' = entry
    BY DEF CallStep, Attach, CreateRun, EndRun, Input, Perform, PauseRun, Rejoin, Detach, Summon,
           TakeControl, Arm, AnnounceTaken, ReleaseControl, FindWaiting, Reopen, AnnounceReleased
<1>2. \A w \in WorkerSlot : exec'[w].pc = exec[w].pc /\ exec'[w].run = exec[w].run
  <2>1. CASE AnnounceTaken(c) \/ AnnounceReleased(c)
      BY <1>t, <2>1, ToldKeeps DEF AnnounceTaken, AnnounceReleased
  <2>2. CASE ~(AnnounceTaken(c) \/ AnnounceReleased(c))
      BY <2>2 DEF CallStep, Attach, CreateRun, EndRun, Input, Perform, PauseRun, Rejoin, Detach,
                  Summon, TakeControl, Arm, ReleaseControl, FindWaiting, Reopen
  <2> QED
      BY <2>1, <2>2
<1> QED
    BY <1>1, <1>2, RunsKept DEF Executes, At

\* queue.add: the first time, the run is submitted.
LEMMA SubmitSimulated ==
    ASSUME RInv, NEW c \in Caller, Submit(c)
    PROVE  Simulated
<1> SUFFICES ASSUME NEW r, r = call[c].run PROVE Simulated
    OBVIOUS
<1>t. /\ entry \in [Run -> AgentEntry] /\ call \in [Caller -> Call]
      /\ exec' = exec /\ lock' = lock /\ stray' = stray /\ call[c].pc = "submit"
      /\ entry' = [entry EXCEPT ![r] = Queued(@)] /\ call' = [call EXCEPT ![c] = IdleCall]
    BY DEF RInv, AInv, ATypeOK, Submit, Reply
<1>1. UNCHANGED Drivers
    BY <1>t, DriversKept DEF IdleCall
<1>2. \A w \in WorkerSlot, s \in Run : Executes(w, s)' <=> Executes(w, s)
    BY <1>t DEF Executes, At
<1>3. CASE r \in Run /\ entry[r].state = "none"
  <2>1. /\ entry'[r].state = "waiting" /\ entry'[r].stalls = 0
        /\ \A s \in Run : s # r => entry'[s] = entry[s]
      BY <1>t, <1>3 DEF Queued, AgentEntry, RInv, Unstalled
  <2>2. Turn(r) = "unasked" /\ Turn(r)' = "asked"
      BY <1>3, <2>1 DEF Turn
  <2>3. \A s \in Run : s # r => Turn(s)' = Turn(s)
      BY <1>2, <2>1, TurnKept
  <2>4. Turns' = [Turns EXCEPT ![r] = "asked"]
      BY <2>2, <2>3 DEF Turns, Run
  <2>5. Hands' = Hands
      BY <1>2 DEF Hands, Run
  <2>6. Turns[r] = "unasked"
      BY <1>3, <2>2 DEF Turns
  <2>7. Contract!Submit(r)
      BY <1>1, <2>4, <2>5, <2>6 DEF Contract!Submit, Contract!drivers, Drivers, Cleared, Turns,
                                    Hands
  <2> QED
      BY <1>1, <1>3, <2>7, RunStep
<1>4. CASE ~(r \in Run /\ entry[r].state = "none")
  <2>1. entry' = entry
      BY <1>t, <1>4 DEF Queued
  <2> QED
      BY <1>1, <1>2, <2>1, RunsKept, Stutters
<1> QED
    BY <1>3, <1>4

\* A handler's step.
LEMMA CallSimulated ==
    ASSUME RInv, NEW c \in Caller, CallStep(c)
    PROVE  Simulated
<1>t. /\ lock \in Lock /\ exec \in [Executor -> Exec] /\ call \in [Caller -> Call]
      /\ c \notin Executor
    BY AgentAssumption DEF RInv, AInv, ATypeOK, Executor
<1>g. ASSUME NEW pc, NEW r, Then(c, pc, r)
      PROVE  /\ call'[c].pc = pc
             /\ \A d \in Caller : d # c => call'[d] = call[d]
    BY <1>g, <1>t DEF Then
<1>i. ASSUME Reply(c)
      PROVE  /\ call'[c].pc = "idle"
             /\ \A d \in Caller : d # c => call'[d] = call[d]
    BY <1>i, <1>t DEF Reply, IdleCall
<1>1. CASE Submit(c)
    BY <1>1, SubmitSimulated
<1>2. CASE Input(c)
  <2>1. /\ AgentControls /\ stray' = stray /\ lock' = lock /\ exec' = exec
        /\ call[c].pc = "idle" /\ Then(c, "input", 0) /\ ~Submit(c)
      BY <1>2 DEF Input, Gate, Idle, Submit
  <2>2. c \notin Cleared /\ Cleared' = Cleared \cup {c}
      BY <1>t, <1>g, <2>1 DEF Cleared
  <2> QED
      BY <2>1, <2>2, CallRuns, LetIn
<1>3. CASE Perform(c)
  <2>1. /\ Inputs(c) /\ lock' = lock /\ exec' = exec
        /\ call[c].pc = "input" /\ Reply(c) /\ ~Submit(c)
      BY <1>3 DEF Perform, Submit
  <2>2. c \in Cleared /\ Cleared' = Cleared \ {c}
      BY <1>t, <1>i, <2>1 DEF Cleared
  <2> QED
      BY <2>1, <2>2, CallRuns, LetIn
<1>4. ASSUME NEW h \in Human, TakeControl(c, h) PROVE Simulated
  <2>1. /\ lock' = [lock EXCEPT !.holder = h] /\ stray' = stray /\ exec' = exec
        /\ call[c].pc = "idle" /\ Then(c, "arm", 0) /\ ~Submit(c)
      BY <1>4 DEF TakeControl, Idle, Submit
  <2>2. lock'.holder = h /\ Cleared' = Cleared
      BY <1>t, <1>g, <2>1 DEF Cleared, Lock
  <2>3. UNCHANGED Runs
      BY <2>1, CallRuns
  <2>4. Contract!Take(h)
      BY <2>1, <2>2, <2>3 DEF Contract!Take, Contract!runs, Cleared, Runs, Turns, Hands
  <2> QED
      BY <2>4 DEF Simulated, Contract!CNext
<1>5. CASE ReleaseControl(c)
  <2>1. Free /\ exec' = exec /\ call[c].pc = "idle" /\ Then(c, "find", 0) /\ ~Submit(c)
      BY <1>5 DEF ReleaseControl, Idle, Submit
  <2>2. Cleared' = Cleared
      BY <1>t, <1>g, <2>1 DEF Cleared
  <2> QED
      BY <2>1, <2>2, CallRuns, Yields
<1>6. CASE AnnounceTaken(c) \/ AnnounceReleased(c)
  <2>1. /\ lock' = lock /\ stray' = stray /\ Reply(c) /\ ~Submit(c) /\ call[c].pc # "input"
        /\ \E kind : exec' = [e \in Executor |-> Told(e, kind)]
      BY <1>6 DEF AnnounceTaken, AnnounceReleased, Submit
  <2>2. \A e \in Executor : exec'[e].pc = exec[e].pc
      BY <1>t, <2>1, ToldKeeps
  <2>3. UNCHANGED Drivers
      BY <1>i, <2>1, <2>2, DriversKept
  <2> QED
      BY <2>1, <2>3, CallRuns, Stutters
<1>7. CASE \/ Attach(c) \/ CreateRun(c) \/ EndRun(c) \/ PauseRun(c) \/ Arm(c)
           \/ \E r \in Run : Rejoin(c, r) \/ Detach(c, r) \/ Summon(c, r)
           \/ FindWaiting(c) \/ Reopen(c)
  <2>1. stray' = stray /\ exec' = exec /\ call[c].pc \notin {"input", "submit"}
      BY <1>7 DEF Attach, CreateRun, EndRun, PauseRun, Arm, Rejoin, Detach, Summon,
                  FindWaiting, Reopen, Idle
  <2>2. lock'.holder = lock.holder
    <3>1. CASE Arm(c)
        BY <1>t, <3>1 DEF Arm, Armed, Lock
    <3>2. CASE ~Arm(c)
        BY <1>7, <3>2 DEF Attach, CreateRun, EndRun, PauseRun, Rejoin, Detach, Summon,
                          FindWaiting, Reopen
    <3> QED
        BY <3>1, <3>2
  <2>3. Reply(c) \/ \E pc \in CallPc \ {"input"} : \E r : Then(c, pc, r)
      BY <1>7 DEF Attach, CreateRun, EndRun, PauseRun, Arm, Rejoin, Detach, Summon,
                  FindWaiting, Reopen, CallPc
  <2>4. UNCHANGED Drivers
      BY <1>g, <1>i, <2>1, <2>2, <2>3, DriversKept
  <2>5. ~Submit(c)
      BY <2>1 DEF Submit
  <2> QED
      BY <2>4, <2>5, CallRuns, Stutters
<1> QED
    BY <1>1, <1>2, <1>3, <1>4, <1>5, <1>6, <1>7 DEF CallStep

\* What an executor does between taking a run and giving it back leaves it in
\* its hands.
LEMMA CarriedOn ==
    ASSUME RInv, NEW e \in Executor, ExecStep(e) \/ GiveUp(e),
           ~Ack(e), \A r \in Run : ~Accept(e, r)
    PROVE  UNCHANGED Runs
<1>t. exec \in [Executor -> Exec] /\ \A w \in WorkerSlot : w \in Executor
    BY DEF RInv, AInv, ATypeOK, Executor
<1>1. entry' = entry
    BY DEF ExecStep, Begin, Hold, Held, Check, Mark, Step, Throw, Park, Ask,
           Tune, Wait, Look, Leave, Settle, Observe, Finish, GiveUp
<1>2. \A f \in Executor : f # e => exec'[f] = exec[f]
    BY <1>t DEF ExecStep, Begin, Hold, Held, Check, Mark, Step, Throw, Park, Ask,
                Tune, Wait, Look, Leave, Settle, Observe, Finish, GiveUp, Goes
<1>3. exec[e].pc # "idle"
    BY DEF ExecStep, Begin, Hold, Held, Check, Mark, Step, Throw, Park, Ask,
           Tune, Wait, Look, Leave, Settle, Observe, Finish, GiveUp, At, Deadlines, Verdict
<1>4. exec'[e].pc # "idle" /\ exec'[e].run = exec[e].run
  <2>1. CASE Begin(e) \/ Hold(e)
      BY <1>t, <2>1 DEF Begin, Hold, Goes, Exec
  <2>2. CASE Held(e) \/ Check(e) \/ Mark(e) \/ Throw(e)
      BY <1>t, <2>2 DEF Held, Check, Mark, Throw, Goes, Exec
  <2>3. CASE Step(e)
      BY <1>t, <2>3 DEF Step, Outcomes, After, Exec
  <2>4. CASE Park(e) \/ Ask(e) \/ Tune(e) \/ Wait(e) \/ Look(e)
      BY <1>t, <2>4 DEF Park, Ask, Tune, Wait, Look, Goes, Exec
  <2>5. CASE Leave(e) \/ Settle(e) \/ GiveUp(e)
      BY <1>t, <2>5 DEF Leave, Settle, GiveUp, Deadlines, Goes, Exec
  <2>6. CASE Observe(e) \/ Finish(e)
      BY <1>t, <2>6 DEF Observe, Finish, After, Goes, Exec
  <2> QED
      BY <2>1, <2>2, <2>3, <2>4, <2>5, <2>6 DEF ExecStep
<1>5. \A w \in WorkerSlot, r \in Run : Executes(w, r)' <=> Executes(w, r)
    BY <1>t, <1>2, <1>3, <1>4 DEF Executes, At
<1> QED
    BY <1>1, <1>5, RunsKept

\* No step but those of a recipe lets an executor in or makes its input.
LEMMA ExecDrivers ==
    ASSUME RInv, NEW e \in Executor, ExecStep(e) \/ GiveUp(e), ~Step(e),
           ~(Hold(e) /\ exec'[e].pc = "mark")
    PROVE  UNCHANGED Drivers
<1>t. exec \in [Executor -> Exec]
    BY DEF RInv, AInv, ATypeOK
<1>1. lock' = lock /\ call' = call /\ stray' = stray
    BY DEF ExecStep, Accept, Begin, Hold, Held, Check, Mark, Throw, Park, Ask,
           Tune, Wait, Look, Leave, Settle, Observe, Finish, Ack, GiveUp
<1>2. \A f \in Executor : f # e => exec'[f] = exec[f]
    BY <1>t DEF ExecStep, Accept, Begin, Hold, Held, Check, Mark, Throw, Park, Ask,
                Tune, Wait, Look, Leave, Settle, Observe, Finish, Ack, GiveUp, Goes
<1>3. exec'[e].pc \in {"mark", "step"} <=> exec[e].pc \in {"mark", "step"}
  <2>1. CASE Mark(e)
      BY <1>t, <2>1 DEF Mark, At, Goes, Exec
  <2>2. CASE Hold(e)
      BY <1>t, <2>2 DEF Hold, At, Goes, Exec
  <2>3. CASE \E r \in Run : Accept(e, r)
      BY <1>t, <2>3 DEF Accept, At, IdleExec
  <2>4. CASE Begin(e) \/ Held(e) \/ Check(e) \/ Throw(e)
      BY <1>t, <2>4 DEF Begin, Held, Check, Throw, At, Goes, Exec
  <2>5. CASE Park(e) \/ Ask(e) \/ Tune(e) \/ Wait(e) \/ Look(e)
      BY <1>t, <2>5 DEF Park, Ask, Tune, Wait, Look, At, Goes, Exec
  <2>6. CASE Leave(e) \/ Settle(e) \/ GiveUp(e)
      BY <1>t, <2>6 DEF Leave, Settle, GiveUp, Deadlines, At, Goes, Exec
  <2>7. CASE Observe(e) \/ Finish(e) \/ Ack(e)
      BY <1>t, <2>7 DEF Observe, Finish, Ack, IdleExec, After, Verdict, At, Goes, Exec
  <2> QED
      BY <2>1, <2>2, <2>3, <2>4, <2>5, <2>6, <2>7 DEF ExecStep
<1> QED
    BY <1>1, <1>2, <1>3, DriversKept

\* A slot of the worker takes a run that nobody has.
LEMMA AcceptSimulated ==
    ASSUME RInv, NEW e \in Executor, NEW r \in Run, Accept(e, r)
    PROVE  Simulated
<1>t. /\ exec \in [Executor -> Exec] /\ entry \in [Run -> AgentEntry]
      /\ \A w \in WorkerSlot : w \in Executor
    BY DEF RInv, AInv, ATypeOK, Executor
<1>1. UNCHANGED Drivers
  <2>1. ~Step(e) /\ ~Hold(e)
      BY DEF Accept, Step, Hold, At
  <2> QED
      BY <2>1, ExecDrivers DEF ExecStep
<1>2. CASE e \notin WorkerSlot
  <2>1. entry' = entry /\ \A w \in WorkerSlot : exec'[w] = exec[w]
      BY <1>t, <1>2 DEF Accept
  <2>2. UNCHANGED Runs
      BY <2>1, RunsKept DEF Executes, At
  <2> QED
      BY <1>1, <2>2, Stutters
<1>3. CASE e \in WorkerSlot
  <2>1. /\ exec[e].pc = "idle" /\ entry[r].state = "waiting"
        /\ entry' = [entry EXCEPT ![r].state = "active"]
      BY <1>3 DEF Accept, At
  <2>2. /\ exec'[e].pc # "idle" /\ exec'[e].run = r
        /\ \A w \in WorkerSlot : w # e => exec'[w] = exec[w]
      BY <1>t DEF Accept, IdleExec
  <2>3. /\ entry'[r].state = "active" /\ entry'[r].stalls = entry[r].stalls
        /\ \A s \in Run : s # r => entry'[s] = entry[s]
      BY <1>t, <2>1 DEF AgentEntry
  <2>4. \A w \in WorkerSlot : ~Executes(w, r)
      BY <2>1 DEF RInv, SlotInv, HeldActive
  <2>5. \A w \in WorkerSlot, s \in Run :
            Executes(w, s)' <=> (w = e /\ s = r) \/ Executes(w, s)
      BY <2>1, <2>2 DEF Executes, At
  <2>6. /\ \A s \in Run : e \notin Hands[s]
        /\ Hands[r] = {}
        /\ Hands' = [Hands EXCEPT ![r] = {e}]
    <3>1. \A s \in Run : ~Executes(e, s)
        BY <2>1 DEF Executes, At
    <3>2. \A s \in Run : {w \in WorkerSlot : Executes(w, s)'} =
                         IF s = r THEN {e} ELSE {w \in WorkerSlot : Executes(w, s)}
        BY <1>3, <2>4, <2>5
    <3> QED
        BY <2>4, <3>1, <3>2 DEF Hands, Run
  <2>7. /\ Turn(r) = IF entry[r].stalls = 0 THEN "asked" ELSE "lost"
        /\ Turn(r)' = IF entry[r].stalls = 0 THEN "first" ELSE "second"
      BY <1>3, <2>1, <2>3, <2>5 DEF Turn
  <2>8. \A s \in Run : s # r => Turn(s)' = Turn(s)
      BY <2>3, <2>5, TurnKept
  <2>9. \/ Turns[r] = "asked" /\ Turns' = [Turns EXCEPT ![r] = "first"]
        \/ Turns[r] = "lost" /\ Turns' = [Turns EXCEPT ![r] = "second"]
    <3>1. Turns[r] = Turn(r) /\ Turns' = [Turns EXCEPT ![r] = Turn(r)']
        BY <2>8 DEF Turns, Run
    <3> QED
        BY <2>7, <3>1
  <2>10. Contract!Begin(e, r)
      BY <1>1, <2>6, <2>9 DEF Contract!Begin, Contract!drivers, Drivers, Cleared, Turns, Hands
  <2> QED
      BY <1>1, <1>3, <2>10, RunStep
<1> QED
    BY <1>2, <1>3

\* A slot of the worker is done with its run.
LEMMA AckSimulated ==
    ASSUME RInv, NEW e \in Executor, Ack(e)
    PROVE  Simulated
<1> SUFFICES ASSUME NEW r, r = exec[e].run PROVE Simulated
    OBVIOUS
<1>t. /\ exec \in [Executor -> Exec] /\ entry \in [Run -> AgentEntry]
      /\ \A w \in WorkerSlot : w \in Executor
      /\ exec[e].pc = "ack" /\ exec' = [exec EXCEPT ![e] = IdleExec]
    BY DEF RInv, AInv, ATypeOK, Executor, Ack, At
<1>1. UNCHANGED Drivers
  <2>1. ~Step(e) /\ ~Hold(e)
      BY DEF Ack, Step, Hold, At
  <2> QED
      BY <2>1, ExecDrivers DEF ExecStep
<1>2. /\ exec'[e].pc = "idle"
      /\ \A w \in WorkerSlot : w # e => exec'[w] = exec[w]
    BY <1>t DEF IdleExec
<1>3. CASE e \notin WorkerSlot
  <2>1. entry' = entry /\ \A w \in WorkerSlot : exec'[w] = exec[w]
      BY <1>2, <1>3 DEF Ack
  <2>2. UNCHANGED Runs
      BY <2>1, RunsKept DEF Executes, At
  <2> QED
      BY <1>1, <2>2, Stutters
<1>4. CASE e \in WorkerSlot /\ r \notin Run
  <2>1. entry' = entry
      BY <1>t, <1>4 DEF Ack
  <2>2. \A w \in WorkerSlot, s \in Run : Executes(w, s)' <=> Executes(w, s)
      BY <1>2, <1>4 DEF Executes, At
  <2> QED
      BY <1>1, <2>1, <2>2, RunsKept, Stutters
<1>5. CASE e \in WorkerSlot /\ r \in Run
  <2>1. entry' = [entry EXCEPT ![r].state = "done"]
      BY <1>5 DEF Ack
  <2>2. entry'[r].state = "done" /\ \A s \in Run : s # r => entry'[s] = entry[s]
      BY <1>t, <1>5, <2>1 DEF AgentEntry
  <2>3. \A w \in WorkerSlot : Executes(w, r) <=> w = e
      BY <1>t, <1>5 DEF RInv, SlotInv, OneExecutor, Executes, At
  <2>4. \A w \in WorkerSlot, s \in Run : Executes(w, s)' <=> w # e /\ Executes(w, s)
      BY <1>2 DEF Executes, At
  <2>5. \A s \in Run : s # r => ~Executes(e, s)
      BY DEF Executes
  <2>6. Hands[r] = {e} /\ Hands' = [Hands EXCEPT ![r] = {}]
    <3>1. \A s \in Run : {w \in WorkerSlot : Executes(w, s)'} =
                         IF s = r THEN {} ELSE {w \in WorkerSlot : Executes(w, s)}
        BY <2>3, <2>4, <2>5
    <3>2. {w \in WorkerSlot : Executes(w, r)} = {e}
        BY <1>5, <2>3
    <3> QED
        BY <1>5, <3>1, <3>2 DEF Hands, Run
  <2>7. Turn(r)' = "over"
      BY <2>2 DEF Turn
  <2>8. \A s \in Run : s # r => Turn(s)' = Turn(s)
      BY <2>2, <2>4, <2>5, TurnKept
  <2>9. Turns' = [Turns EXCEPT ![r] = "over"]
      BY <2>7, <2>8 DEF Turns, Run
  <2>10. Contract!End(e, r)
      BY <1>1, <2>6, <2>9 DEF Contract!End, Contract!drivers, Drivers, Cleared, Turns, Hands
  <2> QED
      BY <1>1, <1>5, <2>10, RunStep
<1> QED
    BY <1>3, <1>4, <1>5

\* A step of an executor.
LEMMA ExecSimulated ==
    ASSUME RInv, NEW e \in Executor, ExecStep(e) \/ GiveUp(e)
    PROVE  Simulated
<1>t. exec \in [Executor -> Exec] /\ e \notin Caller
    BY AgentAssumption DEF RInv, AInv, ATypeOK, Executor
<1>1. CASE \E r \in Run : Accept(e, r)
    BY <1>1, AcceptSimulated
<1>2. CASE Ack(e)
    BY <1>2, AckSimulated
<1>3. CASE Step(e)
  <2>1. /\ exec[e].pc = "step" /\ Inputs(e) /\ lock' = lock /\ call' = call
        /\ \A f \in Executor : f # e => exec'[f] = exec[f]
        /\ exec'[e].pc \notin {"mark", "step"}
      BY <1>t, <1>3 DEF Step, At, Outcomes, After, Exec
  <2>2. e \in Cleared /\ Cleared' = Cleared \ {e}
      BY <1>t, <2>1 DEF Cleared
  <2>3. ~Ack(e) /\ \A r \in Run : ~Accept(e, r)
      BY <2>1 DEF Ack, Accept, At
  <2> QED
      BY <2>1, <2>2, <2>3, CarriedOn, LetIn
<1>4. CASE Hold(e) /\ exec'[e].pc = "mark"
  <2>1. /\ exec[e].pc = "hold" /\ AgentControls
        /\ lock' = lock /\ call' = call /\ stray' = stray
        /\ \A f \in Executor : f # e => exec'[f] = exec[f]
      BY <1>t, <1>4 DEF Hold, At, Goes, Exec
  <2>2. e \notin Cleared /\ Cleared' = Cleared \cup {e}
      BY <1>t, <1>4, <2>1 DEF Cleared
  <2>3. ~Ack(e) /\ \A r \in Run : ~Accept(e, r)
      BY <2>1 DEF Ack, Accept, At
  <2> QED
      BY <2>1, <2>2, <2>3, CarriedOn, LetIn
<1>5. ASSUME \A r \in Run : ~Accept(e, r), ~Ack(e), ~Step(e),
             ~(Hold(e) /\ exec'[e].pc = "mark")
      PROVE  Simulated
  <2>1. UNCHANGED Runs
      BY <1>5, CarriedOn
  <2>2. UNCHANGED Drivers
      BY <1>5, ExecDrivers
  <2> QED
      BY <2>1, <2>2, Stutters
<1> QED
    BY <1>1, <1>2, <1>3, <1>4, <1>5

\* An entry that was found stalled is one that the contract has already lost.
LEMMA StallSimulated ==
    ASSUME RInv, NEW r \in Run, StallRun(r)
    PROVE  Simulated
<1>1. /\ entry \in [Run -> AgentEntry] /\ entry[r].state = "active"
      /\ \A w \in WorkerSlot : ~Executes(w, r)
      /\ entry' = [entry EXCEPT ![r] = Stalled(entry[r])]
      /\ lock' = lock /\ exec' = exec /\ call' = call /\ stray' = stray
    BY DEF RInv, AInv, ATypeOK, StallRun
<1>2. UNCHANGED Drivers
    BY <1>1 DEF Drivers, Cleared
<1>3. \A w \in WorkerSlot, s \in Run : Executes(w, s)' <=> Executes(w, s)
    BY <1>1 DEF Executes, At
<1>4. /\ entry'[r] = Stalled(entry[r])
      /\ \A s \in Run : s # r => entry'[s] = entry[s]
    BY <1>1
<1>5. /\ entry'[r].state = IF entry[r].stalls = 0 THEN "waiting" ELSE "failed"
      /\ entry'[r].stalls = entry[r].stalls + 1 /\ entry[r].stalls \in Nat
    BY <1>1, <1>4 DEF Stalled, AgentEntry
<1>6. Turn(r) = IF entry[r].stalls = 0 THEN "lost" ELSE "over"
    BY <1>1 DEF Turn
<1>7. Turn(r)' = IF entry[r].stalls = 0 THEN "lost" ELSE "over"
  <2>1. entry'[r].stalls # 0
      BY <1>5
  <2> QED
      BY <1>5, <2>1 DEF Turn
<1>8. \A s \in Run : Turn(s)' = Turn(s)
    BY <1>3, <1>4, <1>6, <1>7, TurnKept
<1>9. UNCHANGED Runs
    BY <1>3, <1>8 DEF Runs, Turns, Hands, Run
<1> QED
    BY <1>2, <1>9, Stutters

\* The clock, the streams and the crashes.
LEMMA EnvironmentSimulated ==
    ASSUME RInv, KeepAlive \/ Expire \/ Events \/ CrashWorker \/ CrashApi
    PROVE  Simulated
<1>t. /\ lock \in Lock /\ exec \in [Executor -> Exec] /\ call \in [Caller -> Call]
      /\ Executor = WorkerSlot \cup ApiSlot /\ WorkerSlot \cap ApiSlot = {}
    BY AgentAssumption DEF RInv, AInv, ATypeOK, Executor
<1>1. ASSUME UNCHANGED <<entry, exec>> PROVE UNCHANGED Runs
    BY <1>1, RunsKept DEF Executes, At
<1>2. CASE KeepAlive \/ Events
  <2>1. UNCHANGED <<entry, exec, call, stray>> /\ lock'.holder = lock.holder
      BY <1>2, <1>t DEF KeepAlive, Events, Lock
  <2> QED
      BY <1>1, <2>1, DriversKept, Stutters
<1>3. CASE Expire
  <2>1. Free /\ UNCHANGED <<entry, exec, call>>
      BY <1>3 DEF Expire
  <2> QED
      BY <1>1, <2>1, Yields DEF Cleared
<1>4. CASE CrashWorker \/ CrashApi
  <2>1. UNCHANGED <<lock, entry, stray>>
      BY <1>4 DEF CrashWorker, CrashApi
  <2>2. Cleared' \subseteq Cleared
    <3>1. /\ \A e \in Executor : exec'[e] \in {IdleExec, exec[e]}
          /\ \A c \in Caller : call'[c] \in {IdleCall, call[c]}
          /\ IdleExec.pc = "idle" /\ IdleCall.pc = "idle"
        BY <1>4 DEF CrashWorker, CrashApi, IdleExec, IdleCall
    <3> QED
        BY <3>1 DEF Cleared
  <2>3. \/ UNCHANGED Runs
        \/ /\ Hands' = [r \in Run |-> {}]
           /\ Turns' = [r \in Run |-> Contract!Lost(Turns[r])]
    <3>1. CASE CrashApi
      <4>1. \A w \in WorkerSlot : exec'[w] = exec[w]
          BY <1>t, <3>1 DEF CrashApi
      <4> QED
          BY <2>1, <4>1, RunsKept DEF Executes, At
    <3>2. CASE CrashWorker
      <4>1. \A w \in WorkerSlot, r \in Run : ~Executes(w, r)'
          BY <1>t, <3>2 DEF CrashWorker, Executes, At, IdleExec
      <4>2. ASSUME NEW r \in Run PROVE Turn(r)' = Contract!Lost(Turn(r))
        <5>1. CASE \E w \in WorkerSlot : Executes(w, r)
          <6>1. entry[r].state = "active"
              BY <5>1 DEF RInv, SlotInv, HeldActive
          <6>2. Turn(r) = IF entry[r].stalls = 0 THEN "first" ELSE "second"
              BY <5>1, <6>1 DEF Turn
          <6>3. Turn(r)' = IF entry[r].stalls = 0 THEN "lost" ELSE "over"
              BY <2>1, <4>1, <6>1 DEF Turn
          <6> QED
              BY <6>2, <6>3 DEF Contract!Lost
        <5>2. CASE ~\E w \in WorkerSlot : Executes(w, r)
          <6>1. Turn(r)' = Turn(r)
              BY <2>1, <4>1, <5>2, TurnKept
          <6>2. Turn(r) \notin {"first", "second"}
              BY <5>2 DEF Turn
          <6> QED
              BY <6>1, <6>2 DEF Contract!Lost
        <5> QED
            BY <5>1, <5>2
      <4>3. Turns' = [r \in Run |-> Contract!Lost(Turns[r])]
          BY <4>2 DEF Turns, Run
      <4>4. Hands' = [r \in Run |-> {}]
          BY <4>1 DEF Hands, Run
      <4> QED
          BY <4>3, <4>4
    <3> QED
        BY <1>4, <3>1, <3>2
  <2>4. Contract!Die
      BY <2>1, <2>2, <2>3 DEF Contract!Die, Contract!runs, Runs, Cleared, Turns, Hands
  <2> QED
      BY <2>4 DEF Simulated, Contract!CNext
<1> QED
    BY <1>2, <1>3, <1>4

-----------------------------------------------------------------------------
(* The theorem. *)

\* Only queue.add gives a run an entry, and only a found stall counts one.
LEMMA UnstalledStep == RInv /\ [ANext]_avars => Unstalled'
<1>1. ASSUME RInv, ANext, entry' # entry PROVE Unstalled'
  <2> SUFFICES ASSUME NEW r \in Run, entry'[r].state = "none"
               PROVE  entry'[r].stalls = 0
      BY DEF Unstalled, Run
  <2>t. entry \in [Run -> AgentEntry] /\ (entry[r].state = "none" => entry[r].stalls = 0)
      BY <1>1 DEF RInv, AInv, ATypeOK, Unstalled
  <2>1. \A i, new : entry' = [entry EXCEPT ![i] = new] => entry'[r] = IF i = r THEN new ELSE entry[r]
      BY <2>t
  <2>2. ASSUME NEW c \in Caller, CallStep(c) PROVE entry'[r].stalls = 0
    <3>1. CASE Submit(c)
      <4>1. PICK i : entry' = [entry EXCEPT ![i] = Queued(entry[i])]
          BY <3>1 DEF Submit
      <4>2. entry'[r] \in {Queued(entry[r]), entry[r]}
          BY <2>1, <4>1
      <4> QED
          BY <2>t, <4>2 DEF Queued, AgentEntry
    <3>2. CASE ~Submit(c)
        BY <1>1, <2>2, <3>2 DEF CallStep, Attach, CreateRun, EndRun, Input, Perform, PauseRun,
              Rejoin, Detach, Summon, TakeControl, Arm, AnnounceTaken, ReleaseControl,
              FindWaiting, Reopen, AnnounceReleased
    <3> QED
        BY <3>1, <3>2
  <2>3. ASSUME NEW e \in Executor, ExecStep(e) \/ GiveUp(e) PROVE entry'[r].stalls = 0
    <3>1. CASE \E s \in Run : Accept(e, s)
      <4>1. PICK s \in Run : Accept(e, s)
          BY <3>1
      <4>2. entry' = [entry EXCEPT ![s] = [entry[s] EXCEPT !.state = "active"]]
          BY <1>1, <2>t, <4>1 DEF Accept
      <4> QED
          BY <2>t, <2>1, <4>2 DEF AgentEntry
    <3>2. CASE Ack(e)
      <4>1. PICK s : entry' = [entry EXCEPT ![s] = [entry[s] EXCEPT !.state = "done"]]
          BY <1>1, <2>t, <3>2 DEF Ack
      <4> QED
          BY <2>t, <2>1, <4>1 DEF AgentEntry
    <3>3. CASE ~(Ack(e) \/ \E s \in Run : Accept(e, s))
        BY <1>1, <2>3, <3>3 DEF ExecStep, Begin, Hold, Held, Check, Mark, Step, Throw, Park, Ask,
              Tune, Wait, Look, Leave, Settle, Observe, Finish, GiveUp
    <3> QED
        BY <3>1, <3>2, <3>3
  <2>4. ASSUME NEW s \in Run, StallRun(s) PROVE entry'[r].stalls = 0
    <3>1. entry' = [entry EXCEPT ![s] = Stalled(entry[s])]
        BY <2>4 DEF StallRun
    <3>2. Stalled(entry[s]).state # "none"
        BY DEF Stalled
    <3> QED
        BY <2>t, <2>1, <3>1, <3>2
  <2>5. ASSUME KeepAlive \/ Expire \/ Events \/ CrashWorker \/ CrashApi PROVE FALSE
      BY <1>1, <2>5 DEF KeepAlive, Expire, Events, CrashWorker, CrashApi
  <2> QED
      BY <1>1, <2>2, <2>3, <2>4, <2>5 DEF ANext
<1>2. ASSUME RInv, entry' = entry PROVE Unstalled'
    BY <1>2 DEF RInv, Unstalled
<1> QED
    BY <1>1, <1>2 DEF avars

\* The empty system is one the contract may start in.
LEMMA Starts == AInit => Contract!CInit /\ RInv
<1> SUFFICES ASSUME AInit PROVE Contract!CInit /\ RInv
    OBVIOUS
<1>1. AInv
    BY InitTyped
<1>2. \A e \in Executor : exec[e].pc = "idle"
    BY DEF AInit, IdleExec
<1>3. \A r \in Run : entry[r].state = "none" /\ entry[r].stalls = 0
    BY DEF AInit, NoAgentEntry
<1>4. \A w \in WorkerSlot, r \in Run : ~Executes(w, r)
    BY <1>2 DEF Executes, At, Executor
<1>5. Cleared = {}
    BY <1>2 DEF AInit, IdleCall, Cleared
<1>6. Turns = [r \in Run |-> "unasked"]
    BY <1>3 DEF Turns, Turn
<1>7. Hands = [r \in Run |-> {}]
    BY <1>4 DEF Hands
<1>8. Contract!CInit
    BY <1>5, <1>6, <1>7 DEF AInit, NoLock, Unstrayed, Contract!CInit, Contract!NoneLate, Cleared,
                            Turns, Hands
<1> QED
    BY <1>1, <1>3, <1>4, <1>8 DEF RInv, SlotInv, HeldActive, OneExecutor, Unstalled

\* The contract of the shared desktop is kept by any number of operators,
\* handlers, slots and runs: an agent is let in with one input at a time and
\* never while an operator is in control, and the worker gives out a run once,
\* or again if it died meanwhile, and never to two slots.
THEOREM AgentRefines == ASpec => AgentContractKept
<1>1. AInit => Contract!CInit /\ RInv
    BY Starts
<1>2. RInv /\ [ANext]_avars => RInv'
  <2>1. SlotInv /\ ATypeOK /\ [ANext]_avars => SlotInv'
    <3>1. ASSUME ATypeOK, SlotInv, ANext PROVE SlotInv'
        BY <3>1, CallSlots, ExecSlots, EnvironmentSlots DEF ANext
    <3>2. ASSUME SlotInv, UNCHANGED avars PROVE SlotInv'
        BY <3>2 DEF avars, SlotInv, HeldActive, OneExecutor, Executes, At
    <3> QED
        BY <3>1, <3>2
  <2> QED
      BY <2>1, StepTyped, UnstalledStep DEF RInv, AInv
<1>3. RInv /\ [ANext]_avars => [Contract!CNext]_(Contract!cvars)
  <2>1. ASSUME RInv, ANext PROVE Simulated
      BY <2>1, CallSimulated, ExecSimulated, StallSimulated, EnvironmentSimulated DEF ANext
  <2>2. ASSUME UNCHANGED avars PROVE Simulated
    <3>1. UNCHANGED Runs
        BY <2>2, RunsKept DEF avars, Executes, At
    <3>2. UNCHANGED Drivers
        BY <2>2 DEF avars, Drivers, Cleared
    <3> QED
        BY <3>1, <3>2, Stutters
  <2> QED
      BY <2>1, <2>2 DEF Simulated
<1>4. ASpec => Contract!CInit /\ [][Contract!CNext]_(Contract!cvars)
    BY <1>1, <1>2, <1>3, PTL DEF ASpec
<1> QED
    BY <1>4 DEF AgentContractKept, Contract!CSpec
=============================================================================
