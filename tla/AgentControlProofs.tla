-------------------------- MODULE AgentControlProofs --------------------------
(***************************************************************************)
(* What holds of AgentControl for any number of operators, handlers, slots,*)
(* runs, steps and crashes: the types, that an operator in control sees at *)
(* most one more input of each agent, that the worker never carries out a  *)
(* run twice at once, and that only a crash makes a lock that stays.       *)
(***************************************************************************)
EXTENDS AgentControl, TLAPS

\* The steps that are left of the recipe of an executor that goes on with it.
StepsLeft ==
    \A e \in Executor :
        exec[e].pc \in {"hold", "held", "check", "mark", "step"} => exec[e].steps >= 1

AInv == ATypeOK /\ StepsLeft

\* Nobody is past the gate with an input to spare: with no operator in control
\* nothing has been counted, and what was let in is counted when it is done.
Gated ==
    /\ AgentControls => \A x \in Executor \cup Caller : stray[x] = 0
    /\ \A c \in Caller : call[c].pc = "input" => stray[c] = 0
    /\ \A e \in Executor : exec[e].pc \in {"mark", "step"} => stray[e] = 0

StrayInv == Gated /\ StrayInput

\* The entry of a run that a slot carries out is active.
HeldActive ==
    \A w \in WorkerSlot, r \in Run : Executes(w, r) => entry[r].state = "active"

SlotInv == HeldActive /\ OneExecutor

-----------------------------------------------------------------------------
(* Types. *)

\* A freed or changed lock is a lock.
LEMMA LockTypes ==
    ASSUME ATypeOK
    PROVE  /\ NoLock \in Lock
           /\ Armed(lock) \in Lock
           /\ [lock EXCEPT !.timed = TRUE] \in Lock
           /\ \A h \in Human : [lock EXCEPT !.holder = h] \in Lock
BY DEF ATypeOK, Lock, NoLock, Armed

\* No input has been counted after the lock is freed.
LEMMA UnstrayedType == Unstrayed \in [Executor \cup Caller -> Nat]
BY DEF Unstrayed

\* An event leaves an executor where it is.
LEMMA ToldKeeps ==
    ASSUME NEW e \in Executor, exec[e] \in Exec, NEW kind
    PROVE  /\ Told(e, kind) \in Exec
           /\ Told(e, kind).pc = exec[e].pc
           /\ Told(e, kind).run = exec[e].run
           /\ Told(e, kind).steps = exec[e].steps
BY DEF Told, Exec

\* Nothing runs at first.
LEMMA InitTyped == AInit => AInv
<1>0. SUFFICES ASSUME AInit PROVE AInv
    OBVIOUS
<1>1. NoLock \in Lock
    BY DEF NoLock, Lock
<1>2. NoAgentEntry \in AgentEntry
    BY DEF NoAgentEntry, AgentEntry
<1>3. IdleExec \in Exec /\ IdleExec.pc = "idle"
    BY DEF IdleExec, Exec, ExecPc
<1>4. IdleCall \in Call
    BY DEF IdleCall, Call, CallPc
<1>5. "ABSENT" \in RunStatus
    BY DEF RunStatus
<1>6. ATypeOK
    BY <1>0, <1>1, <1>2, <1>3, <1>4, <1>5, UnstrayedType DEF AInit, ATypeOK
<1>7. StepsLeft
    BY <1>0, <1>3 DEF AInit, StepsLeft
<1> QED
    BY <1>6, <1>7 DEF AInv

\* A handler's step.
LEMMA CallTyped ==
    ASSUME AInv, NEW c \in Caller, CallStep(c)
    PROVE  AInv'
<1> USE DEF AInv
<1>t. /\ lock \in Lock /\ run \in [Run -> RunStatus] /\ entry \in [Run -> AgentEntry]
      /\ exec \in [Executor -> Exec] /\ call \in [Caller -> Call]
      /\ tuned \in [Process -> BOOLEAN] /\ crashes \in Nat
      /\ stray \in [Executor \cup Caller -> Nat]
    BY DEF ATypeOK
<1>r. Run \subseteq Nat
    BY DEF Run
<1>i. ASSUME Reply(c) PROVE call' \in [Caller -> Call]
    BY <1>t, <1>i DEF Reply, IdleCall, Call, CallPc
<1>g. ASSUME NEW pc \in CallPc, NEW r \in Nat, Then(c, pc, r)
      PROVE  call' \in [Caller -> Call]
    BY <1>t, <1>g DEF Then, Call
<1>s. ASSUME UNCHANGED exec, ATypeOK' PROVE AInv'
    BY <1>s DEF StepsLeft
<1>1. ASSUME Attach(c) \/ Input(c) PROVE AInv'
  <2>1. call' \in [Caller -> Call]
      BY <1>1, <1>g DEF Attach, Input, CallPc
  <2>2. ATypeOK' /\ UNCHANGED exec
      BY <1>1, <1>t, <2>1 DEF Attach, Input, ATypeOK
  <2> QED
      BY <2>2, <1>s
<1>2. ASSUME CreateRun(c) PROVE AInv'
  <2>1. PICK r \in Run : /\ run' = [run EXCEPT ![r] = "ATTACHED"]
                         /\ Then(c, "submit", r) \/ Reply(c)
      BY <1>2 DEF CreateRun
  <2>2. call' \in [Caller -> Call]
      BY <2>1, <1>g, <1>i, <1>r DEF CallPc
  <2>3. run' \in [Run -> RunStatus]
      BY <2>1, <1>t DEF RunStatus, ACTIVE_RUN_STATUSES
  <2>4. ATypeOK' /\ UNCHANGED exec
      BY <1>2, <1>t, <2>2, <2>3 DEF CreateRun, ATypeOK
  <2> QED
      BY <2>4, <1>s
<1>3. ASSUME Submit(c) PROVE AInv'
  <2>1. entry' \in [Run -> AgentEntry]
      BY <1>3, <1>t DEF Submit, Queued, AgentEntry
  <2>2. ATypeOK' /\ UNCHANGED exec
      BY <1>3, <1>t, <1>i, <2>1 DEF Submit, ATypeOK
  <2> QED
      BY <2>2, <1>s
<1>4. ASSUME EndRun(c) \/ PauseRun(c) PROVE AInv'
  <2>1. run' \in [Run -> RunStatus]
      BY <1>4, <1>t DEF EndRun, PauseRun, RunStatus, ACTIVE_RUN_STATUSES, TERMINAL_RUN_STATUSES
  <2>2. ATypeOK' /\ UNCHANGED exec
      BY <1>4, <1>t, <1>i, <2>1 DEF EndRun, PauseRun, ATypeOK
  <2> QED
      BY <2>2, <1>s
<1>5. ASSUME Perform(c) PROVE AInv'
  <2>1. stray' \in [Executor \cup Caller -> Nat]
      BY <1>5, <1>t DEF Perform, Inputs
  <2>2. ATypeOK' /\ UNCHANGED exec
      BY <1>5, <1>t, <1>i, <2>1 DEF Perform, ATypeOK
  <2> QED
      BY <2>2, <1>s
<1>6. ASSUME NEW r \in Run, Rejoin(c, r) \/ Detach(c, r) \/ Summon(c, r) PROVE AInv'
  <2>1. call' \in [Caller -> Call]
      BY <1>6, <1>g, <1>r DEF Rejoin, Detach, Summon, CallPc
  <2>2. ATypeOK' /\ UNCHANGED exec
      BY <1>6, <1>t, <2>1 DEF Rejoin, Detach, Summon, ATypeOK
  <2> QED
      BY <2>2, <1>s
<1>7. ASSUME NEW h \in Human, TakeControl(c, h) PROVE AInv'
  <2>1. call' \in [Caller -> Call]
      BY <1>7, <1>g DEF TakeControl, CallPc
  <2>2. ATypeOK' /\ UNCHANGED exec
      BY <1>7, <1>t, <2>1, LockTypes DEF TakeControl, ATypeOK
  <2> QED
      BY <2>2, <1>s
<1>8. ASSUME Arm(c) PROVE AInv'
  <2>1. call' \in [Caller -> Call]
      BY <1>8, <1>g DEF Arm, CallPc
  <2>2. ATypeOK' /\ UNCHANGED exec
      BY <1>8, <1>t, <2>1, LockTypes DEF Arm, ATypeOK
  <2> QED
      BY <2>2, <1>s
<1>9. ASSUME AnnounceTaken(c) \/ AnnounceReleased(c) PROVE AInv'
  <2>1. PICK kind : exec' = [e \in Executor |-> Told(e, kind)]
      BY <1>9 DEF AnnounceTaken, AnnounceReleased
  <2>2. \A e \in Executor : /\ exec'[e] \in Exec
                            /\ exec'[e].pc = exec[e].pc
                            /\ exec'[e].steps = exec[e].steps
      BY <1>t, <2>1, ToldKeeps
  <2>3. exec' \in [Executor -> Exec]
      BY <2>1, <2>2
  <2>4. ATypeOK'
      BY <1>9, <1>t, <1>i, <2>3 DEF AnnounceTaken, AnnounceReleased, ATypeOK
  <2>5. StepsLeft'
      BY <2>2 DEF StepsLeft
  <2> QED
      BY <2>4, <2>5
<1>10. ASSUME ReleaseControl(c) PROVE AInv'
  <2>1. call' \in [Caller -> Call]
      BY <1>10, <1>g DEF ReleaseControl, CallPc
  <2>2. ATypeOK' /\ UNCHANGED exec
      BY <1>10, <1>t, <2>1, LockTypes, UnstrayedType DEF ReleaseControl, Free, ATypeOK
  <2> QED
      BY <2>2, <1>s
<1>11. ASSUME FindWaiting(c) PROVE AInv'
  <2>1. \/ \E r \in Run : Then(c, "reopen", r)
        \/ Then(c, "released", 0)
      BY <1>11 DEF FindWaiting
  <2>2. call' \in [Caller -> Call]
      BY <2>1, <1>g, <1>r DEF CallPc
  <2>3. ATypeOK' /\ UNCHANGED exec
      BY <1>11, <1>t, <2>2 DEF FindWaiting, ATypeOK
  <2> QED
      BY <2>3, <1>s
<1>12. ASSUME Reopen(c) PROVE AInv'
  <2>1. call' \in [Caller -> Call]
      BY <1>12, <1>g DEF Reopen, CallPc
  <2>2. run' \in [Run -> RunStatus]
      BY <1>12, <1>t DEF Reopen, RunStatus, ACTIVE_RUN_STATUSES
  <2>3. ATypeOK' /\ UNCHANGED exec
      BY <1>12, <1>t, <2>1, <2>2 DEF Reopen, ATypeOK
  <2> QED
      BY <2>3, <1>s
<1> QED
    BY <1>1, <1>2, <1>3, <1>4, <1>5, <1>6, <1>7, <1>8, <1>9, <1>10, <1>11, <1>12
    DEF CallStep

\* A step of an executor.
LEMMA ExecTyped ==
    ASSUME AInv, NEW e \in Executor, ExecStep(e) \/ GiveUp(e)
    PROVE  AInv'
<1>t. /\ lock \in Lock /\ run \in [Run -> RunStatus] /\ entry \in [Run -> AgentEntry]
      /\ exec \in [Executor -> Exec] /\ call \in [Caller -> Call]
      /\ tuned \in [Process -> BOOLEAN] /\ crashes \in Nat
      /\ stray \in [Executor \cup Caller -> Nat]
    BY DEF AInv, ATypeOK
<1>l. exec[e].pc \in {"hold", "held", "check", "mark", "step"} => exec[e].steps >= 1
    BY DEF AInv, StepsLeft
<1>x. exec[e] \in Exec
    BY <1>t
<1>n. /\ IdleExec \in Exec /\ IdleExec.pc = "idle"
    BY DEF IdleExec, Exec, ExecPc
<1>r. Run \subseteq Nat
    BY DEF Run
\* Only the executor moves, and it has steps left where it needs them.
<1>s. ASSUME NEW v \in Exec, exec' = [exec EXCEPT ![e] = v],
             v.pc \in {"hold", "held", "check", "mark", "step"} => v.steps >= 1,
             run' \in [Run -> RunStatus], entry' \in [Run -> AgentEntry],
             tuned' \in [Process -> BOOLEAN], stray' \in [Executor \cup Caller -> Nat],
             UNCHANGED <<lock, call, crashes>>
      PROVE  AInv'
  <2>1. exec' \in [Executor -> Exec]
      BY <1>s, <1>t
  <2>2. ATypeOK'
      BY <1>s, <1>t, <2>1 DEF ATypeOK
  <2>3. StepsLeft'
      BY <1>s, <1>t DEF AInv, StepsLeft
  <2> QED
      BY <2>2, <2>3 DEF AInv
\* Where the executor goes, with what it has unchanged.
<1>g. ASSUME NEW pc \in ExecPc
      PROVE  /\ [exec[e] EXCEPT !.pc = pc] \in Exec
             /\ [exec[e] EXCEPT !.pc = pc].pc = pc
             /\ [exec[e] EXCEPT !.pc = pc].steps = exec[e].steps
             /\ Goes(e, pc) => exec' = [exec EXCEPT ![e] = [exec[e] EXCEPT !.pc = pc]]
    BY <1>x DEF Exec, Goes
<1>u. ASSUME NEW status \in RunStatus, SetRun(e, status)
      PROVE  run' \in [Run -> RunStatus]
    BY <1>u, <1>t DEF SetRun
<1>v. {"ACTING", "WAITING_FOR_HUMAN", "OBSERVING", "FAILED", "DETACHED", "COMPLETED"}
          \subseteq RunStatus
    BY DEF RunStatus, ACTIVE_RUN_STATUSES, TERMINAL_RUN_STATUSES
<1>a. \A n \in Nat : /\ After(n) \in {"complete", "check"}
                     /\ After(n) = "check" => n >= 1
    BY DEF After
<1>1. ASSUME NEW r \in Run, Accept(e, r) PROVE AInv'
  <2> DEFINE v == [IdleExec EXCEPT !.pc = IF Over(r) THEN "ack" ELSE "begin", !.run = r]
  <2>1. v \in Exec /\ v.pc \in {"ack", "begin"}
      BY <1>n, <1>r DEF Exec, ExecPc
  <2>2. entry' \in [Run -> AgentEntry]
      BY <1>1, <1>t DEF Accept, AgentEntry
  <2>3. exec' = [exec EXCEPT ![e] = v]
      BY <1>1 DEF Accept
  <2>4. run' = run /\ tuned' = tuned /\ stray' = stray /\ UNCHANGED <<lock, call, crashes>>
      BY <1>1 DEF Accept
  <2> HIDE DEF v
  <2> QED
      BY <1>s, <1>t, <2>1, <2>2, <2>3, <2>4
<1>2. ASSUME Begin(e) PROVE AInv'
  <2>1. PICK n \in RecipeLengths : exec' = [exec EXCEPT ![e].pc = "hold", ![e].steps = n]
      BY <1>2 DEF Begin
  <2> DEFINE v == [exec[e] EXCEPT !.pc = "hold", !.steps = n]
  <2>n. n \in Nat /\ n >= 1
      BY <2>1 DEF RecipeLengths
  <2>2. v \in Exec /\ v.steps >= 1
      BY <2>n, <1>x DEF Exec, ExecPc
  <2>3. exec' = [exec EXCEPT ![e] = v]
      BY <2>1, <1>t
  <2>4. run' \in [Run -> RunStatus]
      BY <1>2, <1>u, <1>v DEF Begin
  <2>5. entry' = entry /\ tuned' = tuned /\ stray' = stray /\ UNCHANGED <<lock, call, crashes>>
      BY <1>2 DEF Begin
  <2> HIDE DEF v
  <2> QED
      BY <1>s, <1>t, <2>2, <2>3, <2>4, <2>5
<1>3. ASSUME Hold(e) PROVE AInv'
  <2>0. /\ run' = run /\ entry' = entry /\ tuned' = tuned /\ stray' = stray
        /\ UNCHANGED <<lock, call, crashes>>
      BY <1>3 DEF Hold
  <2>1. exec[e].steps >= 1
      BY <1>3, <1>l DEF Hold, At
  <2>2. CASE AgentControls
    <3> DEFINE pc == IF exec[e].begun THEN "mark" ELSE "check"
               v == [exec[e] EXCEPT !.pc = pc, !.begun = TRUE]
    <3>1. v \in Exec /\ v.steps = exec[e].steps
        BY <1>x DEF Exec, ExecPc
    <3>2. exec' = [exec EXCEPT ![e] = v]
        BY <1>3, <2>2, <1>t DEF Hold
    <3> HIDE DEF v
    <3> QED
        BY <1>s, <1>t, <2>0, <2>1, <3>1, <3>2
  <2>3. CASE ~AgentControls
    <3>1. Goes(e, "held")
        BY <1>3, <2>3 DEF Hold
    <3> QED
        BY <1>s, <1>t, <1>g, <2>0, <2>1, <3>1 DEF ExecPc
  <2> QED
      BY <2>2, <2>3
<1>4. ASSUME Held(e) \/ Check(e) PROVE AInv'
  <2>0. /\ run' = run /\ entry' = entry /\ tuned' = tuned /\ stray' = stray
        /\ UNCHANGED <<lock, call, crashes>>
      BY <1>4 DEF Held, Check
  <2>1. exec[e].steps >= 1
      BY <1>4, <1>l DEF Held, Check, At
  <2>2. PICK pc \in {"drop", "hold", "ack"} : Goes(e, pc)
      BY <1>4 DEF Held, Check
  <2> QED
      BY <1>s, <1>t, <1>g, <2>0, <2>1, <2>2 DEF ExecPc
<1>5. ASSUME Mark(e) PROVE AInv'
  <2>0. /\ entry' = entry /\ tuned' = tuned /\ stray' = stray
        /\ UNCHANGED <<lock, call, crashes>> /\ Goes(e, "step")
      BY <1>5 DEF Mark
  <2>1. exec[e].steps >= 1
      BY <1>5, <1>l DEF Mark, At
  <2>2. run' \in [Run -> RunStatus]
      BY <1>5, <1>u, <1>v DEF Mark
  <2> QED
      BY <1>s, <1>t, <1>g, <2>0, <2>1, <2>2 DEF ExecPc
<1>6. ASSUME Step(e) PROVE AInv'
  <2>0. /\ run' = run /\ entry' = entry /\ tuned' = tuned
        /\ UNCHANGED <<lock, call, crashes>>
      BY <1>6 DEF Step
  <2>1. exec[e].steps >= 1 /\ exec[e].steps \in Nat
      BY <1>6, <1>l, <1>x DEF Step, At, Exec
  <2>2. PICK pc \in {After(exec[e].steps - 1), "fail", "park"} :
            exec' = [exec EXCEPT ![e].pc = pc, ![e].steps = @ - 1]
      BY <1>6 DEF Step, Outcomes
  <2> DEFINE v == [exec[e] EXCEPT !.pc = pc, !.steps = @ - 1]
  <2>3. exec[e].steps - 1 \in Nat
      BY <2>1
  <2>4. /\ pc \in {"complete", "check", "fail", "park"}
        /\ pc = "check" => exec[e].steps - 1 >= 1
      BY <2>2, <2>3, <1>a
  <2>5. v \in Exec /\ v.pc = pc /\ v.steps = exec[e].steps - 1
      BY <1>x, <2>3, <2>4 DEF Exec, ExecPc
  <2>6. exec' = [exec EXCEPT ![e] = v]
      BY <2>2, <1>t
  <2>7. stray' \in [Executor \cup Caller -> Nat]
      BY <1>6, <1>t DEF Step, Inputs
  <2> HIDE DEF v
  <2> QED
      BY <1>s, <1>t, <2>0, <2>4, <2>5, <2>6, <2>7
<1>7. ASSUME Throw(e) PROVE AInv'
  <2>0. /\ run' = run /\ entry' = entry /\ tuned' = tuned /\ stray' = stray
        /\ UNCHANGED <<lock, call, crashes>> /\ Goes(e, "fail")
      BY <1>7 DEF Throw
  <2> QED
      BY <1>s, <1>t, <1>g, <2>0 DEF ExecPc
<1>8. ASSUME Park(e) PROVE AInv'
  <2>0. /\ entry' = entry /\ tuned' = tuned /\ stray' = stray
        /\ UNCHANGED <<lock, call, crashes>> /\ Goes(e, "ask")
      BY <1>8 DEF Park
  <2>1. run' \in [Run -> RunStatus]
      BY <1>8, <1>u, <1>v DEF Park
  <2> QED
      BY <1>s, <1>t, <1>g, <2>0, <2>1 DEF ExecPc
<1>9. ASSUME Ask(e) PROVE AInv'
  <2> DEFINE v == [exec[e] EXCEPT !.pc = "tune", !.sawHuman = ~AgentControls, !.released = FALSE]
  <2>1. v \in Exec /\ v.pc = "tune"
      BY <1>x DEF Exec, ExecPc
  <2>2. exec' = [exec EXCEPT ![e] = v]
      BY <1>9, <1>t DEF Ask
  <2>3. /\ run' = run /\ entry' = entry /\ tuned' = tuned /\ stray' = stray
        /\ UNCHANGED <<lock, call, crashes>>
      BY <1>9 DEF Ask
  <2> HIDE DEF v
  <2> QED
      BY <1>s, <1>t, <2>1, <2>2, <2>3
<1>10. ASSUME Tune(e) PROVE AInv'
  <2>0. /\ run' = run /\ entry' = entry /\ stray' = stray
        /\ UNCHANGED <<lock, call, crashes>> /\ Goes(e, "wait")
      BY <1>10 DEF Tune
  <2>1. tuned' \in [Process -> BOOLEAN]
      BY <1>10, <1>t DEF Tune
  <2> QED
      BY <1>s, <1>t, <1>g, <2>0, <2>1 DEF ExecPc
<1>11. ASSUME Wait(e) \/ Look(e) \/ GiveUp(e) PROVE AInv'
  <2>0. /\ run' = run /\ entry' = entry /\ tuned' = tuned /\ stray' = stray
        /\ UNCHANGED <<lock, call, crashes>>
      BY <1>11 DEF Wait, Look, GiveUp
  <2>1. \/ \E pc \in {"look", "wait"} : Goes(e, pc)
        \/ \E pc \in {"drop", "leave"}, b \in BOOLEAN :
              exec' = [exec EXCEPT ![e] = [exec[e] EXCEPT !.pc = pc, !.resumed = b]]
    <3>1. CASE Wait(e)
        BY <3>1, <1>t DEF Wait, Over
    <3>2. CASE Look(e)
        BY <3>2, <1>t DEF Look
    <3>3. CASE GiveUp(e)
        BY <3>3, <1>t DEF GiveUp
    <3> QED
        BY <1>11, <3>1, <3>2, <3>3
  <2>2. CASE \E pc \in {"look", "wait"} : Goes(e, pc)
      BY <1>s, <1>t, <1>g, <2>0, <2>2 DEF ExecPc
  <2>3. ASSUME NEW pc \in {"drop", "leave"}, NEW b \in BOOLEAN,
               exec' = [exec EXCEPT ![e] = [exec[e] EXCEPT !.pc = pc, !.resumed = b]]
        PROVE  AInv'
    <3> DEFINE v == [exec[e] EXCEPT !.pc = pc, !.resumed = b]
    <3>1. v \in Exec /\ v.pc = pc
        BY <1>x DEF Exec, ExecPc
    <3>2. exec' = [exec EXCEPT ![e] = v]
        BY <2>3
    <3> HIDE DEF v
    <3> QED
        BY <1>s, <1>t, <2>0, <3>1, <3>2
  <2> QED
      BY <2>1, <2>2, <2>3
<1>12. ASSUME Leave(e) PROVE AInv'
  <2> DEFINE pc == IF exec[e].resumed THEN "observe" ELSE "settle"
             v == [exec[e] EXCEPT !.pc = pc, !.sawHuman = FALSE, !.released = FALSE,
                                  !.resumed = FALSE]
  <2>1. v \in Exec /\ v.pc \in {"observe", "settle"}
      BY <1>x DEF Exec, ExecPc
  <2>2. exec' = [exec EXCEPT ![e] = v]
      BY <1>12, <1>t DEF Leave
  <2>3. /\ run' = run /\ entry' = entry /\ stray' = stray
        /\ UNCHANGED <<lock, call, crashes>>
      BY <1>12 DEF Leave
  <2>4. tuned' \in [Process -> BOOLEAN]
      BY <1>12, <1>t DEF Leave
  <2> HIDE DEF v
  <2> QED
      BY <1>s, <1>t, <2>1, <2>2, <2>3, <2>4
<1>13. ASSUME Settle(e) PROVE AInv'
  <2>0. /\ run' = run /\ entry' = entry /\ tuned' = tuned /\ stray' = stray
        /\ UNCHANGED <<lock, call, crashes>>
      BY <1>13 DEF Settle
  <2>1. PICK pc \in {"ack", "fail"} : Goes(e, pc)
      BY <1>13 DEF Settle
  <2> QED
      BY <1>s, <1>t, <1>g, <2>0, <2>1 DEF ExecPc
<1>14. ASSUME Observe(e) PROVE AInv'
  <2>0. /\ entry' = entry /\ tuned' = tuned /\ stray' = stray
        /\ UNCHANGED <<lock, call, crashes>>
      BY <1>14 DEF Observe
  <2>1. PICK pc \in {After(exec[e].steps), "fail"} : Goes(e, pc)
      BY <1>14 DEF Observe
  <2>2. exec[e].steps \in Nat
      BY <1>x DEF Exec
  <2>3. pc \in {"complete", "check", "fail"} /\ (pc = "check" => exec[e].steps >= 1)
      BY <2>1, <2>2, <1>a
  <2>4. run' \in [Run -> RunStatus]
      BY <1>14, <1>u, <1>v DEF Observe
  <2> QED
      BY <1>s, <1>t, <1>g, <2>0, <2>1, <2>3, <2>4 DEF ExecPc
<1>15. ASSUME Finish(e) PROVE AInv'
  <2>0. /\ entry' = entry /\ tuned' = tuned /\ stray' = stray
        /\ UNCHANGED <<lock, call, crashes>> /\ Goes(e, "ack")
      BY <1>15 DEF Finish
  <2>1. run' \in [Run -> RunStatus]
      BY <1>15, <1>u, <1>v DEF Finish, Verdict
  <2> QED
      BY <1>s, <1>t, <1>g, <2>0, <2>1 DEF ExecPc
<1>16. ASSUME Ack(e) PROVE AInv'
  <2>0. /\ run' = run /\ tuned' = tuned /\ stray' = stray
        /\ UNCHANGED <<lock, call, crashes>> /\ exec' = [exec EXCEPT ![e] = IdleExec]
      BY <1>16 DEF Ack
  <2>1. entry' \in [Run -> AgentEntry]
      BY <1>16, <1>t DEF Ack, AgentEntry
  <2> QED
      BY <1>s, <1>t, <1>n, <2>0, <2>1
<1> QED
    BY <1>1, <1>2, <1>3, <1>4, <1>5, <1>6, <1>7, <1>8, <1>9, <1>10, <1>11, <1>12,
       <1>13, <1>14, <1>15, <1>16
    DEF ExecStep

\* The queue, the processes and the clock.
LEMMA EnvironmentTyped ==
    ASSUME AInv, KeepAlive \/ Expire \/ Events \/ CrashWorker \/ CrashApi
                 \/ \E r \in Run : StallRun(r)
    PROVE  AInv'
<1>t. /\ lock \in Lock /\ run \in [Run -> RunStatus] /\ entry \in [Run -> AgentEntry]
      /\ exec \in [Executor -> Exec] /\ call \in [Caller -> Call]
      /\ tuned \in [Process -> BOOLEAN] /\ crashes \in Nat
      /\ stray \in [Executor \cup Caller -> Nat]
    BY DEF AInv, ATypeOK
<1>s. ASSUME UNCHANGED exec, ATypeOK' PROVE AInv'
    BY <1>s DEF AInv, StepsLeft
<1>i. IdleExec \in Exec /\ IdleExec.pc = "idle"
    BY DEF IdleExec, Exec, ExecPc
<1>1. ASSUME KeepAlive PROVE AInv'
  <2>1. ATypeOK'
      BY <1>1, <1>t, LockTypes DEF KeepAlive, ATypeOK, AInv
  <2> QED
      BY <1>1, <1>s, <2>1 DEF KeepAlive
<1>2. ASSUME Expire PROVE AInv'
  <2>1. ATypeOK'
      BY <1>2, <1>t, LockTypes, UnstrayedType DEF Expire, Free, ATypeOK, AInv
  <2> QED
      BY <1>2, <1>s, <2>1 DEF Expire
<1>3. ASSUME Events PROVE AInv'
  <2>1. tuned' \in [Process -> BOOLEAN]
      BY <1>3, <1>t DEF Events
  <2>2. ATypeOK'
      BY <1>3, <1>t, <2>1 DEF Events, ATypeOK
  <2> QED
      BY <1>3, <1>s, <2>2 DEF Events
<1>4. ASSUME CrashWorker \/ CrashApi PROVE AInv'
  <2>1. \A e \in Executor : exec'[e] \in {IdleExec, exec[e]}
      BY <1>4 DEF CrashWorker, CrashApi
  <2>2. exec' \in [Executor -> Exec]
      BY <1>4, <1>t, <1>i DEF CrashWorker, CrashApi
  <2>3. call' \in [Caller -> Call]
      BY <1>4, <1>t DEF CrashWorker, CrashApi, IdleCall, Call, CallPc
  <2>4. tuned' \in [Process -> BOOLEAN]
      BY <1>4, <1>t DEF CrashWorker, CrashApi
  <2>5. ATypeOK'
      BY <1>4, <1>t, <2>2, <2>3, <2>4 DEF CrashWorker, CrashApi, ATypeOK
  <2>6. StepsLeft'
      BY <1>i, <2>1 DEF AInv, StepsLeft
  <2> QED
      BY <2>5, <2>6 DEF AInv
<1>5. ASSUME NEW r \in Run, StallRun(r) PROVE AInv'
  <2>1. entry' \in [Run -> AgentEntry]
      BY <1>5, <1>t DEF StallRun, Stalled, AgentEntry
  <2>2. ATypeOK'
      BY <1>5, <1>t, <2>1 DEF StallRun, ATypeOK
  <2> QED
      BY <1>5, <1>s, <2>2 DEF StallRun
<1> QED
    BY <1>1, <1>2, <1>3, <1>4, <1>5

\* Every step keeps the types.
LEMMA StepTyped == AInv /\ [ANext]_avars => AInv'
<1>1. ASSUME AInv, ANext PROVE AInv'
    BY <1>1, CallTyped, ExecTyped, EnvironmentTyped DEF ANext
<1>2. ASSUME AInv, UNCHANGED avars PROVE AInv'
    BY <1>2 DEF avars, AInv, ATypeOK, StepsLeft
<1> QED
    BY <1>1, <1>2

\* The lock, the runs, the queue, the executors and the handlers keep their
\* shape; in particular no executor goes past the last step of its recipe.
THEOREM AgentTypes == ASpec => []ATypeOK
<1>1. AInv => ATypeOK
    BY DEF AInv
<1> QED
    BY InitTyped, StepTyped, <1>1, PTL DEF ASpec

-----------------------------------------------------------------------------
(* Inputs while an operator is in control. *)

\* A step that counts no input keeps StrayInv, if it gives control to no agent
\* and lets nobody past the gate.
LEMMA GateKept ==
    ASSUME StrayInv, stray' = stray, AgentControls' => AgentControls,
           \A c \in Caller : call'[c].pc = "input" => call[c].pc = "input" \/ AgentControls,
           \A e \in Executor :
               exec'[e].pc \in {"mark", "step"} =>
                   exec[e].pc \in {"mark", "step"} \/ AgentControls
    PROVE  StrayInv'
BY DEF StrayInv, Gated, StrayInput

\* Once the lock is freed nothing is counted.
LEMMA FreeKept ==
    ASSUME Free
    PROVE  StrayInv'
BY DEF Free, Unstrayed, StrayInv, Gated, StrayInput

\* A handler's step.
LEMMA CallGated ==
    ASSUME ATypeOK, StrayInv, NEW c \in Caller, CallStep(c)
    PROVE  StrayInv'
<1>t. /\ lock \in Lock /\ exec \in [Executor -> Exec] /\ call \in [Caller -> Call]
      /\ stray \in [Executor \cup Caller -> Nat]
    BY DEF ATypeOK
<1>g. ASSUME NEW pc, NEW r, Then(c, pc, r), pc # "input" \/ AgentControls
      PROVE  \A d \in Caller : call'[d].pc = "input" => call[d].pc = "input" \/ AgentControls
    BY <1>g, <1>t DEF Then
<1>i. ASSUME Reply(c)
      PROVE  \A d \in Caller : call'[d].pc = "input" => call[d].pc = "input" /\ d # c
    BY <1>i, <1>t DEF Reply, IdleCall
<1>e. ASSUME exec' = exec
      PROVE  \A e \in Executor : exec'[e].pc = exec[e].pc
    BY <1>e
<1>1. CASE Input(c)
  <2>1. stray' = stray /\ lock' = lock /\ exec' = exec /\ AgentControls /\ Then(c, "input", 0)
      BY <1>1 DEF Input, Gate
  <2> QED
      BY <2>1, <1>g, GateKept DEF AgentControls
<1>2. CASE Perform(c)
  <2>1. /\ lock' = lock /\ exec' = exec /\ call[c].pc = "input"
        /\ stray' = IF AgentControls THEN stray ELSE [stray EXCEPT ![c] = @ + 1]
      BY <1>2 DEF Perform, Inputs
  <2>2. \A d \in Caller : call'[d].pc = "input" => call[d].pc = "input" /\ d # c
      BY <1>2, <1>i DEF Perform
  <2>3. CASE AgentControls
      BY <2>1, <2>2, <2>3, GateKept DEF AgentControls
  <2>4. CASE ~AgentControls
    <3>1. stray[c] = 0
        BY <2>1 DEF StrayInv, Gated
    <3>2. stray' = [stray EXCEPT ![c] = 1]
        BY <2>1, <2>4, <3>1
    <3>3. /\ stray'[c] = 1
          /\ \A x \in Executor \cup Caller : x # c => stray'[x] = stray[x]
        BY <3>2, <1>t
    <3>4. c \notin Executor
        BY AgentAssumption DEF Executor
    <3>5. ~AgentControls'
        BY <2>1, <2>4 DEF AgentControls
    <3>6. Gated'
        BY <2>1, <2>2, <3>3, <3>4, <3>5 DEF StrayInv, Gated
    <3>7. StrayInput'
        BY <3>3 DEF StrayInv, StrayInput
    <3> QED
        BY <3>6, <3>7 DEF StrayInv
  <2> QED
      BY <2>3, <2>4
<1>3. CASE \E h \in Human : TakeControl(c, h)
  <2>1. PICK h \in Human : TakeControl(c, h)
      BY <1>3
  <2>2. stray' = stray /\ exec' = exec /\ Then(c, "arm", 0)
        /\ lock' = [lock EXCEPT !.holder = h]
      BY <2>1 DEF TakeControl
  <2>3. ~AgentControls'
      BY <2>2, <1>t, AgentAssumption DEF AgentControls, Lock
  <2> QED
      BY <2>2, <2>3, <1>g, GateKept
<1>4. CASE Arm(c)
  <2>1. stray' = stray /\ exec' = exec /\ Then(c, "taken", 0) /\ lock' = Armed(lock)
      BY <1>4 DEF Arm
  <2>2. lock'.holder = lock.holder
      BY <2>1, <1>t DEF Armed, Lock
  <2> QED
      BY <2>1, <2>2, <1>g, GateKept DEF AgentControls
<1>5. CASE AnnounceTaken(c) \/ AnnounceReleased(c)
  <2>1. PICK kind : exec' = [e \in Executor |-> Told(e, kind)]
      BY <1>5 DEF AnnounceTaken, AnnounceReleased
  <2>2. \A e \in Executor : exec'[e].pc = exec[e].pc
      BY <1>t, <2>1, ToldKeeps
  <2>3. stray' = stray /\ lock' = lock /\ Reply(c)
      BY <1>5 DEF AnnounceTaken, AnnounceReleased
  <2>4. \A d \in Caller : call'[d].pc = "input" => call[d].pc = "input"
      BY <2>3, <1>i
  <2> QED
      BY <2>2, <2>3, <2>4, GateKept DEF AgentControls
<1>6. CASE ReleaseControl(c)
    BY <1>6, FreeKept DEF ReleaseControl
<1>7. CASE \/ Attach(c) \/ CreateRun(c) \/ Submit(c) \/ EndRun(c) \/ PauseRun(c)
           \/ \E r \in Run : Rejoin(c, r) \/ Detach(c, r) \/ Summon(c, r)
           \/ FindWaiting(c) \/ Reopen(c)
  <2>1. stray' = stray /\ lock' = lock /\ exec' = exec
      BY <1>7 DEF Attach, CreateRun, Submit, EndRun, PauseRun, Rejoin, Detach, Summon,
                  FindWaiting, Reopen
  <2>2. \/ \E pc \in CallPc \ {"input"} : \E r : Then(c, pc, r)
        \/ Reply(c)
      BY <1>7 DEF Attach, CreateRun, Submit, EndRun, PauseRun, Rejoin, Detach, Summon,
                  FindWaiting, Reopen, CallPc
  <2>3. \A d \in Caller : call'[d].pc = "input" => call[d].pc = "input" \/ AgentControls
      BY <2>2, <1>g, <1>i
  <2> QED
      BY <2>1, <2>3, GateKept DEF AgentControls
<1> QED
    BY <1>1, <1>2, <1>3, <1>4, <1>5, <1>6, <1>7 DEF CallStep

\* A step of an executor.
LEMMA ExecGated ==
    ASSUME ATypeOK, StrayInv, NEW e \in Executor, ExecStep(e) \/ GiveUp(e)
    PROVE  StrayInv'
<1>t. exec \in [Executor -> Exec] /\ stray \in [Executor \cup Caller -> Nat]
    BY DEF ATypeOK
<1>o. \A f \in Executor : f # e => exec'[f] = exec[f]
    BY <1>t DEF ExecStep, Accept, Begin, Hold, Held, Check, Mark, Step, Throw, Park, Ask,
                Tune, Wait, Look, Leave, Settle, Observe, Finish, Ack, GiveUp, Goes
<1>c. lock' = lock /\ call' = call
    BY DEF ExecStep, Accept, Begin, Hold, Held, Check, Mark, Step, Throw, Park, Ask,
           Tune, Wait, Look, Leave, Settle, Observe, Finish, Ack, GiveUp
<1>1. CASE Step(e)
  <2>1. /\ exec[e].pc = "step"
        /\ stray' = IF AgentControls THEN stray ELSE [stray EXCEPT ![e] = @ + 1]
      BY <1>1 DEF Step, At, Inputs
  <2>2. exec'[e].pc \notin {"mark", "step"}
      BY <1>1, <1>t DEF Step, Outcomes, After, Exec
  <2>3. CASE AgentControls
      BY <1>o, <1>c, <2>1, <2>2, <2>3, GateKept DEF AgentControls
  <2>4. CASE ~AgentControls
    <3>1. stray[e] = 0
        BY <2>1 DEF StrayInv, Gated
    <3>2. stray' = [stray EXCEPT ![e] = 1]
        BY <2>1, <2>4, <3>1
    <3>3. /\ stray'[e] = 1
          /\ \A x \in Executor \cup Caller : x # e => stray'[x] = stray[x]
        BY <3>2, <1>t
    <3>4. e \notin Caller
        BY AgentAssumption DEF Executor
    <3>5. ~AgentControls'
        BY <1>c, <2>4 DEF AgentControls
    <3>6. Gated'
        BY <1>o, <1>c, <2>2, <3>3, <3>4, <3>5 DEF StrayInv, Gated
    <3>7. StrayInput'
        BY <3>3 DEF StrayInv, StrayInput
    <3> QED
        BY <3>6, <3>7 DEF StrayInv
  <2> QED
      BY <2>3, <2>4
<1>2. CASE Hold(e)
  <2>1. stray' = stray
      BY <1>2 DEF Hold
  <2>2. ~AgentControls => exec'[e].pc = "held"
      BY <1>2, <1>t DEF Hold, Goes, Exec
  <2> QED
      BY <1>o, <1>c, <2>1, <2>2, GateKept DEF AgentControls
<1>3. CASE Mark(e)
  <2>1. stray' = stray /\ exec[e].pc = "mark"
      BY <1>3 DEF Mark, At
  <2> QED
      BY <1>o, <1>c, <2>1, GateKept DEF AgentControls
<1>4. CASE \/ \E r \in Run : Accept(e, r)
           \/ Begin(e) \/ Held(e) \/ Check(e) \/ Throw(e) \/ Park(e) \/ Ask(e) \/ Tune(e)
           \/ Wait(e) \/ Look(e) \/ Leave(e) \/ Settle(e) \/ Observe(e) \/ Finish(e)
           \/ Ack(e) \/ GiveUp(e)
  <2>1. stray' = stray
      BY <1>4 DEF Accept, Begin, Held, Check, Throw, Park, Ask, Tune, Wait, Look, Leave,
                  Settle, Observe, Finish, Ack, GiveUp
  <2>2. exec'[e].pc \notin {"mark", "step"}
    <3>1. CASE \E r \in Run : Accept(e, r)
        BY <3>1, <1>t DEF Accept, IdleExec
    <3>2. CASE Begin(e) \/ Held(e) \/ Check(e) \/ Throw(e) \/ Park(e) \/ Ask(e) \/ Tune(e)
        BY <3>2, <1>t DEF Begin, Held, Check, Throw, Park, Ask, Tune, Goes, Exec
    <3>3. CASE Wait(e) \/ Look(e) \/ Leave(e) \/ Settle(e) \/ GiveUp(e)
        BY <3>3, <1>t DEF Wait, Look, Leave, Settle, GiveUp, Goes, Exec
    <3>4. CASE Observe(e) \/ Finish(e) \/ Ack(e)
        BY <3>4, <1>t DEF Observe, Finish, Ack, Goes, After, IdleExec, Exec
    <3> QED
        BY <1>4, <3>1, <3>2, <3>3, <3>4
  <2> QED
      BY <1>o, <1>c, <2>1, <2>2, GateKept DEF AgentControls
<1> QED
    BY <1>1, <1>2, <1>3, <1>4 DEF ExecStep

\* The queue, the processes and the clock.
LEMMA EnvironmentGated ==
    ASSUME ATypeOK, StrayInv,
           KeepAlive \/ Expire \/ Events \/ CrashWorker \/ CrashApi
               \/ \E r \in Run : StallRun(r)
    PROVE  StrayInv'
<1>t. lock \in Lock /\ exec \in [Executor -> Exec] /\ call \in [Caller -> Call]
    BY DEF ATypeOK
<1>1. CASE KeepAlive
  <2>1. lock'.holder = lock.holder /\ stray' = stray /\ exec' = exec /\ call' = call
      BY <1>1, <1>t DEF KeepAlive, Lock
  <2> QED
      BY <2>1, GateKept DEF AgentControls
<1>2. CASE Expire
    BY <1>2, FreeKept DEF Expire
<1>3. CASE Events \/ \E r \in Run : StallRun(r)
  <2>1. lock' = lock /\ stray' = stray /\ exec' = exec /\ call' = call
      BY <1>3 DEF Events, StallRun
  <2> QED
      BY <2>1, GateKept DEF AgentControls
<1>4. CASE CrashWorker \/ CrashApi
  <2>1. lock' = lock /\ stray' = stray
      BY <1>4 DEF CrashWorker, CrashApi
  <2>2. \A e \in Executor : exec'[e] \in {IdleExec, exec[e]}
      BY <1>4 DEF CrashWorker, CrashApi
  <2>3. \A c \in Caller : call'[c] \in {IdleCall, call[c]}
      BY <1>4 DEF CrashWorker, CrashApi
  <2>4. IdleExec.pc = "idle" /\ IdleCall.pc = "idle"
      BY DEF IdleExec, IdleCall
  <2>5. \A e \in Executor : exec'[e].pc \in {"mark", "step"} => exec[e].pc \in {"mark", "step"}
      BY <2>2, <2>4
  <2>6. \A c \in Caller : call'[c].pc = "input" => call[c].pc = "input"
      BY <2>3, <2>4
  <2> QED
      BY <2>1, <2>5, <2>6, GateKept DEF AgentControls
<1> QED
    BY <1>1, <1>2, <1>3, <1>4

\* While an operator stays in control at most one input of each agent gets in,
\* the one already past its gate (API.md, "agent input is refused").
THEOREM AgentHeldBack == ASpec => []StrayInput
<1>1. AInit => StrayInv
  <2>1. AInit => \A x \in Executor \cup Caller : stray[x] = 0
      BY DEF AInit, Unstrayed
  <2> QED
      BY <2>1 DEF StrayInv, Gated, StrayInput
<1>2. ATypeOK /\ StrayInv /\ [ANext]_avars => StrayInv'
  <2>1. ASSUME ATypeOK, StrayInv, ANext PROVE StrayInv'
      BY <2>1, CallGated, ExecGated, EnvironmentGated DEF ANext
  <2>2. ASSUME StrayInv, UNCHANGED avars PROVE StrayInv'
      BY <2>2 DEF avars, StrayInv, Gated, StrayInput, AgentControls
  <2> QED
      BY <2>1, <2>2
<1>3. StrayInv => StrayInput
    BY DEF StrayInv
<1> QED
    BY <1>1, <1>2, <1>3, AgentTypes, PTL DEF ASpec

-----------------------------------------------------------------------------
(* The slots of the worker. *)

\* A step that takes up no run and leaves the entries of those in hand alone
\* keeps SlotInv.
LEMMA SlotKept ==
    ASSUME SlotInv,
           \A w \in WorkerSlot :
               exec'[w].pc # "idle" => exec[w].pc # "idle" /\ exec'[w].run = exec[w].run,
           \A w \in WorkerSlot, r \in Run :
               Executes(w, r)' /\ entry[r].state = "active" => entry'[r].state = "active"
    PROVE  SlotInv'
<1>1. \A w \in WorkerSlot, r \in Run : Executes(w, r)' => Executes(w, r)
    BY DEF Executes, At
<1>2. HeldActive'
    BY <1>1 DEF SlotInv, HeldActive
<1>3. OneExecutor'
    BY <1>1 DEF SlotInv, OneExecutor
<1> QED
    BY <1>2, <1>3 DEF SlotInv

\* A run is taken up, by a slot that nobody else works for or by the API.
LEMMA AcceptSlots ==
    ASSUME ATypeOK, SlotInv, NEW e \in Executor, NEW r \in Run, Accept(e, r)
    PROVE  SlotInv'
<1>t. exec \in [Executor -> Exec] /\ entry \in [Run -> AgentEntry]
    BY DEF ATypeOK
<1>o. \A w \in WorkerSlot : w \in Executor /\ (w # e => exec'[w] = exec[w])
    BY <1>t DEF Accept, Executor
<1>1. CASE e \in WorkerSlot
  <2>1. /\ entry[r].state = "waiting"
        /\ entry' = [entry EXCEPT ![r].state = "active"]
      BY <1>1 DEF Accept
  <2>2. entry'[r].state = "active" /\ \A s \in Run : s # r => entry'[s] = entry[s]
      BY <2>1, <1>t DEF AgentEntry
  <2>3. exec'[e].run = r
      BY <1>t DEF Accept, IdleExec
  <2>4. \A w \in WorkerSlot : ~Executes(w, r)
      BY <2>1 DEF SlotInv, HeldActive
  <2>5. \A w \in WorkerSlot, s \in Run :
            Executes(w, s)' => (w = e /\ s = r) \/ (w # e /\ Executes(w, s))
      BY <1>o, <2>3 DEF Executes, At
  <2>6. HeldActive'
      BY <2>2, <2>5 DEF SlotInv, HeldActive
  <2>7. OneExecutor'
      BY <2>4, <2>5 DEF SlotInv, OneExecutor
  <2> QED
      BY <2>6, <2>7 DEF SlotInv
<1>2. CASE e \notin WorkerSlot
  <2>1. entry' = entry
      BY <1>2 DEF Accept
  <2>2. \A w \in WorkerSlot : exec'[w] = exec[w]
      BY <1>2, <1>o
  <2> QED
      BY <2>1, <2>2, SlotKept
<1> QED
    BY <1>1, <1>2

\* The other steps of an executor.
LEMMA ExecSlots ==
    ASSUME ATypeOK, SlotInv, NEW e \in Executor, ExecStep(e) \/ GiveUp(e)
    PROVE  SlotInv'
<1>t. exec \in [Executor -> Exec] /\ entry \in [Run -> AgentEntry]
    BY DEF ATypeOK
<1>w. \A w \in WorkerSlot : w \in Executor
    BY DEF Executor
<1>1. CASE \E r \in Run : Accept(e, r)
    BY <1>1, AcceptSlots
<1>2. CASE Ack(e)
  <2>1. exec' = [exec EXCEPT ![e] = IdleExec]
      BY <1>2 DEF Ack
  <2>2. exec'[e].pc = "idle" /\ \A w \in WorkerSlot : w # e => exec'[w] = exec[w]
      BY <2>1, <1>t, <1>w DEF IdleExec
  <2>3. ASSUME NEW w \in WorkerSlot, NEW r \in Run, Executes(w, r)',
               entry[r].state = "active"
        PROVE  entry'[r].state = "active"
    <3>1. w # e /\ Executes(w, r)
        BY <2>2, <2>3 DEF Executes, At
    <3>2. CASE e \in WorkerSlot
      <4>1. exec[e].pc = "ack"
          BY <1>2 DEF Ack, At
      <4>2. exec[e].run # r
          BY <3>1, <3>2, <4>1 DEF SlotInv, OneExecutor, Executes, At
      <4>3. entry' = [entry EXCEPT ![exec[e].run].state = "done"]
          BY <1>2, <3>2 DEF Ack
      <4>4. entry'[r] = entry[r]
          BY <4>2, <4>3, <1>t
      <4> QED
          BY <4>4, <2>3
    <3>3. CASE e \notin WorkerSlot
        BY <1>2, <2>3, <3>3 DEF Ack
    <3> QED
        BY <3>2, <3>3
  <2> QED
      BY <2>2, <2>3, SlotKept
<1>3. CASE \/ Begin(e) \/ Hold(e) \/ Held(e) \/ Check(e) \/ Mark(e) \/ Step(e) \/ Throw(e)
           \/ Park(e) \/ Ask(e) \/ Tune(e) \/ Wait(e) \/ Look(e) \/ Leave(e) \/ Settle(e)
           \/ Observe(e) \/ Finish(e) \/ GiveUp(e)
  <2>1. entry' = entry
      BY <1>3 DEF Begin, Hold, Held, Check, Mark, Step, Throw, Park, Ask, Tune, Wait, Look,
                  Leave, Settle, Observe, Finish, GiveUp
  <2>2. \A w \in WorkerSlot : w # e => exec'[w] = exec[w]
      BY <1>3, <1>t, <1>w
      DEF Begin, Hold, Held, Check, Mark, Step, Throw, Park, Ask, Tune, Wait, Look,
          Leave, Settle, Observe, Finish, GiveUp, Goes
  <2>3. exec[e].pc # "idle"
      BY <1>3 DEF Begin, Hold, Held, Check, Mark, Step, Throw, Park, Ask, Tune, Wait, Look,
                  Leave, Settle, Observe, Finish, GiveUp, At, Deadlines, Verdict
  <2>4. exec'[e].run = exec[e].run
    <3>1. CASE Begin(e) \/ Hold(e)
        BY <3>1, <1>t DEF Begin, Hold, Goes, Exec
    <3>2. CASE Held(e) \/ Check(e) \/ Mark(e) \/ Step(e) \/ Throw(e)
        BY <3>2, <1>t DEF Held, Check, Mark, Step, Throw, Goes, Exec
    <3>3. CASE Park(e) \/ Ask(e) \/ Tune(e) \/ Wait(e) \/ Look(e) \/ Leave(e) \/ Settle(e)
        BY <3>3, <1>t DEF Park, Ask, Tune, Wait, Look, Leave, Settle, Goes, Exec
    <3>4. CASE Observe(e) \/ Finish(e) \/ GiveUp(e)
        BY <3>4, <1>t DEF Observe, Finish, GiveUp, Goes, Exec
    <3> QED
        BY <1>3, <3>1, <3>2, <3>3, <3>4
  <2> QED
      BY <2>1, <2>2, <2>3, <2>4, SlotKept
<1> QED
    BY <1>1, <1>2, <1>3 DEF ExecStep

\* A handler's step.
LEMMA CallSlots ==
    ASSUME ATypeOK, SlotInv, NEW c \in Caller, CallStep(c)
    PROVE  SlotInv'
<1>t. exec \in [Executor -> Exec] /\ entry \in [Run -> AgentEntry]
    BY DEF ATypeOK
<1>w. \A w \in WorkerSlot : w \in Executor
    BY DEF Executor
<1>1. CASE Submit(c)
  <2>1. exec' = exec
      BY <1>1 DEF Submit
  <2>2. \A r \in Run : entry[r].state = "active" => entry'[r] = entry[r]
      BY <1>1, <1>t DEF Submit, Queued
  <2> QED
      BY <2>1, <2>2, SlotKept
<1>2. CASE AnnounceTaken(c) \/ AnnounceReleased(c)
  <2>1. PICK kind : exec' = [e \in Executor |-> Told(e, kind)]
      BY <1>2 DEF AnnounceTaken, AnnounceReleased
  <2>2. \A e \in Executor : exec'[e].pc = exec[e].pc /\ exec'[e].run = exec[e].run
      BY <1>t, <2>1, ToldKeeps
  <2>3. entry' = entry
      BY <1>2 DEF AnnounceTaken, AnnounceReleased
  <2> QED
      BY <1>w, <2>2, <2>3, SlotKept
<1>3. CASE \/ Attach(c) \/ CreateRun(c) \/ EndRun(c) \/ Input(c) \/ Perform(c) \/ PauseRun(c)
           \/ \E r \in Run : Rejoin(c, r) \/ Detach(c, r) \/ Summon(c, r)
           \/ \E h \in Human : TakeControl(c, h)
           \/ Arm(c) \/ ReleaseControl(c) \/ FindWaiting(c) \/ Reopen(c)
  <2>1. exec' = exec /\ entry' = entry
      BY <1>3 DEF Attach, CreateRun, EndRun, Input, Perform, PauseRun, Rejoin, Detach, Summon,
                  TakeControl, Arm, ReleaseControl, FindWaiting, Reopen
  <2> QED
      BY <2>1, SlotKept
<1> QED
    BY <1>1, <1>2, <1>3 DEF CallStep

\* The queue, the processes and the clock.
LEMMA EnvironmentSlots ==
    ASSUME ATypeOK, SlotInv,
           KeepAlive \/ Expire \/ Events \/ CrashWorker \/ CrashApi
               \/ \E r \in Run : StallRun(r)
    PROVE  SlotInv'
<1>t. exec \in [Executor -> Exec] /\ entry \in [Run -> AgentEntry]
    BY DEF ATypeOK
<1>1. CASE KeepAlive \/ Expire \/ Events
  <2>1. exec' = exec /\ entry' = entry
      BY <1>1 DEF KeepAlive, Expire, Events
  <2> QED
      BY <2>1, SlotKept
<1>2. CASE CrashWorker \/ CrashApi
  <2>1. \A e \in Executor : exec'[e] \in {IdleExec, exec[e]}
      BY <1>2 DEF CrashWorker, CrashApi
  <2>2. \A w \in WorkerSlot : exec'[w] \in {IdleExec, exec[w]}
      BY <2>1 DEF Executor
  <2>3. IdleExec.pc = "idle" /\ entry' = entry
      BY <1>2 DEF IdleExec, CrashWorker, CrashApi
  <2>4. \A w \in WorkerSlot : exec'[w].pc # "idle" => exec'[w] = exec[w]
      BY <2>2, <2>3
  <2> QED
      BY <2>3, <2>4, SlotKept
<1>3. ASSUME NEW r \in Run, StallRun(r) PROVE SlotInv'
  <2>1. exec' = exec /\ \A w \in WorkerSlot : ~Executes(w, r)
      BY <1>3 DEF StallRun
  <2>2. \A s \in Run : s # r => entry'[s] = entry[s]
      BY <1>3, <1>t DEF StallRun
  <2>3. \A w \in WorkerSlot, s \in Run : Executes(w, s)' => s # r
      BY <2>1 DEF Executes, At
  <2> QED
      BY <2>1, <2>2, <2>3, SlotKept
<1> QED
    BY <1>1, <1>2, <1>3

\* No run is ever in the hands of two slots of the worker, whoever attaches to
\* it again and whatever is redelivered after a crash.
THEOREM AgentExclusive == ASpec => []OneExecutor
<1>1. AInit => SlotInv
  <2>1. AInit => \A e \in Executor : exec[e].pc = "idle"
      BY DEF AInit, IdleExec
  <2>2. WorkerSlot \subseteq Executor
      BY DEF Executor
  <2> QED
      BY <2>1, <2>2 DEF SlotInv, HeldActive, OneExecutor, Executes, At
<1>2. ATypeOK /\ SlotInv /\ [ANext]_avars => SlotInv'
  <2>1. ASSUME ATypeOK, SlotInv, ANext PROVE SlotInv'
      BY <2>1, CallSlots, ExecSlots, EnvironmentSlots DEF ANext
  <2>2. ASSUME SlotInv, UNCHANGED avars PROVE SlotInv'
      BY <2>2 DEF avars, SlotInv, HeldActive, OneExecutor, Executes, At
  <2> QED
      BY <2>1, <2>2
<1>3. SlotInv => OneExecutor
    BY DEF SlotInv
<1> QED
    BY <1>1, <1>2, <1>3, AgentTypes, PTL DEF ASpec

-----------------------------------------------------------------------------
(* The TTL of the lock. *)

\* A handler's step: the one between hset and expire is the only one that
\* anything depends on.
LEMMA CallLeases ==
    ASSUME ATypeOK, Leased, NEW c \in Caller, CallStep(c)
    PROVE  Leased'
<1>t. lock \in Lock /\ call \in [Caller -> Call]
    BY DEF ATypeOK
<1>1. ASSUME NEW h \in Human, TakeControl(c, h) PROVE Leased'
  <2>1. call'[c].pc = "arm"
      BY <1>1, <1>t DEF TakeControl, Then
  <2> QED
      BY <2>1 DEF Leased
<1>2. CASE Arm(c)
  <2>1. lock' = Armed(lock)
      BY <1>2 DEF Arm
  <2>2. lock'.holder = None \/ lock'.timed
      BY <2>1, <1>t DEF Armed, Lock
  <2> QED
      BY <2>2 DEF Leased, AgentControls
<1>3. CASE ReleaseControl(c)
    BY <1>3 DEF ReleaseControl, Free, NoLock, Leased, AgentControls
<1>4. CASE \/ Attach(c) \/ CreateRun(c) \/ Submit(c) \/ EndRun(c) \/ Input(c) \/ Perform(c)
           \/ PauseRun(c) \/ \E r \in Run : Rejoin(c, r) \/ Detach(c, r) \/ Summon(c, r)
           \/ AnnounceTaken(c) \/ FindWaiting(c) \/ Reopen(c) \/ AnnounceReleased(c)
  <2>1. lock' = lock /\ call[c].pc # "arm"
      BY <1>4 DEF Attach, CreateRun, Submit, EndRun, Input, Perform, PauseRun, Rejoin, Detach,
                  Summon, AnnounceTaken, FindWaiting, Reopen, AnnounceReleased, Idle
  <2>2. \A d \in Caller : d # c => call'[d] = call[d]
      BY <1>4, <1>t DEF Attach, CreateRun, Submit, EndRun, Input, Perform, PauseRun, Rejoin,
                  Detach, Summon, AnnounceTaken, FindWaiting, Reopen, AnnounceReleased,
                  Then, Reply
  <2> QED
      BY <2>1, <2>2 DEF Leased, AgentControls
<1> QED
    BY <1>1, <1>2, <1>3, <1>4 DEF CallStep

\* However the handlers of several operators take, release and take over control
\* between hset and expire, a lock that is held runs out unless the API dies:
\* then nothing makes it run out but another request or a desktop stream.
THEOREM AgentLeased == ASpec => LockLeased
<1>1. ATypeOK /\ Leased /\ ANext => Leased' \/ CrashApi
  <2>0. SUFFICES ASSUME ATypeOK, Leased, ANext, ~CrashApi PROVE Leased'
      OBVIOUS
  <2>1. ASSUME NEW e \in Executor, ExecStep(e) \/ GiveUp(e) PROVE lock' = lock /\ call' = call
      BY <2>1 DEF ExecStep, Accept, Begin, Hold, Held, Check, Mark, Step, Throw, Park, Ask,
                  Tune, Wait, Look, Leave, Settle, Observe, Finish, Ack, GiveUp
  <2>2. ASSUME Events \/ CrashWorker \/ \E r \in Run : StallRun(r)
        PROVE  lock' = lock /\ call' = call
      BY <2>2 DEF Events, CrashWorker, StallRun
  <2>3. ASSUME lock' = lock /\ call' = call PROVE Leased'
      BY <2>0, <2>3 DEF Leased, AgentControls
  <2>4. CASE KeepAlive
      BY <2>0, <2>4 DEF KeepAlive, Leased, ATypeOK, Lock
  <2>5. CASE Expire
      BY <2>5 DEF Expire, Free, NoLock, Leased, AgentControls
  <2> QED
      BY <2>0, <2>1, <2>2, <2>3, <2>4, <2>5, CallLeases DEF ANext
<1>2. UNCHANGED avars /\ Leased => Leased'
    BY DEF avars, Leased, AgentControls
<1> QED
    BY <1>1, <1>2, AgentTypes, PTL DEF ASpec, LockLeased
=============================================================================
