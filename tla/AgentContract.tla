--------------------------- MODULE AgentContract ---------------------------
(***************************************************************************)
(* What the control plane promises those who share the desktop of an AI    *)
(* Computer. An operator who takes control has it at once; an agent is     *)
(* cleared for one input at a time, and only while no operator is in       *)
(* control. A run submitted to the worker is in the hands of one slot at a *)
(* time, and is given out once, or twice if the first time was lost.       *)
(***************************************************************************)
EXTENDS Naturals

CONSTANTS Operator, Agent, Slot, Run, None

VARIABLES
    controller,   \* the operator in control, or None
    cleared,      \* the agents that have been let in with one input
    late,         \* inputs of each agent since an operator took control
    turn,         \* how far the worker is with each run
    hands         \* the slots that carry out each run

cvars == <<controller, cleared, late, turn, hands>>
drivers == <<controller, cleared, late>>
runs == <<turn, hands>>

NoneLate == [a \in Agent |-> 0]

CInit ==
    /\ controller = None
    /\ cleared = {}
    /\ late = NoneLate
    /\ turn = [r \in Run |-> "unasked"]
    /\ hands = [r \in Run |-> {}]

\* An operator takes control, from another one perhaps.
Take(h) ==
    /\ controller' = h
    /\ UNCHANGED <<cleared, late, runs>>

\* The operator releases control, or is not heard of any more.
Yield ==
    /\ controller' = None
    /\ late' = NoneLate
    /\ UNCHANGED <<cleared, runs>>

\* An agent is let in ...
Clear(a) ==
    /\ controller = None
    /\ a \notin cleared
    /\ cleared' = cleared \cup {a}
    /\ UNCHANGED <<controller, late, runs>>

\* ... and makes its one input.
Act(a) ==
    /\ a \in cleared
    /\ cleared' = cleared \ {a}
    /\ late' = IF controller = None THEN late ELSE [late EXCEPT ![a] = @ + 1]
    /\ UNCHANGED <<controller, runs>>

Submit(r) ==
    /\ turn[r] = "unasked"
    /\ turn' = [turn EXCEPT ![r] = "asked"]
    /\ UNCHANGED <<hands, drivers>>

\* A slot that has no run takes one that nobody has.
Begin(w, r) ==
    /\ \A s \in Run : w \notin hands[s]
    /\ hands[r] = {}
    /\ hands' = [hands EXCEPT ![r] = {w}]
    /\ \/ turn[r] = "asked" /\ turn' = [turn EXCEPT ![r] = "first"]
       \/ turn[r] = "lost" /\ turn' = [turn EXCEPT ![r] = "second"]
    /\ UNCHANGED drivers

End(w, r) ==
    /\ hands[r] = {w}
    /\ hands' = [hands EXCEPT ![r] = {}]
    /\ turn' = [turn EXCEPT ![r] = "over"]
    /\ UNCHANGED drivers

\* What becomes of a run when the worker that has it dies.
Lost(t) == IF t = "first" THEN "lost" ELSE IF t = "second" THEN "over" ELSE t

\* A process dies: some of those let in make no input, and the worker has no
\* run in hand any more.
Die ==
    /\ cleared' \subseteq cleared
    /\ \/ UNCHANGED runs
       \/ /\ hands' = [r \in Run |-> {}]
          /\ turn' = [r \in Run |-> Lost(turn[r])]
    /\ UNCHANGED <<controller, late>>

CNext ==
    \/ \E h \in Operator : Take(h)
    \/ Yield
    \/ \E a \in Agent : Clear(a) \/ Act(a)
    \/ \E r \in Run : \/ Submit(r)
                      \/ \E w \in Slot : Begin(w, r) \/ End(w, r)
    \/ Die

CSpec == CInit /\ [][CNext]_cvars
=============================================================================
