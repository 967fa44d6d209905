-------------------------- MODULE DockerContainer --------------------------
(***************************************************************************)
(* What the Docker provider does to the container (and workspace volume)   *)
(* that one daemon has for one computer. A container is found by its name  *)
(* when it is created and by its Docker id afterwards, so a box counts the *)
(* containers made under that name: an operation that was given an older   *)
(* id, or the id of another daemon's container, finds nothing.             *)
(***************************************************************************)
EXTENDS Naturals

BoxState == {"absent", "created", "running", "paused", "exited"}

Box == [made : Nat, state : BoxState, volume : BOOLEAN]

NoBox == [made |-> 0, state |-> "absent", volume |-> FALSE]

\* verified(id): the inspection that finds the container, or a 404. nth says
\* which of the containers of that name the id is that of.
Present(box, nth) == box.state # "absent" /\ box.made = nth

\* Docker's State.Running, which is true of a paused container too.
Up(box) == box.state \in {"running", "paused"}

\* Mutant of mapDockerState: a state Docker has and the program has not.
mapDockerStateUnmapped(state) ==
    [created |-> "CREATED", running |-> "RUNNING",
     paused |-> "SUSPENDED", exited |-> "STOPPED"][state]

mapDockerState(state) ==
    [created |-> "PROVISIONING", running |-> "RUNNING",
     paused |-> "SUSPENDED", exited |-> "STOPPED"][state]

\* createComputer: the container of that name if there is one, else a new one.
Created(box) ==
    IF box.state = "absent"
    THEN [made |-> box.made + 1, state |-> "created", volume |-> TRUE]
    ELSE box

\* What a createComputer that throws may leave: nothing new, all of it, or the
\* volume alone, when its removal fails as well.
HalfCreated(box) == {box, Created(box), [box EXCEPT !.volume = TRUE]}

\* Whether the operation of a job is carried out, given the id it was told of.
Performs(type, box, nth) ==
    /\ Present(box, nth)
    /\ type = "SUSPEND" => box.state = "running"
    /\ type = "RESUME" => box.state = "paused"

\* The container when the operation has succeeded.
Performed(type, box) ==
    CASE type = "START"   -> IF Up(box) THEN box ELSE [box EXCEPT !.state = "running"]
      [] type = "STOP"    -> IF Up(box) THEN [box EXCEPT !.state = "exited"] ELSE box
      [] type = "RESTART" -> [box EXCEPT !.state = "running"]
      [] type = "SUSPEND" -> [box EXCEPT !.state = "paused"]
      [] type = "RESUME"  -> [box EXCEPT !.state = "running"]
      [] type = "DELETE"  -> [box EXCEPT !.state = "absent", !.volume = FALSE]

\* The containers an operation may leave when one of its calls fails: none of
\* it done, all of it done but the confirmation lost, and, for a deletion,
\* stopped but not removed, or removed with its volume still there.
Interrupted(type, box, nth) ==
    {box} \cup
    (IF ~Performs(type, box, nth) THEN {}
     ELSE IF type # "DELETE" THEN {Performed(type, box)}
     ELSE {Performed("STOP", box), [box EXCEPT !.state = "absent"]})
=============================================================================
