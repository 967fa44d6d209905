------------------------- MODULE LifecycleContract -------------------------
(***************************************************************************)
(* What the control plane promises the clients of the lifecycle API: a     *)
(* request is accepted in one step, against the status the computer has at *)
(* that moment, and leaves an order on record with the new status; what    *)
(* the infrastructure reports in between is its own affair, but it never   *)
(* brings back a computer that is gone, nor takes an order back.           *)
(***************************************************************************)
EXTENDS Naturals, ComputerStates

CONSTANTS Computer, Order, None

VARIABLES
    status,   \* what the API says of each computer
    gone,     \* the computers that have been deleted
    orders    \* the work on record: what was asked, of which computer

cvars == <<status, gone, orders>>

NoOrder == [computer |-> None, type |-> None]

\* The statuses only the infrastructure gives: none that a request stands for,
\* PROVISIONING apart, which a placement writes too.
Reported ==
    {"PROVISIONING", "RUNNING", "STOPPED", "SUSPENDED", "DELETED", "ERROR",
     "PROVIDER_UNAVAILABLE"}

CInit ==
    /\ status = [c \in Computer |-> "ABSENT"]
    /\ gone = [c \in Computer |-> FALSE]
    /\ orders = [o \in Order |-> NoOrder]

Register(c) ==
    /\ status[c] = "ABSENT"
    /\ status' = [status EXCEPT ![c] = "CREATING"]
    /\ UNCHANGED <<gone, orders>>

\* The order a new computer gets by itself.
Build(c, o) ==
    /\ status[c] # "ABSENT"
    /\ orders[o] = NoOrder
    /\ orders' = [orders EXCEPT ![o] = [computer |-> c, type |-> "PROVISION"]]
    /\ UNCHANGED <<status, gone>>

Accept(c, a, o) ==
    /\ status[c] \in From[a]
    /\ ~gone[c]
    /\ status' = [status EXCEPT ![c] = To[a]]
    /\ orders[o] = NoOrder
    /\ orders' = [orders EXCEPT ![o] = [computer |-> c, type |-> jobType[a]]]
    /\ UNCHANGED gone

\* A repeated idempotency key: an earlier order is the answer.
Repeat(c, a) ==
    /\ status[c] \in From[a]
    /\ ~gone[c]
    /\ status' = [status EXCEPT ![c] = To[a]]
    /\ \E o \in Order : orders[o] # NoOrder
    /\ UNCHANGED <<gone, orders>>

Observe(c, s) ==
    /\ status' = [status EXCEPT ![c] = s]
    /\ UNCHANGED <<gone, orders>>

Retire(c) ==
    /\ status' = [status EXCEPT ![c] = "DELETED"]
    /\ gone' = [gone EXCEPT ![c] = TRUE]
    /\ UNCHANGED orders

CNext ==
    \E c \in Computer :
        \/ Register(c)
        \/ \E o \in Order : Build(c, o)
        \/ \E a \in LifecycleAction : \/ \E o \in Order : Accept(c, a, o)
                                      \/ Repeat(c, a)
        \/ \E s \in Reported : Observe(c, s)
        \/ Retire(c)

CSpec == CInit /\ [][CNext]_cvars
=============================================================================
