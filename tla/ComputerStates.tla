--------------------------- MODULE ComputerStates ---------------------------
(***************************************************************************)
(* The constant tables of the computer lifecycle: the statuses of a        *)
(* computer row, the transition table an API request is checked against,   *)
(* the job each request enqueues, and the status each finished job leaves. *)
(***************************************************************************)

\* enum ComputerStatus
ComputerStatus ==
    {"CREATING", "PROVISIONING", "RUNNING", "STOPPING", "STOPPED",
     "SUSPENDING", "SUSPENDED", "STARTING", "REBOOTING", "DELETING",
     "DELETED", "ERROR", "PROVIDER_UNAVAILABLE"}

LifecycleAction ==
    {"provision", "start", "stop", "restart", "suspend", "resume", "delete"}

\* The statuses in which an action may be requested.
From ==
    [provision |-> {"CREATING", "ERROR", "PROVIDER_UNAVAILABLE"},
     start     |-> {"STOPPED", "SUSPENDED", "PROVIDER_UNAVAILABLE"},
     stop      |-> {"RUNNING"},
     restart   |-> {"RUNNING"},
     suspend   |-> {"RUNNING"},
     resume    |-> {"SUSPENDED"},
     delete    |-> {"CREATING", "STOPPED", "SUSPENDED", "ERROR",
                    "PROVIDER_UNAVAILABLE"}]

\* The transitional status an accepted request leaves the row in.
To ==
    [provision |-> "PROVISIONING", start |-> "STARTING", stop |-> "STOPPING",
     restart |-> "REBOOTING", suspend |-> "SUSPENDING",
     resume |-> "STARTING", delete |-> "DELETING"]

JobType ==
    {"PROVISION", "START", "STOP", "RESTART", "SUSPEND", "RESUME", "DELETE"}

jobType ==
    [provision |-> "PROVISION", start |-> "START", stop |-> "STOP",
     restart |-> "RESTART", suspend |-> "SUSPEND", resume |-> "RESUME",
     delete |-> "DELETE"]

\* The status the worker writes once the provider has done the job.
finalStatus ==
    [PROVISION |-> "RUNNING", START |-> "RUNNING", STOP |-> "STOPPED",
     RESTART |-> "RUNNING", SUSPEND |-> "SUSPENDED", RESUME |-> "RUNNING",
     DELETE |-> "DELETED"]

\* Destructive jobs get a single attempt, every other job three.
maxAttempts(type) == IF type = "DELETE" THEN 1 ELSE 3

\* The statuses in which a computer holds CPU and memory on its host.
computeReservedStatuses ==
    {"CREATING", "PROVISIONING", "STARTING", "RUNNING", "STOPPING",
     "REBOOTING", "SUSPENDING", "PROVIDER_UNAVAILABLE"}

\* The statuses that count against the plan's limit of running computers.
runningStatuses == {"RUNNING", "STARTING", "REBOOTING"}
=============================================================================
