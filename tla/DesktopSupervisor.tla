-------------------------- MODULE DesktopSupervisor --------------------------
(***************************************************************************)
(* The supervisor of the desktop session inside a computer                 *)
(* (infrastructure/images/agent-computer/xdigitex-desktop): it starts an X *)
(* server, a VNC server, websockify, the XFCE session and the browser,     *)
(* watches them, and starts all over when one of them is gone or a restart *)
(* was asked for.                                                          *)
(***************************************************************************)
EXTENDS Naturals

CONSTANT MaxFaults  \* bound: components that die, sessions that fail to start,
                    \* restarts that are asked for

ASSUME SupervisorAssumption == MaxFaults \in Nat

VARIABLES
    step,   \* where the script is
    alive,  \* the components that run
    flag,   \* the file RESTART_FLAG is there
    faults  \* faults so far

svars == <<step, alive, flag, faults>>

Component == {"xvfb", "vnc", "websockify", "session", "chromium"}
XClient == {"vnc", "session", "chromium"}

\* "off": the container does not run. "flag": the head of the loop. The others are
\* the component started next, wait_for_x, the loop that watches, and cleanup.
Step == {"off", "flag", "wait", "watch", "cleanup"} \cup Component

SInit == step = "off" /\ alive = {} /\ flag = FALSE /\ faults = 0

Faulty == faults < MaxFaults /\ faults' = faults + 1

-----------------------------------------------------------------------------
\* Docker starts the container, whose home directory has outlived the last run.
Boot ==
    /\ step = "off"
    /\ step' = "flag"
    /\ UNCHANGED <<alive, flag, faults>>

\* Docker stops the container, whatever the script is at.
Halt ==
    /\ step # "off"
    /\ step' = "off"
    /\ alive' = {}
    /\ UNCHANGED <<flag, faults>>

\* The head of the loop: a restart asked for earlier is what comes next.
Begin ==
    /\ step = "flag"
    /\ step' = "xvfb"
    /\ flag' = FALSE
    /\ UNCHANGED <<alive, faults>>

\* A component is started; a client of an X server that is gone exits at once.
\* (xdigitex-browser starts no second Chromium.)
Launched(x) == IF x \in XClient /\ "xvfb" \notin alive THEN alive ELSE alive \cup {x}

Launch(x, next) ==
    /\ step = x
    /\ step' = next
    /\ alive' = Launched(x)
    /\ UNCHANGED <<flag, faults>>

\* The socket of the X server appears.
Appears ==
    /\ step = "wait"
    /\ step' = "vnc"
    /\ UNCHANGED <<alive, flag, faults>>

\* Mutant of GivesUp: the next attempt starts at once.
GivesUpDirty == step' = "flag"

GivesUp == step' = "cleanup"

\* It does not appear in time, be it that the server is gone or that it is slow.
NoX ==
    /\ step = "wait"
    /\ IF "xvfb" \in alive THEN Faulty ELSE UNCHANGED faults
    /\ GivesUp
    /\ UNCHANGED <<alive, flag>>

\* Mutant of Started: the flag is taken away when the session is up.
StartedClears == step' = "watch" /\ flag' = FALSE

Started == step' = "watch" /\ UNCHANGED flag

\* The browser is the last to be started.
LaunchBrowser ==
    /\ step = "chromium"
    /\ alive' = Launched("chromium")
    /\ Started
    /\ UNCHANGED faults

\* Mutant of Watched: websockify is not watched.
WatchedLess == {"xvfb", "vnc", "session"}

\* The browser is not watched.
Watched == {"xvfb", "vnc", "websockify", "session"}

Alarm ==
    /\ step = "watch"
    /\ flag \/ ~(Watched \subseteq alive)
    /\ step' = "cleanup"
    /\ UNCHANGED <<alive, flag, faults>>

\* All that runs is stopped, and after a pause the loop goes on.
Cleanup ==
    /\ step = "cleanup"
    /\ alive' = {}
    /\ step' = "flag"
    /\ UNCHANGED <<flag, faults>>

\* A component dies; with the X server its clients do.
Die(x) ==
    /\ x \in alive
    /\ Faulty
    /\ alive' = IF x = "xvfb" THEN alive \ ({x} \cup XClient) ELSE alive \ {x}
    /\ UNCHANGED <<step, flag>>

\* A restart is asked for (POST actions/restart touches the flag).
Touch ==
    /\ step # "off"
    /\ ~flag
    /\ Faulty
    /\ flag' = TRUE
    /\ UNCHANGED <<step, alive>>

\* POST actions/browser/open starts the browser when it does not answer.
OpenBrowser ==
    /\ "xvfb" \in alive /\ "chromium" \notin alive
    /\ alive' = Launched("chromium")
    /\ UNCHANGED <<step, flag, faults>>

-----------------------------------------------------------------------------
\* The steps of the script.
Supervise ==
    \/ Begin
    \/ Launch("xvfb", "wait") \/ Appears \/ NoX
    \/ Launch("vnc", "websockify") \/ Launch("websockify", "session")
    \/ Launch("session", "chromium") \/ LaunchBrowser
    \/ Alarm \/ Cleanup

SNext == Supervise \/ Boot \/ Halt \/ Touch \/ OpenBrowser \/ \E x \in Component : Die(x)

-----------------------------------------------------------------------------
(* Properties. *)

\* The script is somewhere and the components are those it knows.
STypeOK ==
    /\ step \in Step
    /\ alive \subseteq Component
    /\ flag \in BOOLEAN
    /\ faults \in Nat

\* When the supervisor comes to start a component none of its kind runs, however
\* the last session ended or failed to start (xdigitex-desktop, cleanup). The
\* browser, which the API starts too, is kept single by its own launcher.
OneSession == step \in Component \ {"chromium"} => step \notin alive

\* The request for a restart is forgotten only when nothing of the session runs
\* that was there when it was made (xdigitex-desktop, rm of RESTART_FLAG).
RestartHonoured == [][flag /\ ~flag' => alive = {}]_svars

=============================================================================
