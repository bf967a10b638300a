--------------------------- MODULE BrowserSessions ---------------------------
(* The sessions the browser runtime remembers (browser/session_manager.go,   *)
(* browser/runtime.go).  A session is unknown, open or closed; its workspace,*)
(* tabs, title and status text are left out, no decision of the runtime      *)
(* reads them.  Every operation runs under the runtime's mutex and saves the *)
(* sessions before it releases it, so each one is a single step.             *)
EXTENDS Naturals

CONSTANTS
    Sessions,   \* the identifiers of sessions
    Default,    \* the stable identifier derived from the default key
    None

ASSUME SessionsAssumption == Default \in Sessions /\ None \notin Sessions

VARIABLES
    sessions,   \* what is remembered of each session
    active      \* the session an unnamed request continues

sessionVars == <<sessions, active>>

SessionStates == {"unknown", "open", "closed"}

\* The session an unnamed request continues is one that is open.
SessionsTypeOK ==
    /\ sessions \in [Sessions -> SessionStates]
    /\ active \in {s \in Sessions : sessions[s] = "open"} \cup {None}

\* The state file of an earlier process: whatever it left, its active session
\* is one it had not closed.
Load(file) ==
    /\ sessions = file.sessions
    /\ active = file.active

\* The sessions a request can be given.  A new session has an identifier
\* nobody has seen; none at all is the error "browser session is unavailable".
Resolutions(requested, create, forceNew) ==
    IF forceNew THEN {s \in Sessions \ {Default} : sessions[s] = "unknown"}
    ELSE IF create THEN {Default}
    ELSE IF requested # None THEN {requested}
    ELSE {s \in Sessions : s = active /\ sessions[s] = "open"}

ResolveSession(s) ==
    /\ sessions' = [sessions EXCEPT ![s] = "open"]
    /\ active' = s

\* Go visits the other sessions in any order and takes the first open one.
NextOpen(excluding) ==
    LET others == {s \in Sessions \ {excluding} : sessions[s] = "open"}
    IN  IF others = {} THEN {None} ELSE others

\* Slip: the closed session is continued.
CloseOnly(s) ==
    /\ sessions' = [sessions EXCEPT ![s] = IF @ = "unknown" THEN @ ELSE "closed"]
    /\ UNCHANGED active

CloseRuntimeSession(s) ==
    /\ sessions' = [sessions EXCEPT ![s] = IF @ = "unknown" THEN @ ELSE "closed"]
    /\ active' \in IF active = s THEN NextOpen(s) ELSE {active}

\* Every status the controller sets but STOPPED, which it never sets, marks
\* the session as not closed; the active session stays as it is.
SetSessionStatus(s) ==
    /\ sessions' = [sessions EXCEPT ![s] = IF @ = "unknown" THEN @ ELSE "open"]
    /\ UNCHANGED active

\* An observation makes sure of its session.
DecorateObservation(s) ==
    /\ sessions' = [sessions EXCEPT ![s] = "open"]
    /\ UNCHANGED active

=============================================================================
