---------------------------- MODULE StartupControl ----------------------------
(***************************************************************************)
(* The startup center of internal/launcher/deployment/startup.go: the      *)
(* tracker, the handlers of the page and the channels by which they reach  *)
(* the loop that installs and runs Athena (module Launcher), and the       *)
(* desktop window that follows the tracker (desktop_wails.go,              *)
(* desktop_assets.go).                                                     *)
(*                                                                         *)
(* A channel holds one signal, and a signal to a full channel is dropped,  *)
(* so the channels are the set of names that hold one.  A change of the    *)
(* tracker, its persist and its announcement to the window are one step.   *)
(***************************************************************************)
EXTENDS Naturals, FiniteSets

CONSTANTS Requests,   \* goroutines of the HTTP server
          MaxClicks   \* bound on the requests of a behaviour

ASSUME RequestsAssumption == IsFiniteSet(Requests)
ASSUME ClicksAssumption == MaxClicks \in Nat

UpdateStates == {"idle", "checking", "available", "applying", "none", "error"}
Channels == {"check", "apply", "dismiss", "retry"}

\* What a request has still to do; "approved" and "dismissed" have found an
\* offer and have not changed the tracker yet, the others have to signal.
RequestStates == {"idle", "approved", "dismissed", "check", "apply", "dismiss"}

VARIABLES status,        \* snapshot.State
          update,        \* snapshot.Update.State
          canDefer,      \* snapshot.Update.CanDefer
          signals,       \* the channels that hold a signal
          request,       \* per request
          showFrontend,  \* desktopAssetSwitch.showFrontend
          root,          \* desktopAssetSwitch.root is set
          clicks,        \* bound
          approvals      \* history: requests to apply that were accepted

window == <<showFrontend, root>>
control == <<status, update, canDefer, signals, request, window, clicks,
             approvals>>

ControlType ==
    /\ status \in {"starting", "ready", "error"}
    /\ update \in UpdateStates
    /\ canDefer \in BOOLEAN
    /\ signals \subseteq Channels
    /\ request \in [Requests -> RequestStates]
    /\ showFrontend \in BOOLEAN
    /\ root \in BOOLEAN
    /\ clicks \in 0 .. MaxClicks
    /\ approvals \in 0 .. clicks

ControlInit ==
    /\ status = "starting"
    /\ update = "idle"
    /\ canDefer = FALSE
    /\ signals = {}
    /\ request = [r \in Requests |-> "idle"]
    /\ showFrontend = FALSE
    /\ root = FALSE
    /\ clicks = 0
    /\ approvals = 0

-----------------------------------------------------------------------------
(* The tracker *)

\* handleSnapshot: what the window shows once the update state is next.
Shows(next) ==
    IF next \in {"available", "applying", "error"} /\ next # update THEN FALSE
    ELSE IF next = "none" /\ update \in {"available", "error"} THEN root
    ELSE showFrontend

\* checkingForUpdates, offerUpdate, applyingUpdate, clearUpdate, updateError
SetUpdate(next, defer) ==
    /\ update' = next
    /\ canDefer' = defer
    /\ showFrontend' = Shows(next)
    /\ UNCHANGED root

\* <-channel
Take(channel) ==
    /\ channel \in signals
    /\ signals' = signals \ {channel}

-----------------------------------------------------------------------------
(* The handlers of the page *)

Click(r, next) ==
    /\ request[r] = "idle"
    /\ clicks < MaxClicks
    /\ clicks' = clicks + 1
    /\ request' = [request EXCEPT ![r] = next]

\* /api/update/check, which a second launch of Athena also calls.
ClickCheck(r) ==
    /\ Click(r, "check")
    /\ SetUpdate("checking", FALSE)
    /\ UNCHANGED <<status, signals, approvals>>

\* /api/update/apply: an update awaits approval.
ClickApply(r) ==
    /\ update = "available"
    /\ Click(r, "approved")
    /\ approvals' = approvals + 1
    /\ UNCHANGED <<status, update, canDefer, signals, window>>

\* /api/update/dismiss: an update awaits approval and can be deferred.
ClickDismiss(r) ==
    /\ update = "available" /\ canDefer
    /\ Click(r, "dismissed")
    /\ UNCHANGED <<status, update, canDefer, signals, window, approvals>>

\* The second half of the two: by now the tracker may have changed.
Answer(r) ==
    /\ \/ /\ request[r] = "approved"
          /\ SetUpdate("applying", FALSE)
          /\ request' = [request EXCEPT ![r] = "apply"]
       \/ /\ request[r] = "dismissed"
          /\ SetUpdate("none", FALSE)
          /\ request' = [request EXCEPT ![r] = "dismiss"]
    /\ UNCHANGED <<status, signals, clicks, approvals>>

\* signalStartupAction
Signal(r) ==
    /\ request[r] \in {"check", "apply", "dismiss"}
    /\ signals' = signals \cup {request[r]}
    /\ request' = [request EXCEPT ![r] = "idle"]
    /\ UNCHANGED <<status, update, canDefer, window, clicks, approvals>>

\* /api/retry, at any time
ClickRetry ==
    /\ clicks < MaxClicks
    /\ clicks' = clicks + 1
    /\ signals' = signals \cup {"retry"}
    /\ UNCHANGED <<status, update, canDefer, request, window, approvals>>

Finish(r) == Answer(r) \/ Signal(r)

ControlNext ==
    \/ \E r \in Requests : ClickCheck(r) \/ ClickApply(r) \/ ClickDismiss(r)
    \/ \E r \in Requests : Finish(r)
    \/ ClickRetry

=============================================================================
