------------------------------- MODULE Launcher -------------------------------
(***************************************************************************)
(* The loop of the launcher: runForeground and runManaged of               *)
(* local_runtime.go, desktopApplication.run of desktop_wails.go,           *)
(* runRemoteManaged of remote.go, prepareWithTracker of prepare.go and     *)
(* supervisor.Run of services.go, all in internal/launcher/deployment.  It *)
(* is one goroutine.  It shares the tracker and the channels with the      *)
(* handlers (StartupControl) and reacts to the exits of the processes      *)
(* (Supervisor).                                                           *)
(*                                                                         *)
(* Packages are kept per version: installing a version adds it beside the  *)
(* others, and the manifest says which one is used.  A component that has  *)
(* versions but not the one of the manifest is an update (update.go).      *)
(* Components are numbered in the order in which they are installed; the   *)
(* front end is the last.  The remote mode installs the browser, if it     *)
(* can, and the front end, and compares only the latter.                   *)
(***************************************************************************)
EXTENDS StartupControl, Supervisor

CONSTANTS Components,   \* how many packages the manifest lists
          Browser,      \* the one that is agent-browser
          Versions,     \* the releases there are: 1 .. Versions
          MaxPublished  \* bound on the changes of the release manifest

ASSUME ComponentsAssumption ==
    Components \in Nat /\ Browser \in 1 .. Components - 1
ASSUME VersionsAssumption == Versions \in Nat \ {0}
ASSUME PublishedAssumption == MaxPublished \in Nat

Component == 1 .. Components
Frontend == Components
Version == 1 .. Versions

\* Where the loop is:
\*   prepare     before it reads the manifest
\*   deciding    in the select of prepareWithTracker or prepareRemote
\*   installing  the packages
\*   starting    between two services; health: in waitHTTP of one
\*   running     in the select of Run or waitRemoteMode
\*   comparing   in checkUpdates
\*   restarting  in waitHTTP of a service that had exited
\*   stopping    in the deferred functions of runManaged
\*   failed      in the select that waits for a retry
Stages == {"prepare", "deciding", "installing", "starting", "health",
           "running", "comparing", "restarting", "stopping", "failed", "done"}

VARIABLES stage,
          current,     \* the service being started
          approved,    \* updateApproved
          result,      \* what runManaged is about to return
          manifest,    \* the release runManaged goes by
          deferrable,  \* prepare listens to dismissUpdate
          desktop,     \* the window, or the headless build
          remoteMode,  \* no services on this machine
          cancelled,   \* the context is done
          installed,   \* the versions there are of each component
          record,      \* installed-manifest.json; 0: there is none
          chosen,      \* state.Installed["frontend"]; 0: nothing
          served,      \* the version of the front end UseFrontend has got
          release,     \* the release the manifest source serves
          published,   \* bound
          updates      \* history: times a compared package was updated

loop == <<stage, current, approved, result, manifest, deferrable>>
settings == <<desktop, remoteMode>>
packages == <<installed, record, chosen, updates>>
outside == <<release, published>>
vars == <<control, supervisor, loop, settings, cancelled, packages, served,
          outside>>

-----------------------------------------------------------------------------

Values ==
    /\ ControlType
    /\ SupervisorType
    /\ stage \in Stages
    /\ current \in 0 .. Services + 1
    /\ approved \in BOOLEAN
    /\ result \in {"nil", "update", "error"}
    /\ manifest \in 0 .. Versions
    /\ deferrable \in BOOLEAN
    /\ desktop \in BOOLEAN
    /\ remoteMode \in BOOLEAN
    /\ cancelled \in BOOLEAN
    /\ installed \in [Component -> SUBSET Version]
    /\ record \in 0 .. Versions
    /\ chosen \in 0 .. Versions
    /\ served \in 0 .. Versions
    /\ release \in Version
    /\ published \in 0 .. MaxPublished
    /\ updates \in Nat

\* The values of the variables; the channel of exits never overflows.
TypeOK == Values /\ Len(exits) <= 2 * Services

\* A machine without Athena, or one with release 1.
Init ==
    /\ ControlInit
    /\ SupervisorInit
    /\ stage = "prepare"
    /\ current = 0
    /\ approved = FALSE
    /\ result = "nil"
    /\ manifest = 0
    /\ deferrable = FALSE
    /\ desktop \in BOOLEAN
    /\ remoteMode \in BOOLEAN
    /\ cancelled = FALSE
    /\ \/ installed = [c \in Component |-> {}] /\ record = 0 /\ chosen = 0
       \/ installed = [c \in Component |-> {1}] /\ record = 1 /\ chosen = 1
    /\ served = 0
    /\ release \in Version
    /\ published = 0
    /\ updates = 0

-----------------------------------------------------------------------------
(* Helpers *)

Compared == IF remoteMode THEN {Frontend} ELSE Component

\* appendPackageUpdate for the packages S and the release v
Differs(S, v) == \E c \in S : installed[c] # {} /\ v \notin installed[c]

\* checkPackageUpdates, checkFrontendUpdates
Outdated(v) == Differs(Compared, v)

\* loadInstalledManifest, installedPackagesUsable, installedFrontendUsable
Usable == record # 0 /\ \A c \in Compared : record \in installed[c]

Goto(next) == stage' = next

\* runManaged returns r once its deferred functions have run.
Leave(r) ==
    /\ Goto("stopping")
    /\ result' = r

Fails ==
    /\ Leave("error")
    /\ status' = "error"

-----------------------------------------------------------------------------
(* prepareWithTracker, prepareRemote *)

\* Slip: an update that cannot be postponed is not offered but installed.
ReadManifestUnusable ==
    /\ stage = "prepare"
    /\ status' = "starting"
    /\ manifest' = release
    /\ IF Outdated(release) /\ Usable /\ ~approved
       THEN /\ SetUpdate("available", Usable)
            /\ deferrable' = Usable
            /\ Goto("deciding")
       ELSE /\ Goto("installing")
            /\ UNCHANGED <<update, canDefer, window, deferrable>>
    /\ UNCHANGED <<signals, request, clicks, approvals, supervisor, current,
                   approved, result, settings, cancelled, packages, served,
                   outside>>

\* The manifest is read; if packages differ from it and nobody has approved
\* that, the update is offered.
ReadManifest ==
    /\ stage = "prepare"
    /\ status' = "starting"
    /\ manifest' = release
    /\ IF Outdated(release) /\ ~approved
       THEN /\ SetUpdate("available", Usable)
            /\ deferrable' = Usable
            /\ Goto("deciding")
       ELSE /\ Goto("installing")
            /\ UNCHANGED <<update, canDefer, window, deferrable>>
    /\ UNCHANGED <<signals, request, clicks, approvals, supervisor, current,
                   approved, result, settings, cancelled, packages, served,
                   outside>>

ManifestFails ==
    /\ stage = "prepare"
    /\ Fails
    /\ UNCHANGED <<update, canDefer, signals, request, window, clicks,
                   approvals, supervisor, current, approved, manifest,
                   deferrable, settings, cancelled, packages, served,
                   outside>>

Decided ==
    /\ stage = "deciding"
    /\ UNCHANGED <<request, clicks, approvals, supervisor, current, approved,
                   deferrable, settings, cancelled, packages, served,
                   outside>>

DecideApply ==
    /\ Decided
    /\ Take("apply")
    /\ SetUpdate("applying", FALSE)
    /\ Goto("installing")
    /\ UNCHANGED <<status, result, manifest>>

DecideDismiss ==
    /\ Decided
    /\ deferrable
    /\ Take("dismiss")
    /\ SetUpdate("none", FALSE)
    /\ manifest' = record
    /\ Goto("installing")
    /\ UNCHANGED <<status, result>>

\* Slip: the select has no case for the context.
DecideForEver ==
    /\ Decided
    /\ FALSE
    /\ Leave("error")
    /\ UNCHANGED <<status, update, canDefer, signals, window, manifest>>

DecideCancelled ==
    /\ Decided
    /\ cancelled
    /\ Leave("error")
    /\ UNCHANGED <<status, update, canDefer, signals, window, manifest>>

\* What is installed; without the browser if that fails in the remote mode.
Installable ==
    IF remoteMode THEN {{Browser, Frontend}, {Frontend}} ELSE {Component}

\* The packages S get the version of the manifest.  state.Installed follows
\* the front end only if it is downloaded.
Add(S) ==
    /\ installed' = [c \in Component |->
                        IF c \in S THEN installed[c] \cup {manifest}
                                   ELSE installed[c]]
    /\ chosen' = IF Frontend \in S /\ manifest \notin installed[Frontend]
                 THEN manifest ELSE chosen
    /\ updates' = IF Differs(S \cap Compared, manifest) THEN updates + 1
                                                       ELSE updates

\* installDatabase, installBrowser, installServices, installFrontend and, at
\* the end, saveInstalledManifest
Install ==
    /\ stage = "installing"
    /\ \E S \in Installable : Add(S)
    /\ record' = manifest
    /\ NewSupervisor
    /\ current' = 1
    /\ Goto("starting")
    /\ UNCHANGED <<control, approved, result, manifest, deferrable, settings,
                   cancelled, served, outside>>

\* One of them fails, or what follows them in prepare.
InstallFails ==
    /\ stage = "installing"
    /\ \E S \in Installable, n \in 0 .. Components : Add({c \in S : c <= n})
    /\ Fails
    /\ UNCHANGED <<update, canDefer, signals, request, window, clicks,
                   approvals, supervisor, current, approved, manifest,
                   deferrable, settings, cancelled, record, served, outside>>

-----------------------------------------------------------------------------
(* StartAll, and the rest of runManaged and runRemoteManaged *)

StartService ==
    /\ stage = "starting"
    /\ ~remoteMode /\ current <= Services
    /\ Launch(current)
    /\ Goto("health")
    /\ UNCHANGED <<control, exits, current, approved, result, manifest,
                   deferrable, settings, cancelled, packages, served,
                   outside>>

\* A process without a health check may have ended by now; that is the same as
\* if it ends in the next step.
Healthy ==
    /\ stage = "health"
    /\ process[current] = "up"
    /\ current' = current + 1
    /\ Goto("starting")
    /\ UNCHANGED <<control, supervisor, approved, result, manifest, deferrable,
                   settings, cancelled, packages, served,
                   outside>>

\* Slip: the update that led here is not cleared.
ReadyUncleared ==
    /\ stage = "starting"
    /\ remoteMode \/ current > Services
    /\ status' = "ready"
    /\ UNCHANGED <<update, canDefer>>
    /\ showFrontend' = TRUE
    /\ root' = TRUE
    /\ served' = IF ~remoteMode /\ chosen # 0 THEN chosen ELSE manifest
    /\ Goto("running")
    /\ UNCHANGED <<signals, request, clicks, approvals, supervisor, current,
                   approved, result, manifest, deferrable, settings, cancelled,
                   packages, outside>>

\* UseFrontend, clearUpdate and ready
Ready ==
    /\ stage = "starting"
    /\ remoteMode \/ current > Services
    /\ status' = "ready"
    /\ update' = "none"
    /\ canDefer' = FALSE
    /\ showFrontend' = TRUE
    /\ root' = TRUE
    /\ served' = IF ~remoteMode /\ chosen # 0 THEN chosen ELSE manifest
    /\ Goto("running")
    /\ UNCHANGED <<signals, request, clicks, approvals, supervisor, current,
                   approved, result, manifest, deferrable, settings, cancelled,
                   packages, outside>>

\* The database, a start, a health check or the front end fails.
StartFails ==
    /\ stage \in {"starting", "health", "restarting"}
    /\ Fails
    /\ UNCHANGED <<update, canDefer, signals, request, window, clicks,
                   approvals, supervisor, current, approved, manifest,
                   deferrable, settings, cancelled, packages, served,
                   outside>>

-----------------------------------------------------------------------------
(* supervisor.Run, waitRemoteMode *)

\* What the select of Run leaves alone unless a case says otherwise.
Selects ==
    /\ stage = "running"
    /\ UNCHANGED <<request, clicks, approvals, approved, manifest, deferrable,
                   settings, cancelled, packages, served,
                   outside>>

RunCancelled ==
    /\ Selects
    /\ cancelled
    /\ Leave("nil")
    /\ UNCHANGED <<status, update, canDefer, signals, window, supervisor,
                   current>>

RunCheck ==
    /\ Selects
    /\ Take("check")
    /\ SetUpdate("checking", FALSE)
    /\ Goto("comparing")
    /\ UNCHANGED <<status, supervisor, current, result>>

RunDismiss ==
    /\ Selects
    /\ Take("dismiss")
    /\ SetUpdate("none", FALSE)
    /\ UNCHANGED <<status, supervisor, stage, current, result>>

\* Slip: a request that has already changed the tracker is not honoured.
RunApplyOffered ==
    /\ Selects
    /\ Take("apply")
    /\ \/ /\ remoteMode \/ update = "available"
          /\ SetUpdate("applying", FALSE)
          /\ Leave("update")
       \/ /\ ~remoteMode /\ update # "available"
          /\ UNCHANGED <<update, canDefer, window, stage, result>>
    /\ UNCHANGED <<status, supervisor, current>>

RunApply ==
    /\ Selects
    /\ Take("apply")
    /\ \/ /\ remoteMode \/ update \in {"available", "applying"}
          /\ SetUpdate("applying", FALSE)
          /\ Leave("update")
       \/ /\ ~remoteMode /\ update \notin {"available", "applying"}
          /\ UNCHANGED <<update, canDefer, window, stage, result>>
    /\ UNCHANGED <<status, supervisor, current>>

\* Slip: the other exits that wait are dropped.
RunExitLast ==
    /\ Selects
    /\ exits # << >>
    /\ exits' = << >>
    /\ Launch(Head(exits))
    /\ current' = Head(exits)
    /\ status' = "starting"
    /\ Goto("restarting")
    /\ UNCHANGED <<update, canDefer, signals, window, result>>

RunExit ==
    /\ Selects
    /\ exits # << >>
    /\ exits' = Tail(exits)
    /\ Launch(Head(exits))
    /\ current' = Head(exits)
    /\ status' = "starting"
    /\ Goto("restarting")
    /\ UNCHANGED <<update, canDefer, signals, window, result>>

\* The manifest is read again and compared, or cannot be read.
Compare ==
    /\ stage = "comparing"
    /\ \/ SetUpdate("error", TRUE)
       \/ Outdated(release) /\ SetUpdate("available", TRUE)
       \/ ~Outdated(release) /\ SetUpdate("none", FALSE)
    /\ Goto("running")
    /\ UNCHANGED <<status, signals, request, clicks, approvals, supervisor,
                   current, approved, result, manifest, deferrable, settings,
                   cancelled, packages, served,
                   outside>>

Restarted ==
    /\ stage = "restarting"
    /\ process[current] = "up"
    /\ status' = "ready"
    /\ Goto("running")
    /\ UNCHANGED <<update, canDefer, signals, request, window, clicks,
                   approvals, supervisor, current, approved, result, manifest,
                   deferrable, settings, cancelled, packages, served,
                   outside>>

-----------------------------------------------------------------------------
(* The deferred functions, and the loop around runManaged *)

StopService ==
    /\ stage = "stopping"
    /\ \E s \in Service : Stop(s)
    /\ UNCHANGED <<control, loop, settings, cancelled, packages, served,
                   outside>>

Returned ==
    /\ stage = "stopping"
    /\ Stopped
    /\ UNCHANGED <<signals, request, clicks, approvals, supervisor, current,
                   result, manifest, deferrable, settings, cancelled, packages,
                   served, outside>>

Done ==
    /\ Returned
    /\ result = "nil" \/ (desktop /\ cancelled)
    /\ Goto("done")
    /\ UNCHANGED <<status, update, canDefer, window, approved>>

Approve ==
    /\ Returned
    /\ result = "update"
    /\ ~(desktop /\ cancelled)
    /\ approved' = TRUE
    /\ status' = "starting"
    /\ update' = "applying"
    /\ canDefer' = FALSE
    /\ showFrontend' = FALSE
    /\ UNCHANGED root
    /\ Goto("prepare")

GiveUp ==
    /\ Returned
    /\ result = "error"
    /\ ~(desktop /\ cancelled)
    /\ status' = "error"
    /\ Goto("failed")
    /\ UNCHANGED <<update, canDefer, window, approved>>

\* <-retry and tracker.reset; only the desktop forgets the approval.
Retry ==
    /\ stage = "failed"
    /\ Take("retry")
    /\ approved' = (approved /\ ~desktop)
    /\ status' = "starting"
    /\ update' = "idle"
    /\ canDefer' = FALSE
    /\ showFrontend' = FALSE
    /\ UNCHANGED root
    /\ Goto("prepare")
    /\ UNCHANGED <<request, clicks, approvals, supervisor, current, result,
                   manifest, deferrable, settings, cancelled, packages, served,
                   outside>>

\* The context is done, or the headless build has waited for thirty minutes.
Exit ==
    /\ stage = "failed"
    /\ cancelled \/ ~desktop
    /\ Goto("done")
    /\ UNCHANGED <<control, supervisor, current, approved, result, manifest,
                   deferrable, settings, cancelled, packages, served,
                   outside>>

-----------------------------------------------------------------------------

\* What the loop does by itself.
Step ==
    \/ ReadManifest \/ ManifestFails
    \/ DecideApply \/ DecideDismiss \/ DecideCancelled
    \/ Install \/ InstallFails
    \/ StartService \/ Healthy \/ Ready \/ StartFails
    \/ RunCancelled \/ RunCheck \/ RunDismiss \/ RunApply \/ RunExit
    \/ Compare \/ Restarted
    \/ StopService \/ Done \/ Approve \/ GiveUp
    \/ Retry \/ Exit

\* A signal, the request file of stopManaged or the window ends the context.
Cancel ==
    /\ ~cancelled
    /\ cancelled' = TRUE
    /\ UNCHANGED <<control, supervisor, loop, settings, packages, served,
                   outside>>

\* Another release is published, or one is withdrawn.
Publish ==
    /\ published < MaxPublished
    /\ published' = published + 1
    /\ \E v \in Version : v # release /\ release' = v
    /\ UNCHANGED <<control, supervisor, loop, settings, cancelled, packages,
                   served>>

UserActs ==
    /\ stage # "done"
    /\ ControlNext
    /\ UNCHANGED <<supervisor, loop, settings, cancelled, packages, served,
                   outside>>

ServiceEnds ==
    /\ \E s \in Service : Crash(s)
    /\ UNCHANGED <<control, loop, settings, cancelled, packages, served,
                   outside>>

Next == Step \/ UserActs \/ ServiceEnds \/ Cancel \/ Publish

Spec == Init /\ [][Next]_vars

Finishes(r) ==
    /\ stage # "done"
    /\ Finish(r)
    /\ UNCHANGED <<supervisor, loop, settings, cancelled, packages, served,
                   outside>>

\* The loop is scheduled; downloads, health checks and stops end.  A handler
\* that has begun ends, too.  Nobody has to click and no service has to fail.
FairSpec ==
    /\ Spec
    /\ WF_vars(Step)
    /\ \A r \in Requests : WF_vars(Finishes(r))

-----------------------------------------------------------------------------
(* Properties *)

\* README.md, "Updates and Recovery": the desktop installs no update for which
\* the user did not press the button, not even after a failed start, a retry,
\* a second release or a request that was answered late: each one has a request
\* of its own (prepareWithTracker, desktopApplication.run).
UpdatesAreApproved == desktop => updates <= approvals

\* No service process is alive while packages are read, chosen and installed,
\* while the loop waits for a retry, or after it has ended; and no process ever
\* escapes the map of the supervisor, which StopAll goes through.
NothingRunsUnattended ==
    /\ orphans = {}
    /\ stage \in {"prepare", "deciding", "installing", "failed", "done"} =>
           Stopped

\* A service that has ended is restarted: its exit waits in the channel as long
\* as the supervisor serves others, also if it ended while these were started.
NoExitIsForgotten ==
    stage \in {"running", "comparing"} /\ ~remoteMode =>
        \A s \in Service :
            \/ process[s] = "up"
            \/ \E i \in 1 .. Len(exits) : exits[i] = s

\* An offer or an update under way is never hidden behind Athena, whichever of
\* the loop and the handlers changed the tracker last (handleSnapshot,
\* UseFrontend, showStartup).
OffersAreShown == desktop /\ update \in {"available", "applying"} => ~showFrontend

\* Once the context is done the loop ends, wherever it is.
StopEnds == cancelled ~> stage = "done"

\* The page does not read "applying" for ever: an update that was asked for is
\* installed, or the failure is shown.
ApplyingEnds ==
    update = "applying" ~> \/ update # "applying"
                           \/ status = "error"
                           \/ stage = "done"

\* README.md: "the startup center asks the user before stopping existing
\* processes and installing new versions": while the loop waits for the answer
\* the page offers it, or the answer is on its way.
OffersCanBeAnswered ==
    stage = "deciding" =>
        \/ update = "available"
        \/ signals \cap {"apply", "dismiss"} # {}
        \/ \E r \in Requests : request[r] # "idle"

=============================================================================
