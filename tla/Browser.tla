------------------------------- MODULE Browser ------------------------------
(* The browser controller (browser_controller.go) with the callers that use  *)
(* it at the same time: tasks and single browser actions of the device       *)
(* runtime.  Each action runs under a mutex of its session that              *)
(* browserSessionLock finds in a map and CloseSession removes from it; the   *)
(* browser's page may move by itself at any time.  Every step of a caller    *)
(* between two points where others can act is an action.                     *)
EXTENDS TaskFlow, FiniteSets

CONSTANTS
    Tasks,          \* goroutines running browser.task
    Directs,        \* goroutines running the other browser.* capabilities
    DirectActions,  \* the actions these ask for
    Named,          \* the sessions these name, if any
    Goals,          \* the goals of tasks
    Seen,           \* the classes of pages to be met
    Files,          \* the session files to start from
    Start,          \* the page of a new browser
    MaxActions,     \* the execution budget of a task
    MaxEvents       \* bound on the calls of Directs and on what nobody asked for

\* There are finitely many goroutines, and a session file was left by a process
\* that kept its active session open, as this one does.
ASSUME BrowserAssumption ==
    /\ Tasks \cap Directs = {}
    /\ IsFiniteSet(Tasks) /\ IsFiniteSet(Directs)
    /\ DirectActions \subseteq Actions
    /\ Named \subseteq Sessions
    /\ Goals \subseteq Goal
    /\ Seen \subseteq Classes \ {"asked"}
    /\ \A file \in Files :
          /\ file.sessions \in [Sessions -> SessionStates]
          /\ file.active \in {s \in Sessions : file.sessions[s] = "open"} \cup {None}
    /\ Start \in Pages
    /\ MaxActions \in Nat \ {0} /\ MaxEvents \in Nat

VARIABLES
    page,       \* the page of each session's browser
    locks,      \* sessionLocks: the mutex of each session, 0 for none
    pc,         \* where each caller is
    session,    \* the session it works on
    request,    \* the action it is about
    lock,       \* the mutex it has a reference to, 0 for none
    failed,     \* whether its action has failed
    view,       \* what its action observed
    transition, \* whether its action was seen to change the page
    task,       \* what each task keeps between its actions
    events,     \* the events and prunings so far
    \* for the properties only:
    changed,    \* sessions whose page changed since it was last observed
    effect,     \* callers who observed a page that had changed
    shifted,    \* callers whose page moved after they checked it
    dropped,    \* sessions closed while another caller had their mutex
    tries       \* how often the action at hand of each task was performed

controlVars == <<pc, session, request, lock, failed>>
seenVars == <<view, transition>>
ghostVars == <<changed, effect, shifted, dropped, tries>>
vars == <<sessionVars, baseline, page, locks, controlVars, seenVars, task,
          events, ghostVars>>

Callers == Tasks \cup Directs

\* A caller is `closing` until it got the bridge's browserMu, and has it until
\* the baseline is cleared.
Closing == {"closing", "unlocking", "clearing"}
Acting == {"act", "observe", "record", "finish"}
Steps == {"idle", "begin", "fetch", "wait", "done"} \cup Acting \cup Closing

Mutexes == 1 .. Cardinality(Callers) + 1

NoTask == [node |-> "none", wish |-> NoWish, url |-> None,
           request |-> Extract, phase |-> "first", used |-> 0]

Init ==
    /\ \E file \in Files : Load(file)
    /\ baseline = [s \in Sessions |-> None]
    /\ page = [s \in Sessions |-> Start]
    /\ locks = [s \in Sessions |-> 0]
    /\ pc = [c \in Callers |-> "idle"]
    /\ session = [c \in Callers |-> None]
    /\ request = [c \in Callers |-> Extract]
    /\ lock = [c \in Callers |-> 0]
    /\ failed = [c \in Callers |-> FALSE]
    /\ view = [c \in Callers |-> NoView]
    /\ transition = [c \in Callers |-> FALSE]
    /\ task = [t \in Tasks |-> NoTask]
    /\ events = 0
    /\ changed = {}
    /\ effect = {}
    /\ shifted = {}
    /\ dropped = {}
    /\ tries = [t \in Tasks |-> 0]

-----------------------------------------------------------------------------
(* Calls: the handlers of device_runtime.go over the bridge. *)

\* browserSession and clearBrowserSession exclude each other.
BridgeFree == \A c \in Callers : pc[c] \notin {"unlocking", "clearing"}

Goto(c, step) == pc' = [pc EXCEPT ![c] = step]

\* browser.task: the session is the default one, or a new one.
StartTask(t) ==
    /\ pc[t] = "idle" /\ BridgeFree
    /\ \E forceNew \in BOOLEAN, goal \in Goals :
        LET node == FirstNode(Plan(goal)) IN
        /\ \E s \in Resolutions(None, TRUE, forceNew) :
            /\ ResolveSession(s)
            /\ session' = [session EXCEPT ![t] = s]
        /\ task' = [task EXCEPT ![t].node = node, ![t].wish = Wish(Plan(goal))]
        /\ Goto(t, IF node \in Endings THEN "done" ELSE "begin")
    /\ UNCHANGED <<baseline, page, locks, request, lock, failed, seenVars,
                   events, ghostVars>>

Count == events < MaxEvents /\ events' = events + 1

DirectRequests ==
    {r \in [action: DirectActions, target: Urls \cup {None}, expected: {None},
            sensitive: {FALSE}] :
        r.target # None => r.action = "navigate"}

\* The other capabilities; only browser.open and browser.navigate create a
\* session.  A call that is given none ends with the error.
StartCall(d) ==
    /\ pc[d] = "idle" /\ BridgeFree
    /\ Count
    /\ \E r \in DirectRequests, requested \in Named \cup {None}, forceNew \in BOOLEAN :
        LET given == Resolutions(requested, r.action = "navigate", forceNew)
        IN  \/ \E s \in given :
                /\ ResolveSession(s)
                /\ session' = [session EXCEPT ![d] = s]
                /\ request' = [request EXCEPT ![d] = r]
                /\ Goto(d, "fetch")
            \/ /\ given = {} /\ ~forceNew
               /\ UNCHANGED <<sessionVars, session, request, pc>>
    /\ UNCHANGED <<baseline, page, locks, lock, failed, seenVars, task,
                   ghostVars>>

-----------------------------------------------------------------------------
(* One action: runAction. *)

\* A mutex nobody has a reference to stands for a new one.
NewMutex(s) ==
    CHOOSE m \in Mutexes : \A c \in Callers : session[c] = s => lock[c] # m

\* Slip: Store for LoadOrStore.
StoreLock(c) ==
    /\ pc[c] = "fetch"
    /\ LET m == NewMutex(session[c])
       IN  /\ locks' = [locks EXCEPT ![session[c]] = m]
           /\ lock' = [lock EXCEPT ![c] = m]
    /\ Goto(c, "wait")
    /\ UNCHANGED <<sessionVars, baseline, page, session, request, failed,
                   seenVars, task, events, ghostVars>>

\* browserSessionLock
FetchLock(c) ==
    /\ pc[c] = "fetch"
    /\ LET stored == locks[session[c]]
           m == IF stored = 0 THEN NewMutex(session[c]) ELSE stored
       IN  /\ locks' = [locks EXCEPT ![session[c]] = m]
           /\ lock' = [lock EXCEPT ![c] = m]
    /\ Goto(c, "wait")
    /\ UNCHANGED <<sessionVars, baseline, page, session, request, failed,
                   seenVars, task, events, ghostVars>>

Held(s, m) == \E c \in Callers : session[c] = s /\ lock[c] = m /\ pc[c] # "wait"

\* Slip: the action goes ahead whatever page it finds.
NoPrecondition(r, s) == TRUE

\* validateBrowserPagePrecondition
Precondition(r, s) == r.expected \in {None, UrlOf[page[s]]}

\* The mutex is taken and the page the action was decided on is checked.
Acquire(c) ==
    /\ pc[c] = "wait"
    /\ ~Held(session[c], lock[c])
    /\ \/ /\ Precondition(request[c], session[c])
          /\ Goto(c, "act")
          /\ UNCHANGED failed
       \/ /\ ~Precondition(request[c], session[c])
          /\ Goto(c, "finish")
          /\ failed' = [failed EXCEPT ![c] = TRUE]
    /\ UNCHANGED <<sessionVars, baseline, page, locks, session, request, lock,
                   seenVars, task, events, changed, effect, shifted, dropped,
                   tries>>

\* A navigation without a URL is refused, and upload has no command.
Refused(r) ==
    r.action = "upload" \/ (r.action = "navigate" /\ r.target = None)

\* The pages an action can leave.
Effects(r, p) ==
    IF Refused(r) \/ r.action \in {"wait", "extract", "hover", "screenshot"}
    THEN {p} ELSE Pages

\* A new browser takes the place of a closed one.
Succeeds(c, p) ==
    /\ ~Refused(request[c])
    /\ IF request[c].action = "close"
       THEN /\ Goto(c, "finish")
            /\ changed' = changed \ {session[c]}
       ELSE /\ Goto(c, "observe")
            /\ changed' = IF p = page[session[c]] THEN changed
                          ELSE changed \cup {session[c]}
    /\ transition' = [transition EXCEPT ![c] =
                        request[c].action \in {"back", "forward"}
                            /\ p # page[session[c]]]
    /\ UNCHANGED failed

\* A command that failed may have had its effect.  A play or a pause that
\* failed is observed all the same.
FailsAt(c, p) ==
    /\ failed' = [failed EXCEPT ![c] = TRUE]
    /\ Goto(c, IF request[c].action \in {"play", "pause"} THEN "observe" ELSE "finish")
    /\ changed' = IF p = page[session[c]] THEN changed ELSE changed \cup {session[c]}
    /\ UNCHANGED transition

\* The browser performs the action.
Act(c) ==
    /\ pc[c] = "act"
    /\ \E p \in Effects(request[c], page[session[c]]) :
        /\ page' = [page EXCEPT ![session[c]] = p]
        /\ Succeeds(c, p) \/ FailsAt(c, p)
    /\ shifted' = shifted \ {c}
    /\ tries' = IF c \notin Tasks \/ task[c].phase = "reobserve" THEN tries
                ELSE [tries EXCEPT ![c] = @ + 1]
    /\ UNCHANGED <<sessionVars, baseline, locks, session, request, lock, view,
                   task, events, effect, dropped>>

\* browserObservation and stabilizeBrowserObservation: the last look at the
\* page.  A screenshot is no look at it.
Observe(c) ==
    /\ pc[c] = "observe"
    /\ \/ \E class \in Seen :
            /\ view' = [view EXCEPT ![c] =
                          IF request[c].action = "screenshot" THEN NoView
                          ELSE [page |-> page[session[c]], class |-> class]]
            /\ effect' = IF session[c] \in changed THEN effect \cup {c} ELSE effect \ {c}
            /\ changed' = IF request[c].action = "screenshot" THEN changed
                          ELSE changed \ {session[c]}
            /\ Goto(c, "record")
            /\ UNCHANGED failed
       \/ /\ request[c].action # "screenshot"
          /\ failed' = [failed EXCEPT ![c] = TRUE]
          /\ Goto(c, "finish")
          /\ UNCHANGED <<view, effect, changed>>
    /\ UNCHANGED <<sessionVars, baseline, page, locks, session, request, lock,
                   transition, task, events, shifted, dropped, tries>>

-----------------------------------------------------------------------------
(* A task: runTaskAction and runTask. *)

\* The action at hand is over: the task goes to node, or ends with it.
Proceed(t, node, url, used) ==
    /\ task' = [task EXCEPT ![t] =
                  IF node \in Endings THEN [NoTask EXCEPT !.node = node]
                  ELSE [NoTask EXCEPT !.node = node, !.wish = Rest(task[t].wish),
                                      !.url = url, !.used = used]]
    /\ Goto(t, IF node \in Endings THEN "done" ELSE "begin")
    /\ request' = [request EXCEPT ![t] = Extract]
    /\ tries' = [tries EXCEPT ![t] = 0]

Fail(t) == Proceed(t, AfterFailure(task[t].node), task[t].url, task[t].used)

Succeed(t, v) ==
    \E node \in After(task[t], v) : Proceed(t, node, UrlAt(v), task[t].used)

\* browserTaskExecutionBudget.consume
BudgetLeft(t) == task[t].used < MaxActions

\* runTaskActionOnce
Perform(t, r, phase) ==
    /\ task' = [task EXCEPT ![t].phase = phase, ![t].used = @ + 1,
                            ![t].request = IF phase = "first" THEN r ELSE @]
    /\ request' = [request EXCEPT ![t] = r]
    /\ Goto(t, "fetch")
    /\ UNCHANGED tries

\* The budget is charged first, then the policy is asked.
BeginAction(t) ==
    /\ pc[t] = "begin"
    /\ \/ /\ ~BudgetLeft(t)
          /\ Fail(t)
       \/ /\ BudgetLeft(t)
          /\ \E r \in RequestsAt(task[t].node, task[t].url) :
                IF Allowed(r) THEN Perform(t, r, "first")
                ELSE \E node \in After([task[t] EXCEPT !.request = r], AskedView) :
                        Proceed(t, node, None, task[t].used + 1)
    /\ UNCHANGED <<sessionVars, baseline, page, locks, session, lock, failed,
                   seenVars, events, changed, effect, shifted, dropped>>

\* What the task makes of the action that returned, without an error, view v
\* and its verification.
Judge(t, v, verdict) ==
    LET r == task[t].request
        verified == Verified(r, v, verdict, transition[t])
        observed == Postcondition(r, v, FALSE, FALSE)
    IN  CASE task[t].phase = "first" ->
                IF verified THEN Succeed(t, v)
                ELSE IF verdict \in {"blocked", "failed"} \/ ~BudgetLeft(t) THEN Fail(t)
                ELSE Perform(t, Extract, "reobserve")
          [] task[t].phase = "reobserve" ->
                IF observed THEN Succeed(t, v)
                ELSE IF Retryable(r) /\ BudgetLeft(t) THEN Perform(t, r, "retry")
                ELSE Fail(t)
          [] task[t].phase = "retry" ->
                IF verified THEN Succeed(t, v) ELSE Fail(t)

-----------------------------------------------------------------------------
(* The end of an action. *)

\* Slip: an action that failed keeps the mutex.
KeepLock(c) == lock' = IF failed[c] THEN lock ELSE [lock EXCEPT ![c] = 0]

Unlock(c) == lock' = [lock EXCEPT ![c] = 0]

\* The caller keeps nothing of its action.
Forget(c) ==
    /\ failed' = [failed EXCEPT ![c] = FALSE]
    /\ view' = [view EXCEPT ![c] = NoView]
    /\ transition' = [transition EXCEPT ![c] = FALSE]
    /\ effect' = effect \ {c}

\* A Direct is done with its session, unless it has to be closed.
Return(d, step) ==
    /\ Goto(d, step)
    /\ session' = IF step = "idle" THEN [session EXCEPT ![d] = None] ELSE session
    /\ request' = [request EXCEPT ![d] = Extract]
    /\ UNCHANGED <<task, tries>>

\* The observation is noted by the browser runtime, compared with the baseline
\* and verified, the session's status is set and the mutex released: nothing
\* here reads the page again.  The action of a task may have run out of time.
Record(c) ==
    /\ pc[c] = "record"
    /\ DecorateObservation(session[c])
    /\ SetBaseline(session[c], view[c])
    /\ Unlock(c)
    /\ \/ /\ c \in Tasks
          /\ ~failed[c]
          /\ Judge(c, view[c], verifyAction(request[c], view[c],
                                           baseline[session[c]], transition[c]))
          /\ UNCHANGED session
       \/ c \in Tasks /\ Fail(c) /\ UNCHANGED session
       \/ c \in Directs /\ Return(c, "idle")
    /\ Forget(c)
    /\ UNCHANGED <<page, locks, events, changed, shifted, dropped>>

\* The action failed, or closed the browser: there is no observation.
Finish(c) ==
    /\ pc[c] = "finish"
    /\ IF failed[c] THEN SetSessionStatus(session[c]) ELSE UNCHANGED sessionVars
    /\ Unlock(c)
    /\ \/ c \in Tasks /\ Fail(c) /\ UNCHANGED session
       \/ c \in Directs /\ Return(c, IF failed[c] THEN "idle" ELSE "closing")
    /\ Forget(c)
    /\ UNCHANGED <<baseline, page, locks, events, changed, shifted, dropped>>

(* CloseSession, under the bridge's browserMu. *)

CloseRuntime(c) ==
    /\ pc[c] = "closing" /\ BridgeFree
    /\ CloseRuntimeSession(session[c])
    /\ Goto(c, "unlocking")
    /\ UNCHANGED <<baseline, page, locks, session, request, lock, failed,
                   seenVars, task, events, ghostVars>>

\* sessionLocks.Delete
DropLock(c) ==
    /\ pc[c] = "unlocking"
    /\ locks' = [locks EXCEPT ![session[c]] = 0]
    /\ dropped' = IF \E d \in Callers : session[d] = session[c] /\ lock[d] # 0
                  THEN dropped \cup {session[c]} ELSE dropped
    /\ Goto(c, "clearing")
    /\ UNCHANGED <<sessionVars, baseline, page, session, request, lock, failed,
                   seenVars, task, events, changed, effect, shifted, tries>>

ClearBaseline(c) ==
    /\ pc[c] = "clearing"
    /\ ClearSession(session[c])
    /\ session' = [session EXCEPT ![c] = None]
    /\ Goto(c, "idle")
    /\ UNCHANGED <<sessionVars, page, locks, request, lock, failed, seenVars,
                   task, events, ghostVars>>

-----------------------------------------------------------------------------
(* What nobody asked for, in a session that is worked on. *)

InUse(s) == \E c \in Callers : session[c] = s /\ pc[c] # "done"

\* A script, a redirect or the user moves the page.
PageMoves(s) ==
    /\ InUse(s) /\ Count
    /\ \E p \in Pages \ {page[s]} : page' = [page EXCEPT ![s] = p]
    /\ changed' = changed \cup {s}
    /\ shifted' = shifted \cup {c \in Callers : pc[c] = "act" /\ session[c] = s}
    /\ UNCHANGED <<sessionVars, baseline, locks, controlVars, seenVars, task,
                   effect, dropped, tries>>

\* pruneOldestBaselineLocked, after the observation of many other sessions.
Prune(s) ==
    /\ InUse(s) /\ Count
    /\ baseline[s] # None
    /\ ClearSession(s)
    /\ UNCHANGED <<sessionVars, page, locks, controlVars, seenVars, task,
                   ghostVars>>

-----------------------------------------------------------------------------

\* Every step of a caller but the first of a call.
Step(c) ==
    \/ FetchLock(c) \/ Acquire(c) \/ Act(c) \/ Observe(c) \/ Record(c) \/ Finish(c)
    \/ CloseRuntime(c) \/ DropLock(c) \/ ClearBaseline(c)
    \/ c \in Tasks /\ BeginAction(c)

Next ==
    \/ \E t \in Tasks : StartTask(t)
    \/ \E d \in Directs : StartCall(d)
    \/ \E c \in Callers : Step(c)
    \/ \E s \in Sessions : PageMoves(s) \/ Prune(s)

Spec == Init /\ [][Next]_vars

-----------------------------------------------------------------------------
(* Properties. *)

TypeOK ==
    /\ SessionsTypeOK /\ PerceptionTypeOK
    /\ page \in [Sessions -> Pages]
    /\ locks \in [Sessions -> Mutexes \cup {0}]
    /\ pc \in [Callers -> Steps]
    /\ session \in [Callers -> Sessions \cup {None}]
    /\ request \in [Callers -> Request]
    /\ lock \in [Callers -> Mutexes \cup {0}]
    /\ failed \in [Callers -> BOOLEAN] /\ transition \in [Callers -> BOOLEAN]
    /\ view \in [Callers -> View]
    /\ \A t \in Tasks : task[t].used \in 0 .. MaxActions /\ task[t].request \in Request
    /\ events \in 0 .. MaxEvents

\* Two callers act in one session at the same time only if it was closed while
\* one of them had its mutex (browser_runtime_adapter.go CloseSession).
ActionsDoNotOverlap ==
    \A c, d \in Callers :
        (c # d /\ pc[c] \in Acting /\ pc[d] \in Acting /\ session[c] = session[d])
            => session[c] \in dropped

\* An action that names the page it was decided on is performed on that page,
\* whatever others did in the session meanwhile, unless the page moved by
\* itself after the check (or the mutex was dropped).
TasksActOnWhatTheySaw ==
    [][\A c \in Callers :
        (pc[c] = "act" /\ pc'[c] # "act" /\ request[c].expected # None)
            => \/ UrlOf[page[session[c]]] = request[c].expected
               \/ c \in shifted \/ session[c] \in dropped]_vars

\* A task performs an action twice at most, the second time only one that can
\* be reversed and whose postcondition it has looked for since; and never one
\* that needs the user (docs/browser-system-v3.md:104).
RetriesAreSafe ==
    [][\A t \in Tasks :
        (pc[t] = "act" /\ pc'[t] # "act" /\ task[t].phase # "reobserve")
            => /\ Allowed(request[t])
               /\ tries[t] < 2
               /\ tries[t] = 1 =>
                    /\ task[t].phase = "retry"
                    /\ request[t].action \in {"navigate", "play"} \/ request[t].target # None]_vars

\* A click, press, scroll or drag counts as done only if the page has changed
\* since it was last observed (docs/perception-layer.md:88), also across a
\* close of the session; but a screenshot blots the baseline out.
NoChangeIsNotSuccess ==
    [][\A c \in Callers :
        (/\ pc[c] = "record" /\ pc'[c] # "record"
         /\ request[c].action \in Comparing
         /\ verifyAction(request[c], view[c], baseline[session[c]], transition[c])
                = "verified"
         /\ session[c] \notin dropped
         /\ \A d \in Callers : ~(pc[d] \in Closing /\ session[d] = session[c]))
            => c \in effect \/ baseline[session[c]] = Blank]_vars

\* No caller waits for ever: while one is under way, one can take a step, so
\* that no mutex is kept and no two callers wait for each other.  Each step is
\* one towards an end, as the budget bounds the actions of a task.
NobodyIsStuck ==
    LET underWay == {c \in Callers : pc[c] \notin {"idle", "done"}}
    IN  underWay # {} => \E c \in underWay : ENABLED Step(c)

=============================================================================
