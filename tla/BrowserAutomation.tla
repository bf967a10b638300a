-------------------------- MODULE BrowserAutomation --------------------------
(***************************************************************************)
(* Watch Mode: the automation engine of                                    *)
(* browser-runtime/automation_engine.go and automation_cdp.go.             *)
(*                                                                         *)
(* Rules live in a map under e.mu and in a file written by persistLocked.  *)
(* Callers (Manage, CloseSession) change the rules under the lock and then *)
(* start or stop the session's watcher in further critical sections.  A    *)
(* watcher is a goroutine of one session: it probes the page, takes copies *)
(* of the enabled rules, and executes those that match, with no lock held  *)
(* between the copies and the actions.                                     *)
(*                                                                         *)
(* Which rules match a probe, and the snapshots that decide it, are left   *)
(* open here.  What only a goroutine knew (its locals) is forgotten when   *)
(* it ends.                                                                *)
(***************************************************************************)
EXTENDS Naturals, FiniteSets

CONSTANTS Rules,         \* automation ids, each created at most once
          Sessions,
          SessionOf,     \* the session a rule is created for
          Watchers,      \* the goroutines ensureWatcher can start
          Callers,       \* goroutines that call the engine
          MaxOperations, \* bound on the calls of a behaviour
          MaxFailures,   \* bound on the writes of the file that fail
          MaxRestarts,   \* bound on the restarts of the process
          None

ASSUME SessionOfAssumption == SessionOf \in [Rules -> Sessions]
ASSUME NoneAssumption == None \notin Watchers \cup Rules \cup Sessions
ASSUME BoundsAssumption ==
    /\ MaxOperations \in Nat
    /\ MaxFailures \in Nat
    /\ MaxRestarts \in Nat

\* A rule is a record of whether it is enabled, its status, and `cooling`, which
\* stands for a LastFiredAt within the rule's cooldown; or it is Absent.
Absent == [enabled |-> FALSE, status |-> "none", cooling |-> FALSE]

\* Where a watcher is:
\*   loop       at the head of the loop of watch
\*   cdp        in watchCDPEvents, polling in watchPollingWindow
\*   probed     it has copies of the rules that match, and observes the page
\*   chosen     between the rules it executes
\*   triggered, executing, acting, verifying, failed, recording  in executeRule
\*   leaving    before the deferred delete of watch
\*   unused, done, dead  it was not started, has ended, went with its process
\* A caller is idle or has still to ensure, stop or cancel a watcher after its
\* first critical section.
Working == {"triggered", "executing", "acting", "verifying", "failed",
            "recording"}
Stages == {"unused", "loop", "cdp", "polling", "probed", "chosen", "leaving",
           "done", "dead"} \cup Working

VARIABLES rules, disk,                              \* e.rules and the file
          watchers,                                 \* e.watchers
          stage, session, stopped, mode, todo, current,  \* per watcher
          step, target, victim,                     \* per caller
          binding,                                  \* sessions bind has left
          operations, failures, restarts,           \* bounds
          unsaved,    \* history: the last write of the file failed
          lost,       \* history: a restart found a file that missed a write
          intent,     \* history: what the last call said of the rule
          recent,     \* history: rules executed within their cooldown
          extra,      \* history: actions of a rule since it was disabled
          idled       \* history: sessions without enabled rules at some time

store == <<rules, disk, failures, unsaved>>
watching == <<stage, session, stopped, mode, todo, current>>
calling == <<step, target, victim, operations>>
vars == <<store, watchers, watching, calling, binding, restarts, intent,
          recent, extra, idled, lost>>

-----------------------------------------------------------------------------

\* The rules that are there, and the values of the variables.  A watcher that
\* runs has a session, and a rule a watcher works on was created.
Statuses == {"watching", "paused", "session_closed", "triggered", "executing",
             "verifying", "error"}
Rule == [enabled : BOOLEAN, status : Statuses, cooling : BOOLEAN]

TypeOK ==
    /\ rules \in [Rules -> Rule \cup {Absent}]
    /\ disk \in [Rules -> Rule \cup {Absent}]
    /\ watchers \in [Sessions -> Watchers \cup {None}]
    /\ stage \in [Watchers -> Stages]
    /\ session \in [Watchers -> Sessions \cup {None}]
    /\ \A w \in Watchers : stage[w] # "unused" => session[w] \in Sessions
    /\ stopped \in [Watchers -> BOOLEAN]
    /\ mode \in [Watchers -> {"cdp", "polling"}]
    /\ todo \in [Watchers -> SUBSET Rules]
    /\ current \in [Watchers -> Rules \cup {None}]
    /\ \A w \in Watchers : stage[w] \in Working => current[w] \in Rules
    /\ step \in [Callers -> {"idle", "ensure", "stop", "cancel"}]
    /\ target \in [Callers -> Sessions \cup {None}]
    /\ \A c \in Callers : step[c] # "idle" => target[c] \in Sessions
    /\ victim \in [Callers -> Watchers \cup {None}]
    /\ binding \subseteq Sessions
    /\ operations \in Nat /\ failures \in Nat /\ restarts \in Nat
    /\ unsaved \in BOOLEAN /\ lost \in BOOLEAN
    /\ intent \in [Rules -> {"none", "on", "paused", "closed", "deleted"}]
    /\ recent \subseteq Rules
    /\ extra \in [Rules -> Nat]
    /\ idled \subseteq Sessions

Init ==
    /\ rules = [r \in Rules |-> Absent]
    /\ disk = [r \in Rules |-> Absent]
    /\ watchers = [s \in Sessions |-> None]
    /\ stage = [w \in Watchers |-> "unused"]
    /\ session = [w \in Watchers |-> None]
    /\ stopped = [w \in Watchers |-> FALSE]
    /\ mode = [w \in Watchers |-> "cdp"]
    /\ todo = [w \in Watchers |-> {}]
    /\ current = [w \in Watchers |-> None]
    /\ step = [c \in Callers |-> "idle"]
    /\ target = [c \in Callers |-> None]
    /\ victim = [c \in Callers |-> None]
    /\ binding = {}
    /\ operations = 0
    /\ failures = 0
    /\ restarts = 0
    /\ unsaved = FALSE
    /\ intent = [r \in Rules |-> "none"]
    /\ recent = {}
    /\ extra = [r \in Rules |-> 0]
    /\ idled = {}
    /\ lost = FALSE

-----------------------------------------------------------------------------
(* Helpers *)

Exists(r) == rules[r] # Absent
RulesOf(s) == {r \in Rules : SessionOf[r] = s}

\* enabledRulesLocked, hasEnabledRules
Enabled(s) == {r \in RulesOf(s) : rules[r].enabled}

\* persistLocked: the file is replaced by the rules as they are now, or it
\* stays as it was and an error is returned.
Saved == disk' = rules' /\ unsaved' = FALSE /\ UNCHANGED failures
NotSaved ==
    /\ failures < MaxFailures
    /\ failures' = failures + 1
    /\ unsaved' = TRUE
    /\ UNCHANGED disk
Persist == Saved \/ NotSaved

-----------------------------------------------------------------------------
(* Manage and CloseSession: the first critical section of a call *)

\* Caller c changes the rules to those in changed, all of session s.
Call(c, s, changed) ==
    /\ step[c] = "idle"
    /\ binding = {}
    /\ operations < MaxOperations
    /\ operations' = operations + 1
    /\ rules' = changed
    /\ target' = [target EXCEPT ![c] = s]
    /\ idled' = IF /\ Enabled(s) # {}
                   /\ \A r \in RulesOf(s) : ~changed[r].enabled
                THEN idled \cup {s} ELSE idled
    /\ UNCHANGED <<watchers, watching, binding, restarts, recent, lost>>

\* An error of persistLocked ends the call, but the map keeps the change.
Save(c, next) ==
    /\ \/ Saved /\ step' = [step EXCEPT ![c] = next]
       \/ NotSaved /\ step' = [step EXCEPT ![c] = "idle"]
    /\ UNCHANGED victim

Fresh == [enabled |-> TRUE, status |-> "watching", cooling |-> FALSE]
On(r) == [rules[r] EXCEPT !.enabled = TRUE, !.status = "watching"]
Off(r, why) == [rules[r] EXCEPT !.enabled = FALSE, !.status = why]

\* create (the id is new) and setEnabled(id, true)
Enable(c, r) ==
    /\ \/ /\ intent[r] = "none"
          /\ Call(c, SessionOf[r], [rules EXCEPT ![r] = Fresh])
       \/ /\ Exists(r)
          /\ Call(c, SessionOf[r], [rules EXCEPT ![r] = On(r)])
    /\ Save(c, "ensure")
    /\ intent' = [intent EXCEPT ![r] = "on"]
    /\ extra' = [extra EXCEPT ![r] = 0]

\* setEnabled(id, false)
Pause(c, r) ==
    /\ Exists(r)
    /\ Call(c, SessionOf[r], [rules EXCEPT ![r] = Off(r, "paused")])
    /\ Save(c, "stop")
    /\ intent' = [intent EXCEPT ![r] = "paused"]
    /\ UNCHANGED extra

\* delete
Delete(c, r) ==
    /\ Exists(r)
    /\ Call(c, SessionOf[r], [rules EXCEPT ![r] = Absent])
    /\ Save(c, "stop")
    /\ intent' = [intent EXCEPT ![r] = "deleted"]
    /\ UNCHANGED extra

Closed(s) ==
    [r \in Rules |-> IF r \in Enabled(s) THEN Off(r, "session_closed")
                                         ELSE rules[r]]

\* Slip: the closed session is not saved.
CloseUnsaved(c, s) ==
    /\ Call(c, s, Closed(s))
    /\ step' = [step EXCEPT ![c] = "cancel"]
    /\ victim' = [victim EXCEPT ![c] = watchers[s]]
    /\ intent' = [r \in Rules |->
                     IF r \in Enabled(s) THEN "closed" ELSE intent[r]]
    /\ UNCHANGED <<disk, failures, unsaved, extra>>

\* CloseSession disables every rule of the session; an error of the write is
\* ignored.
Close(c, s) ==
    /\ Call(c, s, Closed(s))
    /\ Persist
    /\ step' = [step EXCEPT ![c] = "cancel"]
    /\ victim' = [victim EXCEPT ![c] = watchers[s]]
    /\ intent' = [r \in Rules |->
                     IF r \in Enabled(s) THEN "closed" ELSE intent[r]]
    /\ UNCHANGED extra

-----------------------------------------------------------------------------
(* ensureWatcher, stopWatcherIfIdle and bind: the critical sections after it *)

\* go e.watch, registered in e.watchers
Spawn(s) ==
    \E w \in Watchers :
        /\ stage[w] = "unused"
        /\ stage' = [stage EXCEPT ![w] = "loop"]
        /\ session' = [session EXCEPT ![w] = s]
        /\ watchers' = [watchers EXCEPT ![s] = w]
        /\ UNCHANGED <<stopped, mode, todo, current>>

\* Slips: the map of watchers, or the rules, are not looked at again.
StartAnother(s) ==
    IF Enabled(s) # {} THEN Spawn(s) ELSE UNCHANGED <<watchers, watching>>
StartUnasked(s) ==
    IF watchers[s] = None THEN Spawn(s) ELSE UNCHANGED <<watchers, watching>>

\* ensureWatcher
StartWatcher(s) ==
    IF watchers[s] = None /\ Enabled(s) # {}
    THEN Spawn(s)
    ELSE UNCHANGED <<watchers, watching>>

Ensure(c) ==
    /\ step[c] = "ensure"
    /\ StartWatcher(target[c])
    /\ step' = [step EXCEPT ![c] = "idle"]
    /\ target' = [target EXCEPT ![c] = None]
    /\ UNCHANGED <<store, victim, operations, binding, restarts, intent,
                   recent, extra, idled, lost>>

\* stopWatcherIfIdle, under the lock
StopIfIdle(c) ==
    /\ step[c] = "stop"
    /\ IF Enabled(target[c]) = {}
       THEN /\ step' = [step EXCEPT ![c] = "cancel"]
            /\ victim' = [victim EXCEPT ![c] = watchers[target[c]]]
       ELSE /\ step' = [step EXCEPT ![c] = "idle"]
            /\ UNCHANGED victim
    /\ UNCHANGED <<store, watchers, watching, target, operations, binding,
                   restarts, intent, recent, extra, idled, lost>>

\* cancel(), after the lock was released
Cancel(c) ==
    /\ step[c] = "cancel"
    /\ stopped' = [w \in Watchers |-> stopped[w] \/ w = victim[c]]
    /\ step' = [step EXCEPT ![c] = "idle"]
    /\ target' = [target EXCEPT ![c] = None]
    /\ victim' = [victim EXCEPT ![c] = None]
    /\ UNCHANGED <<store, watchers, stage, session, mode, todo, current,
                   operations, binding, restarts, intent, recent, extra, idled,
                   lost>>

\* The process ends, and a new one loads the file.
Restart ==
    /\ restarts < MaxRestarts
    /\ restarts' = restarts + 1
    /\ rules' = disk
    /\ watchers' = [s \in Sessions |-> None]
    /\ stage' = [w \in Watchers |->
                    IF stage[w] \in {"unused", "done"} THEN stage[w] ELSE "dead"]
    /\ stopped' = [w \in Watchers |-> FALSE]
    /\ mode' = [w \in Watchers |-> "cdp"]
    /\ todo' = [w \in Watchers |-> {}]
    /\ current' = [w \in Watchers |-> None]
    /\ step' = [c \in Callers |-> "idle"]
    /\ target' = [c \in Callers |-> None]
    /\ victim' = [c \in Callers |-> None]
    /\ binding' = {s \in Sessions : \E r \in RulesOf(s) : disk[r].enabled}
    /\ unsaved' = FALSE
    /\ lost' = (lost \/ unsaved)
    /\ intent' = [r \in Rules |->
                     IF ~unsaved THEN intent[r]
                     ELSE IF disk[r].enabled THEN "on"
                     ELSE IF disk[r] # Absent THEN "paused"
                     ELSE IF intent[r] = "none" THEN "none" ELSE "deleted"]
    /\ extra' = [r \in Rules |-> IF disk[r].enabled THEN 0 ELSE extra[r]]
    /\ idled' = {}
    /\ UNCHANGED <<disk, failures, session, operations, recent>>

\* bind, for the next of the sessions that had enabled rules
Bind(s) ==
    /\ s \in binding
    /\ binding' = binding \ {s}
    /\ StartWatcher(s)
    /\ UNCHANGED <<store, calling, restarts, intent, recent, extra, idled, lost>>

-----------------------------------------------------------------------------
(* watch, watchCDPEvents, watchPollingWindow *)

Goto(w, next) == stage' = [stage EXCEPT ![w] = next]

\* What a step of a watcher leaves alone unless it says otherwise.
OwnStep == UNCHANGED <<watchers, session, stopped, calling, binding, restarts,
                       intent, idled, lost>>

Abandoned(w) == stopped[w] \/ Enabled(session[w]) = {}

\* The head of the loop, with setMonitorMode.
Loop(w) ==
    /\ stage[w] = "loop"
    /\ \/ Abandoned(w) /\ Goto(w, "leaving") /\ UNCHANGED store
       \/ ~Abandoned(w) /\ Goto(w, "cdp") /\ UNCHANGED rules /\ Persist
    /\ OwnStep /\ UNCHANGED <<mode, todo, current, recent, extra>>

\* Slip: the health tick does not look at the rules.
CDPEndsWhenStopped(w) ==
    /\ stage[w] = "cdp"
    /\ stopped[w]
    /\ Goto(w, "leaving")
    /\ OwnStep /\ UNCHANGED <<store, mode, todo, current, recent, extra>>

\* watchCDPEvents returns nil: the context is done, or the health tick found no
\* enabled rule.
CDPEnds(w) ==
    /\ stage[w] = "cdp"
    /\ Abandoned(w)
    /\ Goto(w, "leaving")
    /\ OwnStep /\ UNCHANGED <<store, mode, todo, current, recent, extra>>

\* Slip: watch returns when the event stream is lost.
CDPFailsForGood(w) ==
    /\ stage[w] = "cdp"
    /\ Goto(w, "leaving")
    /\ OwnStep /\ UNCHANGED <<store, mode, todo, current, recent, extra>>

\* watchCDPEvents returns an error: no stream, a failed probe, another target.
CDPFails(w) ==
    /\ stage[w] = "cdp"
    /\ \/ stopped[w] /\ Goto(w, "leaving") /\ UNCHANGED store
       \/ ~stopped[w] /\ Goto(w, "polling") /\ UNCHANGED rules /\ Persist
    /\ OwnStep /\ UNCHANGED <<mode, todo, current, recent, extra>>

\* watchPollingWindow is over, or a tick finds that nobody needs it any more.
PollingEnds(w) ==
    /\ stage[w] = "polling"
    /\ Goto(w, IF Abandoned(w) THEN "leaving" ELSE "loop")
    /\ mode' = [mode EXCEPT ![w] = "cdp"]
    /\ OwnStep /\ UNCHANGED <<store, todo, current, recent, extra>>

\* A tick of the window: the probe fails and recordSessionError says so.
PollFails(w) ==
    /\ stage[w] = "polling"
    /\ UNCHANGED rules /\ Persist
    /\ OwnStep /\ UNCHANGED <<stage, mode, todo, current, recent, extra>>

\* The deferred delete of watch.
Leave(w) ==
    /\ stage[w] = "leaving"
    /\ Goto(w, "done")
    /\ watchers' = [watchers EXCEPT ![session[w]] = None]
    /\ stopped' = [stopped EXCEPT ![w] = FALSE]
    /\ mode' = [mode EXCEPT ![w] = "cdp"]
    /\ UNCHANGED <<store, session, todo, current, calling, binding, restarts,
                   intent, recent, extra, idled, lost>>

-----------------------------------------------------------------------------
(* evaluateProbe and executeRule *)

Ready(w) == {r \in Enabled(session[w]) : ~rules[r].cooling}

\* Slip: browserAutomationRuleReady is not asked.
ProbeHot(w) ==
    /\ stage[w] \in {"cdp", "polling"}
    /\ ~stopped[w]
    /\ \E matched \in SUBSET Enabled(session[w]) :
           /\ matched # {}
           /\ Goto(w, "probed")
           /\ todo' = [todo EXCEPT ![w] = matched]
    /\ mode' = [mode EXCEPT ![w] = stage[w]]
    /\ UNCHANGED rules /\ Persist
    /\ OwnStep /\ UNCHANGED <<current, recent, extra>>

\* evaluateProbe up to the observation, when a rule matches an event of the
\* probe: the watcher goes on with copies of these rules.
Probe(w) ==
    /\ stage[w] \in {"cdp", "polling"}
    /\ ~stopped[w]
    /\ \E matched \in SUBSET Ready(w) :
           /\ matched # {}
           /\ Goto(w, "probed")
           /\ todo' = [todo EXCEPT ![w] = matched]
    /\ mode' = [mode EXCEPT ![w] = stage[w]]
    /\ UNCHANGED rules /\ Persist
    /\ OwnStep /\ UNCHANGED <<current, recent, extra>>

\* The observation of the page succeeds, or evaluateProbe gives up the matches.
Observe(w) ==
    /\ stage[w] = "probed"
    /\ UNCHANGED rules
    /\ \/ ~stopped[w] /\ Goto(w, "chosen") /\ UNCHANGED <<disk, failures, unsaved, todo>>
       \/ Goto(w, mode[w]) /\ Persist /\ todo' = [todo EXCEPT ![w] = {}]
    /\ OwnStep /\ UNCHANGED <<mode, current, recent, extra>>

\* setRuleRuntimeStatus
SetStatus(r, status) ==
    rules' = IF Exists(r) THEN [rules EXCEPT ![r].status = status] ELSE rules

\* executeRule is called for the next copy, or there are none left.
NextRule(w) ==
    /\ stage[w] = "chosen"
    /\ \/ /\ todo[w] = {}
          /\ Goto(w, mode[w])
          /\ UNCHANGED <<rules, todo, current>>
       \/ \E r \in todo[w] :
              /\ Goto(w, "triggered")
              /\ todo' = [todo EXCEPT ![w] = @ \ {r}]
              /\ current' = [current EXCEPT ![w] = r]
              /\ SetStatus(r, "triggered")
    /\ OwnStep /\ UNCHANGED <<disk, failures, unsaved, mode, recent, extra>>

\* The target is resolved and the policy allows the action, or not.
Resolve(w) ==
    /\ stage[w] = "triggered"
    /\ \/ Goto(w, "failed") /\ UNCHANGED rules
       \/ Goto(w, "executing") /\ SetStatus(current[w], "executing")
    /\ OwnStep
    /\ UNCHANGED <<disk, failures, unsaved, mode, todo, current, recent, extra>>

\* runTaskAction starts; with a context that is done it does nothing.
Act(w) ==
    /\ stage[w] = "executing"
    /\ \/ /\ stopped[w]
          /\ Goto(w, "failed")
          /\ UNCHANGED extra
       \/ /\ ~stopped[w]
          /\ Goto(w, "acting")
          /\ extra' = IF rules[current[w]].enabled \/ extra[current[w]] = 2
                      THEN extra ELSE [extra EXCEPT ![current[w]] = @ + 1]
    /\ OwnStep /\ UNCHANGED <<store, mode, todo, current, recent>>

\* Slip: an action that failed is tried again.
ActedRetrying(w) ==
    /\ stage[w] = "acting"
    /\ \/ Goto(w, "executing") /\ UNCHANGED rules
       \/ Goto(w, "verifying") /\ SetStatus(current[w], "verifying")
    /\ OwnStep
    /\ UNCHANGED <<disk, failures, unsaved, mode, todo, current, recent, extra>>

\* runTaskAction returns.
Acted(w) ==
    /\ stage[w] = "acting"
    /\ \/ Goto(w, "failed") /\ UNCHANGED rules
       \/ Goto(w, "verifying") /\ SetStatus(current[w], "verifying")
    /\ OwnStep
    /\ UNCHANGED <<disk, failures, unsaved, mode, todo, current, recent, extra>>

\* Slip: the copy is written back.
ConcludeFromCopy(w) ==
    /\ stage[w] \in {"verifying", "failed"}
    /\ Goto(w, "recording")
    /\ \/ /\ ~Exists(current[w])
          /\ UNCHANGED store
       \/ /\ Exists(current[w])
          /\ \E status \in {"watching", "error"} :
                 /\ stage[w] = "failed" => status = "error"
                 /\ rules' = [rules EXCEPT ![current[w]] =
                                 [enabled |-> TRUE, status |-> status,
                                  cooling |-> TRUE]]
          /\ Persist
    /\ recent' = recent \cup {current[w]}
    /\ OwnStep /\ UNCHANGED <<mode, todo, current, extra>>

\* The end of executeRule: the rule as it is now gets its status and its
\* LastFiredAt, unless it was deleted.
Conclude(w) ==
    /\ stage[w] \in {"verifying", "failed"}
    /\ Goto(w, "recording")
    /\ \/ /\ ~Exists(current[w])
          /\ UNCHANGED store
       \/ /\ Exists(current[w])
          /\ \E status \in {"watching", "error"} :
                 /\ stage[w] = "failed" => status = "error"
                 /\ rules' = [rules EXCEPT ![current[w]].status = status,
                                           ![current[w]].cooling = TRUE]
          /\ Persist
    /\ recent' = recent \cup {current[w]}
    /\ OwnStep /\ UNCHANGED <<mode, todo, current, extra>>

\* recordAutomationOutcome
Record(w) ==
    /\ stage[w] = "recording"
    /\ Goto(w, "chosen")
    /\ current' = [current EXCEPT ![w] = None]
    /\ UNCHANGED rules /\ Persist
    /\ OwnStep /\ UNCHANGED <<mode, todo, recent, extra>>

\* The cooldown of r is over.
CooldownEnds(r) ==
    /\ r \in recent
    /\ recent' = recent \ {r}
    /\ rules' = [rules EXCEPT ![r].cooling = FALSE]
    /\ disk' = [disk EXCEPT ![r].cooling = FALSE]
    /\ UNCHANGED <<failures, unsaved, watchers, watching, calling, binding,
                   restarts, intent, extra, idled, lost>>

-----------------------------------------------------------------------------

Execute(w) ==
    \/ Observe(w) \/ NextRule(w) \/ Resolve(w) \/ Act(w) \/ Acted(w)
    \/ Conclude(w) \/ Record(w)

\* What a watcher does by itself, sooner or later.
Proceed(w) ==
    \/ Loop(w) \/ CDPEnds(w) \/ PollingEnds(w) \/ Leave(w) \/ Execute(w)

\* What the browser makes it do.
Notice(w) == Probe(w) \/ CDPFails(w) \/ PollFails(w)

Continue(c) == Ensure(c) \/ StopIfIdle(c) \/ Cancel(c)

Next ==
    \/ \E c \in Callers, r \in Rules : Enable(c, r) \/ Pause(c, r) \/ Delete(c, r)
    \/ \E c \in Callers, s \in Sessions : Close(c, s)
    \/ \E c \in Callers : Continue(c)
    \/ \E w \in Watchers : Proceed(w) \/ Notice(w)
    \/ \E s \in Sessions : Bind(s)
    \/ \E r \in Rules : CooldownEnds(r)
    \/ Restart

Spec == Init /\ [][Next]_vars

\* Callers and watchers run, timers fire, and the calls of the browser return
\* (they have timeouts).  The event stream need not fail, and no rule need
\* match.
FairSpec ==
    /\ Spec
    /\ \A w \in Watchers : WF_vars(Proceed(w))
    /\ \A c \in Callers : WF_vars(Continue(c))
    /\ \A s \in Sessions : WF_vars(Bind(s))

-----------------------------------------------------------------------------
(* Properties *)

Running(w) == stage[w] \notin {"unused", "done", "dead"}

\* Nobody is between the critical sections of a call on this session.
Settled(s) ==
    /\ s \notin binding
    /\ \A c \in Callers : step[c] = "idle" \/ target[c] # s

\* A watcher that will go on probing the session.
Watched(s) ==
    \E w \in Watchers : /\ session[w] = s
                        /\ Running(w)
                        /\ stage[w] # "leaving"
                        /\ ~stopped[w]

\* e.watchers holds exactly the goroutines that have not left, whatever callers
\* do between the critical sections: a session never has two watchers, which
\* would both fire on one event (ensureWatcher, the deferred delete of watch).
OneWatcherPerSession ==
    /\ \A w \in Watchers : Running(w) => watchers[session[w]] = w
    /\ \A s \in Sessions :
           watchers[s] # None => Running(watchers[s]) /\ session[watchers[s]] = s

\* The action of a rule does not start within the cooldown after its last one,
\* although readiness is judged on a copy that is as old as the observation and
\* the actions of other rules before it; also not after a restart, provided the
\* file did not miss a write (browserAutomationRuleReady).
CooldownKept ==
    ~lost => \A w \in Watchers :
                 stage[w] \in {"triggered", "executing", "acting"} =>
                     current[w] \notin recent

\* A rule that was paused, deleted or closed acts at most once more, from the
\* copy a watcher had already taken, until it is enabled again (evaluateProbe).
DisabledActsAtMostOnce == \A r \in Rules : extra[r] <= 1

\* No late write of a watcher undoes what a call did to a rule: it stays
\* paused, closed or deleted (executeRule, setRuleRuntimeStatus).
CallsAreNotUndone ==
    \A r \in Rules :
        /\ rules[r].enabled <=> intent[r] = "on"
        /\ Exists(r) <=> intent[r] \in {"on", "paused", "closed"}

\* The file says of every rule whether it exists, is enabled and is within its
\* cooldown, unless the last write failed: a restart at any point loses none of
\* it, and a failed write is made up for by the next one (persistLocked).
Durable(f) == [r \in Rules |-> [exists |-> f[r] # Absent,
                                enabled |-> f[r].enabled,
                                cooling |-> f[r].cooling]]
FileFollowsRules == unsaved \/ Durable(disk) = Durable(rules)

\* Once the calls on a session have returned and left no rule enabled, no
\* watcher of the session acts on the page any more: each one is cancelled.
\* Failed writes are excluded, after which a call returns without cancelling.
IdleSessionsAreLeftAlone ==
    failures = 0 =>
        \A w \in Watchers :
            /\ Running(w)
            /\ Settled(session[w])
            /\ Enabled(session[w]) = {}
            => stopped[w]

\* A session that has had an enabled rule at all times since the process
\* started has a watcher that goes on, whatever happens to the event stream
\* and whichever rules come and go.
BusySessionsAreWatched ==
    failures = 0 =>
        \A s \in Sessions :
            Settled(s) /\ Enabled(s) # {} /\ s \notin idled => Watched(s)

\* The watcher of a session without enabled rules ends, also when nobody could
\* cancel it because the write of the file failed (watchCDPEvents, watch).
IdleWatchersEnd ==
    \A s \in Sessions :
        Enabled(s) = {} ~> (watchers[s] = None \/ Enabled(s) # {})

\* docs/browser-system-v3.md: "If CDP events are unavailable, Athena explicitly
\* reports the degradation and uses a 30-second lightweight observation
\* fallback": an enabled rule is watched one way or the other.
EnabledRulesAreWatched ==
    failures = 0 =>
        \A s \in Sessions : Settled(s) /\ Enabled(s) # {} => Watched(s)

=============================================================================
