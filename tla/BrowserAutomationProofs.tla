----------------------- MODULE BrowserAutomationProofs -----------------------
(***************************************************************************)
(* Proofs about BrowserAutomation, for any number of rules, sessions,      *)
(* watchers, callers, calls, failed writes and restarts.                   *)
(***************************************************************************)
EXTENDS BrowserAutomation, FiniteSetTheorems, TLAPS

(* Types *)

Values == Rule \cup {Absent}

\* A rule that is there is none of the absent ones, and a rule that is enabled
\* is there.
LEMMA RuleIsThere ==
    /\ Absent \notin Rule
    /\ \A v \in Values : v.enabled => v \in Rule
    /\ \A v \in Values : v # Absent => v \in Rule
    /\ \A v \in Values : v.enabled \in BOOLEAN /\ v.cooling \in BOOLEAN
<1>1. Absent.status = "none" /\ Absent.enabled = FALSE /\ Absent.cooling = FALSE
  BY DEF Absent
<1>2. \A v \in Rule : /\ v.status # "none"
                      /\ v.enabled \in BOOLEAN
                      /\ v.cooling \in BOOLEAN
  BY DEF Rule, Statuses
<1>3. QED
  BY <1>1, <1>2 DEF Values

\* The initial state has the types.
LEMMA InitType == Init => TypeOK
<1> SUFFICES ASSUME Init PROVE TypeOK
  OBVIOUS
<1> USE DEF Init
<1>1. /\ stage \in [Watchers -> Stages]
      /\ \A w \in Watchers : stage[w] \notin Working
  BY DEF Stages, Working
<1>2. /\ rules \in [Rules -> Rule \cup {Absent}]
      /\ disk \in [Rules -> Rule \cup {Absent}]
  OBVIOUS
<1>3. /\ watchers \in [Sessions -> Watchers \cup {None}]
      /\ session \in [Watchers -> Sessions \cup {None}]
      /\ stopped \in [Watchers -> BOOLEAN]
      /\ mode \in [Watchers -> {"cdp", "polling"}]
      /\ todo \in [Watchers -> SUBSET Rules]
      /\ current \in [Watchers -> Rules \cup {None}]
  OBVIOUS
<1>4. /\ step \in [Callers -> {"idle", "ensure", "stop", "cancel"}]
      /\ target \in [Callers -> Sessions \cup {None}]
      /\ victim \in [Callers -> Watchers \cup {None}]
  OBVIOUS
<1>5. /\ intent \in [Rules -> {"none", "on", "paused", "closed", "deleted"}]
      /\ extra \in [Rules -> Nat]
  OBVIOUS
<1>6. QED
  BY <1>1, <1>2, <1>3, <1>4, <1>5 DEF TypeOK

\* persistLocked keeps the types of what it writes.
LEMMA PersistType ==
    ASSUME TypeOK, rules' \in [Rules -> Rule \cup {Absent}], Persist
    PROVE  /\ disk' \in [Rules -> Rule \cup {Absent}]
           /\ failures' \in Nat
           /\ unsaved' \in BOOLEAN
<1>1. CASE Saved
  BY <1>1 DEF TypeOK, Saved
<1>2. CASE NotSaved
  BY <1>2 DEF TypeOK, NotSaved
<1>3. QED
  BY <1>1, <1>2 DEF Persist

\* What is common to the first critical section of every call.
LEMMA CallType ==
    ASSUME TypeOK, NEW c \in Callers, NEW s \in Sessions,
           NEW changed \in [Rules -> Rule \cup {Absent}], Call(c, s, changed)
    PROVE  /\ rules' \in [Rules -> Rule \cup {Absent}]
           /\ target' \in [Callers -> Sessions \cup {None}]
           /\ target'[c] = s
           /\ \A x \in Callers \ {c} : target'[x] = target[x]
           /\ operations' \in Nat
           /\ idled' \subseteq Sessions
BY DEF Call, TypeOK

\* The rules as a call changes them.
LEMMA ChangedType ==
    ASSUME TypeOK, NEW r \in Rules
    PROVE  /\ [rules EXCEPT ![r] = Fresh] \in [Rules -> Rule \cup {Absent}]
           /\ [rules EXCEPT ![r] = Absent] \in [Rules -> Rule \cup {Absent}]
           /\ Exists(r) =>
                  [rules EXCEPT ![r] = On(r)] \in [Rules -> Rule \cup {Absent}]
           /\ Exists(r) =>
                  [rules EXCEPT ![r] = Off(r, "paused")]
                      \in [Rules -> Rule \cup {Absent}]
<1>1. Fresh \in Rule
  BY DEF Fresh, Rule, Statuses
<1>2. Exists(r) => On(r) \in Rule /\ Off(r, "paused") \in Rule
  <2>1. Exists(r) => rules[r] \in Rule
    BY DEF Exists, TypeOK
  <2>2. QED
    BY <2>1 DEF On, Off, Rule, Statuses
<1>3. QED
  BY <1>1, <1>2 DEF TypeOK

LEMMA ClosedType ==
    ASSUME TypeOK, NEW s \in Sessions
    PROVE  Closed(s) \in [Rules -> Rule \cup {Absent}]
<1>1. ASSUME NEW r \in Enabled(s) PROVE Off(r, "session_closed") \in Rule
  <2>1. r \in Rules /\ rules[r] \in Rule
    BY RuleIsThere DEF Enabled, RulesOf, TypeOK, Values
  <2>2. QED
    BY <2>1 DEF Off, Rule, Statuses
<1>2. QED
  BY <1>1 DEF Closed, TypeOK

\* The first critical section of every call keeps the types.
LEMMA CallsType ==
    ASSUME TypeOK, NEW c \in Callers,
           \/ \E r \in Rules : Enable(c, r) \/ Pause(c, r) \/ Delete(c, r)
           \/ \E s \in Sessions : Close(c, s)
    PROVE  TypeOK'
<1> USE SessionOfAssumption
<1> DEFINE Common ==
        /\ rules' \in [Rules -> Rule \cup {Absent}]
        /\ target' \in [Callers -> Sessions \cup {None}]
        /\ target'[c] \in Sessions
        /\ \A x \in Callers \ {c} : target'[x] = target[x]
        /\ operations' \in Nat
        /\ idled' \subseteq Sessions
        /\ UNCHANGED <<watchers, watching, binding, restarts, recent, lost>>
<1>1. ASSUME NEW r \in Rules, Enable(c, r) \/ Pause(c, r) \/ Delete(c, r)
      PROVE  TypeOK'
  <2>1. PICK changed \in [Rules -> Rule \cup {Absent}] :
            Call(c, SessionOf[r], changed)
    BY <1>1, ChangedType DEF Enable, Pause, Delete
  <2>2. Common
    BY <2>1, CallType DEF Call
  <2>3. PICK next \in {"ensure", "stop"} : Save(c, next)
    BY <1>1 DEF Enable, Pause, Delete
  <2>4. /\ disk' \in [Rules -> Rule \cup {Absent}]
        /\ failures' \in Nat
        /\ unsaved' \in BOOLEAN
    BY <2>2, <2>3, PersistType DEF Save, Persist
  <2>5. /\ step' \in [Callers -> {"idle", "ensure", "stop", "cancel"}]
        /\ \A x \in Callers \ {c} : step'[x] = step[x]
        /\ UNCHANGED victim
    BY <2>3 DEF Save, TypeOK
  <2>6. /\ intent' \in [Rules -> {"none", "on", "paused", "closed", "deleted"}]
        /\ extra' \in [Rules -> Nat]
    <3>1. CASE Enable(c, r)
      BY <3>1 DEF Enable, TypeOK
    <3>2. CASE Pause(c, r)
      BY <3>2 DEF Pause, TypeOK
    <3>3. CASE Delete(c, r)
      BY <3>3 DEF Delete, TypeOK
    <3>4. QED
      BY <1>1, <3>1, <3>2, <3>3
  <2>7. QED
    BY <2>2, <2>4, <2>5, <2>6 DEF TypeOK, watching
<1>2. ASSUME NEW s \in Sessions, Close(c, s) PROVE TypeOK'
  <2>1. Common
    BY <1>2, ClosedType, CallType DEF Close, Call
  <2>2. /\ disk' \in [Rules -> Rule \cup {Absent}]
        /\ failures' \in Nat
        /\ unsaved' \in BOOLEAN
    BY <1>2, <2>1, PersistType DEF Close
  <2>3. /\ step' \in [Callers -> {"idle", "ensure", "stop", "cancel"}]
        /\ \A x \in Callers \ {c} : step'[x] = step[x]
        /\ victim' \in [Callers -> Watchers \cup {None}]
    BY <1>2 DEF Close, TypeOK
  <2>4. /\ intent' \in [Rules -> {"none", "on", "paused", "closed", "deleted"}]
        /\ extra' \in [Rules -> Nat]
    BY <1>2 DEF Close, TypeOK
  <2>5. QED
    BY <2>1, <2>2, <2>3, <2>4 DEF TypeOK, watching
<1>3. QED
  BY <1>1, <1>2

\* ensureWatcher keeps the types.
LEMMA StartType ==
    ASSUME TypeOK, NEW s \in Sessions, StartWatcher(s)
    PROVE  /\ watchers' \in [Sessions -> Watchers \cup {None}]
           /\ stage' \in [Watchers -> Stages]
           /\ session' \in [Watchers -> Sessions \cup {None}]
           /\ \A w \in Watchers :
                  stage'[w] # "unused" => session'[w] \in Sessions
           /\ \A w \in Watchers : stage'[w] \in Working => stage[w] \in Working
           /\ UNCHANGED <<stopped, mode, todo, current>>
BY DEF StartWatcher, Spawn, Stages, Working, TypeOK, watching

\* The further critical sections of the calls keep the types.
LEMMA ContinueType ==
    ASSUME TypeOK, NEW c \in Callers, Continue(c)
    PROVE  TypeOK'
<1> USE DEF store, watching
<1>1. CASE Ensure(c)
  <2>1. target[c] \in Sessions
    BY <1>1 DEF Ensure, TypeOK
  <2>2. QED
    BY <1>1, <2>1, StartType DEF Ensure, TypeOK
<1>2. CASE StopIfIdle(c)
  BY <1>2 DEF StopIfIdle, TypeOK
<1>3. CASE Cancel(c)
  BY <1>3 DEF Cancel, TypeOK
<1>4. QED
  BY <1>1, <1>2, <1>3 DEF Continue

\* The end of a process and the start of the next one keep the types.
LEMMA RestartType == TypeOK /\ Restart => TypeOK'
<1> SUFFICES ASSUME TypeOK, Restart PROVE TypeOK'
  OBVIOUS
<1>1. /\ stage' \in [Watchers -> Stages]
      /\ \A w \in Watchers : stage'[w] # "unused" => stage[w] # "unused"
      /\ \A w \in Watchers : stage'[w] \notin Working
  BY DEF Restart, TypeOK, Stages, Working
<1>2. /\ rules' \in [Rules -> Rule \cup {Absent}]
      /\ intent' \in [Rules -> {"none", "on", "paused", "closed", "deleted"}]
      /\ extra' \in [Rules -> Nat]
      /\ unsaved' \in BOOLEAN /\ lost' \in BOOLEAN
  BY DEF Restart, TypeOK
<1>3. /\ watchers' \in [Sessions -> Watchers \cup {None}]
      /\ stopped' \in [Watchers -> BOOLEAN]
      /\ mode' \in [Watchers -> {"cdp", "polling"}]
      /\ todo' \in [Watchers -> SUBSET Rules]
      /\ current' \in [Watchers -> Rules \cup {None}]
      /\ step' \in [Callers -> {"idle", "ensure", "stop", "cancel"}]
      /\ \A c \in Callers : step'[c] = "idle"
      /\ target' \in [Callers -> Sessions \cup {None}]
      /\ victim' \in [Callers -> Watchers \cup {None}]
      /\ binding' \subseteq Sessions /\ idled' \subseteq Sessions
  BY DEF Restart
<1>4. QED
  BY <1>1, <1>2, <1>3 DEF Restart, TypeOK

\* A watcher goes on, to a place that fits what it works on.
LEMMA OwnStepType ==
    ASSUME TypeOK, NEW w \in Watchers, NEW next \in Stages \ {"unused"},
           stage[w] # "unused",
           stage' = [stage EXCEPT ![w] = next],
           next \in Working => current'[w] \in Rules,
           OwnStep,
           rules' \in [Rules -> Rule \cup {Absent}],
           Persist \/ UNCHANGED <<disk, failures, unsaved>>,
           mode' \in [Watchers -> {"cdp", "polling"}],
           todo' \in [Watchers -> SUBSET Rules],
           current' \in [Watchers -> Rules \cup {None}],
           \A x \in Watchers \ {w} : current'[x] = current[x],
           recent' \subseteq Rules,
           extra' \in [Rules -> Nat]
    PROVE  TypeOK'
<1>1. /\ disk' \in [Rules -> Rule \cup {Absent}]
      /\ failures' \in Nat
      /\ unsaved' \in BOOLEAN
  BY PersistType DEF TypeOK
<1>2. /\ stage' \in [Watchers -> Stages]
      /\ \A x \in Watchers : stage'[x] # "unused" => stage[x] # "unused"
      /\ \A x \in Watchers : stage'[x] \in Working => current'[x] \in Rules
  BY DEF TypeOK
<1>3. QED
  BY <1>1, <1>2 DEF TypeOK, OwnStep, calling

\* setRuleRuntimeStatus keeps the types.
LEMMA SetStatusType ==
    ASSUME TypeOK, NEW r \in Rules, NEW status \in Statuses,
           SetStatus(r, status)
    PROVE  rules' \in [Rules -> Rule \cup {Absent}]
<1>1. Exists(r) => [rules[r] EXCEPT !.status = status] \in Rule
  <2>1. Exists(r) => rules[r] \in Rule
    BY DEF Exists, TypeOK
  <2>2. QED
    BY <2>1 DEF Rule
<1>2. QED
  BY <1>1 DEF SetStatus, TypeOK

\* What a watcher does between two executions of rules keeps the types.
LEMMA WatchingType ==
    ASSUME TypeOK, NEW w \in Watchers,
           \/ Loop(w) \/ CDPEnds(w) \/ CDPFails(w) \/ PollingEnds(w)
           \/ PollFails(w) \/ Leave(w)
    PROVE  TypeOK'
<1> USE DEF store
<1>0. rules \in [Rules -> Rule \cup {Absent}]
  BY DEF TypeOK
<1>1. CASE Loop(w)
  BY <1>0, <1>1, OwnStepType DEF Loop, Goto, Stages, Working, TypeOK
<1>2. CASE CDPEnds(w)
  BY <1>0, <1>2, OwnStepType DEF CDPEnds, Goto, Stages, Working, TypeOK
<1>3. CASE CDPFails(w)
  BY <1>0, <1>3, OwnStepType DEF CDPFails, Goto, Stages, Working, TypeOK
<1>4. CASE PollingEnds(w)
  <2>1. PICK next \in {"leaving", "loop"} : Goto(w, next)
    BY <1>4 DEF PollingEnds
  <2>2. mode' \in [Watchers -> {"cdp", "polling"}]
    BY <1>4 DEF PollingEnds, TypeOK
  <2>3. QED
    BY <1>0, <1>4, <2>1, <2>2, OwnStepType
       DEF PollingEnds, Goto, Stages, Working, TypeOK
<1>5. CASE PollFails(w)
  <2>1. /\ disk' \in [Rules -> Rule \cup {Absent}]
        /\ failures' \in Nat
        /\ unsaved' \in BOOLEAN
    BY <1>0, <1>5, PersistType DEF PollFails
  <2>2. QED
    BY <1>5, <2>1 DEF PollFails, OwnStep, calling, TypeOK
<1>6. CASE Leave(w)
  <2>1. /\ stage' \in [Watchers -> Stages]
        /\ \A x \in Watchers : stage'[x] # "unused" => stage[x] # "unused"
        /\ \A x \in Watchers : stage'[x] \in Working => stage[x] \in Working
    BY <1>6 DEF Leave, Goto, Stages, Working, TypeOK
  <2>2. /\ watchers' \in [Sessions -> Watchers \cup {None}]
        /\ stopped' \in [Watchers -> BOOLEAN]
        /\ mode' \in [Watchers -> {"cdp", "polling"}]
    BY <1>6 DEF Leave, TypeOK
  <2>3. QED
    BY <1>6, <2>1, <2>2 DEF Leave, TypeOK, calling
<1>7. QED
  BY <1>1, <1>2, <1>3, <1>4, <1>5, <1>6

\* What a watcher does with the rules that match keeps the types.
LEMMA ExecutingType ==
    ASSUME TypeOK, NEW w \in Watchers, Probe(w) \/ Execute(w)
    PROVE  TypeOK'
<1> USE DEF store
<1>0. rules \in [Rules -> Rule \cup {Absent}]
  BY DEF TypeOK
<1>1. CASE Probe(w)
  <2>1. /\ todo' \in [Watchers -> SUBSET Rules]
        /\ mode' \in [Watchers -> {"cdp", "polling"}]
    BY <1>1 DEF Probe, Ready, Enabled, RulesOf, TypeOK
  <2>2. QED
    BY <1>0, <1>1, <2>1, OwnStepType DEF Probe, Goto, Stages, Working, TypeOK
<1>2. CASE Observe(w)
  <2>1. PICK next \in {"chosen", "cdp", "polling"} : Goto(w, next)
    BY <1>2 DEF Observe, TypeOK
  <2>2. todo' \in [Watchers -> SUBSET Rules]
    BY <1>2 DEF Observe, TypeOK
  <2>3. QED
    BY <1>0, <1>2, <2>1, <2>2, OwnStepType
       DEF Observe, Goto, Stages, Working, TypeOK
<1>3. CASE NextRule(w)
  <2>1. CASE todo[w] = {} /\ Goto(w, mode[w]) /\ UNCHANGED <<rules, todo, current>>
    <3>1. mode[w] \in {"cdp", "polling"}
      BY DEF TypeOK
    <3>2. QED
      BY <1>0, <1>3, <2>1, <3>1, OwnStepType
         DEF NextRule, Goto, Stages, Working, TypeOK
  <2>2. ASSUME NEW r \in todo[w], Goto(w, "triggered"),
               todo' = [todo EXCEPT ![w] = @ \ {r}],
               current' = [current EXCEPT ![w] = r],
               SetStatus(r, "triggered")
        PROVE  TypeOK'
    <3>1. r \in Rules
      BY DEF TypeOK
    <3>2. rules' \in [Rules -> Rule \cup {Absent}]
      BY <2>2, <3>1, SetStatusType DEF Statuses
    <3>3. /\ todo' \in [Watchers -> SUBSET Rules]
          /\ current' \in [Watchers -> Rules \cup {None}]
          /\ current'[w] \in Rules
          /\ \A x \in Watchers \ {w} : current'[x] = current[x]
      BY <2>2, <3>1 DEF TypeOK
    <3>4. QED
      BY <1>3, <2>2, <3>2, <3>3, OwnStepType
         DEF NextRule, Goto, Stages, Working, TypeOK
  <2>3. QED
    BY <1>3, <2>1, <2>2 DEF NextRule
<1>4. CASE Resolve(w) \/ Acted(w)
  <2>1. /\ current[w] \in Rules
        /\ stage[w] # "unused"
        /\ UNCHANGED <<disk, failures, unsaved, mode, todo, current, recent, extra>>
        /\ OwnStep
    BY <1>4 DEF Resolve, Acted, TypeOK, Working
  <2>2. rules' \in [Rules -> Rule \cup {Absent}]
    BY <1>0, <1>4, <2>1, SetStatusType DEF Resolve, Acted, Statuses
  <2>3. PICK next \in {"failed", "executing", "verifying"} : Goto(w, next)
    BY <1>4 DEF Resolve, Acted
  <2>4. QED
    BY <2>1, <2>2, <2>3, OwnStepType DEF Goto, Stages, Working, TypeOK
<1>5. CASE Act(w)
  <2>1. current[w] \in Rules /\ stage[w] # "unused"
    BY <1>5 DEF Act, TypeOK, Working
  <2>2. extra' \in [Rules -> Nat]
    BY <1>5, <2>1 DEF Act, TypeOK
  <2>3. PICK next \in {"failed", "acting"} : Goto(w, next)
    BY <1>5 DEF Act
  <2>4. QED
    BY <1>0, <1>5, <2>1, <2>2, <2>3, OwnStepType
       DEF Act, Goto, Stages, Working, TypeOK
<1>6. CASE Conclude(w)
  <2>1. current[w] \in Rules /\ stage[w] # "unused"
    BY <1>6 DEF Conclude, TypeOK, Working
  <2>2. rules' \in [Rules -> Rule \cup {Absent}]
    <3>1. CASE ~Exists(current[w])
      BY <1>0, <1>6, <3>1 DEF Conclude
    <3>2. CASE Exists(current[w])
      <4>1. PICK status \in {"watching", "error"} :
                rules' = [rules EXCEPT ![current[w]].status = status,
                                       ![current[w]].cooling = TRUE]
        BY <1>6, <3>2 DEF Conclude
      <4>2. rules[current[w]] \in Rule
        BY <2>1, <3>2 DEF Exists, TypeOK
      <4>3. [rules[current[w]] EXCEPT !.status = status, !.cooling = TRUE] \in Rule
        BY <4>2 DEF Rule, Statuses
      <4>4. QED
        BY <1>0, <2>1, <4>1, <4>3
    <3>3. QED
      BY <3>1, <3>2
  <2>3. recent' \subseteq Rules
    BY <1>6, <2>1 DEF Conclude, TypeOK
  <2>4. QED
    BY <1>6, <2>1, <2>2, <2>3, OwnStepType
       DEF Conclude, Goto, Stages, Working, TypeOK
<1>7. CASE Record(w)
  <2>1. current' \in [Watchers -> Rules \cup {None}]
    BY <1>7 DEF Record, TypeOK
  <2>2. QED
    BY <1>0, <1>7, <2>1, OwnStepType DEF Record, Goto, Stages, Working, TypeOK
<1>8. QED
  BY <1>1, <1>2, <1>3, <1>4, <1>5, <1>6, <1>7 DEF Execute

\* A rule that cools down stays the rule that it is.
LEMMA CooledType ==
    ASSUME NEW v \in Values
    PROVE  /\ [v EXCEPT !.cooling = FALSE] \in Values
           /\ [v EXCEPT !.cooling = FALSE] = Absent <=> v = Absent
           /\ [v EXCEPT !.cooling = FALSE].enabled = v.enabled
           /\ [v EXCEPT !.cooling = FALSE].cooling = FALSE
<1>1. CASE v \in Rule
  <2>1. /\ [v EXCEPT !.cooling = FALSE] \in Rule
        /\ [v EXCEPT !.cooling = FALSE].enabled = v.enabled
        /\ [v EXCEPT !.cooling = FALSE].cooling = FALSE
    BY <1>1 DEF Rule
  <2>2. QED
    BY <1>1, <2>1, RuleIsThere DEF Values
<1>2. CASE v = Absent
  <2>1. [Absent EXCEPT !.cooling = FALSE] = Absent
    <3>1. \A u \in [enabled : {FALSE}, status : {"none"}, cooling : {FALSE}] :
              [u EXCEPT !.cooling = FALSE] = u
      OBVIOUS
    <3>2. Absent \in [enabled : {FALSE}, status : {"none"}, cooling : {FALSE}]
      BY DEF Absent
    <3>3. QED
      BY <3>1, <3>2
  <2>2. Absent.cooling = FALSE
    BY DEF Absent
  <2>3. QED
    BY <1>2, <2>1, <2>2 DEF Values
<1>3. QED
  BY <1>1, <1>2 DEF Values

\* Every step keeps the types.
LEMMA StepType == TypeOK /\ [Next]_vars => TypeOK'
<1> SUFFICES ASSUME TypeOK, [Next]_vars PROVE TypeOK'
  OBVIOUS
<1>1. ASSUME NEW s \in Sessions, Bind(s) PROVE TypeOK'
  BY <1>1, StartType DEF Bind, TypeOK, store, calling
<1>2. ASSUME NEW r \in Rules, CooldownEnds(r) PROVE TypeOK'
  <2>1. \A v \in Values : [v EXCEPT !.cooling = FALSE] \in Values
    BY CooledType
  <2>2. /\ rules' \in [Rules -> Rule \cup {Absent}]
        /\ disk' \in [Rules -> Rule \cup {Absent}]
    BY <1>2, <2>1 DEF CooldownEnds, TypeOK, Values
  <2>3. QED
    BY <1>2, <2>2 DEF CooldownEnds, TypeOK, watching, calling
<1>3. CASE UNCHANGED vars
  BY <1>3 DEF vars, store, watching, calling, TypeOK
<1>4. QED
  BY <1>1, <1>2, <1>3, CallsType, ContinueType, RestartType, WatchingType,
     ExecutingType DEF Next, Proceed, Notice

\* Every reachable state of Watch Mode is well typed.
THEOREM TypeCorrect == Spec => []TypeOK
BY InitType, StepType, PTL DEF Spec

-----------------------------------------------------------------------------
(* What steps leave alone *)

\* A step neither creates, deletes, enables nor disables a rule.
SameRules ==
    \A r \in Rules : /\ rules'[r].enabled = rules[r].enabled
                     /\ rules'[r] = Absent <=> rules[r] = Absent

\* setRuleRuntimeStatus changes only the status of a rule that is there.
LEMMA SetStatusFrame ==
    ASSUME TypeOK, NEW r \in Rules, NEW status \in Statuses,
           SetStatus(r, status)
    PROVE  /\ SameRules
           /\ \A x \in Rules : rules'[x].cooling = rules[x].cooling
<1>1. ASSUME Exists(r)
      PROVE  /\ rules'[r] \in Rule
             /\ rules'[r].enabled = rules[r].enabled
             /\ rules'[r].cooling = rules[r].cooling
  <2>1. rules[r] \in Rule
    BY <1>1 DEF Exists, TypeOK
  <2>2. rules'[r] = [rules[r] EXCEPT !.status = status]
    BY <1>1 DEF SetStatus, TypeOK
  <2>3. QED
    BY <2>1, <2>2 DEF Rule
<1>2. \A x \in Rules \ {r} : rules'[x] = rules[x]
  BY DEF SetStatus, TypeOK
<1>3. ~Exists(r) => rules' = rules
  BY DEF SetStatus
<1>4. QED
  BY <1>1, <1>2, <1>3, RuleIsThere DEF SameRules, Exists

\* The end of executeRule starts the cooldown of the rule and changes nothing
\* else that counts.
LEMMA ConcludeFrame ==
    ASSUME TypeOK, NEW w \in Watchers, Conclude(w)
    PROVE  /\ current[w] \in Rules
           /\ SameRules
           /\ \A x \in Rules \ {current[w]} : rules'[x].cooling = rules[x].cooling
           /\ Exists(current[w]) => rules'[current[w]].cooling
<1> DEFINE r == current[w]
<1>1. r \in Rules
  BY DEF Conclude, TypeOK, Working
<1>2. CASE ~Exists(r)
  BY <1>1, <1>2 DEF Conclude, SameRules, store
<1>3. CASE Exists(r)
  <2>1. PICK status \in {"watching", "error"} :
            rules' = [rules EXCEPT ![r].status = status, ![r].cooling = TRUE]
    BY <1>3 DEF Conclude
  <2>2. rules[r] \in Rule
    BY <1>1, <1>3 DEF Exists, TypeOK
  <2>3. rules'[r] = [rules[r] EXCEPT !.status = status, !.cooling = TRUE]
    BY <1>1, <2>1 DEF TypeOK
  <2>4. /\ rules'[r] \in Rule
        /\ rules'[r].enabled = rules[r].enabled
        /\ rules'[r].cooling = TRUE
    BY <2>2, <2>3 DEF Rule, Statuses
  <2>5. \A x \in Rules \ {r} : rules'[x] = rules[x]
    BY <1>1, <2>1 DEF TypeOK
  <2>6. QED
    BY <1>1, <1>3, <2>4, <2>5, RuleIsThere DEF SameRules, Exists
<1>4. QED
  BY <1>2, <1>3

LEMMA CooldownEndsFrame ==
    ASSUME TypeOK, NEW r \in Rules, CooldownEnds(r)
    PROVE  /\ SameRules
           /\ \A x \in Rules \ {r} : rules'[x] = rules[x] /\ disk'[x] = disk[x]
           /\ rules'[r].cooling = FALSE /\ disk'[r].cooling = FALSE
           /\ disk'[r].enabled = disk[r].enabled
           /\ disk'[r] = Absent <=> disk[r] = Absent
<1>1. /\ rules'[r] = [rules[r] EXCEPT !.cooling = FALSE]
      /\ disk'[r] = [disk[r] EXCEPT !.cooling = FALSE]
      /\ \A x \in Rules \ {r} : rules'[x] = rules[x] /\ disk'[x] = disk[x]
  BY DEF CooldownEnds, TypeOK
<1>2. rules[r] \in Values /\ disk[r] \in Values
  BY DEF TypeOK, Values
<1>3. /\ rules'[r] = Absent <=> rules[r] = Absent
      /\ disk'[r] = Absent <=> disk[r] = Absent
      /\ rules'[r].enabled = rules[r].enabled /\ rules'[r].cooling = FALSE
      /\ disk'[r].enabled = disk[r].enabled /\ disk'[r].cooling = FALSE
  BY <1>1, <1>2, CooledType
<1>4. QED
  BY <1>1, <1>3 DEF SameRules

\* Without a change of the rules that are enabled, every session has the
\* enabled rules it had.
LEMMA SameEnabled ==
    ASSUME SameRules, NEW s
    PROVE  Enabled(s)' = Enabled(s)
BY DEF SameRules, Enabled, RulesOf

\* Where a goroutine is that has neither left nor died.
Active == Stages \ {"unused", "done", "dead"}

LEMMA ActiveRuns ==
    ASSUME TypeOK, NEW w \in Watchers
    PROVE  Running(w) <=> stage[w] \in Active
BY DEF Running, Active, TypeOK

\* A watcher that does not leave stays active, touches no other watcher, no
\* caller, and no rule but for its status and cooldown; it turns to the exit
\* only when it was cancelled or has no enabled rule.
LEMMA WatcherFrame ==
    ASSUME TypeOK, NEW w \in Watchers, Proceed(w) \/ Notice(w), ~Leave(w)
    PROVE  /\ OwnStep
           /\ stage[w] \in Active /\ stage'[w] \in Active
           /\ \A x \in Watchers \ {w} : /\ stage'[x] = stage[x]
                                        /\ todo'[x] = todo[x]
                                        /\ current'[x] = current[x]
           /\ stage'[w] = "leaving" => Abandoned(w) \/ stage[w] = "leaving"
           /\ SameRules
<1> USE DEF store, Goto
<1>0. /\ stage \in [Watchers -> Stages]
      /\ mode[w] \in {"cdp", "polling"}
      /\ todo \in [Watchers -> SUBSET Rules]
      /\ current \in [Watchers -> Rules \cup {None}]
  BY DEF TypeOK
<1>1. UNCHANGED rules => SameRules
  BY DEF SameRules
<1>2. CASE Loop(w)
  BY <1>0, <1>1, <1>2 DEF Loop, Active, Stages, Working
<1>3. CASE CDPEnds(w)
  BY <1>0, <1>1, <1>3 DEF CDPEnds, Active, Stages, Working
<1>4. CASE PollingEnds(w)
  BY <1>0, <1>1, <1>4 DEF PollingEnds, Active, Stages, Working
<1>5. CASE Observe(w)
  BY <1>0, <1>1, <1>5 DEF Observe, Active, Stages, Working
<1>6. CASE NextRule(w)
  <2>1. ASSUME NEW r \in todo[w], SetStatus(r, "triggered") PROVE SameRules
    <3>1. r \in Rules
      BY <1>0
    <3>2. QED
      BY <2>1, <3>1, SetStatusFrame DEF Statuses
  <2>2. QED
    BY <1>0, <1>1, <1>6, <2>1 DEF NextRule, Active, Stages, Working
<1>7. CASE Resolve(w) \/ Acted(w)
  <2>1. current[w] \in Rules
    BY <1>7 DEF Resolve, Acted, TypeOK, Working
  <2>2. SameRules
    BY <1>1, <1>7, <2>1, SetStatusFrame DEF Resolve, Acted, Statuses
  <2>3. QED
    BY <1>0, <1>7, <2>2 DEF Resolve, Acted, Active, Stages, Working
<1>8. CASE Act(w)
  BY <1>0, <1>1, <1>8 DEF Act, Active, Stages, Working
<1>9. CASE Conclude(w)
  BY <1>0, <1>9, ConcludeFrame DEF Conclude, Active, Stages, Working
<1>10. CASE Record(w)
  BY <1>0, <1>1, <1>10 DEF Record, Active, Stages, Working
<1>11. CASE Probe(w)
  BY <1>0, <1>1, <1>11 DEF Probe, Active, Stages, Working
<1>12. CASE CDPFails(w)
  BY <1>0, <1>1, <1>12 DEF CDPFails, Abandoned, Active, Stages, Working
<1>13. CASE PollFails(w)
  BY <1>0, <1>1, <1>13 DEF PollFails, Active, Stages, Working
<1>14. QED
  BY <1>2, <1>3, <1>4, <1>5, <1>6, <1>7, <1>8, <1>9, <1>10, <1>11, <1>12,
     <1>13 DEF Proceed, Execute, Notice

\* create, setEnabled and delete change one rule, say so in `intent`, and leave
\* the caller with the watcher of its session to start or to stop; after an
\* error of the write there is nothing left to do.
LEMMA CallFrame ==
    ASSUME TypeOK, NEW c \in Callers, NEW r \in Rules,
           Enable(c, r) \/ Pause(c, r) \/ Delete(c, r)
    PROVE  /\ \A x \in Rules \ {r} : /\ rules'[x] = rules[x]
                                     /\ intent'[x] = intent[x]
                                     /\ extra'[x] = extra[x]
           /\ rules'[r].enabled <=> intent'[r] = "on"
           /\ rules'[r] # Absent <=> intent'[r] \in {"on", "paused"}
           /\ intent'[r] # "none"
           /\ \/ intent[r] = "none"
              \/ rules'[r] = Absent
              \/ Exists(r) /\ rules'[r].cooling = rules[r].cooling
           /\ extra'[r] = IF rules'[r].enabled THEN 0 ELSE extra[r]
           /\ Persist
           /\ failures' = 0 =>
                  /\ failures = 0
                  /\ step' = [step EXCEPT ![c] = IF rules'[r].enabled
                                                 THEN "ensure" ELSE "stop"]
           /\ step[c] = "idle" /\ step'[c] # "cancel"
           /\ \A x \in Callers \ {c} : step'[x] = step[x]
           /\ target' = [target EXCEPT ![c] = SessionOf[r]]
           /\ idled' = IF /\ Enabled(SessionOf[r]) # {}
                          /\ Enabled(SessionOf[r])' = {}
                       THEN idled \cup {SessionOf[r]} ELSE idled
           /\ binding = {}
           /\ UNCHANGED <<watchers, watching, binding, victim, recent, lost>>
<1>1. PICK changed : /\ Call(c, SessionOf[r], changed)
                     /\ rules' = changed
  BY DEF Enable, Pause, Delete, Call
<1>2. /\ Exists(r) =>
           /\ On(r) \in Rule /\ On(r).enabled /\ On(r).cooling = rules[r].cooling
           /\ Off(r, "paused") \in Rule /\ ~Off(r, "paused").enabled
           /\ Off(r, "paused").cooling = rules[r].cooling
      /\ Fresh \in Rule /\ Fresh.enabled /\ ~Absent.enabled
  <2>1. Exists(r) => rules[r] \in Rule
    BY DEF Exists, TypeOK
  <2>2. QED
    BY <2>1 DEF On, Off, Fresh, Absent, Rule, Statuses
<1>3. /\ \A x \in Rules \ {r} : /\ rules'[x] = rules[x]
                                /\ intent'[x] = intent[x]
                                /\ extra'[x] = extra[x]
      /\ rules'[r].enabled <=> intent'[r] = "on"
      /\ rules'[r] # Absent <=> intent'[r] \in {"on", "paused"}
      /\ intent'[r] # "none"
      /\ \/ intent[r] = "none"
         \/ rules'[r] = Absent
         \/ Exists(r) /\ rules'[r].cooling = rules[r].cooling
      /\ extra'[r] = IF rules'[r].enabled THEN 0 ELSE extra[r]
      /\ \E next \in {"ensure", "stop"} :
             /\ Save(c, next)
             /\ next = IF rules'[r].enabled THEN "ensure" ELSE "stop"
  <2>1. CASE Enable(c, r)
    <3>1. /\ \/ intent[r] = "none" /\ rules' = [rules EXCEPT ![r] = Fresh]
             \/ Exists(r) /\ rules' = [rules EXCEPT ![r] = On(r)]
          /\ intent' = [intent EXCEPT ![r] = "on"]
          /\ extra' = [extra EXCEPT ![r] = 0]
          /\ Save(c, "ensure")
      BY <2>1 DEF Enable, Call
    <3>2. QED
      BY <1>2, <3>1, RuleIsThere DEF TypeOK
  <2>2. CASE Pause(c, r)
    <3>1. /\ Exists(r)
          /\ rules' = [rules EXCEPT ![r] = Off(r, "paused")]
          /\ intent' = [intent EXCEPT ![r] = "paused"]
          /\ extra' = extra
          /\ Save(c, "stop")
      BY <2>2 DEF Pause, Call
    <3>2. QED
      BY <1>2, <3>1, RuleIsThere DEF TypeOK
  <2>3. CASE Delete(c, r)
    <3>1. /\ rules' = [rules EXCEPT ![r] = Absent]
          /\ intent' = [intent EXCEPT ![r] = "deleted"]
          /\ extra' = extra
          /\ Save(c, "stop")
      BY <2>3 DEF Delete, Call
    <3>2. QED
      BY <1>2, <3>1 DEF TypeOK
  <2>4. QED
    BY <2>1, <2>2, <2>3
<1>4. /\ Persist
      /\ failures' = 0 =>
             /\ failures = 0
             /\ step' = [step EXCEPT ![c] = IF rules'[r].enabled
                                            THEN "ensure" ELSE "stop"]
      /\ step'[c] # "cancel"
      /\ \A x \in Callers \ {c} : step'[x] = step[x]
      /\ UNCHANGED victim
  BY <1>3 DEF Save, Persist, Saved, NotSaved, TypeOK
<1>5. /\ step[c] = "idle"
      /\ target' = [target EXCEPT ![c] = SessionOf[r]]
      /\ idled' = IF /\ Enabled(SessionOf[r]) # {}
                     /\ \A x \in RulesOf(SessionOf[r]) : ~rules'[x].enabled
                  THEN idled \cup {SessionOf[r]} ELSE idled
      /\ binding = {}
      /\ UNCHANGED <<watchers, watching, binding, recent, lost>>
  BY <1>1 DEF Call
<1>6. Enabled(SessionOf[r])' = {}
          <=> \A x \in RulesOf(SessionOf[r]) : ~rules'[x].enabled
  BY DEF Enabled, RulesOf
<1>7. QED
  BY <1>3, <1>4, <1>5, <1>6

\* CloseSession disables the enabled rules of one session and has the watcher
\* of the session, if there is one, still to cancel.
LEMMA CloseFrame ==
    ASSUME TypeOK, NEW c \in Callers, NEW s \in Sessions, Close(c, s)
    PROVE  /\ \A x \in Rules :
                  /\ rules'[x] = Absent <=> rules[x] = Absent
                  /\ rules'[x].enabled <=> rules[x].enabled /\ SessionOf[x] # s
                  /\ rules'[x].cooling = rules[x].cooling
                  /\ intent'[x] = IF x \in Enabled(s) THEN "closed"
                                                      ELSE intent[x]
           /\ Persist
           /\ step[c] = "idle"
           /\ step' = [step EXCEPT ![c] = "cancel"]
           /\ target' = [target EXCEPT ![c] = s]
           /\ victim' = [victim EXCEPT ![c] = watchers[s]]
           /\ idled' = IF Enabled(s) # {} THEN idled \cup {s} ELSE idled
           /\ binding = {}
           /\ UNCHANGED <<watchers, watching, binding, extra, recent, lost>>
<1>1. ASSUME NEW x \in Rules
      PROVE  /\ rules'[x] = Absent <=> rules[x] = Absent
             /\ rules'[x].enabled <=> rules[x].enabled /\ SessionOf[x] # s
             /\ rules'[x].cooling = rules[x].cooling
  <2>1. rules'[x] = IF x \in Enabled(s) THEN Off(x, "session_closed")
                                        ELSE rules[x]
    BY DEF Close, Call, Closed
  <2>2. CASE x \in Enabled(s)
    <3>1. rules[x] \in Rule /\ rules[x].enabled /\ SessionOf[x] = s
      BY <2>2, RuleIsThere DEF Enabled, RulesOf, TypeOK, Values
    <3>2. /\ Off(x, "session_closed") \in Rule
          /\ ~Off(x, "session_closed").enabled
          /\ Off(x, "session_closed").cooling = rules[x].cooling
      BY <3>1 DEF Off, Rule, Statuses
    <3>3. QED
      BY <2>1, <2>2, <3>1, <3>2, RuleIsThere
  <2>3. CASE x \notin Enabled(s)
    <3>1. ~(rules[x].enabled /\ SessionOf[x] = s)
      BY <2>3 DEF Enabled, RulesOf
    <3>2. rules[x].enabled \in BOOLEAN
      BY RuleIsThere DEF TypeOK, Values
    <3>3. QED
      BY <2>1, <2>3, <3>1, <3>2
  <2>4. QED
    BY <2>2, <2>3
<1>2. \A x \in RulesOf(s) : ~Closed(s)[x].enabled
  BY <1>1 DEF RulesOf, Close, Call
<1>3. QED
  BY <1>1, <1>2 DEF Close, Call

-----------------------------------------------------------------------------
(* One watcher per session *)

\* What is cancelled was a watcher of the session of the call: no goroutine
\* that a later call may still start.
VictimsAreOfSession ==
    \A c \in Callers : step[c] = "cancel" /\ victim[c] # None =>
        stage[victim[c]] # "unused" /\ session[victim[c]] = target[c]

WatchersInv == OneWatcherPerSession /\ VictimsAreOfSession

\* The steps that start and end no watcher, and give no caller one to cancel.
LEMMA WatchersKept ==
    ASSUME TypeOK, WatchersInv, UNCHANGED <<watchers, session>>,
           \A w \in Watchers : /\ Running(w)' <=> Running(w)
                               /\ stage[w] # "unused" => stage'[w] # "unused",
           \A c \in Callers : step'[c] = "cancel" =>
               /\ step[c] = "cancel"
               /\ victim'[c] = victim[c] /\ target'[c] = target[c]
    PROVE  WatchersInv'
<1>1. \A s \in Sessions : watchers[s] # None => watchers[s] \in Watchers
  BY DEF TypeOK
<1>2. \A c \in Callers : victim[c] # None => victim[c] \in Watchers
  BY DEF TypeOK
<1>3. OneWatcherPerSession'
  BY <1>1 DEF WatchersInv, OneWatcherPerSession
<1>4. VictimsAreOfSession'
  BY <1>2 DEF WatchersInv, VictimsAreOfSession
<1>5. QED
  BY <1>3, <1>4 DEF WatchersInv

\* ensureWatcher starts a watcher only where there is none.
LEMMA StartKeepsWatchers ==
    ASSUME TypeOK, WatchersInv, NEW s \in Sessions, StartWatcher(s),
           \A c \in Callers : step'[c] = "cancel" =>
               /\ step[c] = "cancel"
               /\ victim'[c] = victim[c] /\ target'[c] = target[c]
    PROVE  WatchersInv'
<1>1. CASE UNCHANGED <<watchers, watching>>
  BY <1>1, WatchersKept DEF watching, Running
<1>2. CASE watchers[s] = None /\ Spawn(s)
  <2>1. PICK w \in Watchers :
            /\ stage[w] = "unused"
            /\ stage' = [stage EXCEPT ![w] = "loop"]
            /\ session' = [session EXCEPT ![w] = s]
            /\ watchers' = [watchers EXCEPT ![s] = w]
    BY <1>2 DEF Spawn
  <2>2. \A x \in Watchers : /\ stage'[x] = IF x = w THEN "loop" ELSE stage[x]
                            /\ session'[x] = IF x = w THEN s ELSE session[x]
    BY <2>1 DEF TypeOK
  <2>3. \A t \in Sessions : watchers'[t] = IF t = s THEN w ELSE watchers[t]
    BY <2>1 DEF TypeOK
  <2>4. \A t \in Sessions : watchers[t] # None =>
            /\ watchers[t] \in Watchers
            /\ Running(watchers[t]) /\ session[watchers[t]] = t
    BY DEF WatchersInv, OneWatcherPerSession, TypeOK
  <2>5. ~Running(w)
    BY <2>1 DEF Running
  <2>6. OneWatcherPerSession'
    <3>1. ASSUME NEW x \in Watchers, Running(x)'
          PROVE  watchers'[session'[x]] = x
      <4>1. CASE x = w
        BY <2>2, <2>3, <4>1
      <4>2. CASE x # w
        <5>1. Running(x) /\ session'[x] = session[x]
          BY <2>2, <3>1, <4>2 DEF Running
        <5>2. session[x] \in Sessions /\ watchers[session[x]] = x
          BY <5>1 DEF WatchersInv, OneWatcherPerSession, TypeOK, Running
        <5>3. session[x] # s
          BY <1>2, <5>2, NoneAssumption
        <5>4. QED
          BY <2>3, <5>1, <5>2, <5>3
      <4>3. QED
        BY <4>1, <4>2
    <3>2. ASSUME NEW t \in Sessions, watchers'[t] # None
          PROVE  Running(watchers[t])' /\ session'[watchers'[t]] = t
      <4>1. CASE t = s
        BY <2>2, <2>3, <4>1 DEF Running
      <4>2. CASE t # s
        BY <2>2, <2>3, <2>4, <2>5, <3>2, <4>2 DEF Running
      <4>3. QED
        BY <4>1, <4>2
    <3>3. QED
      BY <3>1, <3>2 DEF OneWatcherPerSession
  <2>7. VictimsAreOfSession'
    <3>1. ASSUME NEW c \in Callers, step'[c] = "cancel", victim'[c] # None
          PROVE  stage'[victim'[c]] # "unused" /\ session'[victim'[c]] = target'[c]
      <4>1. /\ victim'[c] = victim[c] /\ target'[c] = target[c]
            /\ stage[victim[c]] # "unused" /\ session[victim[c]] = target[c]
            /\ victim[c] \in Watchers
        BY <3>1 DEF WatchersInv, VictimsAreOfSession, TypeOK
      <4>2. QED
        BY <2>1, <2>2, <4>1
    <3>2. QED
      BY <3>1 DEF VictimsAreOfSession
  <2>8. QED
    BY <2>6, <2>7 DEF WatchersInv
<1>3. QED
  BY <1>1, <1>2 DEF StartWatcher

\* A watcher that leaves takes its own entry out of the map.
LEMMA LeaveKeepsWatchers ==
    ASSUME TypeOK, WatchersInv, NEW w \in Watchers, Leave(w)
    PROVE  WatchersInv'
<1>1. /\ stage[w] = "leaving" /\ session[w] \in Sessions
      /\ watchers[session[w]] = w
  BY DEF Leave, TypeOK, WatchersInv, OneWatcherPerSession, Running
<1>2. /\ \A x \in Watchers : stage'[x] = IF x = w THEN "done" ELSE stage[x]
      /\ \A t \in Sessions :
             watchers'[t] = IF t = session[w] THEN None ELSE watchers[t]
      /\ UNCHANGED <<session, step, target, victim>>
  BY DEF Leave, Goto, TypeOK, calling
<1>3. \A t \in Sessions : watchers[t] # None =>
          /\ watchers[t] \in Watchers
          /\ Running(watchers[t]) /\ session[watchers[t]] = t
  BY DEF WatchersInv, OneWatcherPerSession, TypeOK
<1>4. OneWatcherPerSession'
  <2>1. ASSUME NEW x \in Watchers, Running(x)'
        PROVE  watchers'[session'[x]] = x
    <3>1. x # w /\ Running(x)
      BY <1>2, <2>1 DEF Running
    <3>2. session[x] \in Sessions /\ watchers[session[x]] = x
      BY <3>1 DEF WatchersInv, OneWatcherPerSession, TypeOK, Running
    <3>3. QED
      BY <1>1, <1>2, <3>1, <3>2
  <2>2. ASSUME NEW t \in Sessions, watchers'[t] # None
        PROVE  Running(watchers[t])' /\ session'[watchers'[t]] = t
    BY <1>2, <1>3, <2>2 DEF Running
  <2>3. QED
    BY <2>1, <2>2 DEF OneWatcherPerSession
<1>5. VictimsAreOfSession'
  BY <1>2 DEF WatchersInv, VictimsAreOfSession, TypeOK
<1>6. QED
  BY <1>4, <1>5 DEF WatchersInv

LEMMA StepKeepsWatchers == TypeOK /\ WatchersInv /\ [Next]_vars => WatchersInv'
<1> SUFFICES ASSUME TypeOK, WatchersInv, [Next]_vars PROVE WatchersInv'
  OBVIOUS
<1> USE DEF watching, calling
<1>1. ASSUME NEW c \in Callers, NEW r \in Rules,
             Enable(c, r) \/ Pause(c, r) \/ Delete(c, r)
      PROVE  WatchersInv'
  BY <1>1, CallFrame, WatchersKept DEF Running, TypeOK
<1>2. ASSUME NEW c \in Callers, NEW s \in Sessions, Close(c, s)
      PROVE  WatchersInv'
  <2>1. OneWatcherPerSession'
    BY <1>2, CloseFrame DEF WatchersInv, OneWatcherPerSession, Running
  <2>2. watchers[s] # None =>
            stage[watchers[s]] # "unused" /\ session[watchers[s]] = s
    BY DEF WatchersInv, OneWatcherPerSession, Running
  <2>3. VictimsAreOfSession'
    BY <1>2, <2>2, CloseFrame DEF WatchersInv, VictimsAreOfSession, TypeOK
  <2>4. QED
    BY <2>1, <2>3 DEF WatchersInv
<1>3. ASSUME NEW c \in Callers, Ensure(c) PROVE WatchersInv'
  <2>1. target[c] \in Sessions
    BY <1>3 DEF Ensure, TypeOK
  <2>2. \A x \in Callers : step'[x] = "cancel" =>
            /\ step[x] = "cancel"
            /\ victim'[x] = victim[x] /\ target'[x] = target[x]
    BY <1>3 DEF Ensure, TypeOK
  <2>3. QED
    BY <1>3, <2>1, <2>2, StartKeepsWatchers DEF Ensure
<1>4. ASSUME NEW c \in Callers, StopIfIdle(c) PROVE WatchersInv'
  <2>1. target[c] \in Sessions
    BY <1>4 DEF StopIfIdle, TypeOK
  <2>2. OneWatcherPerSession'
    BY <1>4 DEF StopIfIdle, WatchersInv, OneWatcherPerSession, Running
  <2>3. watchers[target[c]] # None =>
            /\ stage[watchers[target[c]]] # "unused"
            /\ session[watchers[target[c]]] = target[c]
    BY <2>1 DEF WatchersInv, OneWatcherPerSession, Running
  <2>4. VictimsAreOfSession'
    BY <1>4, <2>3 DEF StopIfIdle, WatchersInv, VictimsAreOfSession, TypeOK
  <2>5. QED
    BY <2>2, <2>4 DEF WatchersInv
<1>5. ASSUME NEW c \in Callers, Cancel(c) PROVE WatchersInv'
  BY <1>5, WatchersKept DEF Cancel, Running, TypeOK
<1>6. ASSUME NEW w \in Watchers, Proceed(w) \/ Notice(w), ~Leave(w)
      PROVE  WatchersInv'
  BY <1>6, WatcherFrame, WatchersKept DEF OwnStep, Running, Active, Stages
<1>7. ASSUME NEW s \in Sessions, Bind(s) PROVE WatchersInv'
  BY <1>7, StartKeepsWatchers DEF Bind
<1>8. ASSUME NEW r \in Rules, CooldownEnds(r) PROVE WatchersInv'
  BY <1>8, WatchersKept DEF CooldownEnds, Running
<1>9. CASE Restart
  BY <1>9 DEF Restart, WatchersInv, OneWatcherPerSession, VictimsAreOfSession,
              Running
<1>10. CASE UNCHANGED vars
  BY <1>10, WatchersKept DEF vars, Running
<1>11. QED
  BY <1>1, <1>2, <1>3, <1>4, <1>5, <1>6, <1>7, <1>8, <1>9, <1>10,
     LeaveKeepsWatchers DEF Next, Continue

\* Watch Mode has at most one goroutine per session, and the map of watchers
\* has exactly these (ensureWatcher, the deferred delete of watch).
THEOREM OneWatcher == Spec => []OneWatcherPerSession
<1>1. Init => WatchersInv
  BY DEF Init, WatchersInv, OneWatcherPerSession, VictimsAreOfSession, Running
<1>2. Spec => [](TypeOK /\ WatchersInv)
  BY <1>1, TypeCorrect, StepKeepsWatchers, PTL DEF Spec
<1>3. QED
  BY <1>2, PTL DEF WatchersInv

-----------------------------------------------------------------------------
(* The file, and what the calls said *)

\* The same, rule by rule.
LEMMA DurableIsPointwise ==
    /\ FileFollowsRules <=>
           \/ unsaved
           \/ \A r \in Rules : /\ disk[r] # Absent <=> rules[r] # Absent
                               /\ disk[r].enabled = rules[r].enabled
                               /\ disk[r].cooling = rules[r].cooling
    /\ FileFollowsRules' <=>
           \/ unsaved'
           \/ \A r \in Rules : /\ disk'[r] # Absent <=> rules'[r] # Absent
                               /\ disk'[r].enabled = rules'[r].enabled
                               /\ disk'[r].cooling = rules'[r].cooling
<1> DEFINE Same(f, g) == \A r \in Rules : /\ f[r] # Absent <=> g[r] # Absent
                                          /\ f[r].enabled = g[r].enabled
                                          /\ f[r].cooling = g[r].cooling
<1>1. ASSUME NEW f, NEW g
      PROVE  Durable(f) = Durable(g) <=> Same(f, g)
  <2>1. ASSUME Durable(f) = Durable(g), NEW r \in Rules
        PROVE  /\ f[r] # Absent <=> g[r] # Absent
               /\ f[r].enabled = g[r].enabled
               /\ f[r].cooling = g[r].cooling
    <3>1. Durable(f)[r] = Durable(g)[r]
      BY <2>1
    <3>2. /\ Durable(f)[r].exists = (f[r] # Absent)
          /\ Durable(f)[r].enabled = f[r].enabled
          /\ Durable(f)[r].cooling = f[r].cooling
      BY DEF Durable
    <3>3. /\ Durable(g)[r].exists = (g[r] # Absent)
          /\ Durable(g)[r].enabled = g[r].enabled
          /\ Durable(g)[r].cooling = g[r].cooling
      BY DEF Durable
    <3>4. QED
      BY <3>1, <3>2, <3>3
  <2>2. ASSUME Same(f, g) PROVE Durable(f) = Durable(g)
    <3>1. \A r \in Rules : [exists |-> f[r] # Absent, enabled |-> f[r].enabled,
                            cooling |-> f[r].cooling]
                         = [exists |-> g[r] # Absent, enabled |-> g[r].enabled,
                            cooling |-> g[r].cooling]
      BY <2>2
    <3>2. QED
      BY <3>1 DEF Durable
  <2>3. QED
    BY <2>1, <2>2
<1>2. Durable(disk) = Durable(rules) <=> Same(disk, rules)
  BY <1>1
<1>3. Durable(disk)' = Durable(rules)' <=> Same(disk', rules')
  <2>1. Durable(disk') = Durable(rules') <=> Same(disk', rules')
    BY <1>1
  <2>2. Durable(disk)' = Durable(disk') /\ Durable(rules)' = Durable(rules')
    BY DEF Durable
  <2>3. QED
    BY <2>1, <2>2
<1>4. QED
  BY <1>2, <1>3 DEF FileFollowsRules

LEMMA PersistFollows == Persist => FileFollowsRules'
BY DurableIsPointwise DEF Persist, Saved, NotSaved

\* Writes of the status need no write of the file.
LEMMA StatusFollows ==
    ASSUME FileFollowsRules, UNCHANGED <<disk, unsaved>>, SameRules,
           \A r \in Rules : rules'[r].cooling = rules[r].cooling
    PROVE  FileFollowsRules'
BY DurableIsPointwise DEF SameRules

LEMMA StepFollows ==
    TypeOK /\ FileFollowsRules /\ [Next]_vars => FileFollowsRules'
<1> SUFFICES ASSUME TypeOK, FileFollowsRules, [Next]_vars
             PROVE  FileFollowsRules'
  OBVIOUS
<1> USE DEF store
<1>0. UNCHANGED store => FileFollowsRules'
  BY DurableIsPointwise
<1>1. ASSUME NEW w \in Watchers, Proceed(w) \/ Notice(w), ~Leave(w)
      PROVE  FileFollowsRules'
  <2>1. CASE NextRule(w)
    <3>1. ASSUME NEW r \in todo[w], SetStatus(r, "triggered")
          PROVE  SameRules /\ \A x \in Rules : rules'[x].cooling = rules[x].cooling
      <4>1. r \in Rules
        BY DEF TypeOK
      <4>2. QED
        BY <3>1, <4>1, SetStatusFrame DEF Statuses
    <3>2. QED
      BY <1>0, <2>1, <3>1, StatusFollows DEF NextRule
  <2>2. CASE Resolve(w) \/ Acted(w)
    <3>1. current[w] \in Rules
      BY <2>2 DEF Resolve, Acted, TypeOK, Working
    <3>2. QED
      BY <1>0, <2>2, <3>1, SetStatusFrame, StatusFollows
         DEF Resolve, Acted, Statuses
  <2>3. CASE Loop(w) \/ CDPEnds(w) \/ CDPFails(w) \/ PollingEnds(w) \/ PollFails(w)
    BY <1>0, <2>3, PersistFollows
       DEF Loop, CDPEnds, CDPFails, PollingEnds, PollFails
  <2>4. CASE Probe(w) \/ Observe(w) \/ Act(w) \/ Conclude(w) \/ Record(w)
    BY <1>0, <2>4, PersistFollows DEF Probe, Observe, Act, Conclude, Record
  <2>5. QED
    BY <1>1, <2>1, <2>2, <2>3, <2>4 DEF Proceed, Execute, Notice
<1>2. ASSUME NEW r \in Rules, CooldownEnds(r) PROVE FileFollowsRules'
  <2>1. UNCHANGED unsaved
    BY <1>2 DEF CooldownEnds
  <2>2. \A x \in Rules \ {r} : rules'[x] = rules[x] /\ disk'[x] = disk[x]
    BY <1>2, CooldownEndsFrame
  <2>3. /\ rules'[r].cooling = disk'[r].cooling
        /\ disk'[r].enabled = disk[r].enabled /\ rules'[r].enabled = rules[r].enabled
        /\ disk'[r] = Absent <=> disk[r] = Absent
        /\ rules'[r] = Absent <=> rules[r] = Absent
    BY <1>2, CooldownEndsFrame DEF SameRules
  <2>4. QED
    BY <2>1, <2>2, <2>3, DurableIsPointwise
<1>3. CASE Restart
  BY <1>3, DurableIsPointwise DEF Restart
<1>4. ASSUME NEW c \in Callers, Continue(c) PROVE FileFollowsRules'
  BY <1>0, <1>4 DEF Continue, Ensure, StopIfIdle, Cancel
<1>5. ASSUME NEW w \in Watchers, Leave(w) PROVE FileFollowsRules'
  BY <1>0, <1>5 DEF Leave
<1>6. ASSUME NEW s \in Sessions, Bind(s) PROVE FileFollowsRules'
  BY <1>0, <1>6 DEF Bind
<1>7. QED
  BY <1>0, <1>1, <1>2, <1>3, <1>4, <1>5, <1>6, CallFrame, CloseFrame,
     PersistFollows DEF Next, vars

\* Unless the last write failed, the file says of every rule whether it exists,
\* is enabled and is within its cooldown (persistLocked).
THEOREM FileIsCurrent == Spec => []FileFollowsRules
<1>1. Init => FileFollowsRules
  BY DurableIsPointwise DEF Init
<1>2. QED
  BY <1>1, TypeCorrect, StepFollows, PTL DEF Spec

LEMMA StepUndoesNothing ==
    TypeOK /\ FileFollowsRules /\ CallsAreNotUndone /\ [Next]_vars
        => CallsAreNotUndone'
<1> SUFFICES ASSUME TypeOK, FileFollowsRules, CallsAreNotUndone, [Next]_vars
             PROVE  CallsAreNotUndone'
  OBVIOUS
<1> USE DEF store, calling
<1>0. SameRules /\ UNCHANGED intent => CallsAreNotUndone'
  BY DEF SameRules, CallsAreNotUndone, Exists
<1>1. UNCHANGED rules => SameRules
  BY DEF SameRules
<1>2. ASSUME NEW c \in Callers, NEW r \in Rules,
             Enable(c, r) \/ Pause(c, r) \/ Delete(c, r)
      PROVE  CallsAreNotUndone'
  <2>1. /\ rules'[r].enabled <=> intent'[r] = "on"
        /\ rules'[r] # Absent <=> intent'[r] \in {"on", "paused"}
        /\ intent' \in [Rules -> {"none", "on", "paused", "closed", "deleted"}]
        /\ \A x \in Rules \ {r} : rules'[x] = rules[x] /\ intent'[x] = intent[x]
    <3>1. TypeOK'
      BY <1>2, CallsType
    <3>2. QED
      BY <1>2, <3>1, CallFrame DEF TypeOK
  <2>2. intent'[r] # "closed"
    BY <1>2 DEF Enable, Pause, Delete, TypeOK
  <2>3. QED
    BY <2>1, <2>2 DEF CallsAreNotUndone, Exists
<1>3. ASSUME NEW c \in Callers, NEW s \in Sessions, Close(c, s)
      PROVE  CallsAreNotUndone'
  <2>1. ASSUME NEW x \in Rules
        PROVE  /\ rules'[x].enabled <=> intent'[x] = "on"
               /\ rules'[x] # Absent <=> intent'[x] \in {"on", "paused", "closed"}
    <3>1. /\ rules'[x] = Absent <=> rules[x] = Absent
          /\ rules'[x].enabled <=> rules[x].enabled /\ SessionOf[x] # s
          /\ intent'[x] = IF x \in Enabled(s) THEN "closed" ELSE intent[x]
      BY <1>3, CloseFrame
    <3>2. x \in Enabled(s) <=> SessionOf[x] = s /\ rules[x].enabled
      BY DEF Enabled, RulesOf
    <3>3. /\ rules[x].enabled <=> intent[x] = "on"
          /\ rules[x] # Absent <=> intent[x] \in {"on", "paused", "closed"}
      BY DEF CallsAreNotUndone, Exists
    <3>4. QED
      BY <3>1, <3>2, <3>3
  <2>2. QED
    BY <2>1 DEF CallsAreNotUndone, Exists
<1>4. CASE Restart
  <2>1. ASSUME NEW x \in Rules
        PROVE  /\ rules'[x].enabled <=> intent'[x] = "on"
               /\ rules'[x] # Absent <=> intent'[x] \in {"on", "paused", "closed"}
    <3>1. rules' = disk
      BY <1>4 DEF Restart
    <3>2. disk[x].enabled \in BOOLEAN /\ (disk[x].enabled => disk[x] # Absent)
      BY RuleIsThere DEF TypeOK, Values
    <3>3. CASE unsaved
      <4>1. intent'[x] = IF disk[x].enabled THEN "on"
                         ELSE IF disk[x] # Absent THEN "paused"
                         ELSE IF intent[x] = "none" THEN "none" ELSE "deleted"
        BY <1>4, <3>3 DEF Restart
      <4>2. QED
        BY <3>1, <3>2, <4>1
    <3>4. CASE ~unsaved
      <4>1. intent'[x] = intent[x]
        BY <1>4, <3>4 DEF Restart
      <4>2. /\ disk[x] # Absent <=> rules[x] # Absent
            /\ disk[x].enabled = rules[x].enabled
        BY <3>4, DurableIsPointwise
      <4>3. QED
        BY <3>1, <4>1, <4>2 DEF CallsAreNotUndone, Exists
    <3>5. QED
      BY <3>3, <3>4
  <2>2. QED
    BY <2>1 DEF CallsAreNotUndone, Exists
<1>5. ASSUME NEW w \in Watchers, Proceed(w) \/ Notice(w), ~Leave(w)
      PROVE  CallsAreNotUndone'
  BY <1>0, <1>5, WatcherFrame DEF OwnStep
<1>6. ASSUME NEW r \in Rules, CooldownEnds(r) PROVE CallsAreNotUndone'
  BY <1>0, <1>6, CooldownEndsFrame DEF CooldownEnds
<1>7. ASSUME NEW c \in Callers, Continue(c) PROVE CallsAreNotUndone'
  BY <1>0, <1>1, <1>7 DEF Continue, Ensure, StopIfIdle, Cancel
<1>8. ASSUME NEW w \in Watchers, Leave(w) PROVE CallsAreNotUndone'
  BY <1>0, <1>1, <1>8 DEF Leave
<1>9. ASSUME NEW s \in Sessions, Bind(s) PROVE CallsAreNotUndone'
  BY <1>0, <1>1, <1>9 DEF Bind
<1>10. QED
  BY <1>0, <1>1, <1>2, <1>3, <1>4, <1>5, <1>6, <1>7, <1>8, <1>9 DEF Next, vars

\* A rule that a call paused, closed or deleted stays it, whatever watchers
\* write later, also over a restart (executeRule, setRuleRuntimeStatus).
THEOREM CallsStand == Spec => []CallsAreNotUndone
<1>1. Init => CallsAreNotUndone
  BY DEF Init, CallsAreNotUndone, Exists, Absent
<1>2. QED
  BY <1>1, TypeCorrect, FileIsCurrent, StepUndoesNothing, PTL DEF Spec

-----------------------------------------------------------------------------
(* The copies a watcher works on *)

\* The copies of watcher w are of rules of its session that were created; the
\* one it executes is no longer among those to come; and it has copies only
\* between the probe and the end of the executions.
Copies(w) ==
    /\ todo[w] \subseteq RulesOf(session[w])
    /\ \A r \in todo[w] : intent[r] # "none"
    /\ todo[w] # {} => stage[w] \in {"probed", "chosen"} \cup Working
    /\ stage[w] \in Working =>
           /\ current[w] \in RulesOf(session[w]) \ todo[w]
           /\ intent[current[w]] # "none"
    /\ stage[w] \notin Working => current[w] = None

CopiesInv == \A w \in Watchers : Copies(w)

\* A rule that was created was created for good.
LEMMA IntentGrows ==
    ASSUME TypeOK, [Next]_vars, NEW r \in Rules, intent[r] # "none"
    PROVE  intent'[r] # "none"
<1>1. ASSUME NEW c \in Callers, NEW x \in Rules,
             Enable(c, x) \/ Pause(c, x) \/ Delete(c, x)
      PROVE  intent'[r] # "none"
  BY <1>1, CallFrame
<1>2. ASSUME NEW c \in Callers, NEW s \in Sessions, Close(c, s)
      PROVE  intent'[r] # "none"
  BY <1>2, CloseFrame
<1>3. CASE Restart
  BY <1>3 DEF Restart
<1>4. ASSUME NEW w \in Watchers, Proceed(w) \/ Notice(w), ~Leave(w)
      PROVE  intent'[r] # "none"
  BY <1>4, WatcherFrame DEF OwnStep
<1>5. QED
  BY <1>1, <1>2, <1>3, <1>4
     DEF Next, vars, Continue, Ensure, StopIfIdle, Cancel, Leave, Bind,
         CooldownEnds

\* Nobody but w works on the rule that w executes: the rule is of the session
\* of w, and the session has no other watcher.
LEMMA NobodyElseHasIt ==
    ASSUME TypeOK, WatchersInv, CopiesInv, NEW w \in Watchers,
           stage[w] \in Working, NEW x \in Watchers \ {w}
    PROVE  /\ current[w] \notin todo[x]
           /\ stage[x] \in Working => current[x] # current[w]
<1>1. /\ Running(w) /\ session[w] \in Sessions
      /\ SessionOf[current[w]] = session[w]
  BY DEF CopiesInv, Copies, RulesOf, Running, Working, TypeOK
<1>2. Running(x) => session[x] # session[w]
  BY <1>1 DEF WatchersInv, OneWatcherPerSession
<1>3. ASSUME current[w] \in todo[x] PROVE FALSE
  <2>1. Running(x) /\ SessionOf[current[w]] = session[x]
    BY <1>3 DEF CopiesInv, Copies, RulesOf, Running, Working
  <2>2. QED
    BY <1>1, <1>2, <2>1
<1>4. ASSUME stage[x] \in Working, current[x] = current[w] PROVE FALSE
  <2>1. Running(x) /\ SessionOf[current[x]] = session[x]
    BY <1>4 DEF CopiesInv, Copies, RulesOf, Running, Working
  <2>2. QED
    BY <1>1, <1>2, <1>4, <2>1
<1>5. QED
  BY <1>3, <1>4

\* A watcher that stays where it is keeps its copies.
LEMMA CopiesStay ==
    ASSUME TypeOK, [Next]_vars, NEW w \in Watchers, Copies(w),
           stage'[w] = stage[w], session'[w] = session[w],
           todo'[w] = todo[w], current'[w] = current[w]
    PROVE  Copies(w)'
<1>1. \A r \in Rules : intent[r] # "none" => intent'[r] # "none"
  BY IntentGrows
<1>2. todo[w] \subseteq Rules /\ (stage[w] \in Working => current[w] \in Rules)
  BY DEF TypeOK
<1>3. QED
  BY <1>1, <1>2 DEF Copies, RulesOf

\* What a watcher does by itself keeps its copies in order.
LEMMA OwnCopies ==
    ASSUME TypeOK, CallsAreNotUndone, NEW w \in Watchers, Copies(w),
           Proceed(w) \/ Notice(w), ~Leave(w)
    PROVE  Copies(w)'
<1> USE DEF Goto
<1>0. /\ stage \in [Watchers -> Stages]
      /\ mode[w] \in {"cdp", "polling"}
      /\ todo \in [Watchers -> SUBSET Rules]
      /\ current \in [Watchers -> Rules \cup {None}]
      /\ session' = session /\ intent' = intent
  BY WatcherFrame DEF TypeOK, OwnStep
<1>1. CASE \/ Loop(w) \/ CDPEnds(w) \/ CDPFails(w) \/ PollingEnds(w)
           \/ PollFails(w)
  <2>1. stage[w] \in {"loop", "cdp", "polling"} /\ UNCHANGED <<todo, current>>
    BY <1>1 DEF Loop, CDPEnds, CDPFails, PollingEnds, PollFails
  <2>2. stage'[w] \in {"loop", "cdp", "polling", "leaving"}
    BY <1>0, <1>1 DEF Loop, CDPEnds, CDPFails, PollingEnds, PollFails
  <2>3. QED
    BY <1>0, <2>1, <2>2 DEF Copies, RulesOf, Working
<1>2. CASE Probe(w)
  <2>1. PICK matched \in SUBSET Ready(w) : todo'[w] = matched
    BY <1>0, <1>2 DEF Probe
  <2>2. /\ stage[w] \in {"cdp", "polling"} /\ stage'[w] = "probed"
        /\ current' = current
    BY <1>0, <1>2 DEF Probe
  <2>3. \A r \in matched : r \in RulesOf(session[w]) /\ intent[r] = "on"
    BY DEF Ready, Enabled, RulesOf, CallsAreNotUndone
  <2>4. QED
    BY <1>0, <2>1, <2>2, <2>3 DEF Copies, RulesOf, Working
<1>3. CASE Observe(w)
  <2>1. /\ stage[w] = "probed" /\ current' = current
        /\ \/ stage'[w] = "chosen" /\ todo' = todo
           \/ stage'[w] \in {"cdp", "polling"} /\ todo'[w] = {}
    BY <1>0, <1>3 DEF Observe
  <2>2. QED
    BY <1>0, <2>1 DEF Copies, RulesOf, Working
<1>4. CASE NextRule(w)
  <2>1. CASE todo[w] = {} /\ Goto(w, mode[w]) /\ UNCHANGED <<rules, todo, current>>
    BY <1>0, <1>4, <2>1 DEF NextRule, Copies, RulesOf, Working
  <2>2. ASSUME NEW r \in todo[w], Goto(w, "triggered"),
               todo' = [todo EXCEPT ![w] = @ \ {r}],
               current' = [current EXCEPT ![w] = r]
        PROVE  Copies(w)'
    BY <1>0, <2>2 DEF Copies, RulesOf, Working
  <2>3. QED
    BY <1>4, <2>1, <2>2 DEF NextRule
<1>5. CASE Resolve(w) \/ Act(w) \/ Acted(w) \/ Conclude(w)
  <2>1. stage[w] \in Working /\ stage'[w] \in Working
    BY <1>0, <1>5 DEF Resolve, Act, Acted, Conclude, Working
  <2>2. UNCHANGED <<todo, current>>
    BY <1>5 DEF Resolve, Act, Acted, Conclude
  <2>3. QED
    BY <1>0, <2>1, <2>2 DEF Copies, RulesOf
<1>6. CASE Record(w)
  BY <1>0, <1>6 DEF Record, Copies, RulesOf, Working
<1>7. QED
  BY <1>1, <1>2, <1>3, <1>4, <1>5, <1>6 DEF Proceed, Execute, Notice

LEMMA StepKeepsCopies ==
    TypeOK /\ CallsAreNotUndone /\ CopiesInv /\ [Next]_vars => CopiesInv'
<1> SUFFICES ASSUME TypeOK, CallsAreNotUndone, CopiesInv, [Next]_vars,
                    NEW x \in Watchers
             PROVE  Copies(x)'
  BY DEF CopiesInv
<1> USE DEF watching
<1>0. Copies(x)
  BY DEF CopiesInv
<1>1. ASSUME UNCHANGED <<stage, session, todo, current>> PROVE Copies(x)'
  BY <1>0, <1>1, CopiesStay
<1>2. ASSUME NEW s \in Sessions, StartWatcher(s) PROVE Copies(x)'
  <2>1. CASE UNCHANGED watching
    BY <1>1, <2>1
  <2>2. CASE Spawn(s)
    <3>1. PICK w \in Watchers :
              /\ stage[w] = "unused"
              /\ stage' = [stage EXCEPT ![w] = "loop"]
              /\ session' = [session EXCEPT ![w] = s]
              /\ UNCHANGED <<todo, current>>
      BY <2>2 DEF Spawn
    <3>2. CASE x = w
      BY <1>0, <3>1, <3>2 DEF Copies, Working, TypeOK
    <3>3. CASE x # w
      BY <1>0, <3>1, <3>3, CopiesStay DEF TypeOK
    <3>4. QED
      BY <3>2, <3>3
  <2>3. QED
    BY <1>2, <2>1, <2>2 DEF StartWatcher
<1>3. ASSUME NEW c \in Callers, Continue(c) PROVE Copies(x)'
  <2>1. target[c] \in Sessions \/ ~Ensure(c)
    BY DEF Ensure, TypeOK
  <2>2. QED
    BY <1>1, <1>2, <1>3, <2>1 DEF Continue, Ensure, StopIfIdle, Cancel
<1>4. ASSUME NEW w \in Watchers, Proceed(w) \/ Notice(w), ~Leave(w)
      PROVE  Copies(x)'
  <2>1. CASE x = w
    BY <1>0, <1>4, <2>1, OwnCopies
  <2>2. CASE x # w
    BY <1>0, <1>4, <2>2, WatcherFrame, CopiesStay DEF OwnStep
  <2>3. QED
    BY <2>1, <2>2
<1>5. ASSUME NEW w \in Watchers, Leave(w) PROVE Copies(x)'
  <2>1. /\ stage[w] = "leaving" /\ stage' = [stage EXCEPT ![w] = "done"]
        /\ UNCHANGED <<session, todo, current, intent>>
    BY <1>5 DEF Leave, Goto
  <2>2. CASE x = w
    BY <1>0, <2>1, <2>2 DEF Copies, RulesOf, Working, TypeOK
  <2>3. CASE x # w
    BY <1>0, <2>1, <2>3, CopiesStay DEF TypeOK
  <2>4. QED
    BY <2>2, <2>3
<1>6. CASE Restart
  <2>1. /\ todo'[x] = {} /\ current'[x] = None
        /\ stage'[x] \in {"unused", "done", "dead"}
    BY <1>6 DEF Restart
  <2>2. QED
    BY <2>1 DEF Copies, Working
<1>7. ASSUME NEW c \in Callers, NEW r \in Rules,
             Enable(c, r) \/ Pause(c, r) \/ Delete(c, r)
      PROVE  Copies(x)'
  BY <1>1, <1>7, CallFrame
<1>8. ASSUME NEW c \in Callers, NEW s \in Sessions, Close(c, s)
      PROVE  Copies(x)'
  BY <1>1, <1>8, CloseFrame
<1>9. ASSUME NEW s \in Sessions, Bind(s) PROVE Copies(x)'
  BY <1>2, <1>9 DEF Bind
<1>10. ASSUME NEW r \in Rules, CooldownEnds(r) PROVE Copies(x)'
  BY <1>1, <1>10 DEF CooldownEnds
<1>11. CASE UNCHANGED vars
  BY <1>1, <1>11 DEF vars
<1>12. QED
  BY <1>3, <1>4, <1>5, <1>6, <1>7, <1>8, <1>9, <1>10, <1>11 DEF Next

\* What the next proofs start from.
Base == TypeOK /\ WatchersInv /\ FileFollowsRules /\ CallsAreNotUndone /\ CopiesInv

LEMMA BaseHolds == Spec => []Base
<1>1. Init => WatchersInv
  BY DEF Init, WatchersInv, OneWatcherPerSession, VictimsAreOfSession, Running
<1>2. Init => CopiesInv
  BY DEF Init, CopiesInv, Copies, Working
<1>3. Spec => []WatchersInv
  BY <1>1, TypeCorrect, StepKeepsWatchers, PTL DEF Spec
<1>4. Spec => []CopiesInv
  BY <1>2, TypeCorrect, CallsStand, StepKeepsCopies, PTL DEF Spec
<1>5. QED
  BY <1>3, <1>4, TypeCorrect, FileIsCurrent, CallsStand, PTL DEF Base

-----------------------------------------------------------------------------
(* Cooldowns *)

\* Unless a restart found a file that missed a write: a rule within its
\* cooldown was created, says so itself if it still is there, and nobody has a
\* copy of it to execute.
CooldownInv ==
    ~lost => /\ \A r \in recent : /\ intent[r] # "none"
                                  /\ Exists(r) => rules[r].cooling
             /\ \A w \in Watchers : todo[w] \cap recent = {}
             /\ CooldownKept

\* The steps that execute nothing and start no cooldown.
LEMMA CooldownStays ==
    ASSUME TypeOK, [Next]_vars, CooldownInv, lost' = lost, recent' = recent,
           \A r \in recent : Exists(r)' => Exists(r) /\ (rules[r].cooling => rules'[r].cooling),
           \A w \in Watchers :
               /\ todo'[w] \subseteq todo[w]
               /\ stage'[w] \in {"triggered", "executing", "acting"} =>
                      /\ current'[w] = current[w]
                      /\ stage[w] \in {"triggered", "executing", "acting"}
    PROVE  CooldownInv'
<1>1. \A r \in recent : intent[r] # "none" => intent'[r] # "none"
  BY IntentGrows DEF TypeOK
<1>2. QED
  BY <1>1 DEF CooldownInv, CooldownKept

\* The steps of a watcher.
LEMMA OwnCooldown ==
    ASSUME Base, [Next]_vars, CooldownInv, NEW w \in Watchers,
           Proceed(w) \/ Notice(w), ~Leave(w)
    PROVE  CooldownInv'
<1> USE DEF Goto, store
<1>0. /\ TypeOK /\ OwnStep /\ SameRules
      /\ stage \in [Watchers -> Stages]
      /\ mode[w] \in {"cdp", "polling"}
      /\ todo \in [Watchers -> SUBSET Rules]
      /\ current \in [Watchers -> Rules \cup {None}]
      /\ recent \subseteq Rules
      /\ lost' = lost /\ intent' = intent
      /\ \A x \in Watchers \ {w} : /\ stage'[x] = stage[x]
                                   /\ todo'[x] = todo[x]
                                   /\ current'[x] = current[x]
  BY WatcherFrame DEF OwnStep, Base, TypeOK
<1>1. \A r \in Rules : Exists(r)' <=> Exists(r)
  BY <1>0 DEF SameRules, Exists
<1>2. CASE \/ Loop(w) \/ CDPEnds(w) \/ CDPFails(w) \/ PollingEnds(w)
           \/ PollFails(w) \/ Observe(w) \/ Record(w)
  <2>1. UNCHANGED <<rules, recent>>
    BY <1>2 DEF Loop, CDPEnds, CDPFails, PollingEnds, PollFails, Observe, Record
  <2>2. /\ todo'[w] \subseteq todo[w]
        /\ stage'[w] \notin {"triggered", "executing", "acting"}
    BY <1>0, <1>2
       DEF Loop, CDPEnds, CDPFails, PollingEnds, PollFails, Observe, Record
  <2>3. QED
    BY <1>0, <1>1, <2>1, <2>2, CooldownStays
<1>3. CASE Resolve(w) \/ Act(w) \/ Acted(w)
  <2>1. /\ recent' = recent /\ todo' = todo /\ current' = current
        /\ stage[w] \in {"triggered", "executing", "acting"}
    BY <1>3 DEF Resolve, Act, Acted
  <2>2. \A x \in Rules : rules'[x].cooling = rules[x].cooling
    <3>1. current[w] \in Rules
      BY <1>0, <2>1 DEF TypeOK, Working
    <3>2. QED
      BY <1>0, <1>3, <3>1, SetStatusFrame DEF Resolve, Act, Acted, Statuses
  <2>3. QED
    BY <1>0, <1>1, <2>1, <2>2, CooldownStays
<1>4. CASE NextRule(w)
  <2>1. CASE todo[w] = {} /\ Goto(w, mode[w]) /\ UNCHANGED <<rules, todo, current>>
    <3>1. stage'[w] \in {"cdp", "polling"} /\ recent' = recent
      BY <1>0, <1>4, <2>1 DEF NextRule
    <3>2. QED
      BY <1>0, <1>1, <2>1, <3>1, CooldownStays
  <2>2. ASSUME NEW r \in todo[w],
               todo' = [todo EXCEPT ![w] = @ \ {r}],
               current' = [current EXCEPT ![w] = r],
               SetStatus(r, "triggered")
        PROVE  CooldownInv'
    <3>1. r \in Rules /\ recent' = recent
      BY <1>0, <1>4 DEF NextRule
    <3>2. \A x \in Rules : rules'[x].cooling = rules[x].cooling
      BY <1>0, <2>2, <3>1, SetStatusFrame DEF Statuses
    <3>3. /\ todo'[w] \subseteq todo[w]
          /\ current'[w] = r
      BY <1>0, <2>2
    <3>4. ~lost => /\ \A x \in recent : /\ intent'[x] # "none"
                                        /\ Exists(x)' => rules'[x].cooling
                   /\ \A x \in Watchers : todo'[x] \cap recent' = {}
      BY <1>0, <1>1, <3>1, <3>2, <3>3 DEF CooldownInv
    <3>5. CooldownKept'
      BY <1>0, <3>1, <3>3 DEF CooldownInv, CooldownKept
    <3>6. QED
      BY <1>0, <3>1, <3>4, <3>5 DEF CooldownInv
  <2>3. QED
    BY <1>4, <2>1, <2>2 DEF NextRule
<1>5. CASE Probe(w)
  <2>1. PICK matched \in SUBSET Ready(w) : todo' = [todo EXCEPT ![w] = matched]
    BY <1>5 DEF Probe
  <2>2. stage'[w] = "probed" /\ UNCHANGED <<rules, current, recent>>
    BY <1>0, <1>5 DEF Probe
  <2>3. ~lost => matched \cap recent = {}
    BY <1>0, RuleIsThere
       DEF Ready, Enabled, RulesOf, CooldownInv, Exists, TypeOK, Values
  <2>4. ~lost => \A x \in Watchers : todo'[x] \cap recent' = {}
    BY <1>0, <2>1, <2>2, <2>3 DEF CooldownInv
  <2>5. QED
    BY <1>0, <1>1, <2>2, <2>4 DEF CooldownInv, CooldownKept
<1>6. CASE Conclude(w)
  <2>1. /\ stage[w] \in Working /\ current[w] \in Rules
        /\ recent' = recent \cup {current[w]}
        /\ \A x \in Rules \ {current[w]} : rules'[x].cooling = rules[x].cooling
        /\ Exists(current[w]) => rules'[current[w]].cooling
        /\ todo' = todo /\ current' = current /\ stage'[w] = "recording"
    BY <1>0, <1>6, ConcludeFrame DEF Conclude, Working
  <2>2. /\ intent[current[w]] # "none"
        /\ current[w] \notin todo[w]
        /\ \A x \in Watchers \ {w} :
               /\ current[w] \notin todo[x]
               /\ stage[x] \in Working => current[x] # current[w]
    BY <2>1, NobodyElseHasIt DEF Base, CopiesInv, Copies
  <2>3. ~lost => \A x \in recent' : /\ intent'[x] # "none"
                                    /\ Exists(x)' => rules'[x].cooling
    BY <1>0, <1>1, <2>1, <2>2 DEF CooldownInv
  <2>4. ~lost => \A x \in Watchers : todo'[x] \cap recent' = {}
    BY <2>1, <2>2 DEF CooldownInv
  <2>5. CooldownKept'
    BY <1>0, <2>1, <2>2 DEF CooldownInv, CooldownKept, Working
  <2>6. QED
    BY <1>0, <2>3, <2>4, <2>5 DEF CooldownInv
<1>7. QED
  BY <1>2, <1>3, <1>4, <1>5, <1>6 DEF Proceed, Execute, Notice

LEMMA StepKeepsCooldown == Base /\ CooldownInv /\ [Next]_vars => CooldownInv'
<1> SUFFICES ASSUME Base, CooldownInv, [Next]_vars PROVE CooldownInv'
  OBVIOUS
<1> USE DEF watching, store
<1>0. TypeOK
  BY DEF Base
<1>1. ASSUME UNCHANGED <<rules, recent, lost, todo, current>>,
             \A w \in Watchers :
                 stage'[w] \in {"triggered", "executing", "acting"} =>
                     stage[w] \in {"triggered", "executing", "acting"}
      PROVE  CooldownInv'
  BY <1>0, <1>1, CooldownStays DEF Exists
<1>2. ASSUME NEW s \in Sessions, StartWatcher(s), UNCHANGED <<rules, recent, lost>>
      PROVE  CooldownInv'
  BY <1>0, <1>1, <1>2 DEF StartWatcher, Spawn, TypeOK
<1>3. ASSUME NEW c \in Callers, Continue(c) PROVE CooldownInv'
  <2>1. Ensure(c) => target[c] \in Sessions
    BY <1>0 DEF Ensure, TypeOK
  <2>2. QED
    BY <1>1, <1>2, <1>3, <2>1 DEF Continue, Ensure, StopIfIdle, Cancel
<1>4. ASSUME NEW s \in Sessions, Bind(s) PROVE CooldownInv'
  BY <1>2, <1>4 DEF Bind
<1>5. ASSUME NEW w \in Watchers, Leave(w) PROVE CooldownInv'
  BY <1>0, <1>1, <1>5 DEF Leave, Goto, TypeOK
<1>6. ASSUME NEW c \in Callers, NEW r \in Rules,
             Enable(c, r) \/ Pause(c, r) \/ Delete(c, r)
      PROVE  CooldownInv'
  <2>1. CASE lost
    BY <1>0, <1>6, <2>1, CallFrame DEF CooldownInv
  <2>2. CASE ~lost
    <3>1. \A x \in recent : intent[x] # "none" /\ x \in Rules
      BY <1>0, <2>2 DEF CooldownInv, TypeOK
    <3>2. \A x \in recent :
              Exists(x)' => Exists(x) /\ (rules[x].cooling => rules'[x].cooling)
      BY <1>0, <1>6, <3>1, CallFrame DEF Exists
    <3>3. QED
      BY <1>0, <1>6, <3>2, CallFrame, CooldownStays
  <2>3. QED
    BY <2>1, <2>2
<1>7. ASSUME NEW c \in Callers, NEW s \in Sessions, Close(c, s)
      PROVE  CooldownInv'
  <2>1. \A x \in recent :
            Exists(x)' => Exists(x) /\ (rules[x].cooling => rules'[x].cooling)
    BY <1>0, <1>7, CloseFrame DEF Exists, TypeOK
  <2>2. QED
    BY <1>0, <1>7, <2>1, CloseFrame, CooldownStays
<1>8. ASSUME NEW r \in Rules, CooldownEnds(r) PROVE CooldownInv'
  <2>1. /\ recent' = recent \ {r}
        /\ UNCHANGED <<stage, todo, current, lost, intent>>
    BY <1>8 DEF CooldownEnds
  <2>2. \A x \in recent' : x \in Rules \ {r} /\ rules'[x] = rules[x]
    BY <1>0, <1>8, <2>1, CooldownEndsFrame DEF TypeOK
  <2>3. QED
    BY <2>1, <2>2 DEF CooldownInv, CooldownKept, Exists
<1>9. CASE Restart
  <2>1. /\ \A w \in Watchers : /\ todo'[w] = {}
                               /\ stage'[w] \in {"unused", "done", "dead"}
        /\ recent' = recent /\ rules' = disk /\ lost' = (lost \/ unsaved)
    BY <1>9 DEF Restart
  <2>2. ~lost' => ~lost /\ ~unsaved /\ intent' = intent
    <3>1. ~unsaved => intent' = [r \in Rules |-> intent[r]]
      BY <1>9 DEF Restart
    <3>2. QED
      BY <1>0, <2>1, <3>1 DEF TypeOK
  <2>3. ~lost' => \A r \in Rules : /\ disk[r] # Absent <=> rules[r] # Absent
                                   /\ disk[r].cooling = rules[r].cooling
    BY <2>2, DurableIsPointwise DEF Base
  <2>4. recent \subseteq Rules
    BY <1>0 DEF TypeOK
  <2>5. QED
    BY <2>1, <2>2, <2>3, <2>4 DEF CooldownInv, CooldownKept, Exists
<1>10. CASE UNCHANGED vars
  BY <1>1, <1>10 DEF vars
<1>11. QED
  BY <1>3, <1>4, <1>5, <1>6, <1>7, <1>8, <1>9, <1>10, OwnCooldown DEF Next

\* No rule acts within its cooldown, although its readiness is judged on a copy
\* that is as old as the observation and the rules executed before it; also not
\* after a restart, unless the file missed a write (browserAutomationRuleReady).
THEOREM CooldownHolds == Spec => []CooldownKept
<1>1. Init => CooldownInv
  BY DEF Init, CooldownInv, CooldownKept
<1>2. Spec => []CooldownInv
  BY <1>1, BaseHolds, StepKeepsCooldown, PTL DEF Spec
<1>3. CooldownInv => CooldownKept
  BY DEF CooldownInv, CooldownKept
<1>4. QED
  BY <1>2, <1>3, PTL

-----------------------------------------------------------------------------
(* Actions of rules that were disabled *)

\* The rules that watcher w has still to act for.
Pending(w) ==
    {r \in Rules : \/ r \in todo[w]
                   \/ stage[w] \in {"triggered", "executing"} /\ r = current[w]}

\* The one action more is due to a copy taken before: no rule with a copy
\* pending has acted since it was disabled.
ExtraInv ==
    /\ \A r \in Rules : rules[r].enabled => extra[r] = 0
    /\ \A w \in Watchers : \A r \in Pending(w) : extra[r] = 0
    /\ DisabledActsAtMostOnce

\* The steps after which no rule has acted more and nobody has more copies.
LEMMA ExtraStays ==
    ASSUME TypeOK, ExtraInv,
           \A r \in Rules : /\ extra'[r] \in {extra[r], 0}
                            /\ rules'[r].enabled => rules[r].enabled \/ extra'[r] = 0,
           \A w \in Watchers : \A r \in Pending(w)' :
               r \in Pending(w) \/ rules[r].enabled
    PROVE  ExtraInv'
<1>1. \A r \in Rules : extra[r] = 0 => extra'[r] = 0
  OBVIOUS
<1>2. \A w \in Watchers : Pending(w)' \subseteq Rules
  BY DEF Pending
<1>3. DisabledActsAtMostOnce'
  BY DEF ExtraInv, DisabledActsAtMostOnce
<1>4. QED
  BY <1>1, <1>2, <1>3 DEF ExtraInv

LEMMA OwnExtra ==
    ASSUME Base, ExtraInv, NEW w \in Watchers, Proceed(w) \/ Notice(w), ~Leave(w)
    PROVE  ExtraInv'
<1> USE DEF Goto
<1>0. /\ TypeOK /\ SameRules
      /\ stage \in [Watchers -> Stages]
      /\ mode[w] \in {"cdp", "polling"}
      /\ todo \in [Watchers -> SUBSET Rules]
      /\ current \in [Watchers -> Rules \cup {None}]
      /\ \A x \in Watchers \ {w} : /\ stage'[x] = stage[x]
                                   /\ todo'[x] = todo[x]
                                   /\ current'[x] = current[x]
  BY WatcherFrame DEF Base, TypeOK
<1>1. \A x \in Watchers \ {w} : Pending(x)' = Pending(x)
  BY <1>0 DEF Pending
<1>2. CASE Act(w) /\ ~stopped[w]
  <2>1. /\ current[w] \in Rules /\ stage[w] = "executing"
        /\ stage'[w] = "acting" /\ todo' = todo /\ current' = current
        /\ rules' = rules
        /\ extra' = IF rules[current[w]].enabled \/ extra[current[w]] = 2
                    THEN extra ELSE [extra EXCEPT ![current[w]] = @ + 1]
    BY <1>0, <1>2 DEF Act, TypeOK, Working, store
  <2>2. /\ current[w] \notin todo[w]
        /\ \A x \in Watchers \ {w} :
               /\ current[w] \notin todo[x]
               /\ stage[x] \in Working => current[x] # current[w]
    BY <2>1, NobodyElseHasIt DEF Base, CopiesInv, Copies, Working
  <2>3. extra[current[w]] = 0
    BY <2>1 DEF ExtraInv, Pending
  <2>4. /\ \A r \in Rules \ {current[w]} : extra'[r] = extra[r]
        /\ extra'[current[w]] \in {0, 1}
        /\ rules[current[w]].enabled => extra' = extra
    BY <1>0, <2>1, <2>3 DEF TypeOK
  <2>5. \A x \in Watchers : Pending(x)' \subseteq Pending(x) \ {current[w]}
    BY <1>1, <2>1, <2>2 DEF Pending, Working
  <2>6. DisabledActsAtMostOnce'
    BY <2>4 DEF ExtraInv, DisabledActsAtMostOnce
  <2>7. \A x \in Watchers : \A r \in Pending(x)' : r \in Rules /\ extra'[r] = 0
    BY <2>4, <2>5 DEF ExtraInv, Pending
  <2>8. \A r \in Rules : rules'[r].enabled => extra'[r] = 0
    BY <2>1, <2>3, <2>4 DEF ExtraInv
  <2>9. QED
    BY <2>6, <2>7, <2>8 DEF ExtraInv
<1>3. CASE ~(Act(w) /\ ~stopped[w])
  <2>1. extra' = extra
    BY <1>3 DEF Proceed, Notice, Execute, Loop, CDPEnds, PollingEnds, Observe,
                NextRule, Resolve, Act, Acted, Conclude, Record, Probe,
                CDPFails, PollFails
  <2>2. \A r \in Pending(w)' : r \in Pending(w) \/ rules[r].enabled
    <3>1. CASE \/ Loop(w) \/ CDPEnds(w) \/ CDPFails(w) \/ PollingEnds(w)
               \/ PollFails(w) \/ Observe(w) \/ Record(w) \/ Act(w)
               \/ Acted(w) \/ Conclude(w)
      <4>1. stage'[w] \notin {"triggered", "executing"}
        BY <1>0, <1>3, <3>1
           DEF Loop, CDPEnds, CDPFails, PollingEnds, PollFails, Observe, Record,
               Act, Acted, Conclude
      <4>2. todo'[w] \subseteq todo[w]
        BY <1>0, <3>1
           DEF Loop, CDPEnds, CDPFails, PollingEnds, PollFails, Observe, Record,
               Act, Acted, Conclude
      <4>3. QED
        BY <4>1, <4>2 DEF Pending
    <3>2. CASE Resolve(w)
      BY <1>0, <3>2 DEF Resolve, Pending
    <3>3. CASE NextRule(w)
      BY <1>0, <3>3 DEF NextRule, Pending
    <3>4. CASE Probe(w)
      <4>1. PICK matched \in SUBSET Ready(w) : todo' = [todo EXCEPT ![w] = matched]
        BY <3>4 DEF Probe
      <4>2. stage'[w] = "probed"
        BY <1>0, <3>4 DEF Probe
      <4>3. QED
        BY <1>0, <4>1, <4>2 DEF Pending, Ready, Enabled
    <3>5. QED
      BY <3>1, <3>2, <3>3, <3>4 DEF Proceed, Notice, Execute
  <2>3. QED
    BY <1>0, <1>1, <2>1, <2>2, ExtraStays DEF SameRules
<1>4. QED
  BY <1>2, <1>3

LEMMA StepKeepsExtra == Base /\ ExtraInv /\ [Next]_vars => ExtraInv'
<1> SUFFICES ASSUME Base, ExtraInv, [Next]_vars PROVE ExtraInv'
  OBVIOUS
<1> USE DEF watching, store
<1>0. TypeOK
  BY DEF Base
<1>1. ASSUME UNCHANGED <<todo, current, extra>>, SameRules,
             \A w \in Watchers : stage'[w] \in {"triggered", "executing"} =>
                                     stage'[w] = stage[w]
      PROVE  ExtraInv'
  <2>1. \A w \in Watchers : Pending(w)' \subseteq Pending(w)
    BY <1>1 DEF Pending
  <2>2. QED
    BY <1>0, <1>1, <2>1, ExtraStays DEF SameRules
<1>2. UNCHANGED rules => SameRules
  BY DEF SameRules
<1>3. ASSUME NEW s \in Sessions, StartWatcher(s), UNCHANGED <<rules, extra>>
      PROVE  ExtraInv'
  BY <1>0, <1>1, <1>2, <1>3 DEF StartWatcher, Spawn, TypeOK
<1>4. ASSUME NEW c \in Callers, Continue(c) PROVE ExtraInv'
  <2>1. Ensure(c) => target[c] \in Sessions
    BY <1>0 DEF Ensure, TypeOK
  <2>2. QED
    BY <1>1, <1>2, <1>3, <1>4, <2>1 DEF Continue, Ensure, StopIfIdle, Cancel
<1>5. ASSUME NEW s \in Sessions, Bind(s) PROVE ExtraInv'
  BY <1>3, <1>5 DEF Bind
<1>6. ASSUME NEW w \in Watchers, Leave(w) PROVE ExtraInv'
  BY <1>0, <1>1, <1>2, <1>6 DEF Leave, Goto, TypeOK
<1>7. ASSUME NEW c \in Callers, NEW r \in Rules,
             Enable(c, r) \/ Pause(c, r) \/ Delete(c, r)
      PROVE  ExtraInv'
  <2>1. \A w \in Watchers : Pending(w)' = Pending(w)
    BY <1>7, CallFrame, <1>0 DEF Pending
  <2>2. \A x \in Rules :
            /\ extra'[x] \in {extra[x], 0}
            /\ rules'[x].enabled => rules[x].enabled \/ extra'[x] = 0
    BY <1>0, <1>7, CallFrame
  <2>3. QED
    BY <1>0, <2>1, <2>2, ExtraStays
<1>8. ASSUME NEW c \in Callers, NEW s \in Sessions, Close(c, s)
      PROVE  ExtraInv'
  <2>1. \A w \in Watchers : Pending(w)' = Pending(w)
    BY <1>8, CloseFrame, <1>0 DEF Pending
  <2>2. QED
    BY <1>0, <1>8, <2>1, CloseFrame, ExtraStays
<1>9. ASSUME NEW r \in Rules, CooldownEnds(r) PROVE ExtraInv'
  <2>1. UNCHANGED <<stage, todo, current, extra>>
    BY <1>9 DEF CooldownEnds
  <2>2. QED
    BY <1>0, <1>1, <1>9, <2>1, CooldownEndsFrame
<1>10. CASE Restart
  <2>1. \A w \in Watchers : Pending(w)' = {}
    BY <1>10 DEF Restart, Pending
  <2>2. \A r \in Rules :
            /\ extra'[r] \in {extra[r], 0}
            /\ rules'[r].enabled => extra'[r] = 0
    BY <1>10 DEF Restart
  <2>3. QED
    BY <1>0, <2>1, <2>2, ExtraStays
<1>11. CASE UNCHANGED vars
  BY <1>1, <1>2, <1>11 DEF vars
<1>12. QED
  BY <1>4, <1>5, <1>6, <1>7, <1>8, <1>9, <1>10, <1>11, OwnExtra DEF Next

\* A rule that was paused, deleted or closed acts at most once more, from the
\* copy a watcher had taken before (evaluateProbe).
THEOREM DisabledRulesStop == Spec => []DisabledActsAtMostOnce
<1>1. Init => ExtraInv
  BY DEF Init, ExtraInv, Pending, DisabledActsAtMostOnce, Absent
<1>2. Spec => []ExtraInv
  BY <1>1, BaseHolds, StepKeepsExtra, PTL DEF Spec
<1>3. QED
  BY <1>2, PTL DEF ExtraInv

-----------------------------------------------------------------------------
(* Sessions without enabled rules *)

\* Caller c has still to cancel watcher w, or to find that it must.
Stopping(c, w) ==
    /\ target[c] = session[w]
    /\ step[c] = "stop" \/ (step[c] = "cancel" /\ victim[c] = w)

\* A watcher that nobody needs is cancelled, or a caller is about to do so.
IdleInv ==
    failures = 0 =>
        \A w \in Watchers :
            Running(w) /\ Enabled(session[w]) = {} /\ ~stopped[w]
                => \E c \in Callers : Stopping(c, w)

\* Writes of the file that failed are never forgotten.
LEMMA FailuresGrow == TypeOK /\ [Next]_vars /\ failures' = 0 => failures = 0
<1> SUFFICES ASSUME TypeOK, [Next]_vars, failures' = 0 PROVE failures = 0
  OBVIOUS
<1> USE DEF store
<1>0. Persist => failures = 0
  BY DEF Persist, Saved, NotSaved, TypeOK
<1>1. ASSUME NEW w \in Watchers, Proceed(w) \/ Notice(w), ~Leave(w)
      PROVE  failures = 0
  BY <1>0, <1>1
     DEF Proceed, Notice, Execute, Loop, CDPEnds, PollingEnds, Observe, NextRule,
         Resolve, Act, Acted, Conclude, Record, Probe, CDPFails, PollFails
<1>2. ASSUME NEW c \in Callers, Continue(c) PROVE failures = 0
  BY <1>2 DEF Continue, Ensure, StopIfIdle, Cancel
<1>3. QED
  BY <1>0, <1>1, <1>2, CallFrame, CloseFrame
     DEF Next, vars, Leave, Bind, CooldownEnds, Restart

\* A caller that still has to stop a watcher goes on to do so, whatever the
\* callers of other sessions and the watchers do meanwhile.
LEMMA StepKeepsIdle == Base /\ IdleInv /\ [Next]_vars => IdleInv'
<1> SUFFICES ASSUME Base, IdleInv, [Next]_vars, failures' = 0,
                    NEW w \in Watchers, Running(w)', Enabled(session[w])' = {},
                    ~stopped'[w]
             PROVE  \E c \in Callers : Stopping(c, w)'
  BY DEF IdleInv
<1> USE DEF watching, store, calling
<1>0. TypeOK /\ failures = 0
  BY FailuresGrow DEF Base
<1>1. ASSUME Running(w), Enabled(session[w]) = {}, ~stopped[w]
      PROVE  \E c \in Callers : Stopping(c, w)
  BY <1>0, <1>1 DEF IdleInv
<1>2. ASSUME SameRules, UNCHANGED <<session, step, target, victim>>,
             Running(w), ~stopped[w]
      PROVE  \E c \in Callers : Stopping(c, w)'
  <2>1. Enabled(session[w]) = {}
    BY <1>2 DEF SameRules, Enabled, RulesOf
  <2>2. QED
    BY <1>1, <1>2, <2>1 DEF Stopping
<1>3. UNCHANGED rules => SameRules
  BY DEF SameRules
<1>4. ASSUME NEW c \in Callers, NEW r \in Rules,
             Enable(c, r) \/ Pause(c, r) \/ Delete(c, r)
      PROVE  \E x \in Callers : Stopping(x, w)'
  <2>1. /\ UNCHANGED <<watchers, watching, victim>>
        /\ step[c] = "idle"
        /\ step' = [step EXCEPT ![c] = IF rules'[r].enabled THEN "ensure" ELSE "stop"]
        /\ target' = [target EXCEPT ![c] = SessionOf[r]]
        /\ \A x \in Rules \ {r} : rules'[x] = rules[x]
    BY <1>0, <1>4, CallFrame
  <2>2. /\ \A x \in Callers \ {c} : step'[x] = step[x] /\ target'[x] = target[x]
        /\ step'[c] = IF rules'[r].enabled THEN "ensure" ELSE "stop"
        /\ target'[c] = SessionOf[r]
    BY <1>0, <2>1 DEF TypeOK
  <2>3. CASE session[w] = SessionOf[r]
    <3>1. ~rules'[r].enabled
      BY <2>1, <2>3 DEF Enabled, RulesOf
    <3>2. QED
      BY <2>1, <2>2, <2>3, <3>1 DEF Stopping
  <2>4. CASE session[w] # SessionOf[r]
    <3>1. Enabled(session[w]) = {} /\ Running(w) /\ ~stopped[w]
      BY <2>1, <2>4 DEF Enabled, RulesOf, Running
    <3>2. PICK x \in Callers : Stopping(x, w)
      BY <1>1, <3>1
    <3>3. x # c
      BY <2>1, <3>2 DEF Stopping
    <3>4. QED
      BY <2>1, <2>2, <3>2, <3>3 DEF Stopping
  <2>5. QED
    BY <2>3, <2>4
<1>5. ASSUME NEW c \in Callers, NEW s \in Sessions, Close(c, s)
      PROVE  \E x \in Callers : Stopping(x, w)'
  <2>1. /\ UNCHANGED <<watchers, watching>>
        /\ step[c] = "idle"
        /\ \A x \in Callers \ {c} : /\ step'[x] = step[x]
                                    /\ target'[x] = target[x]
                                    /\ victim'[x] = victim[x]
        /\ step'[c] = "cancel" /\ target'[c] = s /\ victim'[c] = watchers[s]
    BY <1>0, <1>5, CloseFrame DEF TypeOK
  <2>2. Running(w)
    BY <2>1 DEF Running
  <2>3. CASE session[w] = s
    BY <2>1, <2>2, <2>3 DEF Stopping, Base, WatchersInv, OneWatcherPerSession
  <2>4. CASE session[w] # s
    <3>1. \A x \in RulesOf(session[w]) : x \in Rules /\ SessionOf[x] # s
      BY <2>4 DEF RulesOf
    <3>2. Enabled(session[w]) = {}
      BY <1>0, <1>5, <2>1, <3>1, CloseFrame DEF Enabled, RulesOf
    <3>3. PICK x \in Callers : Stopping(x, w)
      BY <1>1, <2>1, <2>2, <3>2
    <3>4. QED
      BY <2>1, <3>3 DEF Stopping
  <2>5. QED
    BY <2>3, <2>4
<1>6. ASSUME NEW s \in Sessions, StartWatcher(s), UNCHANGED <<rules, victim>>,
             \A x \in Callers : step[x] # "ensure" =>
                 step'[x] = step[x] /\ target'[x] = target[x]
      PROVE  \E x \in Callers : Stopping(x, w)'
  <2>1. \/ session'[w] = s /\ Enabled(s) # {}
        \/ UNCHANGED <<session[w], stage[w], stopped>>
    BY <1>0, <1>6 DEF StartWatcher, Spawn, TypeOK
  <2>2. Enabled(session'[w]) = {}
    BY <1>6 DEF Enabled, RulesOf
  <2>3. session'[w] = session[w] /\ Running(w) /\ ~stopped[w]
    BY <2>1, <2>2 DEF Running
  <2>4. PICK x \in Callers : Stopping(x, w)
    BY <1>1, <2>2, <2>3
  <2>5. QED
    BY <1>6, <2>3, <2>4 DEF Stopping
<1>7. ASSUME NEW c \in Callers, Ensure(c) PROVE \E x \in Callers : Stopping(x, w)'
  <2>1. target[c] \in Sessions
    BY <1>0, <1>7 DEF Ensure, TypeOK
  <2>2. \A x \in Callers : step[x] # "ensure" =>
            step'[x] = step[x] /\ target'[x] = target[x]
    BY <1>0, <1>7 DEF Ensure, TypeOK
  <2>3. StartWatcher(target[c]) /\ UNCHANGED <<rules, victim>>
    BY <1>7 DEF Ensure
  <2>4. QED
    BY <1>6, <2>1, <2>2, <2>3
<1>8. ASSUME NEW c \in Callers, StopIfIdle(c)
      PROVE  \E x \in Callers : Stopping(x, w)'
  <2>1. /\ UNCHANGED <<rules, stage, session, stopped, target>>
        /\ step[c] = "stop"
        /\ \A x \in Callers \ {c} : step'[x] = step[x] /\ victim'[x] = victim[x]
        /\ Enabled(target[c]) = {} =>
               step'[c] = "cancel" /\ victim'[c] = watchers[target[c]]
    BY <1>0, <1>8 DEF StopIfIdle, TypeOK
  <2>2. Running(w) /\ ~stopped[w] /\ Enabled(session[w]) = {}
    BY <2>1 DEF Running, Enabled, RulesOf
  <2>3. PICK x \in Callers : Stopping(x, w)
    BY <1>1, <2>2
  <2>4. CASE x = c
    <3>1. watchers[session[w]] = w /\ session[w] = target[c]
      BY <2>2, <2>3, <2>4 DEF Base, WatchersInv, OneWatcherPerSession, Stopping
    <3>2. QED
      BY <2>1, <2>2, <3>1 DEF Stopping
  <2>5. CASE x # c
    BY <2>1, <2>3, <2>5 DEF Stopping
  <2>6. QED
    BY <2>4, <2>5
<1>9. ASSUME NEW c \in Callers, Cancel(c)
      PROVE  \E x \in Callers : Stopping(x, w)'
  <2>1. /\ UNCHANGED <<rules, stage, session>>
        /\ step[c] = "cancel"
        /\ stopped'[w] = (stopped[w] \/ w = victim[c])
        /\ \A x \in Callers \ {c} : /\ step'[x] = step[x]
                                    /\ target'[x] = target[x]
                                    /\ victim'[x] = victim[x]
    BY <1>0, <1>9 DEF Cancel, TypeOK
  <2>2. Running(w) /\ ~stopped[w] /\ w # victim[c] /\ Enabled(session[w]) = {}
    BY <2>1 DEF Running, Enabled, RulesOf
  <2>3. PICK x \in Callers : Stopping(x, w)
    BY <1>1, <2>2
  <2>4. x # c
    BY <2>1, <2>2, <2>3 DEF Stopping
  <2>5. QED
    BY <2>1, <2>3, <2>4 DEF Stopping
<1>10. ASSUME NEW s \in Sessions, Bind(s) PROVE \E x \in Callers : Stopping(x, w)'
  BY <1>6, <1>10 DEF Bind
<1>11. ASSUME NEW v \in Watchers, Proceed(v) \/ Notice(v), ~Leave(v)
       PROVE  \E x \in Callers : Stopping(x, w)'
  <2>1. /\ SameRules /\ OwnStep
        /\ stage[v] \in Active
        /\ \A x \in Watchers \ {v} : stage'[x] = stage[x]
    BY <1>0, <1>11, WatcherFrame
  <2>2. Running(w)
    BY <1>0, <2>1 DEF Running, Active
  <2>3. QED
    BY <1>2, <2>1, <2>2 DEF OwnStep
<1>12. ASSUME NEW v \in Watchers, Leave(v)
       PROVE  \E x \in Callers : Stopping(x, w)'
  <2>1. /\ UNCHANGED <<rules, session, step, target, victim>>
        /\ stage' = [stage EXCEPT ![v] = "done"]
        /\ stopped' = [stopped EXCEPT ![v] = FALSE]
    BY <1>12 DEF Leave, Goto
  <2>2. w # v
    BY <1>0, <2>1 DEF Running, TypeOK
  <2>3. Running(w) /\ ~stopped[w]
    BY <1>0, <2>1, <2>2 DEF Running, TypeOK
  <2>4. QED
    BY <1>2, <1>3, <2>1, <2>3
<1>13. ASSUME NEW r \in Rules, CooldownEnds(r)
       PROVE  \E x \in Callers : Stopping(x, w)'
  <2>1. UNCHANGED <<watching, calling>>
    BY <1>13 DEF CooldownEnds
  <2>2. QED
    BY <1>0, <1>2, <1>13, <2>1, CooldownEndsFrame DEF Running
<1>14. CASE Restart
  BY <1>14 DEF Restart, Running
<1>15. CASE UNCHANGED vars
  BY <1>2, <1>3, <1>15 DEF vars, Running
<1>16. QED
  BY <1>4, <1>5, <1>7, <1>8, <1>9, <1>10, <1>11, <1>12, <1>13, <1>14, <1>15
     DEF Next, Continue

\* Once the calls on a session have returned and no rule of it is enabled, its
\* watcher is cancelled, if no write of the file failed (stopWatcherIfIdle).
THEOREM IdleSessionsStop == Spec => []IdleSessionsAreLeftAlone
<1>1. Init => IdleInv
  BY DEF Init, IdleInv, Running
<1>2. Spec => []IdleInv
  BY <1>1, BaseHolds, StepKeepsIdle, PTL DEF Spec
<1>3. IdleInv => IdleSessionsAreLeftAlone
  BY DEF IdleInv, IdleSessionsAreLeftAlone, Stopping, Settled
<1>4. QED
  BY <1>2, <1>3, PTL

-----------------------------------------------------------------------------
(* Sessions that always had an enabled rule *)

\* A goroutine that was not started was not cancelled.
NewAreNotStopped == \A w \in Watchers : stage[w] = "unused" => ~stopped[w]

LEMMA StepKeepsNew ==
    Base /\ NewAreNotStopped /\ [Next]_vars => NewAreNotStopped'
<1> SUFFICES ASSUME Base, NewAreNotStopped, [Next]_vars, NEW w \in Watchers,
                    stage'[w] = "unused"
             PROVE  ~stopped'[w]
  BY DEF NewAreNotStopped
<1> USE DEF watching
<1>0. TypeOK /\ (stage[w] = "unused" => ~stopped[w])
  BY DEF Base, NewAreNotStopped
<1>1. ASSUME NEW c \in Callers, Cancel(c) PROVE ~stopped'[w]
  <2>1. /\ step[c] = "cancel" /\ stage' = stage
        /\ stopped'[w] = (stopped[w] \/ w = victim[c])
    BY <1>1 DEF Cancel
  <2>2. w # victim[c]
    BY <2>1, NoneAssumption DEF Base, WatchersInv, VictimsAreOfSession
  <2>3. QED
    BY <1>0, <2>1, <2>2
<1>2. ASSUME NEW s, StartWatcher(s) PROVE ~stopped'[w]
  BY <1>0, <1>2 DEF StartWatcher, Spawn, TypeOK
<1>3. ASSUME NEW v \in Watchers, Proceed(v) \/ Notice(v), ~Leave(v)
      PROVE  ~stopped'[w]
  BY <1>0, <1>3, WatcherFrame DEF OwnStep, Active
<1>4. ASSUME NEW v \in Watchers, Leave(v) PROVE ~stopped'[w]
  BY <1>0, <1>4 DEF Leave, Goto, TypeOK
<1>5. CASE Restart
  BY <1>5 DEF Restart
<1>6. ASSUME NEW c \in Callers, Continue(c) PROVE ~stopped'[w]
  BY <1>0, <1>1, <1>2, <1>6 DEF Continue, Ensure, StopIfIdle
<1>7. QED
  BY <1>0, <1>2, <1>3, <1>4, <1>5, <1>6, CallFrame, CloseFrame
     DEF Next, vars, Bind, CooldownEnds

\* Caller c has still to start the watcher of session s.
Ensuring(c, s) == step[c] = "ensure" /\ target[c] = s

\* A session with enabled rules is watched, or somebody is about to start its
\* watcher; its watcher is neither cancelled nor leaving, and nobody is about
\* to cancel it.
Kept(s) ==
    /\ Enabled(s) # {} =>
           Watched(s) \/ s \in binding \/ \E c \in Callers : Ensuring(c, s)
    /\ \A w \in Watchers : Running(w) /\ session[w] = s =>
           ~stopped[w] /\ stage[w] # "leaving" /\ Enabled(s) # {}
    /\ \A c \in Callers : step[c] = "cancel" /\ target[c] = s => victim[c] = None

BusyInv == failures = 0 => \A s \in Sessions \ idled : Kept(s)

\* A session that no step touches.
LEMMA KeptStays ==
    ASSUME NEW s \in Sessions, Kept(s), Enabled(s)' = Enabled(s),
           s \in binding => s \in binding',
           \A w \in Watchers :
               /\ Running(w)' <=> Running(w)
               /\ session'[w] = session[w] /\ stopped'[w] = stopped[w]
               /\ stage'[w] = "leaving" /\ session[w] = s => stage[w] = "leaving",
           \A c \in Callers :
               /\ Ensuring(c, s) => Ensuring(c, s)'
               /\ step'[c] = "cancel" /\ target'[c] = s =>
                      /\ step[c] = "cancel" /\ target[c] = s
                      /\ victim'[c] = victim[c]
    PROVE  Kept(s)'
<1>1. ASSUME Enabled(s)' # {}
      PROVE  Watched(s)' \/ s \in binding' \/ \E c \in Callers : Ensuring(c, s)'
  <2>1. CASE Watched(s)
    <3>1. PICK w \in Watchers : /\ session[w] = s /\ Running(w)
                                /\ stage[w] # "leaving" /\ ~stopped[w]
      BY <2>1 DEF Watched
    <3>2. QED
      BY <3>1 DEF Watched
  <2>2. QED
    BY <1>1, <2>1 DEF Kept
<1>2. \A w \in Watchers : Running(w)' /\ session'[w] = s =>
          ~stopped'[w] /\ stage'[w] # "leaving" /\ Enabled(s)' # {}
  BY DEF Kept
<1>3. QED
  BY <1>1, <1>2 DEF Kept

\* A session without a watcher, or with one that goes on: ensureWatcher leaves
\* it watched if it has enabled rules.
LEMMA StartServes ==
    ASSUME Base, NewAreNotStopped, NEW s \in Sessions, Kept(s), StartWatcher(s),
           UNCHANGED rules, Enabled(s) # {}
    PROVE  Watched(s)'
<1>0. TypeOK
  BY DEF Base
<1>1. CASE watchers[s] = None
  <2>1. PICK w \in Watchers :
            /\ stage[w] = "unused"
            /\ stage' = [stage EXCEPT ![w] = "loop"]
            /\ session' = [session EXCEPT ![w] = s]
            /\ UNCHANGED stopped
    BY <1>1 DEF StartWatcher, Spawn
  <2>2. QED
    BY <1>0, <2>1 DEF Watched, Running, NewAreNotStopped, TypeOK
<1>2. CASE watchers[s] # None
  <2>1. /\ watchers[s] \in Watchers
        /\ Running(watchers[s]) /\ session[watchers[s]] = s
    BY <1>0, <1>2 DEF Base, WatchersInv, OneWatcherPerSession, TypeOK
  <2>2. UNCHANGED <<stage, session, stopped>>
    BY <1>2 DEF StartWatcher, watching
  <2>3. ~stopped[watchers[s]] /\ stage[watchers[s]] # "leaving"
    BY <2>1 DEF Kept
  <2>4. QED
    BY <2>1, <2>2, <2>3 DEF Watched, Running
<1>3. QED
  BY <1>1, <1>2

\* ensureWatcher and bind keep every session that was kept.
LEMMA StartKeeps ==
    ASSUME Base, NewAreNotStopped, NEW s \in Sessions, StartWatcher(s),
           UNCHANGED <<rules, victim>>, NEW t \in Sessions, Kept(t),
           t # s => (t \in binding <=> t \in binding'),
           \A c \in Callers : \/ step'[c] = step[c] /\ target'[c] = target[c]
                              \/ step'[c] = "idle" /\ ~(t # s /\ Ensuring(c, t))
    PROVE  Kept(t)'
<1>0. TypeOK
  BY DEF Base
<1>1. Enabled(t)' = Enabled(t)
  BY DEF Enabled, RulesOf
<1>2. ASSUME NEW x \in Watchers, Running(x)', session'[x] = t
      PROVE  ~stopped'[x] /\ stage'[x] # "leaving" /\ Enabled(t)' # {}
  <2>1. CASE UNCHANGED <<stage[x], session[x], stopped>>
    BY <1>1, <1>2, <2>1 DEF Kept, Running
  <2>2. CASE /\ stage[x] = "unused" /\ stage'[x] = "loop"
             /\ session'[x] = s /\ stopped' = stopped /\ Enabled(s) # {}
    BY <1>1, <1>2, <2>2 DEF NewAreNotStopped
  <2>3. QED
    BY <1>0, <2>1, <2>2 DEF StartWatcher, Spawn, watching, TypeOK
<1>3. ASSUME Enabled(t)' # {}
      PROVE  Watched(t)' \/ t \in binding' \/ \E c \in Callers : Ensuring(c, t)'
  <2>1. CASE t = s
    BY <1>1, <1>3, <2>1, StartServes
  <2>2. CASE t # s
    <3>1. CASE Watched(t)
      <4>1. PICK x \in Watchers : /\ session[x] = t /\ Running(x)
                                  /\ stage[x] # "leaving" /\ ~stopped[x]
        BY <3>1 DEF Watched
      <4>2. UNCHANGED <<stage[x], session[x], stopped>>
        BY <1>0, <4>1 DEF StartWatcher, Spawn, watching, Running, TypeOK
      <4>3. QED
        BY <4>1, <4>2 DEF Watched, Running
    <3>2. QED
      BY <1>1, <1>3, <2>2, <3>1 DEF Kept, Ensuring
  <2>3. QED
    BY <2>1, <2>2
<1>4. \A c \in Callers : step'[c] = "cancel" /\ target'[c] = t => victim'[c] = None
  BY DEF Kept
<1>5. QED
  BY <1>2, <1>3, <1>4 DEF Kept

LEMMA StepKeepsBusy ==
    Base /\ NewAreNotStopped /\ BusyInv /\ [Next]_vars => BusyInv'
<1> SUFFICES ASSUME Base, NewAreNotStopped, BusyInv, [Next]_vars, failures' = 0,
                    NEW s \in Sessions, s \notin idled'
             PROVE  Kept(s)'
  BY DEF BusyInv
<1> USE DEF watching, store, calling
<1>0. TypeOK /\ failures = 0
  BY FailuresGrow DEF Base
<1>1. s \notin idled => Kept(s)
  BY <1>0 DEF BusyInv
<1>2. ASSUME SameRules, s \notin idled, UNCHANGED <<session, stopped, binding>>,
             \A w \in Watchers :
                 /\ Running(w)' <=> Running(w)
                 /\ stage'[w] = "leaving" /\ session[w] = s => stage[w] = "leaving",
             UNCHANGED <<step, target, victim>>
      PROVE  Kept(s)'
  BY <1>1, <1>2, KeptStays, SameEnabled DEF Ensuring
<1>3. UNCHANGED rules => SameRules
  BY DEF SameRules
<1>4. ASSUME NEW c \in Callers, NEW r \in Rules,
             Enable(c, r) \/ Pause(c, r) \/ Delete(c, r)
      PROVE  Kept(s)'
  <2>1. /\ UNCHANGED <<watchers, watching, victim, binding>>
        /\ step[c] = "idle"
        /\ step'[c] = IF rules'[r].enabled THEN "ensure" ELSE "stop"
        /\ target'[c] = SessionOf[r]
        /\ \A x \in Callers \ {c} : step'[x] = step[x] /\ target'[x] = target[x]
        /\ \A x \in Rules \ {r} : rules'[x] = rules[x]
    <3>1. /\ step' = [step EXCEPT ![c] = IF rules'[r].enabled
                                         THEN "ensure" ELSE "stop"]
          /\ target' = [target EXCEPT ![c] = SessionOf[r]]
      BY <1>0, <1>4, CallFrame
    <3>2. /\ step'[c] = IF rules'[r].enabled THEN "ensure" ELSE "stop"
          /\ target'[c] = SessionOf[r]
          /\ \A x \in Callers \ {c} : step'[x] = step[x] /\ target'[x] = target[x]
      BY <1>0, <3>1 DEF TypeOK
    <3>3. /\ UNCHANGED <<watchers, watching, victim, binding>>
          /\ step[c] = "idle"
          /\ \A x \in Rules \ {r} : rules'[x] = rules[x]
      BY <1>0, <1>4, CallFrame
    <3>4. QED
      BY <3>2, <3>3
  <2>2. /\ s \notin idled
        /\ s = SessionOf[r] /\ Enabled(s) # {} => Enabled(s)' # {}
    BY <1>0, <1>4, CallFrame
  <2>3. Kept(s)
    BY <1>1, <2>2
  <2>4. CASE s # SessionOf[r]
    <3>1. Enabled(s)' = Enabled(s)
      BY <2>1, <2>4 DEF Enabled, RulesOf
    <3>2. \A x \in Callers : Ensuring(x, s) => Ensuring(x, s)'
      BY <2>1 DEF Ensuring
    <3>3. QED
      BY <2>1, <2>3, <2>4, <3>1, <3>2, KeptStays DEF Running
  <2>5. CASE s = SessionOf[r]
    <3>1. ASSUME NEW w \in Watchers, Running(w)', session'[w] = s
          PROVE  ~stopped'[w] /\ stage'[w] # "leaving" /\ Enabled(s)' # {}
      BY <2>1, <2>2, <2>3, <2>5, <3>1 DEF Kept, Running
    <3>2. \A x \in Callers : step'[x] = "cancel" /\ target'[x] = s
                                 => victim'[x] = None
      BY <2>1, <2>3 DEF Kept
    <3>3. ASSUME Enabled(s)' # {}
          PROVE  \/ Watched(s)' \/ s \in binding'
                 \/ \E x \in Callers : Ensuring(x, s)'
      <4>1. CASE rules'[r].enabled
        BY <2>1, <2>5, <4>1 DEF Ensuring
      <4>2. CASE ~rules'[r].enabled
        <5>1. Enabled(s) # {}
          BY <2>1, <3>3, <4>2 DEF Enabled, RulesOf
        <5>2. \A x \in Callers : Ensuring(x, s) => Ensuring(x, s)'
          BY <2>1 DEF Ensuring
        <5>3. Watched(s)' <=> Watched(s)
          BY <2>1 DEF Watched, Running
        <5>4. QED
          BY <2>1, <2>3, <5>1, <5>2, <5>3 DEF Kept
      <4>3. QED
        BY <4>1, <4>2
    <3>4. QED
      BY <3>1, <3>2, <3>3 DEF Kept
  <2>6. QED
    BY <2>4, <2>5
<1>5. ASSUME NEW c \in Callers, NEW t \in Sessions, Close(c, t)
      PROVE  Kept(s)'
  <2>1. /\ UNCHANGED <<watchers, watching, binding>>
        /\ step[c] = "idle"
        /\ \A x \in Callers \ {c} : /\ step'[x] = step[x]
                                    /\ target'[x] = target[x]
                                    /\ victim'[x] = victim[x]
        /\ step'[c] = "cancel" /\ target'[c] = t /\ victim'[c] = watchers[t]
    BY <1>0, <1>5, CloseFrame DEF TypeOK
  <2>2. s \notin idled /\ (s = t => Enabled(s) = {})
    BY <1>0, <1>5, CloseFrame
  <2>3. Kept(s)
    BY <1>1, <2>2
  <2>4. Enabled(s)' = Enabled(s)
    <3>1. \A x \in Rules :
              rules'[x].enabled <=> rules[x].enabled /\ SessionOf[x] # t
      BY <1>0, <1>5, CloseFrame
    <3>2. QED
      BY <2>2, <3>1 DEF Enabled, RulesOf
  <2>5. s = t => watchers[t] = None
    BY <1>0, <2>2, <2>3
       DEF Kept, Base, WatchersInv, OneWatcherPerSession, TypeOK
  <2>6. \A w \in Watchers : /\ Running(w)' <=> Running(w)
                            /\ session'[w] = session[w] /\ stopped'[w] = stopped[w]
                            /\ stage'[w] = stage[w]
    BY <2>1 DEF Running
  <2>7. Watched(s)' <=> Watched(s)
    BY <2>1 DEF Watched, Running
  <2>8. \A x \in Callers : Ensuring(x, s) => Ensuring(x, s)'
    BY <2>1 DEF Ensuring
  <2>9. \A x \in Callers : step'[x] = "cancel" /\ target'[x] = s
                               => victim'[x] = None
    BY <2>1, <2>3, <2>5 DEF Kept
  <2>10. QED
    BY <2>1, <2>3, <2>4, <2>6, <2>7, <2>8, <2>9 DEF Kept
<1>6. ASSUME NEW c \in Callers, Ensure(c) PROVE Kept(s)'
  <2>1. /\ target[c] \in Sessions /\ step[c] = "ensure" /\ step'[c] = "idle"
        /\ \A x \in Callers \ {c} : step'[x] = step[x] /\ target'[x] = target[x]
        /\ StartWatcher(target[c])
        /\ UNCHANGED <<rules, victim, binding, idled>>
    BY <1>0, <1>6 DEF Ensure, TypeOK
  <2>2. \A x \in Callers :
            \/ step'[x] = step[x] /\ target'[x] = target[x]
            \/ step'[x] = "idle" /\ ~(s # target[c] /\ Ensuring(x, s))
    BY <2>1 DEF Ensuring
  <2>3. QED
    BY <1>1, <2>1, <2>2, StartKeeps
<1>7. ASSUME NEW c \in Callers, StopIfIdle(c) PROVE Kept(s)'
  <2>1. /\ UNCHANGED <<rules, watchers, stage, session, stopped, target,
                       binding, idled>>
        /\ step[c] = "stop"
        /\ \A x \in Callers \ {c} : step'[x] = step[x] /\ victim'[x] = victim[x]
        /\ \/ /\ Enabled(target[c]) = {}
              /\ step'[c] = "cancel" /\ victim'[c] = watchers[target[c]]
           \/ step'[c] = "idle"
        /\ target[c] \in Sessions
    BY <1>0, <1>7 DEF StopIfIdle, TypeOK
  <2>2. Kept(s)
    BY <1>1, <2>1
  <2>3. Enabled(s) = {} => watchers[s] = None
    BY <1>0, <2>2 DEF Kept, Base, WatchersInv, OneWatcherPerSession, TypeOK
  <2>4. /\ Enabled(s)' = Enabled(s)
        /\ Watched(s)' <=> Watched(s)
        /\ \A x \in Callers : Ensuring(x, s) => Ensuring(x, s)'
        /\ \A w \in Watchers : Running(w)' <=> Running(w)
    BY <2>1 DEF Enabled, RulesOf, Watched, Running, Ensuring
  <2>5. \A x \in Callers : step'[x] = "cancel" /\ target'[x] = s
                               => victim'[x] = None
    BY <2>1, <2>2, <2>3 DEF Kept
  <2>6. QED
    BY <2>1, <2>2, <2>4, <2>5 DEF Kept
<1>8. ASSUME NEW c \in Callers, Cancel(c) PROVE Kept(s)'
  <2>1. /\ UNCHANGED <<rules, stage, session, binding, idled>>
        /\ step[c] = "cancel" /\ step'[c] = "idle"
        /\ \A w \in Watchers : stopped'[w] = (stopped[w] \/ w = victim[c])
        /\ \A x \in Callers \ {c} : /\ step'[x] = step[x]
                                    /\ target'[x] = target[x]
                                    /\ victim'[x] = victim[x]
    BY <1>0, <1>8 DEF Cancel, TypeOK
  <2>2. Kept(s)
    BY <1>1, <2>1
  <2>3. \A w \in Watchers : session[w] = s => w # victim[c]
    <3>1. ASSUME NEW w \in Watchers, session[w] = s, w = victim[c] PROVE FALSE
      <4>1. victim[c] # None
        BY <3>1, NoneAssumption
      <4>2. target[c] = s
        BY <2>1, <3>1, <4>1 DEF Base, WatchersInv, VictimsAreOfSession
      <4>3. QED
        BY <2>1, <2>2, <4>1, <4>2 DEF Kept
    <3>2. QED
      BY <3>1
  <2>4. Enabled(s)' = Enabled(s)
    BY <2>1 DEF Enabled, RulesOf
  <2>5. Watched(s)' <=> Watched(s)
    <3>1. \A w \in Watchers : session[w] = s => (stopped'[w] <=> stopped[w])
      BY <2>1, <2>3
    <3>2. QED
      BY <2>1, <3>1 DEF Watched, Running
  <2>6. \A x \in Callers : Ensuring(x, s) => Ensuring(x, s)'
    BY <2>1 DEF Ensuring
  <2>7. QED
    BY <2>1, <2>2, <2>3, <2>4, <2>5, <2>6 DEF Kept, Running
<1>9. ASSUME NEW t \in Sessions, Bind(t) PROVE Kept(s)'
  <2>1. /\ StartWatcher(t) /\ UNCHANGED <<rules, victim, step, target, idled>>
        /\ binding' = binding \ {t}
    BY <1>9 DEF Bind
  <2>2. QED
    BY <1>1, <2>1, StartKeeps
<1>10. ASSUME NEW w \in Watchers, Proceed(w) \/ Notice(w), ~Leave(w)
       PROVE  Kept(s)'
  <2>1. /\ SameRules /\ OwnStep
        /\ stage[w] \in Active /\ stage'[w] \in Active
        /\ \A x \in Watchers \ {w} : stage'[x] = stage[x]
        /\ stage'[w] = "leaving" => Abandoned(w) \/ stage[w] = "leaving"
    BY <1>0, <1>10, WatcherFrame
  <2>2. \A x \in Watchers : Running(x)' <=> Running(x)
    BY <2>1 DEF Running, Active
  <2>3. Running(w)
    BY <2>1 DEF Running, Active
  <2>4. s \notin idled
    BY <2>1 DEF OwnStep
  <2>5. stage'[w] = "leaving" /\ session[w] = s => stage[w] = "leaving"
    BY <1>1, <2>1, <2>3, <2>4 DEF Kept, Abandoned
  <2>6. QED
    BY <1>2, <2>1, <2>2, <2>4, <2>5 DEF OwnStep
<1>11. ASSUME NEW w \in Watchers, Leave(w) PROVE Kept(s)'
  <2>1. /\ UNCHANGED <<rules, session, step, target, victim, binding, idled>>
        /\ stage[w] = "leaving" /\ stage'[w] = "done"
        /\ \A x \in Watchers \ {w} :
               stage'[x] = stage[x] /\ stopped'[x] = stopped[x]
    BY <1>0, <1>11 DEF Leave, Goto, TypeOK
  <2>2. Kept(s)
    BY <1>1, <2>1
  <2>3. session[w] # s
    BY <2>1, <2>2 DEF Kept, Running
  <2>4. Enabled(s)' = Enabled(s)
    BY <2>1 DEF Enabled, RulesOf
  <2>5. Watched(s)' <=> Watched(s)
    BY <2>1, <2>3 DEF Watched, Running
  <2>6. \A x \in Callers : Ensuring(x, s) => Ensuring(x, s)'
    BY <2>1 DEF Ensuring
  <2>7. \A x \in Watchers \ {w} : Running(x)' <=> Running(x)
    BY <2>1 DEF Running
  <2>8. QED
    BY <2>1, <2>2, <2>3, <2>4, <2>5, <2>6, <2>7 DEF Kept
<1>12. ASSUME NEW r \in Rules, CooldownEnds(r) PROVE Kept(s)'
  <2>1. UNCHANGED <<watching, calling, binding, idled>>
    BY <1>12 DEF CooldownEnds
  <2>2. QED
    BY <1>0, <1>2, <1>12, <2>1, CooldownEndsFrame DEF Running
<1>13. CASE Restart
  <2>1. /\ \A w \in Watchers : stage'[w] \in {"unused", "done", "dead"}
        /\ \A c \in Callers : step'[c] = "idle"
        /\ rules' = disk
        /\ binding' = {t \in Sessions : \E r \in RulesOf(t) : disk[r].enabled}
    BY <1>13 DEF Restart
  <2>2. Enabled(s)' # {} => s \in binding'
    BY <2>1 DEF Enabled, RulesOf
  <2>3. QED
    BY <2>1, <2>2 DEF Kept, Running
<1>14. CASE UNCHANGED vars
  BY <1>2, <1>3, <1>14 DEF vars, Running
<1>15. QED
  BY <1>4, <1>5, <1>6, <1>7, <1>8, <1>9, <1>10, <1>11, <1>12, <1>13, <1>14
     DEF Next, Continue

\* A session that has had an enabled rule ever since the process started is
\* watched, whenever no call on it is under way and no write of the file failed
\* (ensureWatcher, bind, stopWatcherIfIdle, watch).
THEOREM BusySessionsStay == Spec => []BusySessionsAreWatched
<1>1. Init => NewAreNotStopped /\ BusyInv
  BY DEF Init, NewAreNotStopped, BusyInv, Kept, Enabled, RulesOf, Running, Absent
<1>2. Spec => [](NewAreNotStopped /\ BusyInv)
  BY <1>1, BaseHolds, StepKeepsNew, StepKeepsBusy, PTL DEF Spec
<1>3. BusyInv => BusySessionsAreWatched
  BY DEF BusyInv, Kept, BusySessionsAreWatched, Settled, Ensuring
<1>4. QED
  BY <1>2, <1>3, PTL

-----------------------------------------------------------------------------
(* Coming to an end *)

\* The steps a watcher that nobody needs any more still makes, by the point it
\* has reached, when n copies of rules wait to be executed.
StepsFrom(point, n) ==
    IF point \in {"unused", "done", "dead"} THEN 0
    ELSE IF point = "leaving" THEN 1
    ELSE IF point \in {"loop", "polling"} THEN 2
    ELSE IF point = "cdp" THEN 3
    ELSE IF point = "chosen" THEN 6 * n + 4
    ELSE IF point \in {"probed", "recording"} THEN 6 * n + 5
    ELSE IF point \in {"verifying", "failed"} THEN 6 * n + 6
    ELSE IF point = "acting" THEN 6 * n + 7
    ELSE IF point = "executing" THEN 6 * n + 8
    ELSE 6 * n + 9

StepsLeft(w) == StepsFrom(stage[w], Cardinality(todo[w]))

\* As many rules wait as there are at most.
LEMMA TodoIsFinite ==
    ASSUME IsFiniteSet(Rules), TypeOK, NEW w \in Watchers
    PROVE  /\ IsFiniteSet(todo[w]) /\ IsFiniteSet(Rules)
           /\ Cardinality(Rules) \in Nat
           /\ Cardinality(todo[w]) \in 0 .. Cardinality(Rules)
<1>1. todo[w] \subseteq Rules
  BY DEF TypeOK
<1>2. IsFiniteSet(todo[w]) /\ Cardinality(todo[w]) <= Cardinality(Rules)
  BY <1>1, FS_Subset
<1>3. Cardinality(todo[w]) \in Nat /\ Cardinality(Rules) \in Nat
  BY <1>2, FS_CardinalityType
<1>4. QED
  BY <1>2, <1>3

LEMMA StepsFromType ==
    ASSUME NEW point, NEW m \in Nat, NEW n \in 0 .. m
    PROVE  StepsFrom(point, n) \in 0 .. 6 * m + 9
BY DEF StepsFrom

\* Later points come with fewer steps.
LEMMA FewerSteps ==
    ASSUME NEW n \in Nat
    PROVE  /\ StepsFrom("done", n) < StepsFrom("leaving", n)
           /\ \A point \in {"loop", "polling", "cdp"} :
                  StepsFrom("leaving", n) < StepsFrom(point, n)
           /\ \A point \in {"probed", "chosen"}, next \in {"cdp", "polling"},
                 k \in Nat :
                  StepsFrom(next, k) < StepsFrom(point, n)
           /\ StepsFrom("chosen", n) < StepsFrom("probed", n)
           /\ n # 0 => StepsFrom("triggered", n - 1) < StepsFrom("chosen", n)
           /\ StepsFrom("executing", n) < StepsFrom("triggered", n)
           /\ StepsFrom("failed", n) < StepsFrom("triggered", n)
           /\ StepsFrom("acting", n) < StepsFrom("executing", n)
           /\ StepsFrom("failed", n) < StepsFrom("executing", n)
           /\ StepsFrom("verifying", n) < StepsFrom("acting", n)
           /\ StepsFrom("failed", n) < StepsFrom("acting", n)
           /\ \A point \in {"verifying", "failed"} :
                  StepsFrom("recording", n) < StepsFrom(point, n)
           /\ StepsFrom("chosen", n) < StepsFrom("recording", n)
BY DEF StepsFrom

\* A watcher that moves with its copies kept.
LEMMA MovesWithCopies ==
    ASSUME TypeOK, NEW w \in Watchers, NEW next, Goto(w, next), todo' = todo
    PROVE  /\ StepsLeft(w) = StepsFrom(stage[w], Cardinality(todo[w]))
           /\ StepsLeft(w)' = StepsFrom(next, Cardinality(todo[w]))
<1>1. stage'[w] = next
  BY DEF Goto, TypeOK
<1>2. QED
  BY <1>1 DEF StepsLeft

\* Outside of executeRule.
LEMMA WatchingWindsDown ==
    ASSUME IsFiniteSet(Rules), TypeOK, NEW w \in Watchers,
           Enabled(session[w]) = {},
           Loop(w) \/ CDPEnds(w) \/ PollingEnds(w) \/ Leave(w)
    PROVE  StepsLeft(w)' < StepsLeft(w)
<1>0. Cardinality(todo[w]) \in Nat
  BY TodoIsFinite
<1>1. Abandoned(w)
  BY DEF Abandoned
<1>2. CASE Leave(w)
  <2>1. stage[w] = "leaving" /\ Goto(w, "done") /\ todo' = todo
    BY <1>2 DEF Leave
  <2>2. QED
    BY <1>0, <2>1, MovesWithCopies, FewerSteps
<1>3. CASE Loop(w) \/ CDPEnds(w) \/ PollingEnds(w)
  <2>1. /\ stage[w] \in {"loop", "cdp", "polling"}
        /\ Goto(w, "leaving") /\ todo' = todo
    BY <1>1, <1>3 DEF Loop, CDPEnds, PollingEnds
  <2>2. QED
    BY <1>0, <2>1, MovesWithCopies, FewerSteps
<1>4. QED
  BY <1>2, <1>3

\* It goes back to where it was before the probe.
LEMMA BackToMode ==
    ASSUME IsFiniteSet(Rules), TypeOK, NEW w \in Watchers,
           stage[w] \in {"probed", "chosen"}, Goto(w, mode[w]),
           todo'[w] = {}
    PROVE  StepsLeft(w)' < StepsLeft(w)
<1>1. mode[w] \in {"cdp", "polling"} /\ stage'[w] = mode[w]
  BY DEF TypeOK, Goto
<1>2. Cardinality(todo[w]) \in Nat /\ Cardinality({}) \in Nat
  BY TodoIsFinite, FS_EmptySet
<1>3. /\ StepsLeft(w) = StepsFrom(stage[w], Cardinality(todo[w]))
      /\ StepsLeft(w)' = StepsFrom(mode[w], Cardinality({}))
  BY <1>1 DEF StepsLeft
<1>4. QED
  BY <1>1, <1>2, <1>3, FewerSteps

\* The next copy is taken.
LEMMA TakesCopy ==
    ASSUME IsFiniteSet(Rules), TypeOK, NEW w \in Watchers, stage[w] = "chosen",
           NEW r \in todo[w], Goto(w, "triggered"),
           todo' = [todo EXCEPT ![w] = @ \ {r}]
    PROVE  StepsLeft(w)' < StepsLeft(w)
<1>1. stage'[w] = "triggered" /\ todo'[w] = todo[w] \ {r}
  BY DEF TypeOK, Goto
<1>2. IsFiniteSet(todo[w]) /\ Cardinality(todo[w]) \in Nat
  BY TodoIsFinite
<1>3. /\ Cardinality(todo[w] \ {r}) = Cardinality(todo[w]) - 1
      /\ Cardinality(todo[w]) # 0
  BY <1>2, FS_RemoveElement, FS_EmptySet
<1>4. /\ StepsLeft(w) = StepsFrom("chosen", Cardinality(todo[w]))
      /\ StepsLeft(w)' = StepsFrom("triggered", Cardinality(todo[w]) - 1)
  BY <1>1, <1>3 DEF StepsLeft
<1>5. QED
  BY <1>2, <1>3, <1>4, FewerSteps

\* executeRule and what leads to it.
LEMMA ExecutingWindsDown ==
    ASSUME IsFiniteSet(Rules), TypeOK, NEW w \in Watchers, Execute(w)
    PROVE  StepsLeft(w)' < StepsLeft(w)
<1>0. Cardinality(todo[w]) \in Nat
  BY TodoIsFinite
<1>1. CASE Observe(w)
  <2>1. CASE Goto(w, "chosen") /\ todo' = todo
    <3>1. stage[w] = "probed"
      BY <1>1 DEF Observe
    <3>2. QED
      BY <1>0, <2>1, <3>1, MovesWithCopies, FewerSteps
  <2>2. CASE Goto(w, mode[w]) /\ todo' = [todo EXCEPT ![w] = {}]
    <3>1. stage[w] = "probed" /\ todo'[w] = {}
      BY <1>1, <2>2 DEF Observe, TypeOK
    <3>2. QED
      BY <2>2, <3>1, BackToMode
  <2>3. QED
    BY <1>1, <2>1, <2>2 DEF Observe
<1>2. CASE NextRule(w)
  <2>1. CASE todo[w] = {} /\ Goto(w, mode[w]) /\ todo' = todo
    BY <1>2, <2>1, BackToMode DEF NextRule
  <2>2. ASSUME NEW r \in todo[w], Goto(w, "triggered"),
               todo' = [todo EXCEPT ![w] = @ \ {r}]
        PROVE  StepsLeft(w)' < StepsLeft(w)
    BY <1>2, <2>2, TakesCopy DEF NextRule
  <2>3. QED
    BY <1>2, <2>1, <2>2 DEF NextRule
<1>3. CASE Resolve(w)
  <2>1. /\ stage[w] = "triggered" /\ todo' = todo
        /\ Goto(w, "failed") \/ Goto(w, "executing")
    BY <1>3 DEF Resolve
  <2>2. QED
    BY <1>0, <2>1, MovesWithCopies, FewerSteps
<1>4. CASE Act(w)
  <2>1. /\ stage[w] = "executing" /\ todo' = todo
        /\ Goto(w, "failed") \/ Goto(w, "acting")
    BY <1>4 DEF Act
  <2>2. QED
    BY <1>0, <2>1, MovesWithCopies, FewerSteps
<1>5. CASE Acted(w)
  <2>1. /\ stage[w] = "acting" /\ todo' = todo
        /\ Goto(w, "failed") \/ Goto(w, "verifying")
    BY <1>5 DEF Acted
  <2>2. QED
    BY <1>0, <2>1, MovesWithCopies, FewerSteps
<1>6. CASE Conclude(w)
  <2>1. /\ stage[w] \in {"verifying", "failed"} /\ todo' = todo
        /\ Goto(w, "recording")
    BY <1>6 DEF Conclude
  <2>2. QED
    BY <1>0, <2>1, MovesWithCopies, FewerSteps
<1>7. CASE Record(w)
  <2>1. stage[w] = "recording" /\ todo' = todo /\ Goto(w, "chosen")
    BY <1>7 DEF Record
  <2>2. QED
    BY <1>0, <2>1, MovesWithCopies, FewerSteps
<1>8. QED
  BY <1>1, <1>2, <1>3, <1>4, <1>5, <1>6, <1>7 DEF Execute

\* What a step leaves alone of a watcher leaves it as many steps.
LEMMA SameSteps ==
    ASSUME NEW w \in Watchers, stage'[w] = stage[w], todo'[w] = todo[w]
    PROVE  StepsLeft(w)' = StepsLeft(w)
BY DEF StepsLeft

\* No step of another one takes a watcher back.
LEMMA OthersDoNotHinder ==
    ASSUME TypeOK, [Next]_vars, NEW w \in Watchers, Running(w),
           ~Proceed(w), ~Notice(w)
    PROVE  \/ stage'[w] = stage[w] /\ todo'[w] = todo[w]
           \/ stage'[w] = "dead"
<1>1. CASE \E c \in Callers, r \in Rules : Enable(c, r) \/ Pause(c, r) \/ Delete(c, r)
  BY <1>1 DEF Enable, Pause, Delete, Call, watching
<1>2. CASE \E c \in Callers, s \in Sessions : Close(c, s)
  BY <1>2 DEF Close, Call, watching
<1>3. ASSUME NEW s, StartWatcher(s)
      PROVE  stage'[w] = stage[w] /\ todo'[w] = todo[w]
  BY <1>3 DEF StartWatcher, Spawn, watching, Running, TypeOK
<1>4. CASE \E c \in Callers : Continue(c)
  <2>1. PICK c \in Callers : Continue(c)
    BY <1>4
  <2>2. CASE Ensure(c)
    BY <2>2, <1>3 DEF Ensure
  <2>3. CASE StopIfIdle(c) \/ Cancel(c)
    BY <2>3 DEF StopIfIdle, Cancel, watching
  <2>4. QED
    BY <2>1, <2>2, <2>3 DEF Continue
<1>5. CASE \E s \in Sessions : Bind(s)
  BY <1>3, <1>5 DEF Bind
<1>6. CASE \E r \in Rules : CooldownEnds(r)
  BY <1>6 DEF CooldownEnds, watching
<1>7. CASE Restart
  BY <1>7 DEF Restart, Running
<1>8. ASSUME NEW x \in Watchers, Proceed(x) \/ Notice(x)
      PROVE  stage'[w] = stage[w] /\ todo'[w] = todo[w]
  <2>1. x # w
    BY <1>8
  <2>2. /\ \/ stage' = stage
           \/ \E next : Goto(x, next)
        /\ \/ todo' = todo
           \/ \E new : todo' = [todo EXCEPT ![x] = new]
    BY <1>8 DEF Proceed, Notice, Loop, CDPEnds, PollingEnds, Leave, Execute,
                Observe, NextRule, Resolve, Act, Acted, Conclude, Record, Probe,
                CDPFails, PollFails
  <2>3. QED
    BY <2>1, <2>2 DEF Goto, TypeOK
<1>9. CASE UNCHANGED vars
  BY <1>9 DEF vars, watching
<1>10. QED
  BY <1>1, <1>2, <1>4, <1>5, <1>6, <1>7, <1>8, <1>9 DEF Next

\* What the browser reports keeps no watcher without enabled rules busy.
LEMMA NoticesDoNotHinder ==
    ASSUME IsFiniteSet(Rules), TypeOK, NEW w \in Watchers,
           Enabled(session[w]) = {}, Notice(w)
    PROVE  StepsLeft(w)' <= StepsLeft(w)
<1>1. ~Probe(w)
  BY DEF Probe, Ready
<1>2. CASE CDPFails(w)
  <2>1. /\ stage[w] = "cdp" /\ todo' = todo
        /\ Goto(w, "leaving") \/ Goto(w, "polling")
    BY <1>2 DEF CDPFails
  <2>2. StepsLeft(w) = 3 /\ StepsLeft(w)' \in {1, 2}
    BY <2>1, MovesWithCopies DEF StepsFrom
  <2>3. QED
    BY <2>2
<1>3. CASE PollFails(w)
  <2>1. stage' = stage /\ todo' = todo
    BY <1>3 DEF PollFails
  <2>2. StepsLeft(w)' = StepsLeft(w)
    BY <2>1, SameSteps
  <2>3. StepsLeft(w) \in Int
    BY TodoIsFinite, StepsFromType DEF StepsLeft
  <2>4. QED
    BY <2>2, <2>3
<1>4. QED
  BY <1>1, <1>2, <1>3 DEF Notice

\* The watcher of a session without enabled rules comes to its end, if finitely
\* many rules were made: each of its own steps leaves it fewer, and neither the
\* calls, the other watchers nor what the browser reports gives it more; a
\* failed probe, a lost stream or a rule that matched before cannot keep it
\* alive (watch, watchCDPEvents, watchPollingWindow, executeRule).
THEOREM IdleWatchersWindDown ==
    ASSUME IsFiniteSet(Rules)
    PROVE  Spec =>
             /\ [](\A w \in Watchers :
                       StepsLeft(w) \in 0 .. 6 * Cardinality(Rules) + 9)
             /\ [][\A w \in Watchers :
                     Running(w) /\ Enabled(session[w]) = {} =>
                         IF Proceed(w) THEN StepsLeft(w)' < StepsLeft(w)
                                       ELSE StepsLeft(w)' <= StepsLeft(w)]_vars
<1>1. TypeOK => \A w \in Watchers :
                    StepsLeft(w) \in 0 .. 6 * Cardinality(Rules) + 9
  BY TodoIsFinite, StepsFromType DEF StepsLeft
<1>2. TypeOK /\ TypeOK' /\ [Next]_vars =>
        [\A w \in Watchers :
            Running(w) /\ Enabled(session[w]) = {} =>
                IF Proceed(w) THEN StepsLeft(w)' < StepsLeft(w)
                              ELSE StepsLeft(w)' <= StepsLeft(w)]_vars
  <2> SUFFICES ASSUME TypeOK, Next, NEW w \in Watchers, Running(w),
                      Enabled(session[w]) = {}
               PROVE  IF Proceed(w) THEN StepsLeft(w)' < StepsLeft(w)
                                    ELSE StepsLeft(w)' <= StepsLeft(w)
    OBVIOUS
  <2>1. CASE Proceed(w)
    <3>1. StepsLeft(w)' < StepsLeft(w)
      BY <2>1, WatchingWindsDown, ExecutingWindsDown DEF Proceed
    <3>2. QED
      BY <2>1, <3>1
  <2>2. CASE ~Proceed(w)
    <3>1. CASE Notice(w)
      BY <2>2, <3>1, NoticesDoNotHinder
    <3>2. CASE ~Notice(w)
      <4>1. StepsLeft(w) \in 0 .. 6 * Cardinality(Rules) + 9
        BY <1>1
      <4>2. StepsLeft(w) \in Nat
        BY <4>1, FS_CardinalityType
      <4>3. CASE stage'[w] = stage[w] /\ todo'[w] = todo[w]
        BY <2>2, <4>2, <4>3, SameSteps
      <4>4. CASE stage'[w] = "dead"
        <5>1. StepsLeft(w)' = 0
          BY <4>4 DEF StepsLeft, StepsFrom
        <5>2. QED
          BY <2>2, <4>2, <5>1
      <4>5. QED
        BY <2>2, <3>2, <4>3, <4>4, OthersDoNotHinder
    <3>3. QED
      BY <3>1, <3>2
  <2>3. QED
    BY <2>1, <2>2
<1>3. QED
  BY <1>1, <1>2, TypeCorrect, PTL DEF Spec

=============================================================================
