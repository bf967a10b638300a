---------------------------- MODULE BrowserProofs ----------------------------
(* Proofs about Browser, for any sessions, pages, tasks, callers and goals,  *)
(* whatever is looked for and seen on the pages.                             *)
EXTENDS Browser, TLAPS, FiniteSetTheorems

-----------------------------------------------------------------------------
(* What the operators return *)

Phases == {"first", "reobserve", "retry"}
Links == Urls \cup {None}

\* The requests of a node are requests, none to close the session.
LEMMA RequestsType ==
    ASSUME NEW node, NEW url \in Links
    PROVE  \A r \in RequestsAt(node, url) : r \in Request /\ r.action # "close"
<1>1. ActionAt(node) \in Actions /\ ActionAt(node) # "close"
  BY DEF ActionAt, Actions
<1>2. QED
  BY <1>1 DEF RequestsAt, Request, Links

LEMMA ViewType ==
    /\ NoView \in View
    /\ \A v \in View : UrlAt(v) \in Links
    /\ Extract \in Request /\ Extract.expected = None
    /\ Extract.action = "extract"
BY DEF NoView, View, Classes, UrlAt, Urls, Links, Extract, Plain, Request,
       Actions

\* There are more mutexes than callers, so that a new one can be had.
LEMMA NewMutexIsNew ==
    ASSUME NEW s
    PROVE  /\ NewMutex(s) \in Mutexes
           /\ \A c \in Callers : session[c] = s => lock[c] # NewMutex(s)
<1>1. IsFiniteSet(Callers) /\ Cardinality(Callers) \in Nat
  BY BrowserAssumption, FS_Union, FS_CardinalityType DEF Callers
<1>2. /\ IsFiniteSet({lock[c] : c \in Callers})
      /\ Cardinality({lock[c] : c \in Callers}) <= Cardinality(Callers)
  <2> DEFINE f == [c \in Callers |-> lock[c]]
             T == {lock[c] : c \in Callers}
  <2>1. f \in Surjection(Callers, T)
    BY DEF Surjection
  <2>2. QED
    BY <1>1, <2>1, FS_Surjection
<1>3. IsFiniteSet(Mutexes) /\ Cardinality(Mutexes) = Cardinality(Callers) + 1
  BY <1>1, FS_Interval DEF Mutexes
<1> DEFINE Locked == {lock[c] : c \in Callers}
<1>4. ~(Mutexes \subseteq Locked)
  <2>1. IsFiniteSet(Locked) /\ Cardinality(Locked) <= Cardinality(Callers)
    BY <1>2
  <2> HIDE DEF Locked
  <2>2. QED
    BY <1>1, <1>3, <2>1, FS_Subset, FS_CardinalityType
<1> HIDE DEF Locked
<1>5. \E m \in Mutexes : \A c \in Callers : session[c] = s => lock[c] # m
  BY <1>4 DEF Locked
<1>6. QED
  BY <1>5 DEF NewMutex

-----------------------------------------------------------------------------
(* Types *)

\* What a task keeps; which nodes and wishes there are does not matter here.
IsTask(k) ==
    /\ k = [node |-> k.node, wish |-> k.wish, url |-> k.url,
            request |-> k.request, phase |-> k.phase, used |-> k.used]
    /\ k.url \in Links /\ k.request \in Request /\ k.phase \in Phases
    /\ k.used \in 0 .. MaxActions

\* A caller that is under way has a session.
TypeInv ==
    /\ TypeOK
    /\ task = [t \in Tasks |-> task[t]] /\ \A t \in Tasks : IsTask(task[t])
    /\ \A c \in Callers : pc[c] \notin {"idle", "done"} => session[c] \in Sessions
    /\ tries \in [Tasks -> Nat]

LEMMA ProceedType ==
    ASSUME NEW t \in Tasks, task = [u \in Tasks |-> task[u]],
           NEW node, NEW url \in Links, NEW used \in 0 .. MaxActions,
           Proceed(t, node, url, used)
    PROVE  /\ task' = [u \in Tasks |-> task'[u]]
           /\ \A u \in Tasks \ {t} : task'[u] = task[u]
           /\ IsTask(task'[t])
           /\ task'[t].request = Extract /\ task'[t].phase = "first"
<1>1. ASSUME NEW w
      PROVE  LET k == [NoTask EXCEPT !.node = node, !.wish = w, !.url = url,
                                     !.used = used]
             IN  IsTask(k) /\ k.request = Extract /\ k.phase = "first"
  <2> DEFINE k == [node |-> node, wish |-> w, url |-> url,
                   request |-> NoTask.request, phase |-> NoTask.phase,
                   used |-> used]
  <2>1. [NoTask EXCEPT !.node = node, !.wish = w, !.url = url, !.used = used] = k
    <3>1. NoTask = [node |-> NoTask.node, wish |-> NoTask.wish, url |-> NoTask.url,
                    request |-> NoTask.request, phase |-> NoTask.phase,
                    used |-> NoTask.used]
      BY DEF NoTask
    <3>2. ASSUME NEW e, e = [NoTask EXCEPT !.node = node, !.wish = w,
                                           !.url = url, !.used = used]
          PROVE  e = k
      BY <3>1, <3>2
    <3> HIDE DEF k
    <3>3. QED
      BY <3>2
  <2>2. NoTask.request = Extract /\ NoTask.phase = "first"
    BY DEF NoTask
  <2>3. IsTask(k) /\ k.request = Extract /\ k.phase = "first"
    BY <2>2, ViewType DEF IsTask, Phases
  <2> HIDE DEF k
  <2>4. QED
    BY <2>1, <2>3
<1>2. ASSUME NEW n, NEW k, k = [NoTask EXCEPT !.node = n]
      PROVE  IsTask(k) /\ k.request = Extract /\ k.phase = "first"
  <2>1. NoTask = [node |-> NoTask.node, wish |-> NoTask.wish, url |-> NoTask.url,
                  request |-> NoTask.request, phase |-> NoTask.phase,
                  used |-> NoTask.used]
    BY DEF NoTask
  <2>2. k = [node |-> n, wish |-> NoTask.wish, url |-> NoTask.url,
             request |-> NoTask.request, phase |-> NoTask.phase,
             used |-> NoTask.used]
    BY <1>2, <2>1
  <2>3. /\ NoTask.url = None /\ NoTask.request = Extract
        /\ NoTask.phase = "first" /\ NoTask.used = 0
    BY DEF NoTask
  <2>4. None \in Links /\ 0 \in 0 .. MaxActions
    BY BrowserAssumption DEF Links
  <2>5. QED
    BY <2>2, <2>3, <2>4, ViewType DEF IsTask, Phases
<1>3. \E k : /\ task' = [task EXCEPT ![t] = k]
             /\ IsTask(k) /\ k.request = Extract /\ k.phase = "first"
  <2>1. CASE node \in Endings
    <3>1. task' = [task EXCEPT ![t] = [NoTask EXCEPT !.node = node]]
      BY <2>1 DEF Proceed
    <3>2. QED
      BY <1>2, <3>1
  <2>2. CASE node \notin Endings
    <3> DEFINE w == Rest(task[t].wish)
    <3>1. task' = [task EXCEPT ![t] = [NoTask EXCEPT !.node = node, !.wish = w,
                                                     !.url = url, !.used = used]]
      BY <2>2 DEF Proceed
    <3> HIDE DEF w
    <3>2. QED
      BY <1>1, <3>1
  <2>3. QED
    BY <2>1, <2>2
<1>4. QED
  BY <1>3

LEMMA PerformType ==
    ASSUME NEW t \in Tasks, task = [u \in Tasks |-> task[u]], IsTask(task[t]),
           BudgetLeft(t), NEW r \in Request, NEW phase \in Phases,
           Perform(t, r, phase)
    PROVE  /\ task' = [u \in Tasks |-> task'[u]]
           /\ \A u \in Tasks \ {t} : task'[u] = task[u]
           /\ IsTask(task'[t])
           /\ task'[t].phase = phase
           /\ task'[t].request = IF phase = "first" THEN r ELSE task[t].request
<1> DEFINE k == task[t]
           last == IF phase = "first" THEN r ELSE k.request
<1>1. task' = [task EXCEPT ![t] = [k EXCEPT !.phase = phase, !.used = k.used + 1,
                                            !.request = last]]
  BY DEF Perform
<1>2. k = [node |-> k.node, wish |-> k.wish, url |-> k.url,
           request |-> k.request, phase |-> k.phase, used |-> k.used]
  BY DEF IsTask
<1>3. /\ k.used + 1 \in 0 .. MaxActions /\ last \in Request /\ k.url \in Links
  BY BrowserAssumption DEF IsTask, BudgetLeft
<1> HIDE DEF k, last
<1>4. task'[t] = [node |-> k.node, wish |-> k.wish, url |-> k.url,
                  request |-> last, phase |-> phase, used |-> k.used + 1]
  BY <1>1, <1>2
<1>5. IsTask(task'[t]) /\ task'[t].phase = phase /\ task'[t].request = last
  BY <1>3, <1>4 DEF IsTask
<1>6. QED
  BY <1>1, <1>5 DEF last, k

\* What a task does when an action has returned, or is due: it proceeds, or
\* performs an action for the first time, to look again, or once more.
Continues(t) ==
    \/ \E node : \E url \in Links, used \in 0 .. MaxActions :
          Proceed(t, node, url, used)
    \/ /\ BudgetLeft(t) /\ pc[t] = "begin"
       /\ \E r \in Request : /\ Allowed(r) /\ r.action # "close"
                           /\ Perform(t, r, "first")
    \/ /\ BudgetLeft(t) /\ pc[t] = "record" /\ task[t].phase = "first"
       /\ Perform(t, Extract, "reobserve")
    \/ /\ BudgetLeft(t) /\ pc[t] = "record" /\ task[t].phase = "reobserve"
       /\ Retryable(task[t].request)
       /\ Perform(t, task[t].request, "retry")

LEMMA FailContinues ==
    ASSUME NEW t \in Tasks, IsTask(task[t]), Fail(t)
    PROVE  Continues(t)
<1> DEFINE n == AfterFailure(task[t].node)
<1>1. Proceed(t, n, task[t].url, task[t].used)
  BY DEF Fail
<1> HIDE DEF n
<1>2. QED
  BY <1>1 DEF Continues, IsTask

LEMMA SucceedContinues ==
    ASSUME NEW t \in Tasks, IsTask(task[t]), NEW v \in View, Succeed(t, v)
    PROVE  Continues(t)
<1>1. PICK node : Proceed(t, node, UrlAt(v), task[t].used)
  BY DEF Succeed
<1>2. UrlAt(v) \in Links
  BY ViewType
<1>3. QED
  BY <1>1, <1>2 DEF Continues, IsTask

LEMMA JudgeContinues ==
    ASSUME NEW t \in Tasks, IsTask(task[t]), pc[t] = "record",
           NEW v \in View, NEW verdict, Judge(t, v, verdict)
    PROVE  Continues(t)
<1> DEFINE r == task[t].request
           verified == Verified(r, v, verdict, transition[t])
           observed == Postcondition(r, v, FALSE, FALSE)
<1>1. CASE task[t].phase = "first"
  <2>1. IF verified THEN Succeed(t, v)
        ELSE IF verdict \in {"blocked", "failed"} \/ ~BudgetLeft(t) THEN Fail(t)
        ELSE Perform(t, Extract, "reobserve")
    BY <1>1 DEF Judge
  <2> HIDE DEF verified, observed, r
  <2>2. \/ Succeed(t, v) \/ Fail(t)
        \/ BudgetLeft(t) /\ Perform(t, Extract, "reobserve")
    BY <2>1
  <2>3. QED
    BY <1>1, <2>2, SucceedContinues, FailContinues DEF Continues
<1>2. CASE task[t].phase = "reobserve"
  <2>1. IF observed THEN Succeed(t, v)
        ELSE IF Retryable(r) /\ BudgetLeft(t) THEN Perform(t, r, "retry")
        ELSE Fail(t)
    BY <1>2 DEF Judge
  <2> HIDE DEF verified, observed
  <2>2. \/ Succeed(t, v) \/ Fail(t)
        \/ BudgetLeft(t) /\ Retryable(r) /\ Perform(t, r, "retry")
    BY <2>1
  <2>3. QED
    BY <1>2, <2>2, SucceedContinues, FailContinues DEF Continues
<1>3. CASE task[t].phase = "retry"
  <2>1. IF verified THEN Succeed(t, v) ELSE Fail(t)
    BY <1>3 DEF Judge
  <2> HIDE DEF verified, observed, r
  <2>2. QED
    BY <2>1, SucceedContinues, FailContinues
<1>4. QED
  BY <1>1, <1>2, <1>3 DEF IsTask, Phases

LEMMA BeginContinues ==
    ASSUME NEW t \in Tasks, IsTask(task[t]), BeginAction(t)
    PROVE  Continues(t)
<1>1. CASE ~BudgetLeft(t)
  BY <1>1, FailContinues DEF BeginAction
<1>2. CASE BudgetLeft(t)
  <2>1. PICK r \in RequestsAt(task[t].node, task[t].url) :
            IF Allowed(r) THEN Perform(t, r, "first")
            ELSE \E node \in After([task[t] EXCEPT !.request = r], AskedView) :
                    Proceed(t, node, None, task[t].used + 1)
    BY <1>2 DEF BeginAction
  <2>2. r \in Request /\ r.action # "close"
    BY RequestsType DEF IsTask
  <2>3. CASE Allowed(r)
    BY <1>2, <2>1, <2>2, <2>3 DEF Continues, BeginAction
  <2>4. CASE ~Allowed(r)
    <3>1. PICK node : Proceed(t, node, None, task[t].used + 1)
      BY <2>1, <2>4
    <3>2. None \in Links /\ task[t].used + 1 \in 0 .. MaxActions
      BY <1>2, BrowserAssumption DEF Links, IsTask, BudgetLeft
    <3>3. QED
      BY <3>1, <3>2 DEF Continues
  <2>5. QED
    BY <2>3, <2>4
<1>3. QED
  BY <1>1, <1>2

\* The action of a task ends with it going on.
LEMMA EndContinues ==
    ASSUME TypeInv, NEW t \in Tasks, Record(t) \/ Finish(t)
    PROVE  Continues(t) /\ session' = session
<1>1. IsTask(task[t]) /\ t \in Callers /\ t \notin Directs
  BY BrowserAssumption DEF TypeInv, Callers
<1>2. CASE Record(t)
  <2>1. view[t] \in View /\ pc[t] = "record"
    BY <1>1, <1>2 DEF TypeInv, TypeOK, Record
  <2>2. session' = session
    BY <1>1, <1>2 DEF Record
  <2>3. \/ \E verdict : Judge(t, view[t], verdict)
        \/ Fail(t)
    BY <1>1, <1>2 DEF Record
  <2>4. QED
    BY <1>1, <2>1, <2>2, <2>3, JudgeContinues, FailContinues
<1>3. CASE Finish(t)
  BY <1>1, <1>3, FailContinues DEF Finish
<1>4. QED
  BY <1>2, <1>3

\* What a task keeps, and what becomes of the other callers, when it goes on.
LEMMA ContinuesType ==
    ASSUME TypeInv, NEW t \in Tasks, Continues(t)
    PROVE  /\ task' = [u \in Tasks |-> task'[u]]
           /\ \A u \in Tasks : IsTask(task'[u])
           /\ \A u \in Tasks \ {t} : task'[u] = task[u]
           /\ tries' \in [Tasks -> Nat]
           /\ \A u \in Tasks \ {t} : tries'[u] = tries[u]
           /\ pc' \in [Callers -> Steps] /\ pc'[t] \in {"begin", "fetch", "done"}
           /\ \A d \in Callers \ {t} : pc'[d] = pc[d]
           /\ request' \in [Callers -> Request]
           /\ \A d \in Callers \ {t} : request'[d] = request[d]
<1>1. /\ task = [u \in Tasks |-> task[u]] /\ IsTask(task[t])
      /\ \A u \in Tasks : IsTask(task[u])
      /\ pc \in [Callers -> Steps] /\ request \in [Callers -> Request]
      /\ tries \in [Tasks -> Nat] /\ t \in Callers
  BY DEF TypeInv, TypeOK, Callers
<1>2. ASSUME NEW node, NEW url \in Links, NEW used \in 0 .. MaxActions,
             Proceed(t, node, url, used)
      PROVE  /\ task' = [u \in Tasks |-> task'[u]]
             /\ \A u \in Tasks \ {t} : task'[u] = task[u]
             /\ IsTask(task'[t])
             /\ request' = [request EXCEPT ![t] = Extract]
             /\ tries' = [tries EXCEPT ![t] = 0]
             /\ pc' = [pc EXCEPT ![t] = "done"] \/ pc' = [pc EXCEPT ![t] = "begin"]
  <2>1. /\ request' = [request EXCEPT ![t] = Extract]
        /\ tries' = [tries EXCEPT ![t] = 0]
        /\ pc' = [pc EXCEPT ![t] = "done"] \/ pc' = [pc EXCEPT ![t] = "begin"]
    BY <1>2 DEF Proceed, Goto
  <2>2. QED
    BY <1>1, <1>2, <2>1, ProceedType
<1>3. ASSUME NEW r \in Request, NEW phase \in Phases, BudgetLeft(t),
             Perform(t, r, phase)
      PROVE  /\ task' = [u \in Tasks |-> task'[u]]
             /\ \A u \in Tasks \ {t} : task'[u] = task[u]
             /\ IsTask(task'[t])
             /\ request' = [request EXCEPT ![t] = r]
             /\ tries' = tries
             /\ pc' = [pc EXCEPT ![t] = "fetch"]
  <2>1. /\ request' = [request EXCEPT ![t] = r] /\ tries' = tries
        /\ pc' = [pc EXCEPT ![t] = "fetch"]
    BY <1>3 DEF Perform, Goto
  <2>2. QED
    BY <1>1, <1>3, <2>1, PerformType
<1>4. task[t].request \in Request /\ Extract \in Request
  BY <1>1, ViewType DEF IsTask
<1>5. /\ task' = [u \in Tasks |-> task'[u]]
      /\ \A u \in Tasks \ {t} : task'[u] = task[u]
      /\ IsTask(task'[t])
      /\ \E r \in Request : request' = [request EXCEPT ![t] = r]
      /\ tries' = tries \/ tries' = [tries EXCEPT ![t] = 0]
      /\ \E step \in {"begin", "fetch", "done"} : pc' = [pc EXCEPT ![t] = step]
  <2>1. CASE \E node : \E url \in Links, used \in 0 .. MaxActions :
                Proceed(t, node, url, used)
    BY <1>2, <1>4, <2>1
  <2>2. CASE \E r \in Request, phase \in Phases : BudgetLeft(t) /\ Perform(t, r, phase)
    BY <1>3, <2>2
  <2>3. QED
    BY <1>4, <2>1, <2>2 DEF Continues, Phases
<1>6. /\ "begin" \in Steps /\ "fetch" \in Steps /\ "done" \in Steps
  BY DEF Steps
<1>7. QED
  BY <1>1, <1>5, <1>6

\* The sessions of the runtime.
LEMMA ResolveType ==
    ASSUME SessionsTypeOK, NEW s \in Sessions, ResolveSession(s)
    PROVE  SessionsTypeOK' /\ sessions'[s] = "open"
BY DEF SessionsTypeOK, SessionStates, ResolveSession

LEMMA ResolutionsType ==
    ASSUME NEW requested \in Named \cup {None}, NEW create, NEW forceNew
    PROVE  Resolutions(requested, create, forceNew) \subseteq Sessions
BY SessionsAssumption, BrowserAssumption DEF Resolutions

LEMMA CloseRuntimeSessionType ==
    ASSUME SessionsTypeOK, NEW s \in Sessions, CloseRuntimeSession(s)
    PROVE  SessionsTypeOK'
<1>1. sessions' \in [Sessions -> SessionStates]
  BY DEF SessionsTypeOK, SessionStates, CloseRuntimeSession
<1>2. \A r \in Sessions \ {s} : sessions'[r] = sessions[r]
  BY DEF SessionsTypeOK, CloseRuntimeSession
<1>3. CASE active = s
  <2>1. active' \in NextOpen(s)
    BY <1>3 DEF CloseRuntimeSession
  <2>2. NextOpen(s) \subseteq {r \in Sessions \ {s} : sessions[r] = "open"} \cup {None}
    BY DEF NextOpen
  <2>3. QED
    BY <1>1, <1>2, <2>1, <2>2 DEF SessionsTypeOK
<1>4. CASE active # s
  <2>1. active' = active
    BY <1>4 DEF CloseRuntimeSession
  <2>2. QED
    BY <1>1, <1>2, <1>4, <2>1 DEF SessionsTypeOK
<1>5. QED
  BY <1>3, <1>4

LEMMA StatusType ==
    ASSUME SessionsTypeOK, NEW s \in Sessions,
           SetSessionStatus(s) \/ DecorateObservation(s)
    PROVE  SessionsTypeOK'
<1>1. CASE SetSessionStatus(s)
  <2>1. sessions' \in [Sessions -> SessionStates]
    BY <1>1 DEF SessionsTypeOK, SessionStates, SetSessionStatus
  <2>2. \A r \in Sessions : sessions[r] = "open" => sessions'[r] = "open"
    BY <1>1 DEF SessionsTypeOK, SetSessionStatus
  <2>3. QED
    BY <1>1, <2>1, <2>2 DEF SessionsTypeOK, SetSessionStatus
<1>2. CASE DecorateObservation(s)
  BY <1>2 DEF SessionsTypeOK, SessionStates, DecorateObservation
<1>3. QED
  BY <1>1, <1>2

LEMMA BudgetStarts ==
    /\ 0 \in 0 .. MaxActions /\ MaxActions \in Nat /\ MaxEvents \in Nat
    /\ 0 \in 0 .. MaxEvents /\ Extract \in Request /\ None \in Links
BY BrowserAssumption, ViewType DEF Links

LEMMA CountType ==
    ASSUME events \in 0 .. MaxEvents, Count
    PROVE  events' \in 0 .. MaxEvents
BY BrowserAssumption DEF Count

LEMMA InitType == Init => TypeInv
<1> SUFFICES ASSUME Init PROVE TypeInv
  OBVIOUS
<1>1. SessionsTypeOK
  <2>1. PICK file \in Files : Load(file)
    BY DEF Init
  <2>2. QED
    BY <2>1, BrowserAssumption DEF Load, SessionsTypeOK
<1>2. PerceptionTypeOK /\ page \in [Sessions -> Pages]
  BY BrowserAssumption DEF Init, PerceptionTypeOK
<1>3. /\ locks \in [Sessions -> Mutexes \cup {0}] /\ lock \in [Callers -> Mutexes \cup {0}]
      /\ session \in [Callers -> Sessions \cup {None}]
      /\ pc \in [Callers -> Steps] /\ \A c \in Callers : pc[c] = "idle"
  BY DEF Init, Steps
<1>4. /\ request \in [Callers -> Request] /\ view \in [Callers -> View]
      /\ failed \in [Callers -> BOOLEAN] /\ transition \in [Callers -> BOOLEAN]
      /\ events \in 0 .. MaxEvents /\ tries \in [Tasks -> Nat]
  BY ViewType, BudgetStarts DEF Init
<1>5. task = [t \in Tasks |-> task[t]] /\ \A t \in Tasks : task[t] = NoTask
  BY DEF Init
<1>6. IsTask(NoTask)
  <2>1. NoTask = [node |-> NoTask.node, wish |-> NoTask.wish, url |-> NoTask.url,
                  request |-> NoTask.request, phase |-> NoTask.phase,
                  used |-> NoTask.used]
    BY DEF NoTask
  <2>2. /\ NoTask.url = None /\ NoTask.request = Extract
        /\ NoTask.phase = "first" /\ NoTask.used = 0
    BY DEF NoTask
  <2>3. QED
    BY <2>1, <2>2, BudgetStarts DEF IsTask, Phases
<1>7. QED
  BY <1>1, <1>2, <1>3, <1>4, <1>5, <1>6 DEF TypeInv, TypeOK, IsTask

LEMMA StartTaskType ==
    ASSUME TypeInv, NEW t \in Tasks, StartTask(t)
    PROVE  /\ TypeInv'
           /\ \E step \in {"done", "begin"} : pc' = [pc EXCEPT ![t] = step]
           /\ \E s \in Sessions : session' = [session EXCEPT ![t] = s]
           /\ \A u \in Tasks \ {t} : task'[u] = task[u]
           /\ task'[t].used = task[t].used /\ task'[t].request = task[t].request
           /\ task'[t].phase = task[t].phase
<1> USE DEF TypeInv
<1>1. t \in Callers
  BY DEF Callers
<1>2. PICK forceNew \in BOOLEAN, goal \in Goals :
        LET node == FirstNode(Plan(goal)) IN
        /\ \E s \in Resolutions(None, TRUE, forceNew) :
            /\ ResolveSession(s)
            /\ session' = [session EXCEPT ![t] = s]
        /\ task' = [task EXCEPT ![t].node = node, ![t].wish = Wish(Plan(goal))]
        /\ Goto(t, IF node \in Endings THEN "done" ELSE "begin")
  BY DEF StartTask
<1>3. PICK s \in Resolutions(None, TRUE, forceNew) :
        ResolveSession(s) /\ session' = [session EXCEPT ![t] = s]
  BY <1>2
<1>4. s \in Sessions
  BY ResolutionsType
<1>5. SessionsTypeOK'
  BY <1>3, <1>4, ResolveType DEF TypeOK
<1> DEFINE node == FirstNode(Plan(goal))
           wish == Wish(Plan(goal))
<1>6. /\ task' = [task EXCEPT ![t].node = node, ![t].wish = wish]
      /\ Goto(t, IF node \in Endings THEN "done" ELSE "begin")
  BY <1>2
<1> HIDE DEF node, wish
<1>7. /\ task' = [u \in Tasks |-> task'[u]]
      /\ \A u \in Tasks \ {t} : task'[u] = task[u]
      /\ task'[t] = [task[t] EXCEPT !.node = node, !.wish = wish]
  BY <1>6
<1>8. task[t] = [node |-> task[t].node, wish |-> task[t].wish, url |-> task[t].url,
                 request |-> task[t].request, phase |-> task[t].phase,
                 used |-> task[t].used]
  BY DEF IsTask
<1>9. task'[t] = [node |-> node, wish |-> wish, url |-> task[t].url,
                  request |-> task[t].request, phase |-> task[t].phase,
                  used |-> task[t].used]
  BY <1>7, <1>8
<1>10. \A u \in Tasks : IsTask(task'[u])
  <2>1. IsTask(task'[t])
    BY <1>9 DEF IsTask
  <2>2. \A u \in Tasks \ {t} : IsTask(task'[u])
    BY <1>7
  <2>3. QED
    BY <2>1, <2>2
<1>11. \E step \in {"done", "begin"} : pc' = [pc EXCEPT ![t] = step]
  BY <1>6 DEF Goto
<1>12. /\ pc' \in [Callers -> Steps]
       /\ session' \in [Callers -> Sessions \cup {None}]
       /\ \A c \in Callers : pc'[c] \notin {"idle", "done"} => session'[c] \in Sessions
  BY <1>1, <1>3, <1>4, <1>11 DEF TypeOK, Steps
<1>13. /\ PerceptionTypeOK' /\ page' \in [Sessions -> Pages]
       /\ locks' \in [Sessions -> Mutexes \cup {0}]
       /\ request' \in [Callers -> Request]
       /\ lock' \in [Callers -> Mutexes \cup {0}]
       /\ failed' \in [Callers -> BOOLEAN] /\ transition' \in [Callers -> BOOLEAN]
       /\ view' \in [Callers -> View] /\ events' \in 0 .. MaxEvents
       /\ tries' \in [Tasks -> Nat]
  BY DEF TypeOK, StartTask, seenVars, ghostVars, PerceptionTypeOK
<1>14. TypeInv'
  BY <1>5, <1>7, <1>10, <1>12, <1>13 DEF TypeOK, IsTask
<1>15. QED
  BY <1>3, <1>4, <1>7, <1>9, <1>11, <1>14

LEMMA StartCallType ==
    ASSUME TypeInv, NEW d \in Directs, StartCall(d)
    PROVE  TypeInv'
<1> USE DEF TypeInv
<1>1. d \in Callers
  BY DEF Callers
<1>2. events' \in 0 .. MaxEvents
  BY CountType DEF StartCall, TypeOK
<1>3. /\ PerceptionTypeOK' /\ page' \in [Sessions -> Pages]
      /\ locks' \in [Sessions -> Mutexes \cup {0}]
      /\ lock' \in [Callers -> Mutexes \cup {0}]
      /\ failed' \in [Callers -> BOOLEAN] /\ transition' \in [Callers -> BOOLEAN]
      /\ view' \in [Callers -> View]
      /\ task' = task /\ tries' = tries
  BY DEF TypeOK, StartCall, seenVars, ghostVars, PerceptionTypeOK
<1>4. PICK r \in DirectRequests, requested \in Named \cup {None},
           forceNew \in BOOLEAN :
        \/ \E s \in Resolutions(requested, r.action = "navigate", forceNew) :
            /\ ResolveSession(s)
            /\ session' = [session EXCEPT ![d] = s]
            /\ request' = [request EXCEPT ![d] = r]
            /\ Goto(d, "fetch")
        \/ UNCHANGED <<sessionVars, session, request, pc>>
  BY DEF StartCall
<1>5. CASE \E s \in Resolutions(requested, r.action = "navigate", forceNew) :
            /\ ResolveSession(s)
            /\ session' = [session EXCEPT ![d] = s]
            /\ request' = [request EXCEPT ![d] = r]
            /\ Goto(d, "fetch")
  <2>1. PICK s \in Sessions :
            /\ ResolveSession(s)
            /\ session' = [session EXCEPT ![d] = s]
            /\ request' = [request EXCEPT ![d] = r]
            /\ pc' = [pc EXCEPT ![d] = "fetch"]
    BY <1>5, ResolutionsType DEF Goto
  <2>2. SessionsTypeOK'
    BY <2>1, ResolveType DEF TypeOK
  <2>3. r \in Request
    BY BrowserAssumption DEF DirectRequests, Request
  <2>4. /\ pc' \in [Callers -> Steps]
        /\ session' \in [Callers -> Sessions \cup {None}]
        /\ request' \in [Callers -> Request]
        /\ \A c \in Callers : pc'[c] \notin {"idle", "done"} => session'[c] \in Sessions
    BY <1>1, <2>1, <2>3 DEF TypeOK, Steps
  <2>5. QED
    BY <1>2, <1>3, <2>2, <2>4 DEF TypeOK
<1>6. CASE UNCHANGED <<sessionVars, session, request, pc>>
  BY <1>2, <1>3, <1>6 DEF TypeOK, sessionVars, SessionsTypeOK
<1>7. QED
  BY <1>4, <1>5, <1>6

LEMMA FetchLockType ==
    ASSUME TypeInv, NEW c \in Callers, FetchLock(c)
    PROVE  TypeInv'
<1> USE DEF TypeInv
<1>1. session[c] \in Sessions
  BY DEF FetchLock
<1>2. PICK m \in Mutexes \cup {0} : /\ locks' = [locks EXCEPT ![session[c]] = m]
                                   /\ lock' = [lock EXCEPT ![c] = m]
  BY <1>1, NewMutexIsNew DEF FetchLock, TypeOK
<1>3. /\ locks' \in [Sessions -> Mutexes \cup {0}]
      /\ lock' \in [Callers -> Mutexes \cup {0}]
  BY <1>1, <1>2 DEF TypeOK
<1>4. /\ pc' \in [Callers -> Steps]
      /\ \A d \in Callers : pc'[d] \notin {"idle", "done"} => session'[d] \in Sessions
  BY <1>1 DEF TypeOK, FetchLock, Goto, Steps
<1>5. QED
  BY <1>3, <1>4 DEF FetchLock, TypeOK, sessionVars, seenVars, ghostVars,
                    SessionsTypeOK, PerceptionTypeOK

LEMMA AcquireType ==
    ASSUME TypeInv, NEW c \in Callers, Acquire(c)
    PROVE  TypeInv'
<1> USE DEF TypeInv
<1>1. session[c] \in Sessions
  BY DEF Acquire
<1>2. /\ pc' = [pc EXCEPT ![c] = "act"] \/ pc' = [pc EXCEPT ![c] = "finish"]
      /\ failed' = failed \/ failed' = [failed EXCEPT ![c] = TRUE]
  BY DEF Acquire, Goto
<1>3. pc' \in [Callers -> Steps] /\ failed' \in [Callers -> BOOLEAN]
  BY <1>2 DEF TypeOK, Steps, Acting
<1>4. \A d \in Callers : pc'[d] \notin {"idle", "done"} => session'[d] \in Sessions
  BY <1>1, <1>2 DEF TypeOK, Acquire
<1>5. QED
  BY <1>3, <1>4 DEF Acquire, TypeOK, sessionVars, seenVars,
                    SessionsTypeOK, PerceptionTypeOK

LEMMA ActType ==
    ASSUME TypeInv, NEW c \in Callers, Act(c)
    PROVE  TypeInv'
<1> USE DEF TypeInv
<1>1. session[c] \in Sessions /\ page[session[c]] \in Pages
  BY DEF Act, TypeOK
<1>2. PICK p \in Effects(request[c], page[session[c]]) :
        /\ page' = [page EXCEPT ![session[c]] = p]
        /\ Succeeds(c, p) \/ FailsAt(c, p)
  BY DEF Act
<1>3. p \in Pages
  BY <1>1 DEF Effects
<1>4. page' \in [Sessions -> Pages]
  BY <1>1, <1>2, <1>3 DEF TypeOK
<1>5. /\ \E step \in {"finish", "observe"} : pc' = [pc EXCEPT ![c] = step]
      /\ failed' = failed \/ failed' = [failed EXCEPT ![c] = TRUE]
      /\ transition' \in [Callers -> BOOLEAN]
  <2>1. CASE Succeeds(c, p)
    <3>1. transition' \in [Callers -> BOOLEAN]
      BY <2>1 DEF Succeeds, TypeOK
    <3>2. QED
      BY <2>1, <3>1 DEF Succeeds, Goto
  <2>2. CASE FailsAt(c, p)
    BY <2>2 DEF FailsAt, Goto, TypeOK
  <2>3. QED
    BY <1>2, <2>1, <2>2
<1>6. pc' \in [Callers -> Steps] /\ failed' \in [Callers -> BOOLEAN]
  BY <1>5 DEF TypeOK, Steps, Acting
<1>7. \A d \in Callers : pc'[d] \notin {"idle", "done"} => session'[d] \in Sessions
  BY <1>1, <1>5 DEF TypeOK, Act
<1>8. tries' \in [Tasks -> Nat]
  BY DEF Act
<1>9. QED
  BY <1>4, <1>5, <1>6, <1>7, <1>8 DEF Act, TypeOK, sessionVars,
                                SessionsTypeOK, PerceptionTypeOK

LEMMA ObserveType ==
    ASSUME TypeInv, NEW c \in Callers, Observe(c)
    PROVE  TypeInv'
<1> USE DEF TypeInv
<1>1. session[c] \in Sessions /\ page[session[c]] \in Pages
  BY DEF Observe, TypeOK
<1>2. view' \in [Callers -> View]
  <2>1. \A class \in Seen : [page |-> page[session[c]], class |-> class] \in View
    BY <1>1, BrowserAssumption DEF View
  <2>2. \/ view' = view
        \/ \E v \in View : view' = [view EXCEPT ![c] = v]
    BY <2>1, ViewType DEF Observe
  <2>3. QED
    BY <2>2 DEF TypeOK
<1>3. /\ \E step \in {"finish", "record"} : pc' = [pc EXCEPT ![c] = step]
      /\ failed' = failed \/ failed' = [failed EXCEPT ![c] = TRUE]
  BY DEF Observe, Goto
<1>4. pc' \in [Callers -> Steps] /\ failed' \in [Callers -> BOOLEAN]
  BY <1>3 DEF TypeOK, Steps, Acting
<1>5. \A d \in Callers : pc'[d] \notin {"idle", "done"} => session'[d] \in Sessions
  BY <1>1, <1>3 DEF TypeOK, Observe
<1>6. QED
  BY <1>2, <1>4, <1>5 DEF Observe, TypeOK, sessionVars,
                          SessionsTypeOK, PerceptionTypeOK

\* What the end of an action leaves of it.
LEMMA ForgetType ==
    ASSUME TypeInv, NEW c \in Callers, Unlock(c), Forget(c)
    PROVE  /\ lock' \in [Callers -> Mutexes \cup {0}]
           /\ failed' \in [Callers -> BOOLEAN] /\ transition' \in [Callers -> BOOLEAN]
           /\ view' \in [Callers -> View]
BY ViewType DEF TypeInv, TypeOK, Unlock, Forget

LEMMA ReturnType ==
    ASSUME TypeInv, NEW d \in Directs, session[d] \in Sessions,
           NEW step \in {"idle", "closing"}, Return(d, step)
    PROVE  /\ pc' \in [Callers -> Steps] /\ request' \in [Callers -> Request]
           /\ session' \in [Callers -> Sessions \cup {None}]
           /\ \A c \in Callers : pc'[c] \notin {"idle", "done"} => session'[c] \in Sessions
           /\ task' = task /\ tries' = tries
<1>1. d \in Callers
  BY DEF Callers
<1>2. pc' = [pc EXCEPT ![d] = step] /\ request' = [request EXCEPT ![d] = Extract]
  BY DEF Return, Goto
<1>3. pc' \in [Callers -> Steps] /\ request' \in [Callers -> Request]
  BY <1>2, ViewType DEF TypeInv, TypeOK, Steps, Closing
<1>4. session' \in [Callers -> Sessions \cup {None}]
  BY DEF Return, TypeInv, TypeOK
<1>5. \A c \in Callers : pc'[c] \notin {"idle", "done"} => session'[c] \in Sessions
  <2>1. CASE step = "idle"
    BY <1>1, <1>2, <2>1 DEF Return, TypeInv, TypeOK
  <2>2. CASE step = "closing"
    BY <1>1, <1>2, <2>2 DEF Return, TypeInv, TypeOK
  <2>3. QED
    BY <2>1, <2>2
<1>6. QED
  BY <1>3, <1>4, <1>5 DEF Return

LEMMA EndType ==
    ASSUME TypeInv, NEW c \in Callers, Record(c) \/ Finish(c)
    PROVE  TypeInv'
<1>1. session[c] \in Sessions
  BY DEF TypeInv, Record, Finish
<1>2. SessionsTypeOK'
  BY <1>1, StatusType DEF TypeInv, TypeOK, Record, Finish, sessionVars, SessionsTypeOK
<1>3. PerceptionTypeOK'
  <2>1. CASE Record(c)
    <3>1. view[c].page \in Pages \cup {Blank}
      BY DEF TypeInv, TypeOK, View
    <3>2. QED
      BY <1>1, <2>1, <3>1 DEF TypeInv, TypeOK, PerceptionTypeOK, SetBaseline, Record
  <2>2. CASE Finish(c)
    BY <2>2 DEF TypeInv, TypeOK, PerceptionTypeOK, Finish
  <2>3. QED
    BY <2>1, <2>2
<1>4. Unlock(c) /\ Forget(c) /\ page' = page /\ locks' = locks /\ events' = events
  BY DEF Record, Finish
<1>5. /\ lock' \in [Callers -> Mutexes \cup {0}]
      /\ failed' \in [Callers -> BOOLEAN] /\ transition' \in [Callers -> BOOLEAN]
      /\ view' \in [Callers -> View]
  BY <1>4, ForgetType
<1>6. /\ page' \in [Sessions -> Pages] /\ locks' \in [Sessions -> Mutexes \cup {0}]
      /\ events' \in 0 .. MaxEvents
  BY <1>4 DEF TypeInv, TypeOK
<1>7. CASE c \in Tasks
  <2>1. Continues(c) /\ session' = session
    BY <1>7, EndContinues
  <2>2. /\ task' = [u \in Tasks |-> task'[u]]
        /\ \A u \in Tasks : IsTask(task'[u])
        /\ tries' \in [Tasks -> Nat]
        /\ pc' \in [Callers -> Steps]
        /\ \A d \in Callers \ {c} : pc'[d] = pc[d]
        /\ request' \in [Callers -> Request]
    BY <1>7, <2>1, ContinuesType
  <2>3. /\ session' \in [Callers -> Sessions \cup {None}]
        /\ \A d \in Callers : pc'[d] \notin {"idle", "done"} => session'[d] \in Sessions
    BY <1>1, <2>1, <2>2 DEF TypeInv, TypeOK
  <2>4. QED
    BY <1>2, <1>3, <1>5, <1>6, <2>2, <2>3 DEF TypeInv, TypeOK, IsTask
<1>8. CASE c \notin Tasks
  <2>1. c \in Directs
    BY <1>8 DEF Callers
  <2>2. \E step \in {"idle", "closing"} : Return(c, step)
    BY <1>8 DEF Record, Finish
  <2>3. /\ pc' \in [Callers -> Steps] /\ request' \in [Callers -> Request]
        /\ session' \in [Callers -> Sessions \cup {None}]
        /\ \A d \in Callers : pc'[d] \notin {"idle", "done"} => session'[d] \in Sessions
        /\ task' = task /\ tries' = tries
    BY <1>1, <2>1, <2>2, ReturnType
  <2>4. QED
    BY <1>2, <1>3, <1>5, <1>6, <2>3 DEF TypeInv, TypeOK
<1>9. QED
  BY <1>7, <1>8

LEMMA ClosingType ==
    ASSUME TypeInv, NEW c \in Callers,
           CloseRuntime(c) \/ DropLock(c) \/ ClearBaseline(c)
    PROVE  TypeInv'
<1> USE DEF TypeInv
<1>1. session[c] \in Sessions
  BY DEF CloseRuntime, DropLock, ClearBaseline
<1>2. /\ \E step \in {"unlocking", "clearing", "idle"} : pc' = [pc EXCEPT ![c] = step]
      /\ session' = session \/ (session' = [session EXCEPT ![c] = None]
                                  /\ pc' = [pc EXCEPT ![c] = "idle"])
  BY DEF CloseRuntime, DropLock, ClearBaseline, Goto
<1>3. /\ pc' \in [Callers -> Steps]
      /\ session' \in [Callers -> Sessions \cup {None}]
      /\ \A d \in Callers : pc'[d] \notin {"idle", "done"} => session'[d] \in Sessions
  BY <1>1, <1>2 DEF TypeOK, Steps, Closing
<1>4. /\ SessionsTypeOK' /\ PerceptionTypeOK'
      /\ locks' \in [Sessions -> Mutexes \cup {0}]
  <2>1. CASE CloseRuntime(c)
    BY <1>1, <2>1, CloseRuntimeSessionType DEF CloseRuntime, TypeOK, PerceptionTypeOK
  <2>2. CASE DropLock(c)
    BY <1>1, <2>2 DEF DropLock, TypeOK, PerceptionTypeOK, sessionVars, SessionsTypeOK
  <2>3. CASE ClearBaseline(c)
    BY <1>1, <2>3 DEF ClearBaseline, ClearSession, TypeOK, PerceptionTypeOK,
                      sessionVars, SessionsTypeOK
  <2>4. QED
    BY <2>1, <2>2, <2>3
<1>5. QED
  BY <1>3, <1>4 DEF CloseRuntime, DropLock, ClearBaseline, TypeOK, seenVars, ghostVars

LEMMA BeginActionType ==
    ASSUME TypeInv, NEW t \in Tasks, BeginAction(t)
    PROVE  TypeInv'
<1>1. t \in Callers /\ session[t] \in Sessions
  BY DEF TypeInv, BeginAction, Callers
<1>2. Continues(t)
  BY BeginContinues DEF TypeInv
<1>3. /\ task' = [u \in Tasks |-> task'[u]]
      /\ \A u \in Tasks : IsTask(task'[u])
      /\ tries' \in [Tasks -> Nat]
      /\ pc' \in [Callers -> Steps]
      /\ \A d \in Callers \ {t} : pc'[d] = pc[d]
      /\ request' \in [Callers -> Request]
  BY <1>2, ContinuesType
<1>4. \A d \in Callers : pc'[d] \notin {"idle", "done"} => session'[d] \in Sessions
  BY <1>1, <1>3 DEF BeginAction, TypeInv
<1>5. QED
  BY <1>3, <1>4 DEF BeginAction, TypeInv, TypeOK, IsTask, seenVars, sessionVars,
                    SessionsTypeOK, PerceptionTypeOK

LEMMA AsideType ==
    ASSUME TypeInv, NEW s \in Sessions, PageMoves(s) \/ Prune(s)
    PROVE  TypeInv'
<1> USE DEF TypeInv
<1>1. events' \in 0 .. MaxEvents
  BY CountType DEF PageMoves, Prune, TypeOK
<1>2. page' \in [Sessions -> Pages] /\ PerceptionTypeOK'
  BY DEF PageMoves, Prune, ClearSession, TypeOK, PerceptionTypeOK
<1>3. QED
  BY <1>1, <1>2 DEF PageMoves, Prune, TypeOK, sessionVars, seenVars, controlVars,
                    ghostVars, SessionsTypeOK

LEMMA TypeStep == TypeInv /\ [Next]_vars => TypeInv'
<1> SUFFICES ASSUME TypeInv, [Next]_vars PROVE TypeInv'
  OBVIOUS
<1>1. ASSUME NEW t \in Tasks, StartTask(t) PROVE TypeInv'
  BY <1>1, StartTaskType
<1>2. ASSUME NEW d \in Directs, StartCall(d) PROVE TypeInv'
  BY <1>2, StartCallType
<1>3. ASSUME NEW c \in Callers, Step(c) PROVE TypeInv'
  BY <1>3, FetchLockType, AcquireType, ActType, ObserveType, EndType, ClosingType,
     BeginActionType DEF Step
<1>4. ASSUME NEW s \in Sessions, PageMoves(s) \/ Prune(s) PROVE TypeInv'
  BY <1>4, AsideType
<1>5. CASE UNCHANGED vars
  BY <1>5 DEF vars, sessionVars, controlVars, seenVars, ghostVars, TypeInv, TypeOK,
              SessionsTypeOK, PerceptionTypeOK
<1>6. QED
  BY <1>1, <1>2, <1>3, <1>4, <1>5 DEF Next

LEMMA TypeInvariant == Spec => []TypeInv
<1>1. QED
  BY InitType, TypeStep, PTL DEF Spec

\* Every variable of the controller keeps its type; a task never exceeds its
\* budget, and the session an unnamed call continues is one that is open.
THEOREM TypeCorrect == Spec => []TypeOK
<1>1. TypeInv => TypeOK
  BY DEF TypeInv
<1>2. QED
  BY <1>1, TypeInvariant, PTL

-----------------------------------------------------------------------------
(* The steps of a caller *)

Move(c) ==
    \/ Step(c)
    \/ c \in Tasks /\ StartTask(c)
    \/ c \in Directs /\ StartCall(c)

\* What is kept of a caller.
Kept(c) ==
    /\ pc'[c] = pc[c] /\ session'[c] = session[c] /\ request'[c] = request[c]
    /\ lock'[c] = lock[c] /\ failed'[c] = failed[c] /\ view'[c] = view[c]
    /\ transition'[c] = transition[c]
    /\ c \in effect' <=> c \in effect
    /\ c \in shifted' <=> c \in shifted
    /\ c \in Tasks => task'[c] = task[c] /\ tries'[c] = tries[c]

\* What the end of an action makes of its caller.
LEMMA EndMoves ==
    ASSUME TypeInv, NEW c \in Callers, Record(c) \/ Finish(c)
    PROVE  /\ pc'[c] \in {"begin", "fetch", "done", "idle", "closing"}
           /\ pc'[c] = "closing" => /\ Finish(c) /\ ~failed[c]
                                    /\ session'[c] = session[c]
           /\ lock' = [lock EXCEPT ![c] = 0]
           /\ \A d \in Callers \ {c} : Kept(d)
           /\ c \in Tasks => Continues(c) /\ session' = session
<1>1. Unlock(c) /\ Forget(c) /\ shifted' = shifted
  BY DEF Record, Finish
<1>2. \A d \in Callers \ {c} :
        /\ lock'[d] = lock[d] /\ failed'[d] = failed[d] /\ view'[d] = view[d]
        /\ transition'[d] = transition[d] /\ (d \in effect' <=> d \in effect)
        /\ (d \in shifted' <=> d \in shifted)
  BY <1>1 DEF Unlock, Forget, TypeInv, TypeOK
<1>3. CASE c \in Tasks
  <2>1. Continues(c) /\ session' = session
    BY <1>3, EndContinues
  <2>2. /\ pc'[c] \in {"begin", "fetch", "done"}
        /\ \A d \in Callers \ {c} : pc'[d] = pc[d] /\ request'[d] = request[d]
        /\ \A u \in Tasks \ {c} : task'[u] = task[u] /\ tries'[u] = tries[u]
    BY <1>3, <2>1, ContinuesType
  <2>3. QED
    BY <1>1, <1>2, <2>1, <2>2 DEF Kept, Unlock
<1>4. CASE c \notin Tasks
  <2>1. PICK step \in {"idle", "closing"} :
            Return(c, step) /\ (step = "closing" => Finish(c) /\ ~failed[c])
    BY <1>4 DEF Record, Finish
  <2>2. /\ pc' = [pc EXCEPT ![c] = step] /\ request' = [request EXCEPT ![c] = Extract]
        /\ session' = session \/ session' = [session EXCEPT ![c] = None]
        /\ step = "closing" => session' = session
        /\ task' = task /\ tries' = tries
    BY <2>1 DEF Return, Goto
  <2>3. \A d \in Callers \ {c} :
          pc'[d] = pc[d] /\ request'[d] = request[d] /\ session'[d] = session[d]
    BY <2>2 DEF TypeInv, TypeOK
  <2>4. pc'[c] = step
    BY <2>2 DEF TypeInv, TypeOK
  <2>5. QED
    BY <1>1, <1>2, <1>4, <2>1, <2>2, <2>3, <2>4 DEF Kept, Unlock
<1>5. QED
  BY <1>3, <1>4

\* A caller changes nothing another one keeps.
LEMMA OthersStay ==
    ASSUME TypeInv, NEW c \in Callers, Move(c), NEW d \in Callers \ {c}
    PROVE  Kept(d)
<1> USE DEF TypeInv, TypeOK, Kept
<1>1. CASE c \in Tasks /\ StartTask(c)
  <2>1. /\ \E step \in {"done", "begin"} : pc' = [pc EXCEPT ![c] = step]
        /\ \E s \in Sessions : session' = [session EXCEPT ![c] = s]
        /\ \A u \in Tasks \ {c} : task'[u] = task[u]
    BY <1>1, StartTaskType
  <2>2. pc'[d] = pc[d] /\ session'[d] = session[d] /\ (d \in Tasks => task'[d] = task[d])
    BY <2>1
  <2>3. QED
    BY <1>1, <2>2 DEF StartTask, seenVars, ghostVars
<1>2. CASE c \in Directs /\ StartCall(c)
  <2>1. pc'[d] = pc[d] /\ session'[d] = session[d] /\ request'[d] = request[d]
    BY <1>2 DEF StartCall, Goto
  <2>2. QED
    BY <1>2, <2>1 DEF StartCall, seenVars, ghostVars
<1>3. CASE FetchLock(c)
  <2>1. pc'[d] = pc[d] /\ lock'[d] = lock[d]
    BY <1>3 DEF FetchLock, Goto
  <2>2. QED
    BY <1>3, <2>1 DEF FetchLock, seenVars, ghostVars
<1>4. CASE Acquire(c)
  <2>1. pc'[d] = pc[d] /\ failed'[d] = failed[d]
    BY <1>4 DEF Acquire, Goto
  <2>2. QED
    BY <1>4, <2>1 DEF Acquire, seenVars
<1>5. CASE Act(c)
  <2>1. pc'[d] = pc[d] /\ failed'[d] = failed[d] /\ transition'[d] = transition[d]
    BY <1>5 DEF Act, Succeeds, FailsAt, Goto
  <2>2. /\ d \in shifted' <=> d \in shifted
        /\ d \in Tasks => tries'[d] = tries[d]
    BY <1>5 DEF Act
  <2>3. QED
    BY <1>5, <2>1, <2>2 DEF Act
<1>6. CASE Observe(c)
  <2>1. pc'[d] = pc[d] /\ failed'[d] = failed[d] /\ view'[d] = view[d]
    BY <1>6 DEF Observe, Goto
  <2>2. d \in effect' <=> d \in effect
    BY <1>6 DEF Observe
  <2>3. QED
    BY <1>6, <2>1, <2>2 DEF Observe
<1>7. CASE Record(c) \/ Finish(c)
  BY <1>7, EndMoves
<1>8. CASE CloseRuntime(c) \/ DropLock(c) \/ ClearBaseline(c)
  <2>1. pc'[d] = pc[d] /\ session'[d] = session[d]
    BY <1>8 DEF CloseRuntime, DropLock, ClearBaseline, Goto
  <2>2. QED
    BY <1>8, <2>1 DEF CloseRuntime, DropLock, ClearBaseline, seenVars, ghostVars
<1>9. CASE c \in Tasks /\ BeginAction(c)
  <2>1. /\ \A e \in Callers \ {c} : pc'[e] = pc[e] /\ request'[e] = request[e]
        /\ \A u \in Tasks \ {c} : task'[u] = task[u] /\ tries'[u] = tries[u]
    BY <1>9, BeginContinues, ContinuesType
  <2>2. QED
    BY <1>9, <2>1 DEF BeginAction, seenVars
<1>10. QED
  BY <1>1, <1>2, <1>3, <1>4, <1>5, <1>6, <1>7, <1>8, <1>9 DEF Move, Step

-----------------------------------------------------------------------------
(* One action at a time in a session *)

\* A caller has a mutex exactly from when it fetched it until it released it;
\* it is the one of its session, as long as nobody dropped that.
HasLock(c) == lock[c] # 0 <=> pc[c] \in {"wait"} \cup Acting
LockIsCurrent(c) ==
    lock[c] # 0 /\ session[c] \notin dropped => lock[c] = locks[session[c]]

Excluded(c, d) ==
    c # d /\ session[c] = session[d] /\ lock[c] = lock[d]
        => pc[c] \notin Acting \/ pc[d] \notin Acting

LockInv ==
    /\ \A c \in Callers : HasLock(c) /\ LockIsCurrent(c)
    /\ \A c, d \in Callers : Excluded(c, d)

LEMMA InitLock == Init => LockInv
BY DEF Init, LockInv, HasLock, LockIsCurrent, Excluded, Acting

\* The map of mutexes keeps those of the sessions that are worked on.
LEMMA LocksStay ==
    ASSUME TypeInv, LockInv, NEW c \in Callers, Move(c), NEW d \in Callers,
           lock[d] # 0, session[d] \notin dropped'
    PROVE  session[d] \notin dropped /\ locks'[session[d]] = locks[session[d]]
<1> USE DEF TypeInv, TypeOK
<1>1. session[d] \in Sessions
  BY DEF LockInv, HasLock, Acting
<1>2. CASE FetchLock(c)
  <2>1. session[c] \in Sessions /\ dropped' = dropped
    BY <1>2 DEF FetchLock, ghostVars
  <2>2. CASE locks[session[c]] = 0
    <3>1. session[d] # session[c]
      BY <2>1, <2>2 DEF LockInv, LockIsCurrent
    <3>2. QED
      BY <1>1, <1>2, <2>1, <3>1 DEF FetchLock
  <2>3. CASE locks[session[c]] # 0
    BY <1>1, <1>2, <2>1, <2>3 DEF FetchLock
  <2>4. QED
    BY <2>2, <2>3
<1>3. CASE DropLock(c)
  <2>1. session[c] \in Sessions
    BY <1>3 DEF DropLock
  <2>2. session[d] # session[c]
    BY <1>3 DEF DropLock
  <2>3. QED
    BY <1>1, <1>3, <2>1, <2>2 DEF DropLock
<1>4. CASE ~FetchLock(c) /\ ~DropLock(c)
  BY <1>4 DEF Move, Step, StartTask, StartCall, Acquire, Act, Observe, Record, Finish,
              CloseRuntime, ClearBaseline, BeginAction, ghostVars
<1>5. QED
  BY <1>2, <1>3, <1>4

LEMMA MoveLock ==
    ASSUME TypeInv, LockInv, NEW c \in Callers, Move(c)
    PROVE  LockInv'
<1> USE DEF TypeInv, TypeOK
<1>1. ASSUME NEW d \in Callers \ {c}
      PROVE  HasLock(d)' /\ LockIsCurrent(d)'
  <2>1. Kept(d)
    BY OthersStay
  <2>2. QED
    BY <2>1, LocksStay DEF Kept, LockInv, HasLock, LockIsCurrent
<1>2. ASSUME NEW d \in Callers \ {c}, NEW e \in Callers \ {c}
      PROVE  Excluded(d, e)'
  <2>1. Kept(d) /\ Kept(e)
    BY OthersStay
  <2>2. Excluded(d, e)
    BY DEF LockInv
  <2>3. QED
    BY <2>1, <2>2 DEF Kept, Excluded
\* What the caller itself comes to.
<1>3. /\ HasLock(c)' /\ LockIsCurrent(c)'
      /\ \A d \in Callers \ {c} : Excluded(c, d)'
  <2>1. CASE lock'[c] = 0 /\ pc'[c] \notin {"wait"} \cup Acting
    BY <2>1 DEF HasLock, LockIsCurrent, Excluded
  <2>2. CASE FetchLock(c)
    <3>1. session[c] \in Sessions /\ session' = session
      BY <2>2 DEF FetchLock
    <3>2. PICK m \in Mutexes : /\ locks' = [locks EXCEPT ![session[c]] = m]
                               /\ lock' = [lock EXCEPT ![c] = m]
      BY <2>2, <3>1, NewMutexIsNew DEF FetchLock
    <3>3. m # 0
      BY DEF Mutexes
    <3>4. pc'[c] = "wait"
      BY <2>2 DEF FetchLock, Goto
    <3>5. QED
      BY <3>1, <3>2, <3>3, <3>4 DEF HasLock, LockIsCurrent, Excluded, Acting
  <2>3. CASE Acquire(c)
    <3>1. /\ session' = session /\ lock' = lock /\ locks' = locks /\ dropped' = dropped
          /\ pc[c] = "wait" /\ pc'[c] \in {"act", "finish"}
      BY <2>3 DEF Acquire, Goto
    <3>2. \A d \in Callers : session[d] = session[c] /\ lock[d] = lock[c]
                                => pc[d] = "wait"
      BY <2>3 DEF Acquire, Held
    <3>3. HasLock(c)' /\ LockIsCurrent(c)'
      BY <3>1 DEF LockInv, HasLock, LockIsCurrent, Acting
    <3>4. \A d \in Callers \ {c} : pc'[d] = pc[d]
      BY OthersStay DEF Kept
    <3>5. \A d \in Callers \ {c} : Excluded(c, d)'
      BY <3>1, <3>2, <3>4 DEF Excluded, Acting
    <3>6. QED
      BY <3>3, <3>5
  <2>4. CASE Act(c) \/ Observe(c)
    <3>1. /\ session' = session /\ lock' = lock /\ locks' = locks /\ dropped' = dropped
          /\ pc[c] \in Acting /\ pc'[c] \in Acting
      BY <2>4 DEF Act, Succeeds, FailsAt, Observe, Goto, Acting
    <3>2. \A d \in Callers \ {c} : pc'[d] = pc[d]
      BY OthersStay DEF Kept
    <3>3. QED
      BY <3>1, <3>2 DEF LockInv, HasLock, LockIsCurrent, Excluded
  <2>5. CASE Record(c) \/ Finish(c)
    <3>1. lock'[c] = 0 /\ pc'[c] \in {"begin", "fetch", "done", "idle", "closing"}
      BY <2>5, EndMoves
    <3>2. QED
      BY <2>1, <3>1 DEF Acting
  <2>6. CASE c \in Tasks /\ BeginAction(c)
    <3>1. pc'[c] \in {"begin", "fetch", "done"}
      BY <2>6, BeginContinues, ContinuesType
    <3>2. QED
      BY <2>1, <2>6, <3>1 DEF BeginAction, LockInv, HasLock, Acting
  <2>7. CASE c \in Tasks /\ StartTask(c)
    <3>1. pc'[c] \in {"begin", "done"}
      BY <2>7, StartTaskType
    <3>2. QED
      BY <2>1, <2>7, <3>1 DEF StartTask, LockInv, HasLock, Acting
  <2>8. CASE c \in Directs /\ StartCall(c)
    <3>1. pc'[c] \in {"idle", "fetch"}
      BY <2>8 DEF StartCall, Goto
    <3>2. QED
      BY <2>1, <2>8, <3>1 DEF StartCall, LockInv, HasLock, Acting
  <2>9. CASE CloseRuntime(c) \/ DropLock(c) \/ ClearBaseline(c)
    <3>1. pc[c] \in Closing /\ pc'[c] \in {"unlocking", "clearing", "idle"} /\ lock' = lock
      BY <2>9 DEF CloseRuntime, DropLock, ClearBaseline, Goto, Closing
    <3>2. QED
      BY <2>1, <3>1 DEF LockInv, HasLock, Acting, Closing
  <2>10. QED
    BY <2>2, <2>3, <2>4, <2>5, <2>6, <2>7, <2>8, <2>9 DEF Move, Step
<1>4. \A d \in Callers \ {c} : Excluded(d, c)'
  BY <1>3 DEF Excluded
<1>5. \A d, e \in Callers : Excluded(d, e)'
  <2> SUFFICES ASSUME NEW d \in Callers, NEW e \in Callers PROVE Excluded(d, e)'
    OBVIOUS
  <2>1. CASE d = c /\ e = c
    BY <2>1 DEF Excluded
  <2>2. CASE d = c /\ e # c
    BY <1>3, <2>2
  <2>3. CASE d # c /\ e = c
    BY <1>4, <2>3
  <2>4. CASE d # c /\ e # c
    BY <1>2, <2>4
  <2>5. QED
    BY <2>1, <2>2, <2>3, <2>4
<1>6. \A d \in Callers : HasLock(d)' /\ LockIsCurrent(d)'
  BY <1>1, <1>3
<1>7. QED
  BY <1>5, <1>6 DEF LockInv

LEMMA LockInvariant == Spec => [](TypeInv /\ LockInv)
<1>1. Init => TypeInv /\ LockInv
  BY InitType, InitLock
<1>2. TypeInv /\ LockInv /\ [Next]_vars => (TypeInv /\ LockInv)'
  <2> SUFFICES ASSUME TypeInv, LockInv, [Next]_vars PROVE LockInv'
    BY TypeStep
  <2>1. ASSUME NEW c \in Callers, Move(c) PROVE LockInv'
    BY <2>1, MoveLock
  <2>2. ASSUME NEW s \in Sessions, PageMoves(s) \/ Prune(s) PROVE LockInv'
    BY <2>2 DEF PageMoves, Prune, controlVars, ghostVars, LockInv, HasLock,
                LockIsCurrent, Excluded
  <2>3. CASE UNCHANGED vars
    BY <2>3 DEF vars, controlVars, ghostVars, LockInv, HasLock, LockIsCurrent, Excluded
  <2>4. QED
    BY <2>1, <2>2, <2>3 DEF Next, Move, Callers
<1>3. QED
  BY <1>1, <1>2, PTL DEF Spec

\* Two callers act in one session at the same time only if the session was
\* closed while one of them had its mutex.
THEOREM NoOverlap == Spec => []ActionsDoNotOverlap
<1>1. LockInv => ActionsDoNotOverlap
  BY DEF LockInv, HasLock, LockIsCurrent, Excluded, ActionsDoNotOverlap
<1>2. QED
  BY <1>1, LockInvariant, PTL

-----------------------------------------------------------------------------
(* The page an action was decided on *)

\* A caller about to act has the page it named before it, unless the page moved
\* by itself or the mutex was dropped.
Saw(c) ==
    (pc[c] = "act" /\ request[c].expected # None)
        => \/ UrlOf[page[session[c]]] = request[c].expected
           \/ c \in shifted \/ session[c] \in dropped

SawInv == \A c \in Callers : Saw(c)

LEMMA DroppedStays ==
    ASSUME [Next]_vars
    PROVE  dropped \subseteq dropped'
BY DEF Next, Step, StartTask, StartCall, FetchLock, Acquire, Act, Observe, Record,
       Finish, CloseRuntime, DropLock, ClearBaseline, BeginAction, PageMoves, Prune,
       vars, ghostVars

\* Only a caller that acts there changes the page of a session.
LEMMA PageStays ==
    ASSUME TypeInv, LockInv, NEW c \in Callers, Move(c), NEW d \in Callers \ {c},
           pc[d] \in Acting, session[d] \notin dropped
    PROVE  page'[session[d]] = page[session[d]]
<1>1. session[d] \in Sessions
  BY DEF TypeInv, Acting
<1>2. CASE Act(c)
  <2>1. pc[c] = "act" /\ session[c] \in Sessions
    BY <1>2 DEF Act, TypeInv
  <2>2. session[c] # session[d]
    BY <2>1 DEF LockInv, HasLock, LockIsCurrent, Excluded, Acting
  <2>3. \E p : page' = [page EXCEPT ![session[c]] = p]
    BY <1>2 DEF Act
  <2>4. QED
    BY <1>1, <2>1, <2>2, <2>3 DEF TypeInv, TypeOK
<1>3. CASE ~Act(c)
  BY <1>3 DEF Move, Step, StartTask, StartCall, FetchLock, Acquire, Observe, Record,
              Finish, CloseRuntime, DropLock, ClearBaseline, BeginAction
<1>4. QED
  BY <1>2, <1>3

LEMMA MoveSaw ==
    ASSUME TypeInv, LockInv, SawInv, NEW c \in Callers, Move(c),
           dropped \subseteq dropped'
    PROVE  SawInv'
<1>1. ASSUME NEW d \in Callers \ {c} PROVE Saw(d)'
  BY OthersStay, PageStays DEF Kept, SawInv, Saw, Acting
<1>2. Saw(c)'
  <2>1. CASE pc'[c] # "act"
    BY <2>1 DEF Saw
  <2>2. CASE Acquire(c)
    BY <2>2 DEF Acquire, Precondition, Goto, Saw, TypeInv, TypeOK
  <2>3. CASE pc'[c] = "act" /\ ~Acquire(c)
    <3>1. c \in Tasks => (StartTask(c) => pc'[c] \in {"done", "begin"})
      BY StartTaskType DEF TypeInv, TypeOK
    <3>2. c \in Tasks => (BeginAction(c) => pc'[c] \in {"begin", "fetch", "done"})
      BY BeginContinues, ContinuesType DEF TypeInv
    <3>3. Record(c) \/ Finish(c) => pc'[c] # "act"
      BY EndMoves
    <3>4. c \in Directs => (StartCall(c) => pc'[c] \in {"idle", "fetch"})
      BY DEF StartCall, Goto, TypeInv, TypeOK
    <3>5. ~(\/ FetchLock(c) \/ Act(c) \/ Observe(c)
            \/ CloseRuntime(c) \/ DropLock(c) \/ ClearBaseline(c))
      BY <2>3 DEF FetchLock, Act, Succeeds, FailsAt, Observe, CloseRuntime, DropLock,
                  ClearBaseline, Goto, TypeInv, TypeOK
    <3>6. QED
      BY <2>3, <3>1, <3>2, <3>3, <3>4, <3>5 DEF Move, Step
  <2>4. QED
    BY <2>1, <2>2, <2>3
<1>3. QED
  BY <1>1, <1>2 DEF SawInv

LEMMA SawInvariant == Spec => []SawInv
<1>1. Init => SawInv
  BY DEF Init, SawInv, Saw
<1>2. TypeInv /\ LockInv /\ SawInv /\ [Next]_vars => SawInv'
  <2> SUFFICES ASSUME TypeInv, LockInv, SawInv, [Next]_vars PROVE SawInv'
    OBVIOUS
  <2>1. ASSUME NEW c \in Callers, Move(c) PROVE SawInv'
    BY <2>1, MoveSaw, DroppedStays
  <2>2. ASSUME NEW s \in Sessions, PageMoves(s) PROVE SawInv'
    <3>1. \A r \in Sessions \ {s} : page'[r] = page[r]
      BY <2>2 DEF PageMoves, TypeInv, TypeOK
    <3>2. QED
      BY <2>2, <3>1 DEF PageMoves, controlVars, SawInv, Saw, TypeInv
  <2>3. ASSUME NEW s \in Sessions, Prune(s) PROVE SawInv'
    BY <2>3 DEF Prune, controlVars, ghostVars, SawInv, Saw
  <2>4. CASE UNCHANGED vars
    BY <2>4 DEF vars, controlVars, ghostVars, SawInv, Saw
  <2>5. QED
    BY <2>1, <2>2, <2>3, <2>4 DEF Next, Move, Callers
<1>3. QED
  BY <1>1, <1>2, LockInvariant, PTL DEF Spec

\* An action that names the page it was decided on is performed on that page,
\* unless the page moved by itself after the check or the session was closed
\* while someone had its mutex.
THEOREM SeenPagesAreActedOn == Spec => TasksActOnWhatTheySaw
<1>1. SawInv /\ [Next]_vars =>
        [\A c \in Callers :
            (pc[c] = "act" /\ pc'[c] # "act" /\ request[c].expected # None)
                => \/ UrlOf[page[session[c]]] = request[c].expected
                   \/ c \in shifted \/ session[c] \in dropped]_vars
  BY DEF SawInv, Saw
<1>2. QED
  BY <1>1, SawInvariant, PTL DEF Spec, TasksActOnWhatTheySaw

-----------------------------------------------------------------------------
(* The retries of a task *)

\* How often the action at hand was performed, and which one that is: nothing
\* between two actions; else the one the policy allowed, at most once before it
\* is looked for again and at most twice in all.  A task closes no session.
Tried(t) ==
    /\ pc[t] \notin Closing
    /\ request[t].action # "close" /\ task[t].request.action # "close"
    /\ pc[t] \in {"idle", "begin", "done"} => tries[t] = 0
    /\ pc[t] \notin {"idle", "begin", "done"} =>
          /\ Allowed(task[t].request)
          /\ task[t].phase # "reobserve" => request[t] = task[t].request
          /\ task[t].phase = "retry" => Retryable(request[t])
          /\ task[t].phase # "retry" => tries[t] <= 1
          /\ tries[t] <= 2
          /\ pc[t] \in {"fetch", "wait", "act"} =>
                tries[t] <= IF task[t].phase = "first" THEN 0 ELSE 1

RetryInv == \A t \in Tasks : Tried(t)

LEMMA ContinuesTried ==
    ASSUME TypeInv, NEW t \in Tasks, Tried(t), Continues(t),
           pc[t] \in {"begin", "record", "finish"}
    PROVE  Tried(t)'
<1>1. /\ IsTask(task[t]) /\ task = [u \in Tasks |-> task[u]]
      /\ pc \in [Callers -> Steps] /\ request \in [Callers -> Request]
      /\ tries \in [Tasks -> Nat] /\ t \in Callers
  BY DEF TypeInv, TypeOK, Callers
<1>2. Extract.action # "close" /\ Extract \in Request
  BY ViewType
<1>3. ASSUME NEW node, NEW url \in Links, NEW used \in 0 .. MaxActions,
             Proceed(t, node, url, used)
      PROVE  Tried(t)'
  <2>1. task'[t].request = Extract
    BY <1>1, <1>3, ProceedType
  <2>2. request'[t] = Extract /\ tries'[t] = 0 /\ pc'[t] \in {"begin", "done"}
    BY <1>1, <1>3 DEF Proceed, Goto
  <2>3. QED
    BY <1>2, <2>1, <2>2 DEF Tried, Closing
<1>4. ASSUME NEW r \in Request, NEW phase \in Phases, BudgetLeft(t),
             Perform(t, r, phase)
      PROVE  /\ task'[t].phase = phase
             /\ task'[t].request = IF phase = "first" THEN r ELSE task[t].request
             /\ request'[t] = r /\ tries'[t] = tries[t] /\ pc'[t] = "fetch"
  <2>1. request'[t] = r /\ tries'[t] = tries[t] /\ pc'[t] = "fetch"
    BY <1>1, <1>4 DEF Perform, Goto
  <2>2. QED
    BY <1>1, <1>4, <2>1, PerformType
<1>5. CASE /\ BudgetLeft(t) /\ pc[t] = "begin"
           /\ \E r \in Request : /\ Allowed(r) /\ r.action # "close"
                                 /\ Perform(t, r, "first")
  <2>1. PICK r \in Request : /\ Allowed(r) /\ r.action # "close"
                             /\ Perform(t, r, "first")
    BY <1>5
  <2>2. /\ task'[t].phase = "first" /\ task'[t].request = r
        /\ request'[t] = r /\ tries'[t] = tries[t] /\ pc'[t] = "fetch"
    BY <1>4, <1>5, <2>1 DEF Phases
  <2>3. QED
    BY <1>5, <2>1, <2>2 DEF Tried, Closing
<1>6. CASE /\ BudgetLeft(t) /\ pc[t] = "record" /\ task[t].phase = "first"
           /\ Perform(t, Extract, "reobserve")
  <2>1. /\ task'[t].phase = "reobserve" /\ task'[t].request = task[t].request
        /\ request'[t] = Extract /\ tries'[t] = tries[t] /\ pc'[t] = "fetch"
    BY <1>2, <1>4, <1>6 DEF Phases
  <2>2. QED
    BY <1>2, <1>6, <2>1 DEF Tried, Closing
<1>7. CASE /\ BudgetLeft(t) /\ pc[t] = "record" /\ task[t].phase = "reobserve"
           /\ Retryable(task[t].request)
           /\ Perform(t, task[t].request, "retry")
  <2>1. task[t].request \in Request
    BY <1>1 DEF IsTask
  <2>2. /\ task'[t].phase = "retry" /\ task'[t].request = task[t].request
        /\ request'[t] = task[t].request /\ tries'[t] = tries[t] /\ pc'[t] = "fetch"
    BY <1>4, <1>7, <2>1 DEF Phases
  <2>3. QED
    BY <1>1, <1>7, <2>2 DEF Tried, Closing
<1>8. QED
  BY <1>3, <1>5, <1>6, <1>7 DEF Continues

LEMMA MoveTried ==
    ASSUME TypeInv, NEW t \in Tasks, Tried(t), Move(t)
    PROVE  Tried(t)'
<1> USE DEF TypeInv, TypeOK
<1>1. t \in Callers /\ t \notin Directs /\ tries[t] \in Nat
  BY BrowserAssumption DEF Callers
<1>2. CASE StartTask(t)
  <2>1. pc[t] = "idle" /\ pc'[t] \in {"done", "begin"}
    <3>1. \E step \in {"done", "begin"} : pc' = [pc EXCEPT ![t] = step]
      BY <1>2, StartTaskType
    <3>2. QED
      BY <1>1, <1>2, <3>1 DEF StartTask
  <2>2. /\ task'[t].request = task[t].request
        /\ request' = request /\ tries' = tries
    BY <1>2, StartTaskType DEF StartTask, ghostVars
  <2>3. QED
    BY <2>1, <2>2 DEF Tried, Closing
<1>3. CASE BeginAction(t)
  <2>1. Continues(t) /\ pc[t] = "begin"
    BY <1>3, BeginContinues DEF BeginAction
  <2>2. QED
    BY <2>1, ContinuesTried
<1>4. CASE Record(t) \/ Finish(t)
  <2>1. Continues(t) /\ pc[t] \in {"record", "finish"}
    BY <1>4, EndContinues DEF Record, Finish
  <2>2. QED
    BY <2>1, ContinuesTried
<1>5. CASE FetchLock(t) \/ Acquire(t)
  <2>1. /\ task' = task /\ request' = request /\ tries' = tries
        /\ pc[t] \in {"fetch", "wait"} /\ pc'[t] \in {"wait", "act", "finish"}
    BY <1>1, <1>5 DEF FetchLock, Acquire, Goto, ghostVars
  <2>2. QED
    BY <1>1, <2>1 DEF Tried, Closing
<1>6. CASE Act(t)
  <2>1. /\ task' = task /\ request' = request
        /\ pc[t] = "act" /\ pc'[t] \in {"finish", "observe"}
    BY <1>1, <1>6 DEF Act, Succeeds, FailsAt, Goto
  <2>2. tries'[t] = IF task[t].phase = "reobserve" THEN tries[t] ELSE tries[t] + 1
    BY <1>6 DEF Act
  <2>3. task[t].phase \in Phases
    BY DEF IsTask
  <2>4. QED
    BY <1>1, <2>1, <2>2, <2>3 DEF Tried, Closing, Phases
<1>7. CASE Observe(t)
  <2>1. /\ task' = task /\ request' = request /\ tries' = tries
        /\ pc[t] = "observe" /\ pc'[t] \in {"finish", "record"}
    BY <1>1, <1>7 DEF Observe, Goto
  <2>2. QED
    BY <2>1 DEF Tried, Closing
<1>8. CASE CloseRuntime(t) \/ DropLock(t) \/ ClearBaseline(t)
  BY <1>8 DEF CloseRuntime, DropLock, ClearBaseline, Tried, Closing
<1>9. QED
  BY <1>1, <1>2, <1>3, <1>4, <1>5, <1>6, <1>7, <1>8 DEF Move, Step

LEMMA RetryInvariant == Spec => []RetryInv
<1>1. Init => RetryInv
  <2>1. Init => \A t \in Tasks :
            /\ pc[t] = "idle" /\ request[t] = Extract /\ tries[t] = 0
            /\ task[t] = NoTask
    BY DEF Init, Callers
  <2>2. NoTask.request.action # "close" /\ Extract.action # "close"
    BY ViewType DEF NoTask
  <2>3. QED
    BY <2>1, <2>2 DEF RetryInv, Tried, Closing
<1>2. TypeInv /\ RetryInv /\ [Next]_vars => RetryInv'
  <2> SUFFICES ASSUME TypeInv, RetryInv, [Next]_vars, NEW t \in Tasks
               PROVE  Tried(t)'
    BY DEF RetryInv
  <2>1. ASSUME NEW c \in Callers, Move(c) PROVE Tried(t)'
    <3>1. CASE c = t
      BY <2>1, <3>1, MoveTried DEF RetryInv
    <3>2. CASE c # t
      <4>1. Kept(t)
        BY <2>1, <3>2, OthersStay DEF Callers
      <4>2. QED
        BY <4>1 DEF Kept, RetryInv, Tried
    <3>3. QED
      BY <3>1, <3>2
  <2>2. ASSUME NEW s \in Sessions, PageMoves(s) \/ Prune(s) PROVE Tried(t)'
    BY <2>2 DEF PageMoves, Prune, controlVars, ghostVars, RetryInv, Tried
  <2>3. CASE UNCHANGED vars
    BY <2>3 DEF vars, controlVars, ghostVars, RetryInv, Tried
  <2>4. QED
    BY <2>1, <2>2, <2>3 DEF Next, Move, Callers
<1>3. QED
  BY <1>1, <1>2, TypeInvariant, PTL DEF Spec

\* A task performs an action twice at most, the second time only one that can
\* be reversed and that it has looked for since, never one that needs the user.
THEOREM SafeRetries == Spec => RetriesAreSafe
<1>1. TypeInv /\ RetryInv /\ [Next]_vars =>
        [\A t \in Tasks :
            (pc[t] = "act" /\ pc'[t] # "act" /\ task[t].phase # "reobserve")
                => /\ Allowed(request[t])
                   /\ tries[t] < 2
                   /\ tries[t] = 1 =>
                        /\ task[t].phase = "retry"
                        /\ request[t].action \in {"navigate", "play"} \/ request[t].target # None]_vars
  <2> SUFFICES ASSUME TypeInv, RetryInv, NEW t \in Tasks, pc[t] = "act",
                      task[t].phase # "reobserve"
               PROVE  /\ Allowed(request[t])
                      /\ tries[t] < 2
                      /\ tries[t] = 1 =>
                           /\ task[t].phase = "retry"
                           /\ request[t].action \in {"navigate", "play"} \/ request[t].target # None
    OBVIOUS
  <2>1. Tried(t) /\ task[t].phase \in Phases /\ tries[t] \in Nat
    BY DEF RetryInv, TypeInv, IsTask
  <2>2. Allowed(request[t]) /\ tries[t] <= IF task[t].phase = "first" THEN 0 ELSE 1
    BY <2>1 DEF Tried
  <2>3. task[t].phase = "retry" => Retryable(request[t])
    BY <2>1 DEF Tried
  <2>4. QED
    BY <2>1, <2>2, <2>3 DEF Phases, Retryable
<1>2. QED
  BY <1>1, TypeInvariant, RetryInvariant, PTL DEF Spec, RetriesAreSafe

-----------------------------------------------------------------------------
(* The baseline an action is compared with *)

\* A caller closes its session, or is about to.
Ending(c) ==
    \/ pc[c] \in Closing
    \/ pc[c] = "finish" /\ request[c].action = "close" /\ ~failed[c]

Ends(s) == \E c \in Callers : session[c] = s /\ Ending(c)

\* An action that has failed is near its end.
Unfailed(c) == pc[c] \notin {"observe", "record", "finish"} => ~failed[c]

\* Between two actions the baseline of a session whose page did not change
\* since it was observed is that page, if there is one.
BaselineFits(s) ==
    (/\ s \notin dropped /\ s \notin changed /\ ~Ends(s)
     /\ \A c \in Callers : session[c] = s => pc[c] # "record")
        => baseline[s] \in {None, Blank, page[s]}

\* A caller that has observed the page of session s has the page as it is, and
\* as the baseline says, unless it changed after, or before.
ViewFits(c, s) ==
    (pc[c] = "record" /\ session[c] = s /\ s \notin dropped)
        => /\ s \in changed \/ view[c].page \in {Blank, page[s]}
           /\ \/ Ends(s) \/ c \in effect \/ request[c].action = "screenshot"
              \/ baseline[s] \in {None, Blank, view[c].page}
           /\ request[c].action = "screenshot" => view[c].page = Blank

BaseInv ==
    /\ \A c \in Callers : Unfailed(c)
    /\ \A s \in Sessions : BaselineFits(s) /\ \A c \in Callers : ViewFits(c, s)

LEMMA InitBase == Init => BaseInv
BY DEF Init, BaseInv, Unfailed, BaselineFits, ViewFits

\* At most one caller acts in a session nobody dropped.
LEMMA Alone ==
    ASSUME LockInv, NEW c \in Callers, NEW d \in Callers \ {c},
           pc[c] \in Acting, session[d] = session[c], session[c] \notin dropped
    PROVE  pc[d] \notin Acting
BY DEF LockInv, HasLock, LockIsCurrent, Excluded

\* What stays in the sessions a step does not concern.
LEMMA QuietStep ==
    ASSUME TypeInv, BaseInv, NEW c \in Callers, Move(c), dropped \subseteq dropped',
           NEW s \in Sessions,
           page'[s] = page[s], baseline'[s] = baseline[s],
           s \in changed' <=> s \in changed,
           Ends(s) => Ends(s)',
           session[c] = s => pc[c] # "record",
           session'[c] = s => pc'[c] # "record"
    PROVE  BaselineFits(s)' /\ \A d \in Callers : ViewFits(d, s)'
<1>1. \A d \in Callers \ {c} : Kept(d)
  BY OthersStay
<1>2. BaselineFits(s) /\ \A d \in Callers : ViewFits(d, s)
  BY DEF BaseInv
<1>3. BaselineFits(s)'
  <2> SUFFICES ASSUME s \notin dropped', s \notin changed', ~(Ends(s)'),
                      \A d \in Callers : session'[d] = s => pc'[d] # "record"
               PROVE  baseline'[s] \in {None, Blank, page'[s]}
    BY DEF BaselineFits
  <2>1. s \notin dropped /\ s \notin changed /\ ~Ends(s)
    OBVIOUS
  <2>2. \A d \in Callers : session[d] = s => pc[d] # "record"
    BY <1>1 DEF Kept
  <2>3. QED
    BY <1>2, <2>1, <2>2 DEF BaselineFits
<1>4. ASSUME NEW d \in Callers PROVE ViewFits(d, s)'
  <2> SUFFICES ASSUME pc'[d] = "record", session'[d] = s, s \notin dropped'
               PROVE  /\ s \in changed' \/ view'[d].page \in {Blank, page'[s]}
                      /\ \/ Ends(s)' \/ d \in effect'
                         \/ request'[d].action = "screenshot"
                         \/ baseline'[s] \in {None, Blank, view'[d].page}
                      /\ request'[d].action = "screenshot" => view'[d].page = Blank
    BY DEF ViewFits
  <2>1. d # c /\ Kept(d) /\ s \notin dropped
    BY <1>1
  <2>2. ViewFits(d, s)
    BY <1>2
  <2>3. QED
    BY <2>1, <2>2 DEF ViewFits, Kept
<1>5. QED
  BY <1>3, <1>4

\* A session stays one that is closed until its baseline is cleared.
LEMMA EndsStay ==
    ASSUME TypeInv, RetryInv, NEW c \in Callers, Move(c), NEW s, Ends(s),
           ~(session[c] = s /\ ClearBaseline(c))
    PROVE  Ends(s)'
<1> USE DEF TypeInv, TypeOK
<1>1. PICK d \in Callers : session[d] = s /\ Ending(d)
  BY DEF Ends
<1>2. CASE d # c
  <2>1. Kept(d)
    BY <1>2, OthersStay
  <2>2. QED
    BY <1>1, <2>1 DEF Kept, Ends, Ending
<1>3. CASE d = c /\ pc[c] \in Closing
  <2>1. CloseRuntime(c) \/ DropLock(c)
    BY <1>1, <1>3 DEF Move, Step, StartTask, StartCall, FetchLock, Acquire, Act,
                      Observe, Record, Finish, ClearBaseline, BeginAction, Closing
  <2>2. pc'[c] \in Closing /\ session' = session
    BY <2>1 DEF CloseRuntime, DropLock, Goto, Closing
  <2>3. QED
    BY <1>1, <1>3, <2>2 DEF Ends, Ending
<1>4. CASE d = c /\ pc[c] \notin Closing
  <2>1. pc[c] = "finish" /\ request[c].action = "close" /\ ~failed[c]
    BY <1>1, <1>4 DEF Ending
  <2>2. c \notin Tasks
    BY <2>1 DEF RetryInv, Tried
  <2>3. Finish(c)
    BY <2>1 DEF Move, Step, StartTask, StartCall, FetchLock, Acquire, Act, Observe,
                Record, CloseRuntime, DropLock, ClearBaseline, BeginAction
  <2>4. Return(c, "closing")
    BY <2>1, <2>2, <2>3 DEF Finish
  <2>5. pc'[c] = "closing" /\ session' = session
    BY <2>4 DEF Return, Goto
  <2>6. QED
    BY <1>1, <1>4, <2>5 DEF Ends, Ending, Closing
<1>5. QED
  BY <1>2, <1>3, <1>4

LEMMA MoveUnfailed ==
    ASSUME TypeInv, BaseInv, NEW c \in Callers, Move(c)
    PROVE  \A d \in Callers : Unfailed(d)'
<1> USE DEF TypeInv, TypeOK
<1>1. ASSUME NEW d \in Callers \ {c} PROVE Unfailed(d)'
  BY OthersStay DEF Kept, BaseInv, Unfailed
<1>2. Unfailed(c)'
  <2>1. CASE Record(c) \/ Finish(c)
    BY <2>1 DEF Record, Finish, Forget, Unfailed
  <2>2. CASE Act(c) \/ Observe(c)
    <3>1. pc'[c] \in {"finish", "observe", "record"}
      BY <2>2 DEF Act, Succeeds, FailsAt, Observe, Goto
    <3>2. QED
      BY <3>1 DEF Unfailed
  <2>3. CASE Acquire(c)
    BY <2>3 DEF Acquire, Goto, BaseInv, Unfailed
  <2>4. CASE ~(Record(c) \/ Finish(c) \/ Act(c) \/ Observe(c) \/ Acquire(c))
    <3>1. failed' = failed /\ pc[c] \notin {"observe", "record", "finish"}
      BY <2>4 DEF Move, Step, StartTask, StartCall, FetchLock, CloseRuntime, DropLock,
                  ClearBaseline, BeginAction
    <3>2. QED
      BY <3>1 DEF BaseInv, Unfailed
  <2>5. QED
    BY <2>1, <2>2, <2>3, <2>4
<1>3. QED
  BY <1>1, <1>2

\* The steps that look at no page and change no baseline.
LEMMA QuietMoves ==
    ASSUME TypeInv, RetryInv, BaseInv, NEW c \in Callers, Move(c),
           dropped \subseteq dropped', NEW s \in Sessions,
           ~(ClearBaseline(c) \/ Act(c) \/ Observe(c) \/ Record(c))
    PROVE  BaselineFits(s)' /\ \A d \in Callers : ViewFits(d, s)'
<1>1. page' = page /\ baseline' = baseline /\ changed' = changed
  BY DEF Move, Step, StartTask, StartCall, FetchLock, Acquire, Finish, CloseRuntime,
         DropLock, BeginAction, ghostVars
<1>2. pc[c] # "record"
  BY DEF Move, Step, StartTask, StartCall, FetchLock, Acquire, Finish, CloseRuntime,
         DropLock, BeginAction
<1>3. pc'[c] # "record"
  <2>1. c \in Tasks => (StartTask(c) => pc'[c] \in {"done", "begin"})
    BY StartTaskType DEF TypeInv, TypeOK
  <2>2. c \in Tasks => (BeginAction(c) => pc'[c] \in {"begin", "fetch", "done"})
    BY BeginContinues, ContinuesType DEF TypeInv
  <2>3. Finish(c) => pc'[c] # "record"
    BY EndMoves
  <2>4. c \in Directs => (StartCall(c) => pc'[c] \in {"idle", "fetch"})
    BY DEF StartCall, Goto, TypeInv, TypeOK
  <2>5. FetchLock(c) \/ Acquire(c) \/ CloseRuntime(c) \/ DropLock(c)
            => pc'[c] # "record"
    BY DEF FetchLock, Acquire, CloseRuntime, DropLock, Goto, TypeInv, TypeOK
  <2>6. QED
    BY <2>1, <2>2, <2>3, <2>4, <2>5 DEF Move, Step
<1>4. Ends(s) => Ends(s)'
  BY EndsStay
<1>5. page'[s] = page[s] /\ baseline'[s] = baseline[s] /\ (s \in changed' <=> s \in changed)
  BY <1>1
<1>6. QED
  BY <1>2, <1>3, <1>4, <1>5, QuietStep

\* The others, seen from a session, when the caller is the only one at work.
LEMMA AloneThere ==
    ASSUME TypeInv, LockInv, NEW c \in Callers, Move(c), pc[c] \in Acting,
           session[c] \notin dropped, NEW d \in Callers \ {c},
           session[d] = session[c] \/ session'[d] = session[c]
    PROVE  pc[d] # "record" /\ pc'[d] # "record"
<1>1. Kept(d)
  BY OthersStay
<1>2. pc[d] \notin Acting
  BY <1>1, Alone DEF Kept
<1>3. QED
  BY <1>1, <1>2 DEF Kept, Acting

LEMMA ClearBase ==
    ASSUME TypeInv, RetryInv, BaseInv, NEW c \in Callers, ClearBaseline(c), Move(c),
           dropped \subseteq dropped', NEW s \in Sessions
    PROVE  BaselineFits(s)' /\ \A d \in Callers : ViewFits(d, s)'
<1>1. /\ pc[c] = "clearing" /\ pc'[c] = "idle" /\ session[c] \in Sessions
      /\ page' = page /\ changed' = changed
      /\ baseline' = [baseline EXCEPT ![session[c]] = None]
  BY DEF ClearBaseline, Goto, ghostVars, TypeInv, TypeOK, ClearSession
<1>2. CASE s # session[c]
  <2>1. /\ page'[s] = page[s] /\ baseline'[s] = baseline[s]
        /\ (s \in changed' <=> s \in changed)
    BY <1>1, <1>2 DEF TypeInv, TypeOK, PerceptionTypeOK
  <2>2. Ends(s) => Ends(s)'
    BY <1>2, EndsStay
  <2>3. QED
    BY <1>1, <2>1, <2>2, QuietStep
<1>3. CASE s = session[c]
  <2>1. baseline'[s] = None
    BY <1>1, <1>3 DEF TypeInv, TypeOK, PerceptionTypeOK
  <2>2. ASSUME NEW d \in Callers PROVE ViewFits(d, s)'
    <3>1. CASE d = c
      BY <1>1, <3>1 DEF ViewFits
    <3>2. CASE d # c
      <4>1. Kept(d) /\ ViewFits(d, s)
        BY <3>2, OthersStay DEF BaseInv
      <4>2. QED
        BY <1>1, <2>1, <4>1 DEF Kept, ViewFits
    <3>3. QED
      BY <3>1, <3>2
  <2>3. QED
    BY <2>1, <2>2 DEF BaselineFits
<1>4. QED
  BY <1>2, <1>3

\* What holds of a session before the action of its only caller.
LEMMA BeforeObservation ==
    ASSUME TypeInv, LockInv, BaseInv, NEW c \in Callers, Move(c),
           pc[c] \in {"act", "observe"}, session[c] \notin dropped
    PROVE  LET s == session[c] IN
           s \notin changed /\ ~Ends(s) => baseline[s] \in {None, Blank, page[s]}
<1>1. session[c] \in Sessions /\ pc[c] \in Acting
  BY DEF TypeInv, Acting
<1>2. \A d \in Callers : session[d] = session[c] => pc[d] # "record"
  BY <1>1, AloneThere
<1>3. BaselineFits(session[c])
  BY <1>1 DEF BaseInv
<1>4. QED
  BY <1>2, <1>3 DEF BaselineFits

LEMMA ActBase ==
    ASSUME TypeInv, LockInv, RetryInv, BaseInv, NEW c \in Callers, Act(c), Move(c),
           dropped \subseteq dropped', NEW s \in Sessions
    PROVE  BaselineFits(s)' /\ \A d \in Callers : ViewFits(d, s)'
<1> DEFINE own == session[c]
<1>1. /\ pc[c] = "act" /\ own \in Sessions /\ session' = session
      /\ baseline' = baseline /\ request' = request /\ dropped' = dropped
      /\ ~ClearBaseline(c)
  BY DEF Act, TypeInv, ClearBaseline
<1>2. PICK p \in Effects(request[c], page[own]) :
        /\ page' = [page EXCEPT ![own] = p]
        /\ Succeeds(c, p) \/ FailsAt(c, p)
  BY DEF Act
<1>3. pc'[c] \in {"finish", "observe"}
  BY <1>2 DEF Succeeds, FailsAt, Goto, TypeInv, TypeOK
<1>4. Ends(s) => Ends(s)'
  BY <1>1, EndsStay
<1> HIDE DEF own
<1>5. CASE s # own
  <2>1. page'[s] = page[s] /\ baseline'[s] = baseline[s]
    BY <1>1, <1>2, <1>5 DEF TypeInv, TypeOK
  <2>2. s \in changed' <=> s \in changed
    BY <1>2, <1>5 DEF Succeeds, FailsAt, own
  <2>3. QED
    BY <1>1, <1>3, <1>4, <2>1, <2>2, QuietStep
<1>6. CASE s = own /\ s \in dropped'
  BY <1>6 DEF BaselineFits, ViewFits
<1>7. CASE s = own /\ s \notin dropped'
  <2>1. \A d \in Callers : ViewFits(d, s)'
    BY <1>1, <1>3, <1>7, AloneThere DEF ViewFits, own, Acting
  <2>2. SUFFICES ASSUME s \notin changed', ~(Ends(s)')
                 PROVE  baseline'[s] \in {None, Blank, page'[s]}
    BY <2>1 DEF BaselineFits
  <2>3. CASE Succeeds(c, p) /\ request[c].action = "close"
    <3>1. pc'[c] = "finish" /\ failed' = failed
      BY <2>3 DEF Succeeds, Goto, TypeInv, TypeOK
    <3>2. ~failed[c]
      BY <1>1 DEF BaseInv, Unfailed
    <3>3. Ends(s)'
      BY <1>1, <1>7, <2>3, <3>1, <3>2 DEF Ends, Ending, own
    <3>4. QED
      BY <2>2, <3>3
  <2>4. CASE ~(Succeeds(c, p) /\ request[c].action = "close")
    <3>1. p = page[own] /\ s \notin changed
      BY <1>2, <1>7, <2>2, <2>4 DEF Succeeds, FailsAt, own
    <3>2. page'[s] = page[s]
      BY <1>2, <1>7, <3>1 DEF TypeInv, TypeOK
    <3>3. s \notin dropped
      BY <1>7
    <3>4. baseline[s] \in {None, Blank, page[s]}
      BY <1>1, <1>4, <1>7, <2>2, <3>1, <3>3, BeforeObservation DEF own
    <3>5. QED
      BY <1>1, <3>2, <3>4
  <2>5. QED
    BY <2>3, <2>4
<1>8. QED
  BY <1>5, <1>6, <1>7

LEMMA ObserveBase ==
    ASSUME TypeInv, LockInv, RetryInv, BaseInv, NEW c \in Callers, Observe(c), Move(c),
           dropped \subseteq dropped', NEW s \in Sessions
    PROVE  BaselineFits(s)' /\ \A d \in Callers : ViewFits(d, s)'
<1> DEFINE own == session[c]
<1>1. /\ pc[c] = "observe" /\ own \in Sessions /\ session' = session
      /\ baseline' = baseline /\ request' = request /\ dropped' = dropped
      /\ page' = page /\ ~ClearBaseline(c)
  BY DEF Observe, TypeInv, ClearBaseline
<1>2. Ends(s) => Ends(s)'
  BY <1>1, EndsStay
<1>3. CASE s # own
  <2>1. s \in changed' <=> s \in changed
    BY <1>3 DEF Observe
  <2>2. BaselineFits(s)' /\ \A d \in Callers : ViewFits(d, s)'
    BY <1>1, <1>2, <1>3, <2>1, QuietStep
  <2>3. QED
    BY <2>2
<1>4. CASE s = own /\ s \in dropped'
  BY <1>4 DEF BaselineFits, ViewFits
<1>5. CASE s = own /\ s \notin dropped'
  <2>1. s \notin dropped /\ pc[c] \in Acting
    BY <1>1, <1>5 DEF Acting
  <2>2. \A d \in Callers \ {c} : ViewFits(d, s)'
    BY <1>5, <2>1, AloneThere DEF ViewFits
  <2>3. s \notin changed /\ ~Ends(s) => baseline[s] \in {None, Blank, page[s]}
    BY <1>1, <1>5, <2>1, BeforeObservation
  <2>4. CASE pc'[c] = "record"
    <3>1. PICK class \in Seen :
            /\ view' = [view EXCEPT ![c] =
                          IF request[c].action = "screenshot" THEN NoView
                          ELSE [page |-> page[own], class |-> class]]
            /\ effect' = IF own \in changed THEN effect \cup {c} ELSE effect \ {c}
            /\ changed' = IF request[c].action = "screenshot" THEN changed
                          ELSE changed \ {own}
      BY <2>4 DEF Observe, Goto, TypeInv, TypeOK
    <3>2. view'[c].page = IF request[c].action = "screenshot" THEN Blank ELSE page[own]
      BY <3>1 DEF TypeInv, TypeOK, NoView
    <3>3. c \in effect' <=> s \in changed
      BY <1>5, <3>1
    <3>4. ViewFits(c, s)'
      BY <1>1, <1>2, <1>5, <2>3, <3>2, <3>3 DEF ViewFits
    <3>5. BaselineFits(s)'
      BY <1>1, <1>5, <2>4 DEF BaselineFits
    <3>6. QED
      BY <2>2, <3>4, <3>5
  <2>5. CASE pc'[c] # "record"
    <3>1. changed' = changed
      BY <2>5 DEF Observe, Goto, TypeInv, TypeOK
    <3>2. ViewFits(c, s)'
      BY <2>5 DEF ViewFits
    <3>3. BaselineFits(s)'
      BY <1>1, <1>2, <2>3, <3>1 DEF BaselineFits
    <3>4. QED
      BY <2>2, <3>2, <3>3
  <2>6. QED
    BY <2>4, <2>5
<1>6. QED
  BY <1>3, <1>4, <1>5

LEMMA RecordBase ==
    ASSUME TypeInv, LockInv, RetryInv, BaseInv, NEW c \in Callers, Record(c), Move(c),
           dropped \subseteq dropped', NEW s \in Sessions
    PROVE  BaselineFits(s)' /\ \A d \in Callers : ViewFits(d, s)'
<1>1. /\ pc[c] = "record" /\ session[c] \in Sessions
      /\ baseline' = [baseline EXCEPT ![session[c]] = view[c].page]
      /\ dropped' = dropped /\ page' = page /\ changed' = changed
      /\ ~ClearBaseline(c)
  BY DEF Record, TypeInv, ClearBaseline, SetBaseline
<1>2. pc'[c] # "record"
  BY EndMoves
<1>3. CASE s # session[c]
  <2>1. page'[s] = page[s] /\ baseline'[s] = baseline[s] /\ (s \in changed' <=> s \in changed)
    BY <1>1, <1>3 DEF TypeInv, TypeOK, PerceptionTypeOK
  <2>2. Ends(s) => Ends(s)'
    BY <1>1, EndsStay
  <2>3. QED
    BY <1>1, <1>2, <1>3, <2>1, <2>2, QuietStep
<1>4. CASE s = session[c] /\ s \in dropped'
  BY <1>4 DEF BaselineFits, ViewFits
<1>5. CASE s = session[c] /\ s \notin dropped'
  <2>1. s \notin dropped /\ pc[c] \in Acting
    BY <1>1, <1>5 DEF Acting
  <2>2. \A d \in Callers : ViewFits(d, s)'
    BY <1>2, <1>5, <2>1, AloneThere DEF ViewFits
  <2>3. ViewFits(c, s)
    BY DEF BaseInv
  <2>4. baseline'[s] = view[c].page
    BY <1>1, <1>5 DEF TypeInv, TypeOK, PerceptionTypeOK
  <2>5. BaselineFits(s)'
    BY <1>1, <1>5, <2>1, <2>3, <2>4 DEF BaselineFits, ViewFits
  <2>6. QED
    BY <2>2, <2>5
<1>6. QED
  BY <1>3, <1>4, <1>5

LEMMA BaseInvariant == Spec => []BaseInv
<1>1. TypeInv /\ LockInv /\ RetryInv /\ BaseInv /\ [Next]_vars => BaseInv'
  <2> SUFFICES ASSUME TypeInv, LockInv, RetryInv, BaseInv, [Next]_vars
               PROVE  BaseInv'
    OBVIOUS
  <2>1. ASSUME NEW c \in Callers, Move(c) PROVE BaseInv'
    <3>1. \A s \in Sessions : BaselineFits(s)' /\ \A d \in Callers : ViewFits(d, s)'
      BY <2>1, DroppedStays, QuietMoves, ClearBase, ActBase, ObserveBase, RecordBase
    <3>2. \A d \in Callers : Unfailed(d)'
      BY <2>1, MoveUnfailed
    <3>3. QED
      BY <3>1, <3>2 DEF BaseInv
  <2>2. ASSUME NEW r \in Sessions, PageMoves(r) PROVE BaseInv'
    <3>1. /\ r \in changed' /\ changed \subseteq changed' /\ changed' \subseteq changed \cup {r}
          /\ \A s \in Sessions \ {r} : page'[s] = page[s]
          /\ UNCHANGED <<baseline, controlVars, seenVars, effect, dropped>>
      BY <2>2 DEF PageMoves, TypeInv, TypeOK
    <3>2. QED
      BY <3>1 DEF BaseInv, Unfailed, BaselineFits, ViewFits, Ends, Ending,
                  controlVars, seenVars
  <2>3. ASSUME NEW r \in Sessions, Prune(r) PROVE BaseInv'
    <3>1. /\ baseline'[r] = None
          /\ \A s \in Sessions \ {r} : baseline'[s] = baseline[s]
          /\ UNCHANGED <<page, controlVars, seenVars, changed, effect, dropped>>
      BY <2>3 DEF Prune, ClearSession, ghostVars, TypeInv, TypeOK, PerceptionTypeOK
    <3>2. QED
      BY <3>1 DEF BaseInv, Unfailed, BaselineFits, ViewFits, Ends, Ending,
                  controlVars, seenVars
  <2>4. CASE UNCHANGED vars
    BY <2>4 DEF vars, BaseInv, Unfailed, BaselineFits, ViewFits, Ends, Ending,
                controlVars, seenVars, ghostVars
  <2>5. QED
    BY <2>1, <2>2, <2>3, <2>4 DEF Next, Move, Callers
<1>2. QED
  BY <1>1, InitBase, LockInvariant, RetryInvariant, PTL DEF Spec

\* A click, press, scroll or drag counts as done only if the page has changed
\* since it was last observed, or a screenshot blotted the baseline out.
THEOREM SuccessIsChange == Spec => NoChangeIsNotSuccess
<1>1. TypeInv /\ LockInv /\ BaseInv /\ [Next]_vars =>
        [\A c \in Callers :
            (/\ pc[c] = "record" /\ pc'[c] # "record"
             /\ request[c].action \in Comparing
             /\ verifyAction(request[c], view[c], baseline[session[c]], transition[c])
                    = "verified"
             /\ session[c] \notin dropped
             /\ \A d \in Callers : ~(pc[d] \in Closing /\ session[d] = session[c]))
                => c \in effect \/ baseline[session[c]] = Blank]_vars
  <2> SUFFICES ASSUME TypeInv, LockInv, BaseInv, NEW c \in Callers,
                      pc[c] = "record", request[c].action \in Comparing,
                      verifyAction(request[c], view[c], baseline[session[c]],
                                   transition[c]) = "verified",
                      session[c] \notin dropped,
                      \A d \in Callers : ~(pc[d] \in Closing /\ session[d] = session[c])
               PROVE  c \in effect \/ baseline[session[c]] = Blank
    OBVIOUS
  <2> DEFINE base == baseline[session[c]]
  <2>1. session[c] \in Sessions /\ pc[c] \in Acting
    BY DEF TypeInv, Acting
  <2>2. base \notin {None, view[c].page}
    <3>1. /\ view[c].class \notin {"challenge", "error"}
          => verifyAction(request[c], view[c], base, transition[c])
                = IF base \in {None, view[c].page} THEN "uncertain" ELSE "verified"
      BY DEF verifyAction, Comparing
    <3>2. /\ view[c].class = "challenge" =>
                verifyAction(request[c], view[c], base, transition[c]) = "blocked"
          /\ view[c].class = "error" =>
                verifyAction(request[c], view[c], base, transition[c]) = "failed"
      BY DEF verifyAction
    <3>3. QED
      BY <3>1, <3>2
  <2>3. ~Ends(session[c])
    <3> SUFFICES ASSUME NEW d \in Callers, session[d] = session[c], Ending(d)
                 PROVE  FALSE
      BY DEF Ends
    <3>1. pc[d] = "finish"
      BY DEF Ending
    <3>2. QED
      BY <2>1, <3>1, Alone DEF Acting
  <2>4. request[c].action # "screenshot"
    BY DEF Comparing
  <2>5. ViewFits(c, session[c])
    BY <2>1 DEF BaseInv
  <2>6. c \in effect \/ base \in {None, Blank, view[c].page}
    BY <2>3, <2>4, <2>5 DEF ViewFits
  <2>7. QED
    BY <2>2, <2>6
<1>2. QED
  BY <1>1, LockInvariant, BaseInvariant, PTL DEF Spec, NoChangeIsNotSuccess

-----------------------------------------------------------------------------
(* Waiting *)

\* The only steps that wait for others: the mutex of the session and that of
\* the bridge.
Unblocked(c) ==
    /\ pc[c] = "wait" => ~Held(session[c], lock[c])
    /\ pc[c] = "closing" => BridgeFree

\* While a caller is under way, one of them waits for nobody: no mutex is kept
\* by a caller that has returned, and no two callers wait for each other.
THEOREM NobodyBlocksAll ==
    Spec => [](LET underWay == {c \in Callers : pc[c] \notin {"idle", "done"}}
               IN  underWay # {} => \E c \in underWay : Unblocked(c))
<1>1. TypeInv /\ LockInv =>
        LET underWay == {c \in Callers : pc[c] \notin {"idle", "done"}}
        IN  underWay # {} => \E c \in underWay : Unblocked(c)
  <2> SUFFICES ASSUME LockInv, NEW c \in Callers, pc[c] \notin {"idle", "done"}
               PROVE  \E d \in Callers : pc[d] \notin {"idle", "done"} /\ Unblocked(d)
    OBVIOUS
  <2>1. CASE pc[c] = "wait" /\ Held(session[c], lock[c])
    <3>1. PICK d \in Callers : lock[d] = lock[c] /\ pc[d] # "wait"
      BY <2>1 DEF Held
    <3>2. lock[c] # 0
      BY <2>1 DEF LockInv, HasLock
    <3>3. pc[d] \in Acting
      BY <3>1, <3>2 DEF LockInv, HasLock
    <3>4. QED
      BY <3>3 DEF Acting, Unblocked
  <2>2. CASE pc[c] = "closing" /\ ~BridgeFree
    BY <2>2 DEF BridgeFree, Unblocked
  <2>3. CASE Unblocked(c)
    BY <2>3
  <2>4. QED
    BY <2>1, <2>2, <2>3 DEF Unblocked
<1>2. QED
  BY <1>1, LockInvariant, PTL

-----------------------------------------------------------------------------
(* Coming to an end *)

Stage(step) ==
    CASE step = "fetch" -> 9 [] step = "wait" -> 8 [] step = "act" -> 7
      [] step = "observe" -> 6 [] step = "record" -> 5 [] step = "finish" -> 4
      [] step = "closing" -> 3 [] step = "unlocking" -> 2 [] step = "clearing" -> 1
      [] OTHER -> 0

\* Ten steps are enough for an action a task has the budget for.
BudgetSteps(c) == IF c \in Tasks THEN 10 * (MaxActions - task[c].used) ELSE 0

\* A bound on the steps a caller has left in its call. Without a budget an
\* action is not begun, but where typing fails the task tries something else.
StepsLeft(c) ==
    IF pc[c] \in {"idle", "done"} THEN 0
    ELSE IF c \in Tasks /\ pc[c] = "begin"
         THEN BudgetSteps(c) + IF task[c].node = "search_type" THEN 2 ELSE 1
         ELSE BudgetSteps(c) + Stage(pc[c])

LEMMA BudgetStepsType ==
    ASSUME TypeInv, NEW c \in Callers
    PROVE  BudgetSteps(c) \in 0 .. 10 * MaxActions
<1>1. CASE c \in Tasks
  <2>1. task[c].used \in 0 .. MaxActions /\ MaxActions \in Nat
    BY <1>1, BrowserAssumption DEF TypeInv, IsTask
  <2>2. QED
    BY <1>1, <2>1 DEF BudgetSteps
<1>2. CASE c \notin Tasks
  BY <1>2, BrowserAssumption DEF BudgetSteps
<1>3. QED
  BY <1>1, <1>2

LEMMA StageType == \A step : Stage(step) \in 0 .. 9
BY DEF Stage

LEMMA StepsLeftType ==
    ASSUME TypeInv, NEW c \in Callers
    PROVE  StepsLeft(c) \in 0 .. 10 * MaxActions + 9
<1>1. BudgetSteps(c) \in 0 .. 10 * MaxActions /\ Stage(pc[c]) \in 0 .. 9
      /\ MaxActions \in Nat
  BY BudgetStepsType, StageType, BrowserAssumption
<1>2. QED
  BY <1>1 DEF StepsLeft

\* A step within an action is followed by a later stage of it.
LEMMA StagesAreInOrder ==
    ASSUME TypeInv, NEW c \in Callers, task' = task,
           pc[c] \notin {"idle", "done", "begin"},
           pc'[c] = "idle" \/ pc'[c] \notin {"idle", "done", "begin"},
           Stage(pc'[c]) < Stage(pc[c])
    PROVE  StepsLeft(c)' < StepsLeft(c)
<1>1. BudgetSteps(c) \in Nat /\ Stage(pc[c]) \in Nat /\ Stage(pc'[c]) \in Nat
  BY BudgetStepsType, StageType, BrowserAssumption
<1>2. BudgetSteps(c)' = BudgetSteps(c)
  BY DEF BudgetSteps
<1>3. StepsLeft(c) = BudgetSteps(c) + Stage(pc[c])
  BY DEF StepsLeft
<1>4. StepsLeft(c)' \in {0, BudgetSteps(c) + Stage(pc'[c])}
  BY <1>2 DEF StepsLeft
<1>5. QED
  BY <1>1, <1>3, <1>4

\* How a task goes on after an action: it is done, takes the next one or pays
\* for another request.
GoesOn(t, used) ==
    \/ pc'[t] = "done"
    \/ pc'[t] = "begin" /\ task'[t].used = used
    \/ pc'[t] = "fetch" /\ BudgetLeft(t) /\ task'[t].used = task[t].used + 1

LEMMA ProceedGoesOn ==
    ASSUME TypeInv, NEW t \in Tasks, NEW node, NEW url, NEW used,
           Proceed(t, node, url, used)
    PROVE  /\ GoesOn(t, used)
           /\ node \in Endings => pc'[t] = "done"
           /\ pc'[t] = "begin" => task'[t].node = node
<1>1. t \in DOMAIN pc /\ t \in DOMAIN task
  <2>1. t \in Callers /\ pc \in [Callers -> Steps]
    BY DEF Callers, TypeInv, TypeOK
  <2>2. DOMAIN task = Tasks
    <3>1. task = [u \in Tasks |-> task[u]]
      BY DEF TypeInv
    <3>2. DOMAIN [u \in Tasks |-> task[u]] = Tasks
      OBVIOUS
    <3>3. QED
      BY <3>1, <3>2
  <2>3. QED
    BY <2>1, <2>2
<1>2. CASE node \in Endings
  BY <1>1, <1>2 DEF Proceed, Goto, GoesOn
<1>3. CASE node \notin Endings
  <2>1. pc'[t] = "begin"
    BY <1>1, <1>3 DEF Proceed, Goto
  <2> DEFINE w == Rest(task[t].wish)
             k == [NoTask EXCEPT !.node = node, !.wish = w, !.url = url, !.used = used]
  <2>2. task' = [task EXCEPT ![t] = k]
    BY <1>3 DEF Proceed
  <2>3. k.used = used /\ k.node = node
    BY DEF NoTask
  <2>4. task'[t] = k
    <3> HIDE DEF k
    <3> QED
      BY <1>1, <2>2
  <2> HIDE DEF k
  <2>5. task'[t].used = used /\ task'[t].node = node
    BY <2>3, <2>4
  <2>6. QED
    BY <1>3, <2>1, <2>5 DEF GoesOn
<1>4. QED
  BY <1>2, <1>3

LEMMA PerformGoesOn ==
    ASSUME TypeInv, NEW t \in Tasks, NEW r, NEW phase, BudgetLeft(t),
           Perform(t, r, phase)
    PROVE  GoesOn(t, task[t].used) /\ pc'[t] = "fetch"
<1>1. t \in Callers /\ pc \in [Callers -> Steps] /\ IsTask(task[t])
  BY DEF Callers, TypeInv, TypeOK
<1>2. pc'[t] = "fetch"
  BY <1>1 DEF Perform, Goto
<1> DEFINE last == IF phase = "first" THEN r ELSE task[t].request
           k == [task[t] EXCEPT !.phase = phase, !.used = task[t].used + 1,
                                !.request = last]
<1>3. task' = [task EXCEPT ![t] = k]
  BY DEF Perform
<1>4. k.used = task[t].used + 1
  <2>1. task[t] = [node |-> task[t].node, wish |-> task[t].wish, url |-> task[t].url,
                   request |-> task[t].request, phase |-> task[t].phase,
                   used |-> task[t].used]
    BY <1>1 DEF IsTask
  <2> HIDE DEF last
  <2>2. QED
    BY <2>1
<1>5. task'[t] = k
  <2>1. task = [u \in Tasks |-> task[u]]
    BY DEF TypeInv
  <2> HIDE DEF k
  <2>2. QED
    BY <1>3, <2>1
<1> HIDE DEF k
<1>6. QED
  BY <1>2, <1>4, <1>5 DEF GoesOn

LEMMA FailGoesOn ==
    ASSUME TypeInv, NEW t \in Tasks, Fail(t)
    PROVE  /\ GoesOn(t, task[t].used)
           /\ pc'[t] = "done" \/ /\ pc'[t] = "begin" /\ task[t].node = "search_type"
                                 /\ task'[t].node # "search_type"
<1> DEFINE n == AfterFailure(task[t].node)
<1>1. Proceed(t, n, task[t].url, task[t].used)
  BY DEF Fail
<1>2. \/ n \in Endings
      \/ task[t].node = "search_type" /\ n = "search_nowhere" /\ n \notin Endings
  BY DEF AfterFailure, Endings
<1> HIDE DEF n
<1>3. /\ GoesOn(t, task[t].used)
      /\ n \in Endings => pc'[t] = "done"
      /\ pc'[t] = "begin" => task'[t].node = n
  BY <1>1, ProceedGoesOn
<1>4. n \notin Endings => pc'[t] = "begin"
  <2>1. t \in Callers /\ pc \in [Callers -> Steps]
    BY DEF Callers, TypeInv, TypeOK
  <2>2. QED
    BY <1>1, <2>1 DEF Proceed, Goto
<1>5. QED
  BY <1>2, <1>3, <1>4

LEMMA SucceedGoesOn ==
    ASSUME TypeInv, NEW t \in Tasks, NEW v, Succeed(t, v)
    PROVE  GoesOn(t, task[t].used)
<1>1. PICK node : Proceed(t, node, UrlAt(v), task[t].used)
  BY DEF Succeed
<1>2. QED
  BY <1>1, ProceedGoesOn

LEMMA JudgeGoesOn ==
    ASSUME TypeInv, NEW t \in Tasks, NEW v, NEW verdict, Judge(t, v, verdict)
    PROVE  GoesOn(t, task[t].used)
<1> DEFINE r == task[t].request
           verified == Verified(r, v, verdict, transition[t])
           observed == Postcondition(r, v, FALSE, FALSE)
<1>1. task[t].phase \in Phases
  BY DEF TypeInv, IsTask
<1>2. CASE task[t].phase = "first"
  <2>1. IF verified THEN Succeed(t, v)
        ELSE IF verdict \in {"blocked", "failed"} \/ ~BudgetLeft(t) THEN Fail(t)
        ELSE Perform(t, Extract, "reobserve")
    BY <1>2 DEF Judge
  <2> HIDE DEF verified, observed, r
  <2>2. QED
    BY <2>1, SucceedGoesOn, FailGoesOn, PerformGoesOn
<1>3. CASE task[t].phase = "reobserve"
  <2>1. IF observed THEN Succeed(t, v)
        ELSE IF Retryable(r) /\ BudgetLeft(t) THEN Perform(t, r, "retry")
        ELSE Fail(t)
    BY <1>3 DEF Judge
  <2> HIDE DEF verified, observed, r
  <2>2. QED
    BY <2>1, SucceedGoesOn, FailGoesOn, PerformGoesOn
<1>4. CASE task[t].phase = "retry"
  <2>1. IF verified THEN Succeed(t, v) ELSE Fail(t)
    BY <1>4 DEF Judge
  <2> HIDE DEF verified, observed, r
  <2>2. QED
    BY <2>1, SucceedGoesOn, FailGoesOn
<1>5. QED
  BY <1>1, <1>2, <1>3, <1>4 DEF Phases

\* When a task goes on after an action, less is left of its budget or of this
\* action.
LEMMA GoingOnIsProgress ==
    ASSUME TypeInv, NEW t \in Tasks, pc[t] \in {"record", "finish"},
           GoesOn(t, task[t].used)
    PROVE  StepsLeft(t)' < StepsLeft(t)
<1>1. task[t].used \in 0 .. MaxActions /\ MaxActions \in Nat
  BY BrowserAssumption DEF TypeInv, IsTask
<1>2. /\ BudgetSteps(t) = 10 * (MaxActions - task[t].used)
      /\ BudgetSteps(t)' = 10 * (MaxActions - task'[t].used)
  BY DEF BudgetSteps
<1>3. StepsLeft(t) \in {BudgetSteps(t) + 4, BudgetSteps(t) + 5}
  BY DEF StepsLeft, Stage
<1>4. CASE pc'[t] = "done"
  <2>1. StepsLeft(t)' = 0
    BY <1>4 DEF StepsLeft
  <2>2. QED
    BY <1>1, <1>2, <1>3, <2>1
<1>5. CASE pc'[t] = "begin" /\ task'[t].used = task[t].used
  <2>1. StepsLeft(t)' \in {BudgetSteps(t)' + 1, BudgetSteps(t)' + 2}
    BY <1>5 DEF StepsLeft
  <2>2. QED
    BY <1>1, <1>2, <1>3, <1>5, <2>1
<1>6. CASE pc'[t] = "fetch" /\ task'[t].used = task[t].used + 1
  <2>1. StepsLeft(t)' = BudgetSteps(t)' + 9
    BY <1>6 DEF StepsLeft, Stage
  <2>2. QED
    BY <1>1, <1>2, <1>3, <1>6, <2>1
<1>7. QED
  BY <1>4, <1>5, <1>6 DEF GoesOn

LEMMA BeginIsProgress ==
    ASSUME TypeInv, NEW t \in Tasks, BeginAction(t)
    PROVE  StepsLeft(t)' < StepsLeft(t)
<1>1. /\ task[t].used \in 0 .. MaxActions /\ MaxActions \in Nat
      /\ pc[t] = "begin"
  BY BrowserAssumption DEF TypeInv, IsTask, BeginAction
<1>2. /\ BudgetSteps(t) = 10 * (MaxActions - task[t].used)
      /\ BudgetSteps(t)' = 10 * (MaxActions - task'[t].used)
  BY DEF BudgetSteps
<1>3. StepsLeft(t) = BudgetSteps(t) + IF task[t].node = "search_type" THEN 2 ELSE 1
  BY <1>1 DEF StepsLeft
<1>4. pc'[t] = "done" => StepsLeft(t)' = 0
  BY DEF StepsLeft
<1>5. pc'[t] = "begin" =>
        StepsLeft(t)' = BudgetSteps(t)' + IF task'[t].node = "search_type" THEN 2 ELSE 1
  BY DEF StepsLeft
<1>6. pc'[t] = "fetch" => StepsLeft(t)' = BudgetSteps(t)' + 9
  BY DEF StepsLeft, Stage
<1>7. CASE ~BudgetLeft(t)
  <2>1. Fail(t)
    BY <1>7 DEF BeginAction
  <2>2. /\ GoesOn(t, task[t].used)
        /\ pc'[t] = "done" \/ /\ pc'[t] = "begin" /\ task[t].node = "search_type"
                              /\ task'[t].node # "search_type"
    BY <2>1, FailGoesOn
  <2>3. pc'[t] = "begin" => task'[t].used = task[t].used
    BY <2>2 DEF GoesOn
  <2>4. QED
    BY <1>1, <1>2, <1>3, <1>4, <1>5, <2>2, <2>3
<1>8. CASE BudgetLeft(t)
  <2>1. PICK r \in RequestsAt(task[t].node, task[t].url) :
            IF Allowed(r) THEN Perform(t, r, "first")
            ELSE \E node \in After([task[t] EXCEPT !.request = r], AskedView) :
                    Proceed(t, node, None, task[t].used + 1)
    BY <1>8 DEF BeginAction
  <2>2. task[t].used < MaxActions
    BY <1>8 DEF BudgetLeft
  <2>3. CASE Allowed(r)
    <3>1. GoesOn(t, task[t].used) /\ pc'[t] = "fetch"
      BY <1>8, <2>1, <2>3, PerformGoesOn
    <3>2. task'[t].used = task[t].used + 1
      BY <3>1 DEF GoesOn
    <3>3. QED
      BY <1>1, <1>2, <1>3, <1>6, <2>2, <3>1, <3>2
  <2>4. CASE ~Allowed(r)
    <3>1. PICK node : Proceed(t, node, None, task[t].used + 1)
      BY <2>1, <2>4
    <3>2. GoesOn(t, task[t].used + 1)
      BY <3>1, ProceedGoesOn
    <3>3. \/ pc'[t] = "done"
          \/ pc'[t] \in {"begin", "fetch"} /\ task'[t].used = task[t].used + 1
      BY <3>2 DEF GoesOn
    <3>4. QED
      BY <1>1, <1>2, <1>3, <1>4, <1>5, <1>6, <2>2, <3>3
  <2>5. QED
    BY <2>3, <2>4
<1>9. QED
  BY <1>7, <1>8

\* Every step of a caller brings it nearer to the end of its call.
LEMMA StepIsProgress ==
    ASSUME TypeInv, NEW c \in Callers, Step(c)
    PROVE  StepsLeft(c)' < StepsLeft(c)
<1>1. pc \in [Callers -> Steps]
  BY DEF TypeInv, TypeOK
<1>2. CASE FetchLock(c) \/ Acquire(c) \/ Act(c) \/ Observe(c)
           \/ CloseRuntime(c) \/ DropLock(c) \/ ClearBaseline(c)
  <2>1. task' = task
    BY <1>2 DEF FetchLock, Acquire, Act, Observe, CloseRuntime, DropLock, ClearBaseline
  <2>2. \/ pc[c] = "fetch" /\ pc'[c] = "wait"
        \/ pc[c] = "wait" /\ pc'[c] \in {"act", "finish"}
        \/ pc[c] = "act" /\ pc'[c] \in {"observe", "finish"}
        \/ pc[c] = "observe" /\ pc'[c] \in {"record", "finish"}
        \/ pc[c] = "closing" /\ pc'[c] = "unlocking"
        \/ pc[c] = "unlocking" /\ pc'[c] = "clearing"
        \/ pc[c] = "clearing" /\ pc'[c] = "idle"
    <3>1. CASE FetchLock(c) \/ Acquire(c)
      BY <1>1, <3>1 DEF FetchLock, Acquire, Goto
    <3>2. CASE Act(c)
      BY <1>1, <3>2 DEF Act, Succeeds, FailsAt, Goto
    <3>3. CASE Observe(c)
      BY <1>1, <3>3 DEF Observe, Goto
    <3>4. CASE CloseRuntime(c) \/ DropLock(c) \/ ClearBaseline(c)
      BY <1>1, <3>4 DEF CloseRuntime, DropLock, ClearBaseline, Goto
    <3>5. QED
      BY <1>2, <3>1, <3>2, <3>3, <3>4
  <2>3. Stage(pc'[c]) < Stage(pc[c])
    BY <2>2 DEF Stage
  <2>4. QED
    BY <2>1, <2>2, <2>3, StagesAreInOrder
<1>3. CASE Record(c) \/ Finish(c)
  <2>1. pc[c] \in {"record", "finish"}
    BY <1>3 DEF Record, Finish
  <2>2. CASE c \in Tasks
    <3>1. c \notin Directs
      BY <2>2, BrowserAssumption
    <3>2. Fail(c) \/ \E v, verdict : Judge(c, v, verdict)
      BY <1>3, <3>1 DEF Record, Finish
    <3>3. GoesOn(c, task[c].used)
      BY <2>2, <3>2, FailGoesOn, JudgeGoesOn
    <3>4. QED
      BY <2>1, <2>2, <3>3, GoingOnIsProgress
  <2>3. CASE c \notin Tasks
    <3>1. PICK step \in {"idle", "closing"} : Return(c, step)
      BY <1>3, <2>3 DEF Record, Finish
    <3>2. pc'[c] = step /\ task' = task
      BY <1>1, <3>1 DEF Return, Goto
    <3>3. Stage(pc'[c]) < Stage(pc[c])
      BY <2>1, <3>2 DEF Stage
    <3>4. QED
      BY <2>1, <3>2, <3>3, StagesAreInOrder
  <2>4. QED
    BY <2>2, <2>3
<1>4. CASE c \in Tasks /\ BeginAction(c)
  BY <1>4, BeginIsProgress
<1>5. QED
  BY <1>2, <1>3, <1>4 DEF Step

\* What does not change of a caller leaves it as many steps.
LEMMA KeptSteps ==
    ASSUME NEW c \in Callers, pc'[c] = pc[c], c \in Tasks => task'[c] = task[c],
           TypeInv
    PROVE  StepsLeft(c)' = StepsLeft(c)
<1>1. CASE c \in Tasks
  BY <1>1 DEF StepsLeft, BudgetSteps
<1>2. CASE c \notin Tasks
  BY <1>2 DEF StepsLeft, BudgetSteps
<1>3. QED
  BY <1>1, <1>2

\* Once a call is under way, each step of its caller leaves it fewer steps, of
\* finitely many, and nobody else gives it more: a call that can always take
\* another step returns, a task after at most MaxActions actions. With
\* NobodyBlocksAll that is why nobody waits for ever.
THEOREM CallsComeToAnEnd ==
    Spec => /\ [](\A c \in Callers : StepsLeft(c) \in 0 .. 10 * MaxActions + 9)
            /\ [][\A c \in Callers :
                    pc[c] # "idle" =>
                        IF Step(c) THEN StepsLeft(c)' < StepsLeft(c)
                                   ELSE StepsLeft(c)' = StepsLeft(c)]_vars
<1>1. TypeInv => \A c \in Callers : StepsLeft(c) \in 0 .. 10 * MaxActions + 9
  BY StepsLeftType
<1>2. TypeInv /\ [Next]_vars =>
        [\A c \in Callers :
            pc[c] # "idle" =>
                IF Step(c) THEN StepsLeft(c)' < StepsLeft(c)
                           ELSE StepsLeft(c)' = StepsLeft(c)]_vars
  <2> SUFFICES ASSUME TypeInv, Next, NEW c \in Callers, pc[c] # "idle"
               PROVE  IF Step(c) THEN StepsLeft(c)' < StepsLeft(c)
                                 ELSE StepsLeft(c)' = StepsLeft(c)
    OBVIOUS
  <2>1. CASE Step(c)
    BY <2>1, StepIsProgress
  <2>2. CASE ~Step(c)
    <3>1. ASSUME NEW d \in Callers, Move(d) PROVE StepsLeft(c)' = StepsLeft(c)
      <4>1. d # c
        BY <2>2, <3>1 DEF Move, StartTask, StartCall
      <4>2. Kept(c)
        BY <3>1, <4>1, OthersStay
      <4>3. QED
        BY <4>2, KeptSteps DEF Kept
    <3>2. ASSUME NEW s \in Sessions, PageMoves(s) \/ Prune(s)
          PROVE  StepsLeft(c)' = StepsLeft(c)
      <4>1. pc' = pc /\ task' = task
        BY <3>2 DEF PageMoves, Prune, controlVars
      <4>2. QED
        BY <4>1, KeptSteps
    <3>3. QED
      BY <2>2, <3>1, <3>2 DEF Next, Move, Callers
  <2>3. QED
    BY <2>1, <2>2
<1>3. QED
  BY <1>1, <1>2, TypeInvariant, PTL DEF Spec

=============================================================================
