---------------------------- MODULE DeviceRuntime ----------------------------
(***************************************************************************)
(* The device runtime of internal/launcher/deployment/device_runtime.go:   *)
(* the launcher's end of the control-plane connection.                     *)
(*                                                                         *)
(* The receive loop starts one goroutine for every ACTION frame            *)
(* (runAction); here a goroutine is a delivery d, used once.  Goroutines   *)
(* outlive the connection that started them and share three maps under one *)
(* mutex: inflight (by action id), sequences (by task) and completed (by   *)
(* idempotency key).  Everything is in memory: a new process starts with   *)
(* empty maps.                                                             *)
(*                                                                         *)
(* The control plane is external.  It may resend any frame, on any         *)
(* connection, at any time; Sequential restricts it to sending step n + 1  *)
(* of a task only after it heard an outcome of step n.                     *)
(***************************************************************************)
EXTENDS Integers, FiniteSets

CONSTANTS Deliveries,      \* the goroutines the receive loop can start
          Envelopes,       \* the ACTION frames the control plane may send
          ActionIDs, Tasks, Keys,
          CompletedLimit,  \* size at which remember drops the table (4096)
          Sequential,      \* does the control plane wait for each outcome?
          MaxConnections,  \* bound on the connections of a behaviour
          MaxRestarts,     \* bound on the restarts of the process
          None             \* no delivery

\* The decisions validDevicePolicy accepts.
Decisions == {"ALLOW", "ASK_USER", "BLOCK"}

\* A frame; valid stands for a complete envelope with a valid policy, and only
\* a near deadline can pass within a behaviour.
Envelope == [id : ActionIDs, task : Tasks, seq : Int, key : Keys,
             valid : BOOLEAN, decision : Decisions, near : BOOLEAN]

ASSUME EnvelopesAssumption == Envelopes \subseteq Envelope
ASSUME NoneAssumption == None \notin Deliveries
ASSUME BoundsAssumption ==
    /\ CompletedLimit \in Nat \ {0}
    /\ Sequential \in BOOLEAN
    /\ MaxConnections \in Nat
    /\ MaxRestarts \in Nat

\* Statuses execute remembers: the outcome of a step ...
Outcomes == {"BLOCKED", "WAITING_APPROVAL", "CANCELLED", "WAITING_USER",
             "FAILED", "SUCCEEDED"}
\* ... and those it only sends; three of them are FAILED with another error.
Refusals == {"invalid", "EXPIRED", "out_of_order", "already_running"}

\* What a goroutine sends back: a status and the delivery that computed it.
Observation == [status : Outcomes \cup Refusals, by : Deliveries]
\* What remember stores: never a refusal.
Outcome == [status : Outcomes, by : Deliveries]
Absent == [status |-> "none", by |-> None]

\* Where a goroutine is:
\*   spawned    before the first lock of runAction
\*   registered in inflight, before the checks of execute
\*   checked    past the checks, before the second lock of execute
\*   admitted   its sequence number is consumed, nothing else is decided
\*   acting     inside executeCapability
\*   finished   its observation is computed, not yet sent
\*   refused    the id was inflight: about to send "action is already running"
\*   replied    sent (or failed to send), still in inflight
\*   dead       was alive when the process ended
Stages == {"unused", "spawned", "registered", "checked", "admitted", "acting",
           "finished", "refused", "replied", "done", "dead"}

VARIABLES stage, frame, writer, cancelled, observation,  \* per goroutine
          inflight, sequences, completed,                \* under d.mu
          connection, online, stopping,                  \* Run and connect
          late,                                          \* deadlines passed
          incarnation, born, admitted, heard             \* history

goroutines == <<stage, frame, writer, cancelled, observation>>
tables == <<inflight, sequences, completed>>
link == <<connection, online, stopping>>
history == <<incarnation, born, admitted, heard>>
vars == <<goroutines, tables, link, late, history>>

-----------------------------------------------------------------------------

\* The values of the variables.  Only outcomes are remembered, and a goroutine
\* that was started has a frame.
TypeOK ==
    /\ stage \in [Deliveries -> Stages]
    /\ frame \in [Deliveries -> Envelopes \cup {None}]
    /\ \A d \in Deliveries : stage[d] # "unused" => frame[d] \in Envelopes
    /\ writer \in [Deliveries -> Nat]
    /\ cancelled \in [Deliveries -> BOOLEAN]
    /\ observation \in [Deliveries -> Observation \cup {Absent}]
    /\ inflight \in [ActionIDs -> Deliveries \cup {None}]
    /\ sequences \in [Tasks -> Nat]
    /\ completed \in [Keys -> Outcome \cup {Absent}]
    /\ connection \in 0 .. MaxConnections
    /\ online \in BOOLEAN
    /\ stopping \in BOOLEAN
    /\ late \subseteq Envelopes
    /\ incarnation \in 0 .. MaxRestarts
    /\ born \in [Deliveries -> Nat]
    /\ admitted \subseteq Deliveries
    /\ heard \subseteq Deliveries

Init ==
    /\ stage = [d \in Deliveries |-> "unused"]
    /\ frame = [d \in Deliveries |-> None]
    /\ writer = [d \in Deliveries |-> 0]
    /\ cancelled = [d \in Deliveries |-> FALSE]
    /\ observation = [d \in Deliveries |-> Absent]
    /\ inflight = [id \in ActionIDs |-> None]
    /\ sequences = [t \in Tasks |-> 0]
    /\ completed = [k \in Keys |-> Absent]
    /\ connection = 0
    /\ online = FALSE
    /\ stopping = FALSE
    /\ late = {}
    /\ incarnation = 0
    /\ born = [d \in Deliveries |-> 0]
    /\ admitted = {}
    /\ heard = {}

-----------------------------------------------------------------------------
(* Helpers *)

\* The goroutines of this process that have not returned.
Alive(d) == stage[d] \notin {"unused", "done", "dead"}

\* The action's context is done: CANCEL reached it or Run is stopping.
CtxDone(d) == cancelled[d] \/ stopping

\* The connection the goroutine writes to is still the open one.
Live(d) == online /\ writer[d] = connection

Remembered == {k \in Keys : completed[k] # Absent}

\* completed after remember(key, o): the whole table goes when it is full.
Remember(key, o) ==
    IF Cardinality(Remembered) >= CompletedLimit
    THEN [k \in Keys |-> IF k = key THEN o ELSE Absent]
    ELSE [completed EXCEPT ![key] = o]

\* External: the control plane has an outcome of the step before e.
PredecessorHeard(e) ==
    \/ e.seq <= 1
    \/ \E d \in heard : /\ frame[d].task = e.task
                        /\ frame[d].seq = e.seq - 1
                        /\ observation[d].status \in Outcomes

-----------------------------------------------------------------------------
(* Run, connect, connectEndpoint *)

\* A dial succeeds and HELLO is sent.
Connect ==
    /\ ~online /\ ~stopping
    /\ connection < MaxConnections
    /\ connection' = connection + 1
    /\ online' = TRUE
    /\ UNCHANGED <<goroutines, tables, stopping, late, history>>

\* Receive fails, or the watcher closes the connection after Stop.
Drop ==
    /\ online
    /\ online' = FALSE
    /\ UNCHANGED <<goroutines, tables, connection, stopping, late, history>>

\* The application cancels Run's context; every action context ends with it.
Stop ==
    /\ ~stopping
    /\ stopping' = TRUE
    /\ UNCHANGED <<goroutines, tables, connection, online, late, history>>

\* The process ends, at any point, and a new one is started.
Restart ==
    /\ incarnation < MaxRestarts
    /\ incarnation' = incarnation + 1
    /\ stage' = [d \in Deliveries |-> IF Alive(d) THEN "dead" ELSE stage[d]]
    /\ inflight' = [id \in ActionIDs |-> None]
    /\ sequences' = [t \in Tasks |-> 0]
    /\ completed' = [k \in Keys |-> Absent]
    /\ online' = FALSE
    /\ stopping' = FALSE
    /\ UNCHANGED <<frame, writer, cancelled, observation, connection, late,
                   born, admitted, heard>>

\* An ACTION frame arrives: go d.runAction(ctx, writer, action).
ReceiveAction(d, e) ==
    /\ online
    /\ stage[d] = "unused"
    /\ Sequential => PredecessorHeard(e)
    /\ stage' = [stage EXCEPT ![d] = "spawned"]
    /\ frame' = [frame EXCEPT ![d] = e]
    /\ writer' = [writer EXCEPT ![d] = connection]
    /\ born' = [born EXCEPT ![d] = incarnation]
    /\ UNCHANGED <<cancelled, observation, tables, link, late, incarnation,
                   admitted, heard>>

\* A CANCEL frame arrives; it is lost when the id is not inflight.
ReceiveCancel(id) ==
    /\ online
    /\ inflight[id] # None
    /\ cancelled' = [cancelled EXCEPT ![inflight[id]] = TRUE]
    /\ UNCHANGED <<stage, frame, writer, observation, tables, link, late,
                   history>>

\* The clock passes the deadline of e.
DeadlinePasses(e) ==
    /\ e.near
    /\ e \notin late
    /\ late' = late \cup {e}
    /\ UNCHANGED <<goroutines, tables, link, history>>

-----------------------------------------------------------------------------
(* runAction, and execute inside it *)

MoveTo(d, next) == stage' = [stage EXCEPT ![d] = next]

\* d's observation is computed and it goes on to send it.
Conclude(d, status) ==
    /\ MoveTo(d, "finished")
    /\ observation' = [observation EXCEPT ![d] = [status |-> status, by |-> d]]

\* Slip: runAction does not look at inflight first.
RegisterAnyway(d) ==
    /\ stage[d] = "spawned"
    /\ MoveTo(d, "registered")
    /\ inflight' = [inflight EXCEPT ![frame[d].id] = d]
    /\ UNCHANGED <<frame, writer, cancelled, observation, sequences,
                   completed, link, late, history>>

\* First lock of runAction: the id is free and d takes it.
Register(d) ==
    /\ stage[d] = "spawned"
    /\ inflight[frame[d].id] = None
    /\ MoveTo(d, "registered")
    /\ inflight' = [inflight EXCEPT ![frame[d].id] = d]
    /\ UNCHANGED <<frame, writer, cancelled, observation, sequences,
                   completed, link, late, history>>

\* First lock of runAction: an action with this id is still inflight.
RefuseRunning(d) ==
    /\ stage[d] = "spawned"
    /\ inflight[frame[d].id] # None
    /\ MoveTo(d, "refused")
    /\ observation' = [observation EXCEPT ![d] =
                           [status |-> "already_running", by |-> d]]
    /\ UNCHANGED <<frame, writer, cancelled, tables, link, late, history>>

\* execute: envelope, policy and deadline are in order.
PassChecks(d) ==
    /\ stage[d] = "registered"
    /\ frame[d].valid
    /\ frame[d] \notin late
    /\ MoveTo(d, "checked")
    /\ UNCHANGED <<frame, writer, cancelled, observation, tables, link, late,
                   history>>

\* Slip: an expired action is remembered under its key.
FailChecksRemembering(d) ==
    /\ stage[d] = "registered"
    /\ \/ ~frame[d].valid /\ Conclude(d, "invalid") /\ completed' = completed
       \/ /\ frame[d].valid /\ frame[d] \in late
          /\ Conclude(d, "EXPIRED")
          /\ completed' = Remember(frame[d].key,
                                  [status |-> "EXPIRED", by |-> d])
    /\ UNCHANGED <<frame, writer, cancelled, inflight, sequences, link, late,
                   history>>

\* execute: one of them is not.
FailChecks(d) ==
    /\ stage[d] = "registered"
    /\ \/ ~frame[d].valid /\ Conclude(d, "invalid")
       \/ frame[d].valid /\ frame[d] \in late /\ Conclude(d, "EXPIRED")
    /\ UNCHANGED <<frame, writer, cancelled, tables, link, late, history>>

\* Slip: a retry is answered with a new observation.
ReplayAfresh(d) ==
    /\ stage[d] = "checked"
    /\ completed[frame[d].key] # Absent
    /\ Conclude(d, "SUCCEEDED")
    /\ UNCHANGED <<frame, writer, cancelled, tables, link, late, history>>

\* Second lock: the key has an outcome, which is returned as it is.
Replay(d) ==
    /\ stage[d] = "checked"
    /\ completed[frame[d].key] # Absent
    /\ MoveTo(d, "finished")
    /\ observation' = [observation EXCEPT ![d] = completed[frame[d].key]]
    /\ UNCHANGED <<frame, writer, cancelled, tables, link, late, history>>

\* Second lock: there is no outcome for its key.
Unanswered(d) == stage[d] = "checked" /\ completed[frame[d].key] = Absent

\* Second lock: the step is not the next one of its task.
RefuseOutOfOrder(d) ==
    /\ Unanswered(d)
    /\ frame[d].seq # sequences[frame[d].task] + 1
    /\ Conclude(d, "out_of_order")
    /\ UNCHANGED <<frame, writer, cancelled, tables, link, late, history>>

\* The step of d starts; its task has reached number seq.
Start(d, seq) ==
    /\ MoveTo(d, "admitted")
    /\ sequences' = [sequences EXCEPT ![frame[d].task] = seq]
    /\ admitted' = admitted \cup {d}
    /\ UNCHANGED <<frame, writer, cancelled, observation, inflight, completed,
                   link, late, incarnation, born, heard>>

\* Slips: the comparison is off by one; a gap is accepted; only an action that
\* may run consumes its number.
AdmitAgain(d) ==
    /\ Unanswered(d)
    /\ frame[d].seq \in {sequences[frame[d].task], sequences[frame[d].task] + 1}
    /\ Start(d, frame[d].seq)
AdmitAhead(d) ==
    /\ Unanswered(d)
    /\ frame[d].seq > sequences[frame[d].task]
    /\ Start(d, frame[d].seq)
AdmitAllowed(d) ==
    /\ Unanswered(d)
    /\ frame[d].seq = sequences[frame[d].task] + 1
    /\ Start(d, IF frame[d].decision = "ALLOW" THEN frame[d].seq
                                               ELSE frame[d].seq - 1)

\* Second lock: the step is the next one, and its number is consumed.
Admit(d) ==
    /\ Unanswered(d)
    /\ frame[d].seq = sequences[frame[d].task] + 1
    /\ Start(d, frame[d].seq)

\* The outcome of d's step is computed and remembered.
Settle(d, status) ==
    /\ Conclude(d, status)
    /\ completed' = Remember(frame[d].key, [status |-> status, by |-> d])
    /\ UNCHANGED <<frame, writer, cancelled, inflight, sequences, link, late,
                   history>>

\* The policy does not let the action run.
Withhold(d) ==
    /\ stage[d] = "admitted"
    /\ \/ frame[d].decision = "BLOCK" /\ Settle(d, "BLOCKED")
       \/ frame[d].decision = "ASK_USER" /\ Settle(d, "WAITING_APPROVAL")

\* executeCapability is called: its effect may happen from here on.
Perform(d) ==
    /\ stage[d] = "admitted"
    /\ frame[d].decision = "ALLOW"
    /\ MoveTo(d, "acting")
    /\ UNCHANGED <<frame, writer, cancelled, observation, tables, link, late,
                   history>>

\* Slip: a cancelled action is answered but not remembered.
FinishForgetting(d) ==
    /\ stage[d] = "acting"
    /\ \/ /\ CtxDone(d) /\ Conclude(d, "CANCELLED")
          /\ UNCHANGED <<frame, writer, cancelled, tables, link, late, history>>
       \/ /\ ~CtxDone(d)
          /\ \E status \in {"WAITING_USER", "FAILED", "SUCCEEDED"} :
                 Settle(d, status)

\* executeCapability returned; a context done by now hides what it returned.
Finish(d) ==
    /\ stage[d] = "acting"
    /\ \/ CtxDone(d) /\ Settle(d, "CANCELLED")
       \/ /\ ~CtxDone(d)
          /\ \E status \in {"WAITING_USER", "FAILED", "SUCCEEDED"} :
                 Settle(d, status)

\* Slip: the goroutine waits for its connection before it sends.
ReplyWhenLive(d) ==
    /\ stage[d] \in {"finished", "refused"}
    /\ Live(d)
    /\ MoveTo(d, IF stage[d] = "finished" THEN "replied" ELSE "done")
    /\ heard' = heard \cup {d}
    /\ UNCHANGED <<frame, writer, cancelled, observation, tables, link, late,
                   incarnation, born, admitted>>

\* writer.Send: heard when the connection lasted, otherwise lost for good.
Reply(d) ==
    /\ \/ stage[d] = "finished" /\ MoveTo(d, "replied")
       \/ stage[d] = "refused" /\ MoveTo(d, "done")
    /\ heard' = IF Live(d) THEN heard \cup {d} ELSE heard
    /\ UNCHANGED <<frame, writer, cancelled, observation, tables, link, late,
                   incarnation, born, admitted>>

\* The deferred delete of runAction.
Cleanup(d) ==
    /\ stage[d] = "replied"
    /\ MoveTo(d, "done")
    /\ inflight' = [inflight EXCEPT ![frame[d].id] = None]
    /\ UNCHANGED <<frame, writer, cancelled, observation, sequences,
                   completed, link, late, history>>

RunAction(d) ==
    \/ Register(d) \/ RefuseRunning(d)
    \/ PassChecks(d) \/ FailChecks(d)
    \/ Replay(d) \/ RefuseOutOfOrder(d) \/ Admit(d)
    \/ Withhold(d) \/ Perform(d) \/ Finish(d)
    \/ Reply(d) \/ Cleanup(d)

Environment ==
    \/ Connect \/ Drop \/ Stop \/ Restart
    \/ \E d \in Deliveries, e \in Envelopes : ReceiveAction(d, e)
    \/ \E id \in ActionIDs : ReceiveCancel(id)
    \/ \E e \in Envelopes : DeadlinePasses(e)

Next == Environment \/ \E d \in Deliveries : RunAction(d)

Spec == Init /\ [][Next]_vars

\* The Go scheduler runs every goroutine, and executeCapability returns.
FairSpec == Spec /\ \A d \in Deliveries : WF_vars(RunAction(d))

-----------------------------------------------------------------------------
(* Properties *)

SameLife(d1, d2) == born[d1] = born[d2]

\* d consumed a number of its task in the current process.
Current(d) == d \in admitted /\ born[d] = incarnation

StepOf(d) == <<frame[d].task, frame[d].seq>>

\* From Register to Cleanup.
Running(d) == stage[d] \in {"registered", "checked", "admitted", "acting",
                            "finished", "replied"}

\* o was computed in that life by the run of a step started under this key.
Genuine(o, life, key) ==
    /\ o.by \in admitted
    /\ born[o.by] = life
    /\ frame[o.by].key = key
    /\ observation[o.by] = o

\* The convention of the control plane: a key names one step.
KeysNameSteps ==
    \A e, f \in Envelopes :
        e.key = f.key => e.task = f.task /\ e.seq = f.seq

\* However often a frame is resent, whatever the order in which goroutines
\* take the lock, and even after the table of outcomes was dropped, one life
\* of the process starts a step of a task at most once (execute).
AtMostOncePerStep ==
    \A d1, d2 \in admitted :
        SameLife(d1, d2) /\ StepOf(d1) = StepOf(d2) => d1 = d2

\* The steps started since the process started are exactly 1 .. sequences[t]:
\* nothing is skipped, also not by a process that was restarted in the middle
\* of a task (execute: action.Sequence != previous+1).
AdmissionsContiguous ==
    \A t \in Tasks :
        {frame[d].seq : d \in {x \in admitted : /\ Current(x)
                                                /\ frame[x].task = t}}
            = 1 .. sequences[t]

\* inflight holds exactly the goroutines between the first lock and the
\* deferred delete of runAction, under their own id: two runs of one action id
\* never overlap, and CANCEL can only reach the run it names.
OneRunPerActionID ==
    /\ \A d \in Deliveries : Running(d) => inflight[frame[d].id] = d
    /\ \A id \in ActionIDs :
           inflight[id] # None => /\ Running(inflight[id])
                                  /\ frame[inflight[id]].id = id

\* Once a frame was answered EXPIRED no delivery of it starts its action, even
\* though the deadline is checked before the lock under which a step starts:
\* inflight keeps a second delivery out of that gap (runAction, execute).
ExpiredIsFinal ==
    \A d1, d2 \in Deliveries :
        /\ observation[d1].status = "EXPIRED"
        /\ frame[d1] = frame[d2]
        => stage[d2] \notin {"checked", "admitted", "acting"}

\* An outcome that a goroutine sends was computed in this life of the process
\* by a step started under the same idempotency key, and is sent unchanged.
AnswersAreGenuine ==
    \A d \in Deliveries :
        observation[d].status \in Outcomes =>
            Genuine(observation[d], born[d], frame[d].key)

\* Every answer to a key that carries an outcome carries the same one, within
\* one life of the process: a retry never learns something else than what the
\* first answer said, whichever of the two got lost.
AnswersAgree ==
    KeysNameSteps =>
        \A d1, d2 \in Deliveries :
            /\ SameLife(d1, d2)
            /\ observation[d1].status \in Outcomes
            /\ observation[d2].status \in Outcomes
            /\ frame[d1].key = frame[d2].key
            => observation[d1] = observation[d2]

\* The keys settled in this life.
Settled == {frame[d].key : d \in {x \in Deliveries :
                                    Current(x) /\ observation[x] # Absent}}

\* As long as no more keys were settled than the table holds, the outcome of
\* each of them is there to be replayed, so that losing the answer with the
\* connection does not lose the outcome (execute calls remember on every path
\* past the sequence).
OutcomesKept ==
    KeysNameSteps /\ Cardinality(Settled) <= CompletedLimit =>
        \A k \in Settled : completed[k] # Absent

\* A control plane that waits for the outcome of each step is never told "out
\* of order" for a step that was not started before, as long as the process
\* was not restarted.  The steps that were not run (BLOCK, ASK_USER, CANCEL)
\* consume their number like the others.  Were a key to name two steps, an
\* outcome of one would be taken for the other's.
RefusedOnlyIfStarted ==
    KeysNameSteps /\ Sequential /\ incarnation = 0 =>
        \A d \in Deliveries :
            observation[d].status = "out_of_order" =>
                frame[d].seq <= sequences[frame[d].task]

\* Every goroutine ends: neither a lost connection, a refusal nor a CANCEL
\* leaves one behind that would keep its action id in inflight.
EveryFrameSettles ==
    \A d \in Deliveries :
        stage[d] = "spawned" ~> stage[d] \in {"done", "dead"}

\* The log of a task as the goroutines have it; nothing in it is ever "skipped".
OutcomeOf(t, n) ==
    LET runs == {x \in admitted : Current(x) /\ StepOf(x) = <<t, n>>}
        d == CHOOSE x \in runs : TRUE IN
    IF runs = {} THEN "skipped"
    ELSE IF stage[d] \in {"admitted", "acting"} THEN "running"
    ELSE observation[d].status

Log == [t \in Tasks |-> [n \in 1 .. sequences[t] |-> OutcomeOf(t, n)]]

Ledger == INSTANCE ActionLedger WITH ledger <- Log

\* The goroutines together keep the log that ActionLedger promises.
ImplementsLedger == Ledger!Spec

=============================================================================
