------------------------- MODULE DeviceRuntimeProofs -------------------------
(***************************************************************************)
(* Proofs about DeviceRuntime, for any number of goroutines, frames, tasks,*)
(* keys and restarts.                                                      *)
(***************************************************************************)
EXTENDS DeviceRuntime, TLAPS

\* The frame of a goroutine that was started is an envelope.
LEMMA StartedFrame ==
    ASSUME TypeOK, NEW d \in Deliveries, stage[d] # "unused"
    PROVE  /\ frame[d] \in Envelopes
           /\ frame[d].id \in ActionIDs
           /\ frame[d].task \in Tasks
           /\ frame[d].key \in Keys
           /\ frame[d].seq \in Int
BY EnvelopesAssumption DEF TypeOK, Envelope

\* remember keeps the type of the table.
LEMMA RememberType ==
    ASSUME completed \in [Keys -> Outcome \cup {Absent}],
           NEW key \in Keys, NEW o \in Outcome
    PROVE  Remember(key, o) \in [Keys -> Outcome \cup {Absent}]
BY DEF Remember

\* The initial state has the types.
LEMMA InitType == Init => TypeOK
<1> SUFFICES ASSUME Init PROVE TypeOK
  OBVIOUS
<1> USE DEF Init
<1>1. stage \in [Deliveries -> Stages]
  BY DEF Stages
<1>2. /\ frame \in [Deliveries -> Envelopes \cup {None}]
      /\ \A d \in Deliveries : stage[d] # "unused" => frame[d] \in Envelopes
  OBVIOUS
<1>3. /\ writer \in [Deliveries -> Nat]
      /\ cancelled \in [Deliveries -> BOOLEAN]
      /\ observation \in [Deliveries -> Observation \cup {Absent}]
      /\ born \in [Deliveries -> Nat]
  OBVIOUS
<1>4. /\ inflight \in [ActionIDs -> Deliveries \cup {None}]
      /\ sequences \in [Tasks -> Nat]
      /\ completed \in [Keys -> Outcome \cup {Absent}]
  OBVIOUS
<1>5. connection \in 0 .. MaxConnections /\ incarnation \in 0 .. MaxRestarts
  BY BoundsAssumption
<1>6. QED
  BY <1>1, <1>2, <1>3, <1>4, <1>5 DEF TypeOK

\* Connections, restarts, deliveries, CANCEL and time keep the types.
LEMMA EnvironmentType == TypeOK /\ Environment => TypeOK'
<1> SUFFICES ASSUME TypeOK, Environment PROVE TypeOK'
  OBVIOUS
<1> USE DEF TypeOK, goroutines, tables, link, history
<1>1. CASE Connect
  BY <1>1, BoundsAssumption DEF Connect
<1>2. CASE Drop
  BY <1>2 DEF Drop
<1>3. CASE Stop
  BY <1>3 DEF Stop
<1>4. CASE Restart
  <2>1. /\ stage' \in [Deliveries -> Stages]
        /\ \A d \in Deliveries : stage'[d] # "unused" => frame'[d] \in Envelopes
    BY <1>4 DEF Restart, Alive, Stages
  <2>2. /\ inflight' \in [ActionIDs -> Deliveries \cup {None}]
        /\ sequences' \in [Tasks -> Nat]
        /\ completed' \in [Keys -> Outcome \cup {Absent}]
    BY <1>4 DEF Restart
  <2>3. incarnation' \in 0 .. MaxRestarts
    BY <1>4, BoundsAssumption DEF Restart
  <2>4. QED
    BY <1>4, <2>1, <2>2, <2>3 DEF Restart
<1>5. ASSUME NEW d \in Deliveries, NEW e \in Envelopes, ReceiveAction(d, e)
      PROVE  TypeOK'
  BY <1>5, BoundsAssumption DEF ReceiveAction, Stages
<1>6. ASSUME NEW id \in ActionIDs, ReceiveCancel(id)
      PROVE  TypeOK'
  BY <1>6 DEF ReceiveCancel
<1>7. ASSUME NEW e \in Envelopes, DeadlinePasses(e)
      PROVE  TypeOK'
  BY <1>7 DEF DeadlinePasses
<1>8. QED
  BY <1>1, <1>2, <1>3, <1>4, <1>5, <1>6, <1>7 DEF Environment

\* A goroutine that was started moves on.
LEMMA MoveType ==
    ASSUME TypeOK, NEW d \in Deliveries, stage[d] # "unused",
           NEW next \in Stages, MoveTo(d, next), UNCHANGED frame
    PROVE  /\ stage' \in [Deliveries -> Stages]
           /\ \A x \in Deliveries :
                  stage'[x] # "unused" => frame'[x] \in Envelopes
BY DEF MoveTo, TypeOK

\* A goroutine concludes with a status of its own.
LEMMA ConcludeType ==
    ASSUME TypeOK, NEW d \in Deliveries,
           NEW status \in Outcomes \cup Refusals, Conclude(d, status)
    PROVE  observation' \in [Deliveries -> Observation \cup {Absent}]
<1>1. [status |-> status, by |-> d] \in Observation
  BY DEF Observation
<1>2. QED
  BY <1>1 DEF Conclude, TypeOK

\* Settling a step keeps the types.
LEMMA SettleType ==
    ASSUME TypeOK, NEW d \in Deliveries, stage[d] # "unused",
           NEW status \in Outcomes, Settle(d, status)
    PROVE  TypeOK'
<1>1. frame[d].key \in Keys
  BY StartedFrame
<1>2. [status |-> status, by |-> d] \in Outcome
  BY DEF Outcome
<1>3. completed' \in [Keys -> Outcome \cup {Absent}]
  BY <1>1, <1>2, RememberType DEF Settle, TypeOK
<1>4. /\ stage' \in [Deliveries -> Stages]
      /\ \A x \in Deliveries : stage'[x] # "unused" => frame'[x] \in Envelopes
  BY MoveType DEF Settle, Conclude, Stages
<1>5. observation' \in [Deliveries -> Observation \cup {Absent}]
  BY ConcludeType DEF Settle
<1>6. QED
  BY <1>3, <1>4, <1>5 DEF Settle, TypeOK, link, history

\* Every step of a goroutine of runAction keeps the types.
LEMMA RunActionType ==
    ASSUME TypeOK, NEW d \in Deliveries, RunAction(d)
    PROVE  TypeOK'
<1> USE DEF link, history, tables
<1>0. stage[d] # "unused"
  BY DEF RunAction, Register, RefuseRunning, PassChecks, FailChecks, Replay,
         RefuseOutOfOrder, Admit, Unanswered, Withhold, Perform, Finish, Reply,
         Cleanup
<1> DEFINE
      Moved == /\ stage' \in [Deliveries -> Stages]
               /\ \A x \in Deliveries :
                      stage'[x] # "unused" => frame'[x] \in Envelopes
      Observed == observation' \in [Deliveries -> Observation \cup {Absent}]
<1>1. CASE Register(d)
  <2>1. Moved
    BY <1>0, <1>1, MoveType DEF Register, Stages
  <2>2. inflight' \in [ActionIDs -> Deliveries \cup {None}]
    BY <1>1 DEF Register, TypeOK
  <2>3. QED
    BY <1>1, <2>1, <2>2 DEF Register, TypeOK
<1>2. CASE RefuseRunning(d)
  <2>1. Moved
    BY <1>0, <1>2, MoveType DEF RefuseRunning, Stages
  <2>2. [status |-> "already_running", by |-> d] \in Observation
    BY DEF Observation, Refusals
  <2>3. Observed
    BY <1>2, <2>2 DEF RefuseRunning, TypeOK
  <2>4. QED
    BY <1>2, <2>1, <2>3 DEF RefuseRunning, TypeOK
<1>3. CASE PassChecks(d)
  <2>1. Moved
    BY <1>0, <1>3, MoveType DEF PassChecks, Stages
  <2>2. QED
    BY <1>3, <2>1 DEF PassChecks, TypeOK
<1>4. CASE FailChecks(d)
  <2>1. PICK status \in Refusals : Conclude(d, status)
    BY <1>4 DEF FailChecks, Refusals
  <2>2. Moved
    BY <1>0, <1>4, <2>1, MoveType DEF FailChecks, Conclude, Stages
  <2>3. Observed
    BY <2>1, ConcludeType
  <2>4. QED
    BY <1>4, <2>2, <2>3 DEF FailChecks, TypeOK
<1>5. CASE Replay(d)
  <2>1. completed[frame[d].key] \in Observation
    BY <1>0, <1>5, StartedFrame DEF Replay, TypeOK, Outcome, Observation
  <2>2. Observed
    BY <1>5, <2>1 DEF Replay, TypeOK
  <2>3. Moved
    BY <1>0, <1>5, MoveType DEF Replay, Stages
  <2>4. QED
    BY <1>5, <2>2, <2>3 DEF Replay, TypeOK
<1>6. CASE RefuseOutOfOrder(d)
  <2>1. Moved
    BY <1>0, <1>6, MoveType DEF RefuseOutOfOrder, Conclude, Stages
  <2>2. Observed
    BY <1>6, ConcludeType DEF RefuseOutOfOrder, Refusals
  <2>3. QED
    BY <1>6, <2>1, <2>2 DEF RefuseOutOfOrder, TypeOK
<1>7. CASE Admit(d)
  <2>1. frame[d].task \in Tasks /\ frame[d].seq \in Nat
    BY <1>0, <1>7, StartedFrame DEF Admit, TypeOK
  <2>2. Moved
    BY <1>0, <1>7, MoveType DEF Admit, Start, Stages
  <2>3. sequences' \in [Tasks -> Nat]
    BY <1>7, <2>1 DEF Admit, Start, TypeOK
  <2>4. QED
    BY <1>7, <2>2, <2>3 DEF Admit, Start, TypeOK
<1>8. CASE Withhold(d)
  BY <1>0, <1>8, SettleType DEF Withhold, Outcomes
<1>9. CASE Perform(d)
  <2>1. Moved
    BY <1>0, <1>9, MoveType DEF Perform, Stages
  <2>2. QED
    BY <1>9, <2>1 DEF Perform, TypeOK
<1>10. CASE Finish(d)
  BY <1>0, <1>10, SettleType DEF Finish, Outcomes
<1>11. CASE Reply(d)
  <2>1. Moved
    BY <1>0, <1>11, MoveType DEF Reply, Stages
  <2>2. QED
    BY <1>11, <2>1 DEF Reply, TypeOK
<1>12. CASE Cleanup(d)
  <2>1. Moved
    BY <1>0, <1>12, MoveType DEF Cleanup, Stages
  <2>2. inflight' \in [ActionIDs -> Deliveries \cup {None}]
    BY <1>12 DEF Cleanup, TypeOK
  <2>3. QED
    BY <1>12, <2>1, <2>2 DEF Cleanup, TypeOK
<1>13. QED
  BY <1>1, <1>2, <1>3, <1>4, <1>5, <1>6, <1>7, <1>8, <1>9, <1>10, <1>11, <1>12
     DEF RunAction

\* Every reachable state of the device runtime is well typed; in particular
\* remember never stores a refusal.
THEOREM TypeCorrect == Spec => []TypeOK
<1>1. TypeOK /\ [Next]_vars => TypeOK'
  <2> SUFFICES ASSUME TypeOK, [Next]_vars PROVE TypeOK'
    OBVIOUS
  <2>1. CASE Environment
    BY <2>1, EnvironmentType
  <2>2. ASSUME NEW d \in Deliveries, RunAction(d) PROVE TypeOK'
    BY <2>2, RunActionType
  <2>3. CASE UNCHANGED vars
    BY <2>3 DEF vars, goroutines, tables, link, history, TypeOK
  <2>4. QED
    BY <2>1, <2>2, <2>3 DEF Next
<1>2. QED
  BY <1>1, InitType, PTL DEF Spec

-----------------------------------------------------------------------------
(* A step is started at most once *)

\* Where a goroutine that started its step can be.
Beyond == {"admitted", "acting", "finished", "replied", "done", "dead"}

\* The inductive invariant.  A live goroutine belongs to this process; one that
\* started its step is past the second lock for good and belongs to this
\* process or an earlier one; the steps started by this process have numbers up
\* to sequences, which is what makes the comparison in Admit exclude them, and
\* all of these numbers were started.
LiveAreCurrent == \A d \in Deliveries : Alive(d) => born[d] = incarnation
AdmittedAreBeyond ==
    \A d \in admitted : stage[d] \in Beyond /\ born[d] <= incarnation
StartedUpToSequence ==
    \A d \in admitted :
        born[d] = incarnation => frame[d].seq \in 1 .. sequences[frame[d].task]
SequenceWasStarted ==
    \A t \in Tasks : \A n \in 1 .. sequences[t] :
        \E d \in admitted : born[d] = incarnation /\ StepOf(d) = <<t, n>>

AdmissionInv ==
    /\ LiveAreCurrent
    /\ AdmittedAreBeyond
    /\ StartedUpToSequence
    /\ SequenceWasStarted
    /\ AtMostOncePerStep

\* Nothing has been started in the initial state.
LEMMA AdmissionInit == Init => AdmissionInv
BY DEF Init, AdmissionInv, LiveAreCurrent, AdmittedAreBeyond, Alive,
       StartedUpToSequence, SequenceWasStarted, AtMostOncePerStep

\* A step that changes neither the goroutines' stages nor the history.
LEMMA AdmissionFrame ==
    ASSUME AdmissionInv,
           UNCHANGED <<stage, frame, sequences, incarnation, born, admitted>>
    PROVE  AdmissionInv'
BY DEF AdmissionInv, LiveAreCurrent, AdmittedAreBeyond, Alive, StepOf, SameLife,
       StartedUpToSequence, SequenceWasStarted, AtMostOncePerStep

\* A live goroutine moves on without starting a step.
LEMMA AdmissionMove ==
    ASSUME TypeOK, AdmissionInv, NEW d \in Deliveries, NEW next \in Stages,
           Alive(d), MoveTo(d, next),
           stage[d] \notin Beyond \/ next \in Beyond,
           UNCHANGED <<frame, sequences, incarnation, born, admitted>>
    PROVE  AdmissionInv'
<1>1. LiveAreCurrent'
  BY DEF AdmissionInv, LiveAreCurrent, MoveTo, Alive, TypeOK
<1>2. AdmittedAreBeyond'
  BY DEF AdmissionInv, AdmittedAreBeyond, MoveTo, TypeOK
<1>3. StartedUpToSequence' /\ SequenceWasStarted' /\ AtMostOncePerStep'
  BY DEF AdmissionInv, StartedUpToSequence, SequenceWasStarted,
         AtMostOncePerStep, StepOf, SameLife
<1>4. QED
  BY <1>1, <1>2, <1>3 DEF AdmissionInv

\* A restart forgets the sequences, and no goroutine of the new life has
\* started a step yet.
LEMMA AdmissionRestart ==
    ASSUME TypeOK, AdmissionInv, Restart
    PROVE  AdmissionInv'
<1>1. \A d \in admitted : born'[d] < incarnation'
  BY DEF Restart, AdmissionInv, AdmittedAreBeyond, TypeOK
<1>2. LiveAreCurrent'
  BY DEF Restart, LiveAreCurrent, Alive, TypeOK
<1>3. AdmittedAreBeyond'
  BY <1>1 DEF Restart, AdmissionInv, AdmittedAreBeyond, Alive, Beyond, TypeOK
<1>4. StartedUpToSequence'
  BY <1>1 DEF Restart, StartedUpToSequence, TypeOK
<1>5. SequenceWasStarted'
  BY DEF Restart, SequenceWasStarted
<1>6. AtMostOncePerStep'
  BY DEF Restart, AdmissionInv, AtMostOncePerStep, StepOf, SameLife
<1>7. QED
  BY <1>2, <1>3, <1>4, <1>5, <1>6 DEF AdmissionInv

\* A frame that is received has not been started.
LEMMA AdmissionReceive ==
    ASSUME TypeOK, AdmissionInv, NEW d \in Deliveries, NEW e \in Envelopes,
           ReceiveAction(d, e)
    PROVE  AdmissionInv'
<1>1. d \notin admitted
  BY DEF ReceiveAction, AdmissionInv, AdmittedAreBeyond, Beyond
<1>2. \A x \in admitted : /\ stage'[x] = stage[x]
                          /\ frame'[x] = frame[x]
                          /\ born'[x] = born[x]
  BY <1>1 DEF ReceiveAction, TypeOK
<1>3. UNCHANGED <<sequences, incarnation, admitted>>
  BY DEF ReceiveAction, tables
<1>4. LiveAreCurrent'
  BY <1>3 DEF ReceiveAction, AdmissionInv, LiveAreCurrent, Alive, TypeOK
<1>5. AdmittedAreBeyond' /\ StartedUpToSequence'
  BY <1>2, <1>3 DEF AdmissionInv, AdmittedAreBeyond, StartedUpToSequence
<1>6. SequenceWasStarted'
  BY <1>2, <1>3 DEF AdmissionInv, SequenceWasStarted, StepOf
<1>7. AtMostOncePerStep'
  BY <1>2, <1>3 DEF AdmissionInv, AtMostOncePerStep, StepOf, SameLife
<1>8. QED
  BY <1>4, <1>5, <1>6, <1>7 DEF AdmissionInv

\* A step that is started is the next one of its task, so that nobody of this
\* life has started it.
LEMMA AdmissionAdmit ==
    ASSUME TypeOK, AdmissionInv, NEW d \in Deliveries, Admit(d)
    PROVE  AdmissionInv'
<1> DEFINE t == frame[d].task
<1>1. /\ frame[d].task \in Tasks
      /\ frame[d].seq \in Nat
      /\ frame[d].seq = sequences[t] + 1
      /\ stage[d] = "checked"
      /\ d \notin admitted
  BY StartedFrame
     DEF Admit, Unanswered, TypeOK, AdmissionInv, AdmittedAreBeyond, Beyond
<1>2. born[d] = incarnation
  BY <1>1 DEF AdmissionInv, LiveAreCurrent, Alive
<1>3. /\ UNCHANGED <<frame, incarnation, born>>
      /\ admitted' = admitted \cup {d}
      /\ sequences' = [sequences EXCEPT ![t] = frame[d].seq]
      /\ stage' = [stage EXCEPT ![d] = "admitted"]
  BY DEF Admit, Start, MoveTo
<1>4. \A u \in Tasks : sequences'[u] = IF u = t THEN sequences[u] + 1
                                                ELSE sequences[u]
  BY <1>1, <1>3 DEF TypeOK
<1>5. LiveAreCurrent'
  BY <1>2, <1>3 DEF AdmissionInv, LiveAreCurrent, Alive, TypeOK
<1>6. AdmittedAreBeyond'
  BY <1>2, <1>3 DEF AdmissionInv, AdmittedAreBeyond, Beyond, TypeOK
<1>7. ASSUME NEW x \in admitted, born[x] = incarnation
      PROVE  /\ frame[x].task \in Tasks
             /\ frame[x].seq \in 1 .. sequences[frame[x].task]
  BY <1>7, StartedFrame
     DEF AdmissionInv, AdmittedAreBeyond, StartedUpToSequence, Beyond, TypeOK
<1>8. StartedUpToSequence'
  BY <1>1, <1>3, <1>4, <1>7 DEF StartedUpToSequence, TypeOK
<1>9. SequenceWasStarted'
  <2> SUFFICES ASSUME NEW u \in Tasks, NEW n \in 1 .. sequences'[u]
               PROVE  \E x \in admitted' : /\ born'[x] = incarnation'
                                           /\ StepOf(x)' = <<u, n>>
    BY DEF SequenceWasStarted
  <2>1. CASE n \in 1 .. sequences[u]
    BY <1>3, <2>1 DEF AdmissionInv, SequenceWasStarted, StepOf
  <2>2. CASE n \notin 1 .. sequences[u]
    <3>1. u = t /\ n = frame[d].seq
      BY <1>1, <1>4, <2>2 DEF TypeOK
    <3>2. QED
      BY <1>2, <1>3, <3>1 DEF StepOf
  <2>3. QED
    BY <2>1, <2>2
<1>10. AtMostOncePerStep'
  <2>1. \A x \in admitted : born[x] = incarnation => StepOf(x) # StepOf(d)
    BY <1>1, <1>7 DEF StepOf, TypeOK
  <2>2. QED
    BY <1>2, <1>3, <2>1 DEF AdmissionInv, AtMostOncePerStep, StepOf, SameLife
<1>11. QED
  BY <1>5, <1>6, <1>8, <1>9, <1>10 DEF AdmissionInv

\* AdmissionInv is inductive: one case per action.
LEMMA AdmissionStep ==
    TypeOK /\ AdmissionInv /\ [Next]_vars => AdmissionInv'
<1> SUFFICES ASSUME TypeOK, AdmissionInv, [Next]_vars PROVE AdmissionInv'
  OBVIOUS
<1>1. CASE Environment
  <2>1. CASE Restart
    BY <2>1, AdmissionRestart
  <2>2. ASSUME NEW d \in Deliveries, NEW e \in Envelopes, ReceiveAction(d, e)
        PROVE  AdmissionInv'
    BY <2>2, AdmissionReceive
  <2>3. CASE \/ Connect \/ Drop \/ Stop
             \/ \E id \in ActionIDs : ReceiveCancel(id)
             \/ \E e \in Envelopes : DeadlinePasses(e)
    BY <2>3, AdmissionFrame
       DEF Connect, Drop, Stop, ReceiveCancel, DeadlinePasses, goroutines,
           tables, history
  <2>4. QED
    BY <1>1, <2>1, <2>2, <2>3 DEF Environment
<1>2. ASSUME NEW d \in Deliveries, RunAction(d) PROVE AdmissionInv'
  <2> USE DEF Stages, Beyond, Alive, tables, history
  <2>1. CASE Register(d)
    BY <2>1, AdmissionMove DEF Register
  <2>2. CASE RefuseRunning(d)
    BY <2>2, AdmissionMove DEF RefuseRunning
  <2>3. CASE PassChecks(d)
    BY <2>3, AdmissionMove DEF PassChecks
  <2>4. CASE FailChecks(d)
    BY <2>4, AdmissionMove DEF FailChecks, Conclude
  <2>5. CASE Replay(d)
    BY <2>5, AdmissionMove DEF Replay
  <2>6. CASE RefuseOutOfOrder(d)
    BY <2>6, AdmissionMove DEF RefuseOutOfOrder, Unanswered, Conclude
  <2>7. CASE Admit(d)
    BY <2>7, AdmissionAdmit
  <2>8. CASE Withhold(d)
    BY <2>8, AdmissionMove DEF Withhold, Settle, Conclude
  <2>9. CASE Perform(d)
    BY <2>9, AdmissionMove DEF Perform
  <2>10. CASE Finish(d)
    BY <2>10, AdmissionMove DEF Finish, Settle, Conclude
  <2>11. CASE Reply(d)
    BY <2>11, AdmissionMove DEF Reply
  <2>12. CASE Cleanup(d)
    BY <2>12, AdmissionMove DEF Cleanup
  <2>13. QED
    BY <1>2, <2>1, <2>2, <2>3, <2>4, <2>5, <2>6, <2>7, <2>8, <2>9, <2>10,
       <2>11, <2>12 DEF RunAction
<1>3. CASE UNCHANGED vars
  BY <1>3, AdmissionFrame DEF vars, goroutines, tables, history
<1>4. QED
  BY <1>1, <1>2, <1>3 DEF Next

\* The strengthening holds in every behaviour.
LEMMA AdmissionAlways == Spec => []AdmissionInv
BY AdmissionInit, AdmissionStep, TypeCorrect, PTL DEF Spec

\* One life of the process starts a step of a task at most once, whatever is
\* resent and in whatever order the goroutines get the lock.
THEOREM StepsStartOnce == Spec => []AtMostOncePerStep
<1>1. AdmissionInv => AtMostOncePerStep
  BY DEF AdmissionInv
<1>2. QED
  BY <1>1, AdmissionAlways, PTL

\* The steps started by a process are exactly 1 .. sequences[t].
THEOREM NoStepIsSkipped == Spec => []AdmissionsContiguous
<1>1. ASSUME TypeOK, AdmissionInv PROVE AdmissionsContiguous
  <2> SUFFICES ASSUME NEW t \in Tasks
               PROVE  {frame[d].seq : d \in {x \in admitted :
                          Current(x) /\ frame[x].task = t}} = 1 .. sequences[t]
    BY DEF AdmissionsContiguous
  <2>1. \A d \in admitted : Current(d) /\ frame[d].task = t
                            => frame[d].seq \in 1 .. sequences[t]
    BY <1>1 DEF AdmissionInv, StartedUpToSequence, Current
  <2>2. \A n \in 1 .. sequences[t] :
            \E d \in admitted : /\ Current(d)
                                /\ frame[d].task = t
                                /\ frame[d].seq = n
    BY <1>1 DEF AdmissionInv, SequenceWasStarted, StepOf, Current
  <2>3. QED
    BY <2>1, <2>2
<1>2. QED
  BY <1>1, TypeCorrect, AdmissionAlways, PTL

-----------------------------------------------------------------------------
(* One run per action id *)

\* A step that leaves inflight alone, keeps the frames of running goroutines
\* and moves no goroutine into or out of the part of runAction inflight covers.
LEMMA RunFrame ==
    ASSUME TypeOK, OneRunPerActionID, UNCHANGED inflight,
           \A d \in Deliveries : Running(d)' <=> Running(d),
           \A d \in Deliveries : Running(d) => frame'[d] = frame[d]
    PROVE  OneRunPerActionID'
BY NoneAssumption DEF OneRunPerActionID, TypeOK

\* A goroutine moves on inside, or outside, the part inflight covers.
LEMMA RunMove ==
    ASSUME TypeOK, OneRunPerActionID, NEW d \in Deliveries, NEW next \in Stages,
           MoveTo(d, next), UNCHANGED <<frame, inflight>>,
           Running(d) <=> next \in {"registered", "checked", "admitted",
                                    "acting", "finished", "replied"}
    PROVE  OneRunPerActionID'
<1>1. \A x \in Deliveries : Running(x)' <=> Running(x)
  BY DEF MoveTo, Running, TypeOK
<1>2. QED
  BY <1>1, RunFrame

\* Register takes an id that nobody has.
LEMMA RunRegister ==
    ASSUME TypeOK, OneRunPerActionID, NEW d \in Deliveries, Register(d)
    PROVE  OneRunPerActionID'
<1>1. /\ frame[d].id \in ActionIDs
      /\ inflight[frame[d].id] = None
      /\ ~Running(d)
  BY StartedFrame DEF Register, Running
<1>2. /\ inflight' = [inflight EXCEPT ![frame[d].id] = d]
      /\ stage' = [stage EXCEPT ![d] = "registered"]
      /\ UNCHANGED frame
  BY DEF Register, MoveTo
<1>3. \A x \in Deliveries \ {d} : Running(x)' <=> Running(x)
  BY <1>2 DEF Running, TypeOK
<1>4. \A x \in Deliveries : Running(x) => frame[x].id # frame[d].id
  BY <1>1, NoneAssumption DEF OneRunPerActionID
<1>5. Running(d)'
  BY <1>2 DEF Running, TypeOK
<1>6. \A x \in Deliveries : Running(x)' => inflight'[frame'[x].id] = x
  BY <1>1, <1>2, <1>3, <1>4 DEF OneRunPerActionID, TypeOK
<1>7. \A id \in ActionIDs :
          inflight'[id] # None =>
              \E x \in Deliveries : /\ inflight'[id] = x
                                    /\ Running(x)'
                                    /\ frame'[x].id = id
  <2> SUFFICES ASSUME NEW id \in ActionIDs, inflight'[id] # None
               PROVE  \E x \in Deliveries : /\ inflight'[id] = x
                                            /\ Running(x)'
                                            /\ frame'[x].id = id
    OBVIOUS
  <2>1. CASE id = frame[d].id
    BY <1>1, <1>2, <1>5, <2>1 DEF TypeOK
  <2>2. CASE id # frame[d].id
    <3>1. inflight'[id] = inflight[id] /\ inflight[id] \in Deliveries
      BY <1>2, <2>2 DEF TypeOK
    <3>2. Running(inflight[id]) /\ frame[inflight[id]].id = id
      BY <3>1 DEF OneRunPerActionID
    <3>3. QED
      BY <1>1, <1>2, <1>3, <3>1, <3>2
  <2>3. QED
    BY <2>1, <2>2
<1>8. QED
  BY <1>6, <1>7 DEF OneRunPerActionID

\* Cleanup gives back the id of this goroutine and of no other.
LEMMA RunCleanup ==
    ASSUME TypeOK, OneRunPerActionID, NEW d \in Deliveries, Cleanup(d)
    PROVE  OneRunPerActionID'
<1>1. /\ frame[d].id \in ActionIDs
      /\ Running(d)
      /\ inflight[frame[d].id] = d
  BY StartedFrame DEF Cleanup, Running, OneRunPerActionID
<1>2. /\ inflight' = [inflight EXCEPT ![frame[d].id] = None]
      /\ stage' = [stage EXCEPT ![d] = "done"]
      /\ UNCHANGED frame
  BY DEF Cleanup, MoveTo
<1>3. \A x \in Deliveries : Running(x)' <=> Running(x) /\ x # d
  BY <1>2 DEF Running, TypeOK
<1>4. \A x \in Deliveries : Running(x)' => inflight'[frame'[x].id] = x
  <2> SUFFICES ASSUME NEW x \in Deliveries, Running(x)'
               PROVE  inflight'[frame'[x].id] = x
    OBVIOUS
  <2>1. inflight[frame[x].id] = x /\ x # d
    BY <1>3 DEF OneRunPerActionID
  <2>2. frame[x].id \in ActionIDs /\ frame[x].id # frame[d].id
    BY <1>1, <1>3, <2>1, StartedFrame DEF Running
  <2>3. QED
    BY <1>2, <2>1, <2>2 DEF TypeOK
<1>5. \A id \in ActionIDs :
          inflight'[id] # None =>
              \E x \in Deliveries : /\ inflight'[id] = x
                                    /\ Running(x)'
                                    /\ frame'[x].id = id
  <2> SUFFICES ASSUME NEW id \in ActionIDs, inflight'[id] # None
               PROVE  \E x \in Deliveries : /\ inflight'[id] = x
                                            /\ Running(x)'
                                            /\ frame'[x].id = id
    OBVIOUS
  <2>1. id # frame[d].id /\ inflight'[id] = inflight[id]
    BY <1>1, <1>2 DEF TypeOK
  <2>2. /\ inflight[id] \in Deliveries
        /\ Running(inflight[id])
        /\ frame[inflight[id]].id = id
    BY <2>1 DEF OneRunPerActionID, TypeOK
  <2>3. QED
    BY <1>2, <1>3, <2>1, <2>2
<1>6. QED
  BY <1>4, <1>5 DEF OneRunPerActionID

\* OneRunPerActionID is inductive with TypeOK: one case per action.
LEMMA RunStep == TypeOK /\ OneRunPerActionID /\ [Next]_vars => OneRunPerActionID'
<1> SUFFICES ASSUME TypeOK, OneRunPerActionID, [Next]_vars
             PROVE  OneRunPerActionID'
  OBVIOUS
<1>1. CASE Environment
  <2>1. CASE Restart
    BY <2>1 DEF Restart, OneRunPerActionID, Running, Alive, TypeOK
  <2>2. ASSUME NEW d \in Deliveries, NEW e \in Envelopes, ReceiveAction(d, e)
        PROVE  OneRunPerActionID'
    <3>1. \A x \in Deliveries : Running(x)' <=> Running(x)
      BY <2>2 DEF ReceiveAction, Running, TypeOK
    <3>2. \A x \in Deliveries : Running(x) => frame'[x] = frame[x]
      BY <2>2 DEF ReceiveAction, Running, TypeOK
    <3>3. QED
      BY <2>2, <3>1, <3>2, RunFrame DEF ReceiveAction, tables
  <2>3. CASE \/ Connect \/ Drop \/ Stop
             \/ \E id \in ActionIDs : ReceiveCancel(id)
             \/ \E e \in Envelopes : DeadlinePasses(e)
    <3>1. UNCHANGED <<stage, frame, inflight>>
      BY <2>3 DEF Connect, Drop, Stop, ReceiveCancel, DeadlinePasses,
                  goroutines, tables
    <3>2. QED
      BY <3>1 DEF OneRunPerActionID, Running
  <2>4. QED
    BY <1>1, <2>1, <2>2, <2>3 DEF Environment
<1>2. ASSUME NEW d \in Deliveries, RunAction(d) PROVE OneRunPerActionID'
  <2> USE DEF Stages, Running, tables
  <2>1. CASE Register(d)
    BY <2>1, RunRegister
  <2>2. CASE RefuseRunning(d)
    BY <2>2, RunMove DEF RefuseRunning
  <2>3. CASE PassChecks(d)
    BY <2>3, RunMove DEF PassChecks
  <2>4. CASE FailChecks(d)
    BY <2>4, RunMove DEF FailChecks, Conclude
  <2>5. CASE Replay(d)
    BY <2>5, RunMove DEF Replay
  <2>6. CASE RefuseOutOfOrder(d)
    BY <2>6, RunMove DEF RefuseOutOfOrder, Unanswered, Conclude
  <2>7. CASE Admit(d)
    BY <2>7, RunMove DEF Admit, Unanswered, Start
  <2>8. CASE Withhold(d)
    BY <2>8, RunMove DEF Withhold, Settle, Conclude
  <2>9. CASE Perform(d)
    BY <2>9, RunMove DEF Perform
  <2>10. CASE Finish(d)
    BY <2>10, RunMove DEF Finish, Settle, Conclude
  <2>11. CASE Reply(d)
    BY <2>11, RunMove DEF Reply
  <2>12. CASE Cleanup(d)
    BY <2>12, RunCleanup
  <2>13. QED
    BY <1>2, <2>1, <2>2, <2>3, <2>4, <2>5, <2>6, <2>7, <2>8, <2>9, <2>10,
       <2>11, <2>12 DEF RunAction
<1>3. CASE UNCHANGED vars
  BY <1>3 DEF vars, goroutines, tables, OneRunPerActionID, Running
<1>4. QED
  BY <1>1, <1>2, <1>3 DEF Next

\* Two runs of one action id never overlap, and inflight names the run.
THEOREM RunsDoNotOverlap == Spec => []OneRunPerActionID
<1>1. Init => OneRunPerActionID
  BY DEF Init, OneRunPerActionID, Running
<1>2. QED
  BY <1>1, RunStep, TypeCorrect, PTL DEF Spec

-----------------------------------------------------------------------------
(* Answers *)

\* The inductive invariant.  A goroutine has no observation before it is
\* finished, so computing one overwrites none that others were answered with;
\* what is in the table was computed by this process.
SilentUntilFinished ==
    \A d \in Deliveries :
        stage[d] \in {"unused", "spawned", "registered", "checked", "admitted",
                      "acting"} => observation[d] = Absent
ActingAreAdmitted ==
    \A d \in Deliveries : stage[d] \in {"admitted", "acting"} => d \in admitted
RememberedAreGenuine ==
    \A k \in Keys :
        completed[k] # Absent => Genuine(completed[k], incarnation, k)

AnswersInv ==
    /\ SilentUntilFinished
    /\ ActingAreAdmitted
    /\ RememberedAreGenuine
    /\ AnswersAreGenuine

\* The entry of a key that is not in the table is not an outcome.
LEMMA AbsentIsNoOutcome == Absent.status \notin Outcomes
BY DEF Absent, Outcomes

\* Nothing has been sent or remembered in the initial state.
LEMMA AnswersInit == Init => AnswersInv
BY AbsentIsNoOutcome
   DEF Init, AnswersInv, SilentUntilFinished, ActingAreAdmitted,
       RememberedAreGenuine, AnswersAreGenuine

\* What was genuine stays so when no observation that exists is changed and
\* the goroutines that started a step keep their frames and their birth.
LEMMA GenuineStays ==
    ASSUME NEW o, NEW life, NEW key, Genuine(o, life, key), o # Absent,
           admitted \subseteq admitted',
           \A x \in admitted : born'[x] = born[x] /\ frame'[x] = frame[x],
           \A x \in admitted :
               observation[x] # Absent => observation'[x] = observation[x]
    PROVE  Genuine(o, life, key)'
BY DEF Genuine

\* A goroutine moves on and changes neither answers nor admissions.
LEMMA AnswersMove ==
    ASSUME TypeOK, AnswersInv, NEW d \in Deliveries, NEW next \in Stages,
           MoveTo(d, next),
           next \notin {"unused", "spawned", "admitted"},
           next \in {"registered", "checked"} =>
               stage[d] \in {"spawned", "registered"},
           next = "acting" => stage[d] = "admitted",
           UNCHANGED <<frame, observation, completed, incarnation, born,
                       admitted>>
    PROVE  AnswersInv'
<1>1. SilentUntilFinished' /\ ActingAreAdmitted'
  BY DEF AnswersInv, SilentUntilFinished, ActingAreAdmitted, MoveTo, TypeOK
<1>2. RememberedAreGenuine' /\ AnswersAreGenuine'
  BY DEF AnswersInv, RememberedAreGenuine, AnswersAreGenuine, Genuine
<1>3. QED
  BY <1>1, <1>2 DEF AnswersInv

\* A goroutine that has no observation yet gets one, from the table or, as a
\* refusal, from itself.
LEMMA AnswersObserve ==
    ASSUME TypeOK, AnswersInv, NEW d \in Deliveries, NEW next \in Stages, NEW o,
           MoveTo(d, next), next \in {"finished", "refused"},
           observation[d] = Absent,
           observation' = [observation EXCEPT ![d] = o],
           o.status \in Outcomes => Genuine(o, born[d], frame[d].key),
           UNCHANGED <<frame, completed, incarnation, born, admitted>>
    PROVE  AnswersInv'
<1>1. SilentUntilFinished' /\ ActingAreAdmitted'
  BY DEF AnswersInv, SilentUntilFinished, ActingAreAdmitted, MoveTo, TypeOK
<1>2. \A x \in admitted :
          observation[x] # Absent => observation'[x] = observation[x]
  BY DEF TypeOK
<1>3. RememberedAreGenuine'
  BY <1>2, GenuineStays DEF AnswersInv, RememberedAreGenuine
<1>4. ASSUME NEW x \in Deliveries, observation'[x].status \in Outcomes
      PROVE  Genuine(observation'[x], born[x], frame[x].key)
  BY <1>4 DEF AnswersInv, AnswersAreGenuine, TypeOK
<1>5. AnswersAreGenuine'
  BY <1>2, <1>4, GenuineStays, AbsentIsNoOutcome DEF AnswersAreGenuine
<1>6. QED
  BY <1>1, <1>3, <1>5 DEF AnswersInv

\* The outcome that is settled comes from the goroutine that started the step.
LEMMA AnswersSettle ==
    ASSUME TypeOK, AdmissionInv, AnswersInv, NEW d \in Deliveries,
           stage[d] \in {"admitted", "acting"},
           NEW status \in Outcomes, Settle(d, status)
    PROVE  AnswersInv'
<1> DEFINE o == [status |-> status, by |-> d]
<1>1. /\ d \in admitted
      /\ observation[d] = Absent
      /\ born[d] = incarnation
      /\ frame[d].key \in Keys
  BY StartedFrame
     DEF AnswersInv, SilentUntilFinished, ActingAreAdmitted, AdmissionInv,
         LiveAreCurrent, Alive
<1>2. /\ observation' = [observation EXCEPT ![d] = o]
      /\ stage' = [stage EXCEPT ![d] = "finished"]
      /\ completed' = Remember(frame[d].key, o)
      /\ UNCHANGED <<frame, incarnation, born, admitted>>
  BY DEF Settle, Conclude, MoveTo, history
<1>3. o # Absent /\ o.status \in Outcomes
  BY DEF Absent, Outcomes
<1>4. \A x \in admitted :
          observation[x] # Absent => observation'[x] = observation[x]
  BY <1>1, <1>2 DEF TypeOK
<1>5. Genuine(o, incarnation, frame[d].key)'
  BY <1>1, <1>2 DEF Genuine, TypeOK
<1>6. SilentUntilFinished' /\ ActingAreAdmitted'
  BY <1>1, <1>2 DEF AnswersInv, SilentUntilFinished, ActingAreAdmitted, TypeOK
<1>7. \A k \in Keys : \/ completed'[k] = Absent
                      \/ completed'[k] = completed[k]
                      \/ k = frame[d].key /\ completed'[k] = o
  BY <1>1, <1>2 DEF Remember, TypeOK
<1>8. RememberedAreGenuine'
  BY <1>2, <1>4, <1>5, <1>7, GenuineStays
     DEF AnswersInv, RememberedAreGenuine
<1>9. AnswersAreGenuine'
  <2> SUFFICES ASSUME NEW x \in Deliveries, observation'[x].status \in Outcomes
               PROVE  Genuine(observation[x], born[x], frame[x].key)'
    BY DEF AnswersAreGenuine
  <2>1. CASE x = d
    BY <1>1, <1>2, <1>5, <2>1 DEF TypeOK
  <2>2. CASE x # d
    <3>1. observation'[x] = observation[x] /\ observation[x] # Absent
      BY <1>2, <2>2, AbsentIsNoOutcome DEF TypeOK
    <3>2. Genuine(observation[x], born[x], frame[x].key)
      BY <3>1 DEF AnswersInv, AnswersAreGenuine
    <3>3. QED
      BY <1>2, <1>4, <3>1, <3>2, GenuineStays DEF Genuine
  <2>3. QED
    BY <2>1, <2>2
<1>10. QED
  BY <1>6, <1>8, <1>9 DEF AnswersInv

\* The environment disturbs no outcome of the present life.
LEMMA AnswersEnvironment ==
    ASSUME TypeOK, AdmissionInv, AnswersInv, Environment
    PROVE  AnswersInv'
<1>1. CASE Restart
  <2>1. SilentUntilFinished' /\ ActingAreAdmitted'
    BY <1>1 DEF Restart, AnswersInv, SilentUntilFinished, ActingAreAdmitted,
                Alive, TypeOK
  <2>2. RememberedAreGenuine'
    BY <1>1 DEF Restart, RememberedAreGenuine
  <2>3. AnswersAreGenuine'
    BY <1>1 DEF Restart, AnswersInv, AnswersAreGenuine, Genuine
  <2>4. QED
    BY <2>1, <2>2, <2>3 DEF AnswersInv
<1>2. ASSUME NEW d \in Deliveries, NEW e \in Envelopes, ReceiveAction(d, e)
      PROVE  AnswersInv'
  <2>1. d \notin admitted /\ observation[d] = Absent
    BY <1>2 DEF ReceiveAction, AdmissionInv, AdmittedAreBeyond, Beyond,
                AnswersInv, SilentUntilFinished
  <2>2. /\ UNCHANGED <<observation, admitted, completed, incarnation>>
        /\ \A x \in Deliveries \ {d} : /\ stage'[x] = stage[x]
                                       /\ born'[x] = born[x]
                                       /\ frame'[x] = frame[x]
        /\ stage'[d] = "spawned"
    BY <1>2 DEF ReceiveAction, tables, TypeOK
  <2>3. admitted \subseteq Deliveries
    BY DEF TypeOK
  <2>4. SilentUntilFinished' /\ ActingAreAdmitted'
    BY <2>1, <2>2 DEF AnswersInv, SilentUntilFinished, ActingAreAdmitted
  <2>5. RememberedAreGenuine'
    BY <2>1, <2>2, <2>3 DEF AnswersInv, RememberedAreGenuine, Genuine
  <2>6. AnswersAreGenuine'
    BY <2>1, <2>2, <2>3, AbsentIsNoOutcome
       DEF AnswersInv, AnswersAreGenuine, Genuine
  <2>7. QED
    BY <2>4, <2>5, <2>6 DEF AnswersInv
<1>3. CASE \/ Connect \/ Drop \/ Stop
           \/ \E id \in ActionIDs : ReceiveCancel(id)
           \/ \E e \in Envelopes : DeadlinePasses(e)
  <2>1. UNCHANGED <<stage, frame, observation, completed, incarnation, born,
                    admitted>>
    BY <1>3 DEF Connect, Drop, Stop, ReceiveCancel, DeadlinePasses, goroutines,
                tables, history
  <2>2. QED
    BY <2>1 DEF AnswersInv, SilentUntilFinished, ActingAreAdmitted,
                RememberedAreGenuine, AnswersAreGenuine, Genuine
<1>4. QED
  BY <1>1, <1>2, <1>3 DEF Environment

\* The steps of a goroutine send and remember genuine outcomes only.
LEMMA AnswersRunAction ==
    ASSUME TypeOK, AdmissionInv, AnswersInv, NEW d \in Deliveries, RunAction(d)
    PROVE  AnswersInv'
<1> USE DEF Stages, tables, history
<1>0. stage[d] \in {"spawned", "registered", "checked"} => observation[d] = Absent
  BY DEF AnswersInv, SilentUntilFinished
<1>1. CASE Register(d)
  BY <1>1, AnswersMove DEF Register
<1>2. CASE RefuseRunning(d)
  BY <1>0, <1>2, AnswersObserve DEF RefuseRunning, Outcomes
<1>3. CASE PassChecks(d)
  BY <1>3, AnswersMove DEF PassChecks
<1>4. CASE FailChecks(d)
  BY <1>0, <1>4, AnswersObserve DEF FailChecks, Conclude, Outcomes
<1>5. CASE Replay(d)
  <2>1. Genuine(completed[frame[d].key], born[d], frame[d].key)
    BY <1>5, StartedFrame DEF Replay, AnswersInv, RememberedAreGenuine,
       AdmissionInv, LiveAreCurrent, Alive
  <2>2. QED
    BY <1>0, <1>5, <2>1, AnswersObserve DEF Replay
<1>6. CASE RefuseOutOfOrder(d)
  BY <1>0, <1>6, AnswersObserve DEF RefuseOutOfOrder, Unanswered, Conclude,
                                    Outcomes
<1>7. CASE Admit(d)
  <2>1. d \notin admitted /\ observation[d] = Absent
    BY <1>0, <1>7 DEF Admit, Unanswered, AdmissionInv, AdmittedAreBeyond, Beyond
  <2>2. /\ UNCHANGED <<frame, observation, completed, incarnation, born>>
        /\ admitted' = admitted \cup {d}
        /\ stage' = [stage EXCEPT ![d] = "admitted"]
    BY <1>7 DEF Admit, Start, MoveTo
  <2>3. SilentUntilFinished' /\ ActingAreAdmitted'
    BY <2>1, <2>2 DEF AnswersInv, SilentUntilFinished, ActingAreAdmitted, TypeOK
  <2>4. RememberedAreGenuine' /\ AnswersAreGenuine'
    BY <2>2 DEF AnswersInv, RememberedAreGenuine, AnswersAreGenuine, Genuine
  <2>5. QED
    BY <2>3, <2>4 DEF AnswersInv
<1>8. CASE Withhold(d)
  BY <1>8, AnswersSettle DEF Withhold, Outcomes
<1>9. CASE Perform(d)
  BY <1>9, AnswersMove DEF Perform
<1>10. CASE Finish(d)
  BY <1>10, AnswersSettle DEF Finish, Outcomes
<1>11. CASE Reply(d)
  BY <1>11, AnswersMove DEF Reply
<1>12. CASE Cleanup(d)
  BY <1>12, AnswersMove DEF Cleanup
<1>13. QED
  BY <1>1, <1>2, <1>3, <1>4, <1>5, <1>6, <1>7, <1>8, <1>9, <1>10, <1>11, <1>12
     DEF RunAction

\* The strengthening holds in every behaviour.
LEMMA AnswersAlways == Spec => []AnswersInv
<1>1. TypeOK /\ AdmissionInv /\ AnswersInv /\ [Next]_vars => AnswersInv'
  <2> SUFFICES ASSUME TypeOK, AdmissionInv, AnswersInv, [Next]_vars
               PROVE  AnswersInv'
    OBVIOUS
  <2>1. CASE UNCHANGED vars
    BY <2>1 DEF vars, goroutines, tables, history, AnswersInv, Genuine,
       SilentUntilFinished, ActingAreAdmitted, RememberedAreGenuine,
       AnswersAreGenuine
  <2>2. QED
    BY <2>1, AnswersEnvironment, AnswersRunAction DEF Next
<1>2. QED
  BY <1>1, AnswersInit, AdmissionAlways, TypeCorrect, PTL DEF Spec

\* Every outcome that is sent was computed in the same life of the process by
\* the run of a step that was started under the same key.
THEOREM OutcomesAreGenuine == Spec => []AnswersAreGenuine
<1>1. AnswersInv => AnswersAreGenuine
  BY DEF AnswersInv
<1>2. QED
  BY <1>1, AnswersAlways, PTL

\* Under the convention that a key names one step, all answers to a key that
\* carry an outcome carry the same one.
THEOREM RetriesLearnTheSame == Spec => []AnswersAgree
<1>1. ASSUME TypeOK, AdmissionInv, AnswersInv PROVE AnswersAgree
  <2> SUFFICES ASSUME KeysNameSteps,
                      NEW d1 \in Deliveries, NEW d2 \in Deliveries,
                      SameLife(d1, d2),
                      observation[d1].status \in Outcomes,
                      observation[d2].status \in Outcomes,
                      frame[d1].key = frame[d2].key
               PROVE  observation[d1] = observation[d2]
    BY DEF AnswersAgree
  <2> DEFINE s1 == observation[d1].by
             s2 == observation[d2].by
  <2>1. /\ Genuine(observation[d1], born[d1], frame[d1].key)
        /\ Genuine(observation[d2], born[d2], frame[d2].key)
    BY <1>1 DEF AnswersInv, AnswersAreGenuine
  <2>2. /\ s1 \in admitted /\ s2 \in admitted
        /\ SameLife(s1, s2)
        /\ frame[s1].key = frame[s2].key
    BY <2>1 DEF Genuine, SameLife
  <2>3. frame[s1] \in Envelopes /\ frame[s2] \in Envelopes
    BY <1>1, <2>2, StartedFrame DEF AdmissionInv, AdmittedAreBeyond, Beyond,
                                    TypeOK
  <2>4. StepOf(s1) = StepOf(s2)
    BY <2>2, <2>3 DEF KeysNameSteps, StepOf
  <2>5. s1 = s2
    BY <1>1, <2>2, <2>4 DEF AdmissionInv, AtMostOncePerStep
  <2>6. QED
    BY <2>1, <2>5 DEF Genuine
<1>2. QED
  BY <1>1, TypeCorrect, AdmissionAlways, AnswersAlways, PTL

=============================================================================
