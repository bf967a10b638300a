-------------------------- MODULE DeviceLedgerProofs --------------------------
(***************************************************************************)
(* More proofs about DeviceRuntime, on top of the invariants of            *)
(* DeviceRuntimeProofs: expired frames, the outcomes that are kept, what a *)
(* patient control plane is refused, and the refinement of ActionLedger.   *)
(***************************************************************************)
EXTENDS DeviceRuntimeProofs, FiniteSetTheorems, SequenceTheorems

(* Expired frames *)

\* The strengthening: a goroutine that answered EXPIRED is past the checks for
\* good, and the deadline of its frame stays in the past.
ExpiredAreLate ==
    \A d \in Deliveries :
        observation[d].status = "EXPIRED" =>
            /\ stage[d] \in {"finished", "replied", "done", "dead"}
            /\ frame[d] \in late

ExpiredInv == ExpiredAreLate /\ ExpiredIsFinal

\* What is remembered, and what is not, is no EXPIRED.
LEMMA RememberedAreNotExpired ==
    ASSUME TypeOK, NEW k \in Keys
    PROVE  completed[k].status # "EXPIRED"
<1>1. completed[k] \in Outcome \/ completed[k] = Absent
  BY DEF TypeOK
<1>2. QED
  BY <1>1 DEF Outcome, Outcomes, Absent

\* Nobody is late and nobody past a check at first.
LEMMA ExpiredInit == Init => ExpiredInv
BY DEF Init, ExpiredInv, ExpiredAreLate, ExpiredIsFinal, Absent

\* A goroutine moves on, not past the checks unless it was there, and gets no
\* EXPIRED.
LEMMA ExpiredMove ==
    ASSUME TypeOK, ExpiredInv, NEW d \in Deliveries, NEW next \in Stages,
           MoveTo(d, next), UNCHANGED <<frame, late>>,
           \/ next \in {"finished", "replied", "done", "dead"}
           \/ observation[d].status # "EXPIRED",
           next \in {"checked", "admitted", "acting"} =>
               \/ stage[d] \in {"checked", "admitted", "acting"}
               \/ frame[d] \notin late,
           \A x \in Deliveries : \/ observation'[x] = observation[x]
                                 \/ observation'[x].status # "EXPIRED"
    PROVE  ExpiredInv'
<1>1. \A x \in Deliveries : observation'[x].status = "EXPIRED" =>
          /\ observation[x].status = "EXPIRED"
          /\ stage[x] \in {"finished", "replied", "done", "dead"}
          /\ frame[x] \in late
  BY DEF ExpiredInv, ExpiredAreLate
<1>2. ExpiredAreLate'
  BY <1>1 DEF ExpiredAreLate, MoveTo, TypeOK
<1>3. ExpiredIsFinal'
  BY <1>1 DEF ExpiredInv, ExpiredIsFinal, MoveTo, TypeOK
<1>4. QED
  BY <1>2, <1>3 DEF ExpiredInv

\* The frame of d has expired.  No other run of its id is under way, so that
\* no delivery of the frame is between the checks and its end.
LEMMA ExpiredNow ==
    ASSUME TypeOK, OneRunPerActionID, ExpiredInv, NEW d \in Deliveries,
           FailChecks(d)
    PROVE  ExpiredInv'
<1>1. CASE ~frame[d].valid
  <2>1. /\ stage[d] = "registered"
        /\ observation' = [observation EXCEPT ![d] =
                              [status |-> "invalid", by |-> d]]
        /\ MoveTo(d, "finished")
        /\ UNCHANGED <<frame, late>>
    BY <1>1 DEF FailChecks, Conclude
  <2>2. QED
    BY <2>1, ExpiredMove DEF TypeOK, Stages
<1>2. CASE frame[d].valid
  <2>1. /\ stage[d] = "registered"
        /\ frame[d] \in late
        /\ stage' = [stage EXCEPT ![d] = "finished"]
        /\ observation' = [observation EXCEPT ![d] =
                              [status |-> "EXPIRED", by |-> d]]
        /\ UNCHANGED <<frame, late>>
    BY <1>2 DEF FailChecks, Conclude, MoveTo
  <2>2. ExpiredAreLate'
    BY <2>1 DEF ExpiredInv, ExpiredAreLate, TypeOK
  <2>3. inflight[frame[d].id] = d
    BY <2>1 DEF OneRunPerActionID, Running
  <2>4. ASSUME NEW x \in Deliveries, frame[x] = frame[d]
        PROVE  stage'[x] \notin {"checked", "admitted", "acting"}
    <3>1. Running(x) => x = d
      BY <2>3, <2>4 DEF OneRunPerActionID
    <3>2. QED
      BY <2>1, <3>1 DEF Running, TypeOK
  <2>5. ExpiredIsFinal'
    BY <2>1, <2>4 DEF ExpiredInv, ExpiredIsFinal, TypeOK
  <2>6. QED
    BY <2>2, <2>5 DEF ExpiredInv
<1>3. QED
  BY <1>1, <1>2

\* Restarts, deliveries and the clock.
LEMMA ExpiredEnvironment ==
    ASSUME TypeOK, AnswersInv, ExpiredInv, Environment
    PROVE  ExpiredInv'
<1>1. CASE Restart
  BY <1>1 DEF Restart, Alive, ExpiredInv, ExpiredAreLate, ExpiredIsFinal, TypeOK
<1>2. ASSUME NEW d \in Deliveries, NEW e \in Envelopes, ReceiveAction(d, e)
      PROVE  ExpiredInv'
  <2>1. /\ observation[d].status # "EXPIRED"
        /\ stage' = [stage EXCEPT ![d] = "spawned"]
        /\ frame' = [frame EXCEPT ![d] = e]
        /\ UNCHANGED <<observation, late>>
    BY <1>2 DEF ReceiveAction, AnswersInv, SilentUntilFinished, Absent
  <2>2. QED
    BY <2>1 DEF ExpiredInv, ExpiredAreLate, ExpiredIsFinal, TypeOK
<1>3. CASE \/ Connect \/ Drop \/ Stop
           \/ \E id \in ActionIDs : ReceiveCancel(id)
           \/ \E e \in Envelopes : DeadlinePasses(e)
  <2>1. UNCHANGED <<stage, frame, observation>> /\ late \subseteq late'
    BY <1>3 DEF Connect, Drop, Stop, ReceiveCancel, DeadlinePasses, goroutines
  <2>2. QED
    BY <2>1 DEF ExpiredInv, ExpiredAreLate, ExpiredIsFinal
<1>4. QED
  BY <1>1, <1>2, <1>3 DEF Environment

\* ExpiredInv is inductive: one case per action.
LEMMA ExpiredStep ==
    TypeOK /\ OneRunPerActionID /\ AnswersInv /\ ExpiredInv /\ [Next]_vars
        => ExpiredInv'
<1> SUFFICES ASSUME TypeOK, OneRunPerActionID, AnswersInv, ExpiredInv,
                    [Next]_vars
             PROVE  ExpiredInv'
  OBVIOUS
<1>1. ASSUME NEW d \in Deliveries, RunAction(d) PROVE ExpiredInv'
  <2> USE DEF Stages
  <2>0. stage[d] \in {"spawned", "registered", "checked", "admitted", "acting"}
            => observation[d].status # "EXPIRED"
    BY DEF AnswersInv, SilentUntilFinished, Absent
  <2>1. CASE Register(d)
    BY <2>0, <2>1, ExpiredMove DEF Register
  <2>2. CASE RefuseRunning(d)
    BY <2>0, <2>2, ExpiredMove DEF RefuseRunning, TypeOK
  <2>3. CASE PassChecks(d)
    BY <2>0, <2>3, ExpiredMove DEF PassChecks
  <2>4. CASE FailChecks(d)
    BY <2>4, ExpiredNow
  <2>5. CASE Replay(d)
    <3>1. completed[frame[d].key].status # "EXPIRED"
      BY <2>5, StartedFrame, RememberedAreNotExpired DEF Replay
    <3>2. \A x \in Deliveries : \/ observation'[x] = observation[x]
                                \/ observation'[x].status # "EXPIRED"
      BY <2>5, <3>1 DEF Replay, TypeOK
    <3>3. QED
      BY <2>5, <3>2, ExpiredMove DEF Replay
  <2>6. CASE RefuseOutOfOrder(d)
    BY <2>6, ExpiredMove DEF RefuseOutOfOrder, Conclude, TypeOK
  <2>7. CASE Admit(d)
    BY <2>0, <2>7, ExpiredMove DEF Admit, Unanswered, Start
  <2>8. ASSUME NEW status \in Outcomes, Settle(d, status) PROVE ExpiredInv'
    BY <2>8, ExpiredMove DEF Settle, Conclude, Outcomes, TypeOK
  <2>9. CASE Withhold(d) \/ Finish(d)
    BY <2>8, <2>9 DEF Withhold, Finish, Outcomes
  <2>10. CASE Perform(d)
    BY <2>0, <2>10, ExpiredMove DEF Perform
  <2>11. CASE Reply(d)
    BY <2>11, ExpiredMove DEF Reply
  <2>12. CASE Cleanup(d)
    BY <2>12, ExpiredMove DEF Cleanup
  <2>13. QED
    BY <1>1, <2>1, <2>2, <2>3, <2>4, <2>5, <2>6, <2>7, <2>9, <2>10, <2>11,
       <2>12 DEF RunAction
<1>2. CASE UNCHANGED vars
  BY <1>2 DEF vars, goroutines, ExpiredInv, ExpiredAreLate, ExpiredIsFinal
<1>3. QED
  BY <1>1, <1>2, ExpiredEnvironment DEF Next

\* Once a frame was answered EXPIRED, no delivery of it starts its action.
THEOREM ExpiredFramesNeverStart == Spec => []ExpiredIsFinal
<1>1. ExpiredInv => ExpiredIsFinal
  BY DEF ExpiredInv
<1>2. QED
  BY <1>1, ExpiredInit, ExpiredStep, TypeCorrect, RunsDoNotOverlap,
     AnswersAlways, PTL DEF Spec

-----------------------------------------------------------------------------
(* The outcomes that are kept *)

\* The keys that are settled are finitely many, and are those of the goroutines
\* of this life that have an observation.
KeptInv == IsFiniteSet(Settled) /\ OutcomesKept

\* Nobody has settled anything at first.
LEMMA KeptInit == Init => KeptInv
<1> SUFFICES ASSUME Init PROVE KeptInv
  OBVIOUS
<1>1. Settled = {}
  BY DEF Init, Settled, Current
<1>2. QED
  BY <1>1, FS_EmptySet DEF KeptInv, OutcomesKept

\* A step that settles no key and leaves the table alone.
LEMMA KeptFrame ==
    ASSUME KeptInv, UNCHANGED completed, Settled' = Settled
    PROVE  KeptInv'
BY DEF KeptInv, OutcomesKept

\* What is remembered was settled in this life.
LEMMA RememberedAreSettled ==
    ASSUME TypeOK, AnswersInv
    PROVE  Remembered \subseteq Settled
<1> SUFFICES ASSUME NEW k \in Keys, completed[k] # Absent PROVE k \in Settled
  BY DEF Remembered
<1>1. Genuine(completed[k], incarnation, k)
  BY DEF AnswersInv, RememberedAreGenuine
<1>2. /\ completed[k].by \in Deliveries
      /\ Current(completed[k].by)
      /\ observation[completed[k].by] # Absent
      /\ frame[completed[k].by].key = k
  BY <1>1 DEF Genuine, Current, TypeOK
<1>3. QED
  BY <1>2 DEF Settled

\* Settling a step adds its key to those that are settled and, under the
\* convention that a key names one step, this key was not among them.
LEMMA SettleAddsKey ==
    ASSUME TypeOK, AdmissionInv, AnswersInv, NEW d \in Deliveries,
           stage[d] \in {"admitted", "acting"},
           NEW status \in Outcomes, Settle(d, status)
    PROVE  /\ frame[d].key \in Keys
           /\ Settled' = Settled \cup {frame[d].key}
           /\ KeysNameSteps => frame[d].key \notin Settled
<1>1. /\ frame[d] \in Envelopes
      /\ frame[d].key \in Keys
      /\ Current(d)
      /\ observation[d] = Absent
  BY StartedFrame
     DEF AnswersInv, SilentUntilFinished, ActingAreAdmitted, AdmissionInv,
         LiveAreCurrent, Alive, Current
<1>2. /\ observation' = [observation EXCEPT ![d] =
                            [status |-> status, by |-> d]]
      /\ UNCHANGED <<frame, incarnation, born, admitted>>
      /\ [status |-> status, by |-> d] # Absent
  BY DEF Settle, Conclude, history, Absent, Outcomes
<1>3. /\ \A x \in Deliveries : Current(x)' <=> Current(x)
      /\ \A x \in Deliveries :
             observation'[x] # Absent <=> x = d \/ observation[x] # Absent
  BY <1>2 DEF Current, TypeOK
<1>4. Settled' = Settled \cup {frame[d].key}
  BY <1>1, <1>2, <1>3 DEF Settled
<1>5. ASSUME KeysNameSteps, NEW x \in Deliveries, Current(x),
             observation[x] # Absent, frame[x].key = frame[d].key
      PROVE  FALSE
  <2>1. frame[x] \in Envelopes
    BY <1>5, StartedFrame DEF Current, AdmissionInv, AdmittedAreBeyond, Beyond
  <2>2. StepOf(x) = StepOf(d)
    BY <1>1, <1>5, <2>1 DEF KeysNameSteps, StepOf
  <2>3. x = d
    BY <1>1, <1>5, <2>2
       DEF AdmissionInv, AtMostOncePerStep, SameLife, Current
  <2>4. QED
    BY <1>1, <1>5, <2>3
<1>6. QED
  BY <1>1, <1>4, <1>5 DEF Settled

\* Settling a step drops the table only if it holds as many keys as it may, so
\* that one more key is settled than the table can hold.
LEMMA KeptSettle ==
    ASSUME TypeOK, AdmissionInv, AnswersInv, KeptInv, NEW d \in Deliveries,
           stage[d] \in {"admitted", "acting"},
           NEW status \in Outcomes, Settle(d, status)
    PROVE  KeptInv'
<1> DEFINE key == frame[d].key
           o == [status |-> status, by |-> d]
<1>1. /\ key \in Keys
      /\ Settled' = Settled \cup {key}
      /\ KeysNameSteps => key \notin Settled
  BY SettleAddsKey
<1>2. completed' = Remember(key, o) /\ o # Absent
  BY DEF Settle, Absent, Outcomes
<1>3. IsFiniteSet(Settled) /\ IsFiniteSet(Settled')
  BY <1>1, FS_AddElement DEF KeptInv
<1>4. ASSUME KeysNameSteps, Cardinality(Settled') <= CompletedLimit,
             NEW k \in Settled'
      PROVE  completed'[k] # Absent
  <2>1. /\ Cardinality(Settled) \in Nat
        /\ Cardinality(Settled') = Cardinality(Settled) + 1
    BY <1>1, <1>3, <1>4, FS_AddElement, FS_CardinalityType
  <2>2. Cardinality(Remembered) <= Cardinality(Settled)
    BY <1>3, RememberedAreSettled, FS_Subset
  <2>3. Cardinality(Remembered) \in Nat
    BY <1>3, RememberedAreSettled, FS_Subset, FS_CardinalityType
  <2>4. ~(Cardinality(Remembered) >= CompletedLimit)
    BY <1>4, <2>1, <2>2, <2>3, BoundsAssumption
  <2>5. completed' = [completed EXCEPT ![key] = o]
    BY <1>2, <2>4 DEF Remember
  <2>6. Settled \subseteq Keys
    BY StartedFrame DEF Settled, Current, AdmissionInv, AdmittedAreBeyond, Beyond
  <2>7. CASE k = key
    BY <1>1, <1>2, <2>5, <2>7 DEF TypeOK
  <2>8. CASE k # key
    <3>1. k \in Settled /\ k \in Keys
      BY <1>1, <2>6, <2>8
    <3>2. completed[k] # Absent
      BY <1>4, <2>1, <3>1, BoundsAssumption DEF KeptInv, OutcomesKept
    <3>3. QED
      BY <2>5, <2>8, <3>1, <3>2 DEF TypeOK
  <2>9. QED
    BY <2>7, <2>8
<1>5. QED
  BY <1>3, <1>4 DEF KeptInv, OutcomesKept, KeysNameSteps

\* A goroutine that is not of this life's steps changes none of the keys that
\* are settled.
LEMMA KeptElsewhere ==
    ASSUME TypeOK, KeptInv, NEW d \in Deliveries, ~Current(d),
           UNCHANGED <<completed, frame, incarnation, born, admitted>>,
           \A x \in Deliveries : x # d => observation'[x] = observation[x]
    PROVE  KeptInv'
<1>1. \A x \in Deliveries : /\ Current(x)' <=> Current(x)
                            /\ Current(x) => observation'[x] = observation[x]
  BY DEF Current
<1>2. Settled' = Settled
  BY <1>1 DEF Settled
<1>3. QED
  BY <1>2, KeptFrame

\* Restarts and deliveries settle nothing.
LEMMA KeptEnvironment ==
    ASSUME TypeOK, AdmissionInv, KeptInv, Environment
    PROVE  KeptInv'
<1>1. CASE Restart
  <2>1. \A x \in Deliveries : ~Current(x)'
    BY <1>1 DEF Restart, Current, AdmissionInv, AdmittedAreBeyond, TypeOK
  <2>2. Settled' = {}
    BY <2>1 DEF Settled
  <2>3. QED
    BY <2>2, FS_EmptySet DEF KeptInv, OutcomesKept
<1>2. ASSUME NEW d \in Deliveries, NEW e \in Envelopes, ReceiveAction(d, e)
      PROVE  KeptInv'
  <2>1. d \notin admitted
    BY <1>2 DEF ReceiveAction, AdmissionInv, AdmittedAreBeyond, Beyond
  <2>2. /\ UNCHANGED <<completed, observation, incarnation, admitted>>
        /\ \A x \in Deliveries : x # d => /\ frame'[x] = frame[x]
                                          /\ born'[x] = born[x]
    BY <1>2 DEF ReceiveAction, tables, TypeOK
  <2>3. \A x \in Deliveries : /\ Current(x)' <=> Current(x)
                              /\ Current(x) => frame'[x] = frame[x]
    BY <2>1, <2>2 DEF Current
  <2>4. Settled' = Settled
    BY <2>2, <2>3 DEF Settled
  <2>5. QED
    BY <2>2, <2>4, KeptFrame
<1>3. CASE \/ Connect \/ Drop \/ Stop
           \/ \E id \in ActionIDs : ReceiveCancel(id)
           \/ \E e \in Envelopes : DeadlinePasses(e)
  <2>1. UNCHANGED <<frame, observation, completed, incarnation, born, admitted>>
    BY <1>3 DEF Connect, Drop, Stop, ReceiveCancel, DeadlinePasses, goroutines,
                tables, history
  <2>2. QED
    BY <2>1, KeptFrame DEF Settled, Current
<1>4. QED
  BY <1>1, <1>2, <1>3 DEF Environment

\* KeptInv is inductive: one case per action.
LEMMA KeptStep ==
    TypeOK /\ AdmissionInv /\ AnswersInv /\ KeptInv /\ [Next]_vars => KeptInv'
<1> SUFFICES ASSUME TypeOK, AdmissionInv, AnswersInv, KeptInv, [Next]_vars
             PROVE  KeptInv'
  OBVIOUS
<1>1. ASSUME NEW d \in Deliveries, RunAction(d) PROVE KeptInv'
  <2> USE DEF tables, history
  <2>0. stage[d] \in {"spawned", "registered", "checked"} => ~Current(d)
    BY DEF Current, AdmissionInv, AdmittedAreBeyond, Beyond
  <2>1. CASE RefuseRunning(d) \/ FailChecks(d) \/ Replay(d) \/ RefuseOutOfOrder(d)
    <3>1. /\ ~Current(d)
          /\ UNCHANGED <<completed, frame, incarnation, born, admitted>>
          /\ \A x \in Deliveries : x # d => observation'[x] = observation[x]
      BY <2>0, <2>1 DEF RefuseRunning, FailChecks, Replay, RefuseOutOfOrder,
                        Unanswered, Conclude, TypeOK
    <3>2. QED
      BY <3>1, KeptElsewhere
  <2>2. CASE Admit(d)
    <3>1. /\ UNCHANGED <<completed, frame, observation, incarnation, born>>
          /\ admitted' = admitted \cup {d}
          /\ observation[d] = Absent
      BY <2>2 DEF Admit, Start, Unanswered, AnswersInv, SilentUntilFinished
    <3>2. Settled' = Settled
      BY <3>1 DEF Settled, Current
    <3>3. QED
      BY <3>1, <3>2, KeptFrame
  <2>3. CASE Withhold(d) \/ Finish(d)
    BY <2>3, KeptSettle DEF Withhold, Finish, Outcomes
  <2>4. CASE Register(d) \/ PassChecks(d) \/ Perform(d) \/ Reply(d) \/ Cleanup(d)
    <3>1. UNCHANGED <<completed, frame, observation, incarnation, born, admitted>>
      BY <2>4 DEF Register, PassChecks, Perform, Reply, Cleanup
    <3>2. QED
      BY <3>1, KeptFrame DEF Settled, Current
  <2>5. QED
    BY <1>1, <2>1, <2>2, <2>3, <2>4 DEF RunAction
<1>2. CASE UNCHANGED vars
  BY <1>2, KeptFrame DEF vars, goroutines, tables, history, Settled, Current
<1>3. QED
  BY <1>1, <1>2, KeptEnvironment DEF Next

\* Unless more keys were settled in this life than the table holds, the outcome
\* of each of them is there to be replayed.
THEOREM OutcomesStay == Spec => []OutcomesKept
<1>1. KeptInv => OutcomesKept
  BY DEF KeptInv
<1>2. QED
  BY <1>1, KeptInit, KeptStep, TypeCorrect, AdmissionAlways, AnswersAlways, PTL
     DEF Spec

-----------------------------------------------------------------------------
(* What a patient control plane is refused *)

\* The strengthening: what was heard was sent by a goroutine with a frame, and
\* the first process was never sent a step beyond the next one of its task.
BornUpToNow == \A d \in Deliveries : born[d] <= incarnation
HeardWereStarted == \A d \in heard : stage[d] # "unused"
NoStepAhead ==
    KeysNameSteps /\ Sequential /\ incarnation = 0 =>
        \A d \in Deliveries :
            stage[d] # "unused" =>
                frame[d].seq <= sequences[frame[d].task] + 1

PatientInv ==
    /\ BornUpToNow
    /\ HeardWereStarted
    /\ NoStepAhead
    /\ RefusedOnlyIfStarted

\* Nothing was sent and nobody refused at first.
LEMMA PatientInit == Init => PatientInv
BY DEF Init, PatientInv, BornUpToNow, HeardWereStarted, NoStepAhead,
       RefusedOnlyIfStarted, Absent

\* A goroutine has no refusal yet and gets no refusal for its order, or it gets
\* one for a step that is not the next one.
LEMMA PatientMove ==
    ASSUME TypeOK, PatientInv, NEW d \in Deliveries, NEW next \in Stages,
           MoveTo(d, next), next # "unused", stage[d] # "unused",
           UNCHANGED <<frame, sequences, incarnation, born>>,
           heard' \subseteq heard \cup {d},
           \A x \in Deliveries :
               \/ observation'[x] = observation[x]
               \/ observation'[x].status # "out_of_order"
               \/ x = d /\ frame[d].seq # sequences[frame[d].task] + 1
    PROVE  PatientInv'
<1>1. BornUpToNow' /\ HeardWereStarted'
  BY DEF PatientInv, BornUpToNow, HeardWereStarted, MoveTo, TypeOK
<1>2. NoStepAhead'
  BY DEF PatientInv, NoStepAhead, MoveTo, TypeOK, KeysNameSteps
<1>3. /\ frame[d].task \in Tasks
      /\ frame[d].seq \in Int
      /\ sequences[frame[d].task] \in Nat
  BY StartedFrame DEF TypeOK
<1>4. RefusedOnlyIfStarted'
  BY <1>3 DEF PatientInv, NoStepAhead, RefusedOnlyIfStarted, KeysNameSteps
<1>5. QED
  BY <1>1, <1>2, <1>4 DEF PatientInv

\* The step after one that was heard of is the next one of its task at most:
\* an outcome that is heard of belongs to the step of the frame it answers.
LEMMA PatientReceive ==
    ASSUME TypeOK, AdmissionInv, AnswersInv, PatientInv,
           NEW d \in Deliveries, NEW e \in Envelopes, ReceiveAction(d, e)
    PROVE  PatientInv'
<1>1. /\ stage[d] = "unused"
      /\ stage' = [stage EXCEPT ![d] = "spawned"]
      /\ frame' = [frame EXCEPT ![d] = e]
      /\ born' = [born EXCEPT ![d] = incarnation]
      /\ UNCHANGED <<observation, sequences, incarnation, heard>>
      /\ Sequential => PredecessorHeard(e)
  BY DEF ReceiveAction, tables
<1>2. BornUpToNow' /\ HeardWereStarted'
  BY <1>1 DEF PatientInv, BornUpToNow, HeardWereStarted, TypeOK
<1>3. /\ e.task \in Tasks
      /\ e.seq \in Int
      /\ sequences[e.task] \in Nat
  BY EnvelopesAssumption DEF Envelope, TypeOK
<1>4. ASSUME KeysNameSteps, Sequential, incarnation = 0
      PROVE  e.seq <= sequences[e.task] + 1
  <2>1. CASE e.seq <= 1
    BY <1>3, <2>1
  <2>2. CASE e.seq > 1
    <3>1. PICK x \in heard : /\ frame[x].task = e.task
                             /\ frame[x].seq = e.seq - 1
                             /\ observation[x].status \in Outcomes
      BY <1>1, <1>3, <1>4, <2>2 DEF PredecessorHeard
    <3>2. /\ x \in Deliveries
          /\ stage[x] # "unused"
          /\ born[x] = 0
      BY <1>4, <3>1 DEF PatientInv, HeardWereStarted, BornUpToNow, TypeOK
    <3> DEFINE y == observation[x].by
    <3>3. /\ y \in admitted
          /\ born[y] = incarnation
          /\ frame[y].key = frame[x].key
      BY <1>4, <3>1, <3>2 DEF AnswersInv, AnswersAreGenuine, Genuine
    <3>4. frame[x] \in Envelopes /\ frame[y] \in Envelopes
      BY <3>2, <3>3, StartedFrame DEF AdmissionInv, AdmittedAreBeyond, Beyond,
                                      TypeOK
    <3>5. frame[y].task = e.task /\ frame[y].seq = e.seq - 1
      BY <1>4, <3>1, <3>3, <3>4 DEF KeysNameSteps
    <3>6. frame[y].seq \in 1 .. sequences[frame[y].task]
      BY <3>3 DEF AdmissionInv, StartedUpToSequence
    <3>7. QED
      BY <1>3, <3>5, <3>6
  <2>3. QED
    BY <1>3, <2>1, <2>2
<1>5. NoStepAhead'
  BY <1>1, <1>4 DEF PatientInv, NoStepAhead, KeysNameSteps, TypeOK
<1>6. observation[d].status # "out_of_order"
  BY <1>1 DEF AnswersInv, SilentUntilFinished, Absent
<1>7. RefusedOnlyIfStarted'
  BY <1>1, <1>6 DEF PatientInv, RefusedOnlyIfStarted, KeysNameSteps, TypeOK
<1>8. QED
  BY <1>2, <1>5, <1>7 DEF PatientInv

\* A step that starts takes its task further.
LEMMA PatientAdmit ==
    ASSUME TypeOK, AnswersInv, PatientInv, NEW d \in Deliveries, Admit(d)
    PROVE  PatientInv'
<1>1. /\ stage[d] = "checked"
      /\ frame[d].task \in Tasks
      /\ frame[d].seq = sequences[frame[d].task] + 1
      /\ stage' = [stage EXCEPT ![d] = "admitted"]
      /\ sequences' = [sequences EXCEPT ![frame[d].task] = frame[d].seq]
      /\ UNCHANGED <<frame, observation, incarnation, born, heard>>
  BY StartedFrame DEF Admit, Unanswered, Start, MoveTo
<1>2. \A t \in Tasks : /\ sequences[t] \in Nat
                       /\ sequences'[t] \in Nat
                       /\ sequences[t] <= sequences'[t]
  BY <1>1 DEF TypeOK
<1>3. \A x \in Deliveries :
          stage[x] # "unused" => frame[x].task \in Tasks /\ frame[x].seq \in Int
  BY StartedFrame
<1>4. \A x \in Deliveries : stage'[x] # "unused" => stage[x] # "unused"
  BY <1>1 DEF TypeOK
<1>5. BornUpToNow' /\ HeardWereStarted'
  BY <1>1 DEF PatientInv, BornUpToNow, HeardWereStarted, TypeOK
<1>6. NoStepAhead'
  BY <1>1, <1>2, <1>3, <1>4 DEF PatientInv, NoStepAhead, KeysNameSteps
<1>7. RefusedOnlyIfStarted'
  <2> SUFFICES ASSUME KeysNameSteps, Sequential, incarnation = 0,
                      NEW x \in Deliveries,
                      observation[x].status = "out_of_order"
               PROVE  frame[x].seq <= sequences'[frame[x].task]
    BY <1>1 DEF RefusedOnlyIfStarted, KeysNameSteps
  <2>1. frame[x].seq <= sequences[frame[x].task]
    BY DEF PatientInv, RefusedOnlyIfStarted
  <2>2. stage[x] # "unused"
    BY DEF AnswersInv, SilentUntilFinished, Absent
  <2>3. QED
    BY <1>2, <1>3, <2>1, <2>2
<1>8. QED
  BY <1>5, <1>6, <1>7 DEF PatientInv

\* PatientInv is inductive: one case per action.
LEMMA PatientStep ==
    TypeOK /\ AdmissionInv /\ AnswersInv /\ PatientInv /\ [Next]_vars
        => PatientInv'
<1> SUFFICES ASSUME TypeOK, AdmissionInv, AnswersInv, PatientInv, [Next]_vars
             PROVE  PatientInv'
  OBVIOUS
<1> USE DEF tables, history
<1>1. CASE Environment
  <2>1. CASE Restart
    <3>1. /\ BornUpToNow' /\ HeardWereStarted'
          /\ incarnation' # 0
      BY <2>1 DEF Restart, Alive, PatientInv, BornUpToNow, HeardWereStarted,
                  TypeOK
    <3>2. QED
      BY <3>1 DEF PatientInv, NoStepAhead, RefusedOnlyIfStarted
  <2>2. ASSUME NEW d \in Deliveries, NEW e \in Envelopes, ReceiveAction(d, e)
        PROVE  PatientInv'
    BY <2>2, PatientReceive
  <2>3. CASE \/ Connect \/ Drop \/ Stop
             \/ \E id \in ActionIDs : ReceiveCancel(id)
             \/ \E e \in Envelopes : DeadlinePasses(e)
    <3>1. UNCHANGED <<stage, frame, observation, sequences, incarnation, born,
                      heard>>
      BY <2>3 DEF Connect, Drop, Stop, ReceiveCancel, DeadlinePasses, goroutines
    <3>2. QED
      BY <3>1 DEF PatientInv, BornUpToNow, HeardWereStarted, NoStepAhead,
                  RefusedOnlyIfStarted, KeysNameSteps
  <2>4. QED
    BY <1>1, <2>1, <2>2, <2>3 DEF Environment
<1>2. ASSUME NEW d \in Deliveries, RunAction(d) PROVE PatientInv'
  <2> USE DEF Stages
  <2>1. CASE Register(d)
    BY <2>1, PatientMove DEF Register
  <2>2. CASE RefuseRunning(d)
    BY <2>2, PatientMove DEF RefuseRunning, TypeOK
  <2>3. CASE PassChecks(d)
    BY <2>3, PatientMove DEF PassChecks
  <2>4. CASE FailChecks(d)
    BY <2>4, PatientMove DEF FailChecks, Conclude, TypeOK
  <2>5. CASE Replay(d)
    <3>1. completed[frame[d].key] \in Outcome
      BY <2>5, StartedFrame DEF Replay, TypeOK
    <3>2. completed[frame[d].key].status # "out_of_order"
      BY <3>1 DEF Outcome, Outcomes
    <3>3. QED
      BY <2>5, <3>2, PatientMove DEF Replay, TypeOK
  <2>6. CASE RefuseOutOfOrder(d)
    BY <2>6, PatientMove DEF RefuseOutOfOrder, Unanswered, Conclude, TypeOK
  <2>7. CASE Admit(d)
    BY <2>7, PatientAdmit
  <2>8. ASSUME NEW status \in Outcomes, Settle(d, status),
               stage[d] \in {"admitted", "acting"}
        PROVE  PatientInv'
    BY <2>8, PatientMove DEF Settle, Conclude, Outcomes, TypeOK
  <2>9. CASE Withhold(d) \/ Finish(d)
    BY <2>8, <2>9 DEF Withhold, Finish, Outcomes
  <2>10. CASE Perform(d)
    BY <2>10, PatientMove DEF Perform
  <2>11. CASE Reply(d)
    BY <2>11, PatientMove DEF Reply
  <2>12. CASE Cleanup(d)
    BY <2>12, PatientMove DEF Cleanup
  <2>13. QED
    BY <1>2, <2>1, <2>2, <2>3, <2>4, <2>5, <2>6, <2>7, <2>9, <2>10, <2>11,
       <2>12 DEF RunAction
<1>3. CASE UNCHANGED vars
  BY <1>3 DEF vars, goroutines, PatientInv, BornUpToNow, HeardWereStarted,
              NoStepAhead, RefusedOnlyIfStarted, KeysNameSteps
<1>4. QED
  BY <1>1, <1>2, <1>3 DEF Next

\* A control plane that waits for the outcome of each step is refused none, in
\* the first process, but those that were started already.
THEOREM PatientIsServed == Spec => []RefusedOnlyIfStarted
<1>1. PatientInv => RefusedOnlyIfStarted
  BY DEF PatientInv
<1>2. QED
  BY <1>1, PatientInit, PatientStep, TypeCorrect, AdmissionAlways,
     AnswersAlways, PTL DEF Spec

-----------------------------------------------------------------------------
(* The refinement of ActionLedger *)

\* The goroutines that started step n of task t in this life, of which there is
\* at most one, and the entry of the log such a goroutine stands for.
Runs(t, n) == {x \in admitted : Current(x) /\ StepOf(x) = <<t, n>>}
Entry(d) == IF stage[d] \in {"admitted", "acting"} THEN "running"
                                                   ELSE observation[d].status

\* Every number up to the sequence of a task belongs to the run of one
\* goroutine, which is what the log says of it.
LEMMA EntryOfStep ==
    ASSUME TypeOK, AdmissionInv, NEW d \in admitted, Current(d)
    PROVE  /\ frame[d].task \in Tasks
           /\ frame[d].seq \in 1 .. sequences[frame[d].task]
           /\ Runs(frame[d].task, frame[d].seq) = {d}
           /\ OutcomeOf(frame[d].task, frame[d].seq) = Entry(d)
<1> DEFINE t == frame[d].task
           n == frame[d].seq
<1>1. t \in Tasks /\ n \in 1 .. sequences[t]
  BY StartedFrame DEF AdmissionInv, AdmittedAreBeyond, StartedUpToSequence,
                      Beyond, Current, TypeOK
<1>2. Runs(t, n) = {d}
  BY DEF Runs, StepOf, AdmissionInv, AtMostOncePerStep, SameLife, Current
<1>3. (CHOOSE x \in Runs(t, n) : TRUE) = d
  BY <1>2
<1>4. OutcomeOf(t, n) = Entry(d)
  BY <1>2, <1>3 DEF OutcomeOf, Runs, Entry
<1>5. QED
  BY <1>1, <1>2, <1>4

LEMMA StepOfEntry ==
    ASSUME TypeOK, AdmissionInv, NEW t \in Tasks, NEW n \in 1 .. sequences[t]
    PROVE  \E d \in admitted : /\ Current(d)
                               /\ frame[d].task = t
                               /\ frame[d].seq = n
                               /\ OutcomeOf(t, n) = Entry(d)
<1>1. PICK d \in admitted : born[d] = incarnation /\ StepOf(d) = <<t, n>>
  BY DEF AdmissionInv, SequenceWasStarted
<1>2. Current(d) /\ frame[d].task = t /\ frame[d].seq = n
  BY <1>1 DEF Current, StepOf
<1>3. QED
  BY <1>2, EntryOfStep

\* A step that starts nothing and changes no entry leaves the log as it is.
LEMMA LogFrame ==
    ASSUME TypeOK, AdmissionInv,
           UNCHANGED <<sequences, incarnation, admitted>>,
           \A x \in admitted : /\ frame'[x] = frame[x]
                               /\ born'[x] = born[x]
                               /\ Current(x) => Entry(x)' = Entry(x)
    PROVE  Log' = Log
<1>1. ASSUME NEW t \in Tasks, NEW n \in 1 .. sequences[t]
      PROVE  OutcomeOf(t, n)' = OutcomeOf(t, n)
  <2>1. PICK d \in admitted : /\ Current(d)
                              /\ frame[d].task = t
                              /\ frame[d].seq = n
                              /\ OutcomeOf(t, n) = Entry(d)
    BY StepOfEntry
  <2>2. Runs(t, n) = {d}
    BY <2>1, EntryOfStep
  <2>3. Runs(t, n)' = Runs(t, n)
    BY DEF Runs, Current, StepOf
  <2>4. (CHOOSE x \in Runs(t, n)' : TRUE) = d
    BY <2>2, <2>3
  <2>5. OutcomeOf(t, n)' = Entry(d)'
    BY <2>2, <2>3, <2>4 DEF OutcomeOf, Runs, Entry
  <2>6. QED
    BY <2>1, <2>5
<1>2. QED
  BY <1>1 DEF Log

\* Settling a step replaces its entry, which was "running", and no other.
LEMMA LogSettle ==
    ASSUME TypeOK, AdmissionInv, AnswersInv, NEW d \in Deliveries,
           stage[d] \in {"admitted", "acting"},
           NEW status \in Outcomes, Settle(d, status)
    PROVE  Ledger!Next
<1> DEFINE t == frame[d].task
           n == frame[d].seq
<1>1. /\ d \in admitted
      /\ Current(d)
      /\ Entry(d) = "running"
  BY DEF AnswersInv, ActingAreAdmitted, AdmissionInv, LiveAreCurrent, Alive,
         Current, Entry
<1>2. /\ stage' = [stage EXCEPT ![d] = "finished"]
      /\ observation' = [observation EXCEPT ![d] = [status |-> status, by |-> d]]
      /\ UNCHANGED <<frame, sequences, incarnation, born, admitted>>
  BY DEF Settle, Conclude, MoveTo, history
<1>3. /\ t \in Tasks
      /\ n \in 1 .. sequences[t]
      /\ OutcomeOf(t, n) = "running"
      /\ Runs(t, n) = {d}
  BY <1>1, EntryOfStep
<1>4. Entry(d)' = status
  BY <1>2 DEF Entry, TypeOK
<1>5. ASSUME NEW u \in Tasks, NEW m \in 1 .. sequences[u]
      PROVE  OutcomeOf(u, m)' = IF u = t /\ m = n THEN status
                                                  ELSE OutcomeOf(u, m)
  <2>1. PICK x \in admitted : /\ Current(x)
                              /\ frame[x].task = u
                              /\ frame[x].seq = m
                              /\ OutcomeOf(u, m) = Entry(x)
    BY StepOfEntry
  <2>2. Runs(u, m) = {x}
    BY <2>1, EntryOfStep
  <2>3. Runs(u, m)' = Runs(u, m)
    BY <1>2 DEF Runs, Current, StepOf
  <2>4. (CHOOSE y \in Runs(u, m)' : TRUE) = x
    BY <2>2, <2>3
  <2>5. OutcomeOf(u, m)' = Entry(x)'
    BY <2>2, <2>3, <2>4 DEF OutcomeOf, Runs, Entry
  <2>6. x = d <=> u = t /\ m = n
    BY <1>3, <2>1, <2>2
  <2>7. x # d => Entry(x)' = Entry(x)
    BY <1>2 DEF Entry, TypeOK
  <2>8. QED
    BY <1>4, <2>1, <2>5, <2>6, <2>7
<1>6. Log' = [Log EXCEPT ![t][n] = status]
  <2>1. Log' = [u \in Tasks |-> [m \in 1 .. sequences[u] |->
                  IF u = t /\ m = n THEN status ELSE OutcomeOf(u, m)]]
    BY <1>2, <1>5 DEF Log
  <2>2. \A u \in Tasks \ {t} : Log'[u] = Log[u]
    BY <2>1 DEF Log
  <2>3. Log'[t] = [Log[t] EXCEPT ![n] = status]
    <3>1. Log[t] = [m \in 1 .. sequences[t] |-> OutcomeOf(t, m)]
      BY <1>3 DEF Log
    <3>2. Log'[t] = [m \in 1 .. sequences[t] |->
                        IF m = n THEN status ELSE OutcomeOf(t, m)]
      BY <1>3, <2>1
    <3>3. QED
      BY <3>1, <3>2
  <2>4. QED
    BY <1>3, <2>1, <2>2, <2>3 DEF Log
<1>7. n \in DOMAIN Log[t] /\ Log[t][n] = "running"
  BY <1>3 DEF Log
<1>8. Ledger!Settle(t, n, status)
  BY <1>6, <1>7 DEF Ledger!Settle
<1>9. QED
  BY <1>3, <1>7, <1>8 DEF Ledger!Next

\* Starting a step appends it to the log of its task.
LEMMA LogAdmit ==
    ASSUME TypeOK, AdmissionInv, NEW d \in Deliveries, Admit(d)
    PROVE  Ledger!Next
<1> DEFINE t == frame[d].task
           n == sequences[t]
<1>1. /\ stage[d] = "checked"
      /\ d \notin admitted
      /\ t \in Tasks
      /\ n \in Nat
      /\ frame[d].seq = n + 1
      /\ born[d] = incarnation
  BY StartedFrame DEF Admit, Unanswered, AdmissionInv, AdmittedAreBeyond,
                      LiveAreCurrent, Alive, Beyond, TypeOK
<1>2. /\ stage' = [stage EXCEPT ![d] = "admitted"]
      /\ admitted' = admitted \cup {d}
      /\ sequences' = [sequences EXCEPT ![t] = n + 1]
      /\ UNCHANGED <<frame, observation, incarnation, born>>
  BY <1>1 DEF Admit, Start, MoveTo
<1>3. Entry(d)' = "running"
  BY <1>2 DEF Entry, TypeOK
<1>4. \A u, m : Runs(u, m)' = IF u = t /\ m = n + 1 THEN Runs(u, m) \cup {d}
                                                    ELSE Runs(u, m)
  BY <1>1, <1>2 DEF Runs, Current, StepOf
<1>5. Runs(t, n + 1) = {}
  <2>1. ASSUME NEW x \in admitted, Current(x), StepOf(x) = <<t, n + 1>>
        PROVE  FALSE
    <3>1. frame[x].task = t /\ frame[x].seq = n + 1
      BY <2>1 DEF StepOf
    <3>2. QED
      BY <1>1, <2>1, <3>1 DEF Current, AdmissionInv, StartedUpToSequence
  <2>2. QED
    BY <2>1 DEF Runs
<1>6. ASSUME NEW u, NEW m, u = t, m = n + 1
      PROVE  OutcomeOf(u, m)' = "running"
  <2>1. Runs(u, m)' = {d}
    BY <1>4, <1>5, <1>6
  <2>2. (CHOOSE y \in Runs(u, m)' : TRUE) = d
    BY <2>1
  <2>3. OutcomeOf(u, m)' = Entry(d)'
    BY <2>1, <2>2 DEF OutcomeOf, Runs, Entry
  <2>4. QED
    BY <1>3, <2>3
<1>7. ASSUME NEW u \in Tasks, NEW m \in 1 .. sequences[u]
      PROVE  OutcomeOf(u, m)' = OutcomeOf(u, m)
  <2>1. PICK x \in admitted : /\ Current(x)
                              /\ frame[x].task = u
                              /\ frame[x].seq = m
                              /\ OutcomeOf(u, m) = Entry(x)
    BY StepOfEntry
  <2>2. Runs(u, m) = {x}
    BY <2>1, EntryOfStep
  <2>3. Runs(u, m)' = Runs(u, m)
    BY <1>4, <1>5, <2>2
  <2>4. (CHOOSE y \in Runs(u, m)' : TRUE) = x
    BY <2>2, <2>3
  <2>5. OutcomeOf(u, m)' = Entry(x)'
    BY <2>2, <2>3, <2>4 DEF OutcomeOf, Runs, Entry
  <2>6. Entry(x)' = Entry(x)
    BY <1>1, <1>2, <2>1 DEF Entry, TypeOK
  <2>7. QED
    BY <2>1, <2>5, <2>6
<1>8. /\ Log[t] = [m \in 1 .. n |-> OutcomeOf(t, m)]
      /\ Log'[t] = [m \in 1 .. n + 1 |-> IF m = n + 1 THEN "running"
                                                      ELSE Log[t][m]]
  <2>1. Log[t] = [m \in 1 .. n |-> OutcomeOf(t, m)]
    BY <1>1 DEF Log
  <2>2. Log'[t] = [m \in 1 .. n + 1 |-> OutcomeOf(frame[d].task, m)']
    BY <1>1, <1>2 DEF Log, TypeOK
  <2>3. ASSUME NEW m \in 1 .. n + 1
        PROVE  OutcomeOf(frame[d].task, m)'
                   = IF m = n + 1 THEN "running" ELSE Log[t][m]
    BY <1>1, <1>2, <1>6, <1>7, <2>1
  <2>4. QED
    BY <2>1, <2>2, <2>3
<1>9. Log'[t] = Append(Log[t], "running")
  <2> DEFINE S == {OutcomeOf(t, m) : m \in 1 .. n} \cup {"running"}
             old == [m \in 1 .. n |-> OutcomeOf(t, m)]
  <2>1. old \in Seq(S) /\ Len(old) = n
    BY <1>1
  <2>2. [m \in 1 .. n + 1 |-> IF m = n + 1 THEN "running" ELSE old[m]]
            = Append(old, "running")
    <3> DEFINE new == [m \in 1 .. n + 1 |-> IF m = n + 1 THEN "running" ELSE old[m]]
    <3> HIDE DEF S, old
    <3>1. "running" \in S
      BY DEF S
    <3>2. new \in Seq(S) /\ Len(new) = n + 1
      <4>1. n \in Nat /\ n + 1 \in Nat
        BY <1>1
      <4>2. \A m \in 1 .. n + 1 : m # n + 1 => old[m] \in S
        BY <2>1, <4>1
      <4>3. new \in [1 .. n + 1 -> S]
        BY <3>1, <4>2
      <4> HIDE DEF new
      <4>4. QED
        BY <4>1, <4>3
    <3>3. /\ Append(old, "running") \in Seq(S)
          /\ Len(Append(old, "running")) = n + 1
          /\ \A m \in 1 .. n : Append(old, "running")[m] = old[m]
          /\ Append(old, "running")[n + 1] = "running"
      BY <2>1, <3>1, AppendProperties
    <3>4. \A m \in 1 .. n + 1 : new[m] = Append(old, "running")[m]
      BY <1>1, <3>3
    <3> HIDE DEF new
    <3>5. new = Append(old, "running")
      BY <3>2, <3>3, <3>4, SeqEqual
    <3>6. QED
      BY <3>5 DEF new
  <2>3. QED
    BY <1>8, <2>2
<1>10. \A u \in Tasks \ {t} : Log'[u] = Log[u]
  BY <1>1, <1>2, <1>7 DEF Log, TypeOK
<1>11. Log' = [Log EXCEPT ![t] = Append(@, "running")]
  BY <1>9, <1>10 DEF Log
<1>12. QED
  BY <1>1, <1>11 DEF Ledger!Accept, Ledger!Next

\* A new process has empty logs.
LEMMA LogRestart == Restart => Ledger!Next
<1> SUFFICES ASSUME Restart PROVE Ledger!Next
  OBVIOUS
<1>1. \A t \in Tasks : sequences'[t] = 0
  BY DEF Restart
<1>2. Log' = [t \in Tasks |-> << >>]
  BY <1>1 DEF Log
<1>3. QED
  BY <1>2 DEF Ledger!Forget, Ledger!Next

\* Every step of the goroutines and their environment is a step of the ledger
\* or leaves it as it is.
LEMMA LedgerStep ==
    TypeOK /\ AdmissionInv /\ AnswersInv /\ [Next]_vars => [Ledger!Next]_Log
<1> SUFFICES ASSUME TypeOK, AdmissionInv, AnswersInv, [Next]_vars
             PROVE  Ledger!Next \/ Log' = Log
  OBVIOUS
<1> USE DEF tables, history
<1>0. admitted \subseteq Deliveries
  BY DEF TypeOK
<1>1. CASE Environment
  <2>1. CASE Restart
    BY <2>1, LogRestart
  <2>2. ASSUME NEW d \in Deliveries, NEW e \in Envelopes, ReceiveAction(d, e)
        PROVE  Log' = Log
    <3>1. d \notin admitted
      BY <2>2 DEF ReceiveAction, AdmissionInv, AdmittedAreBeyond, Beyond
    <3>2. /\ UNCHANGED <<sequences, incarnation, admitted, observation>>
          /\ \A x \in admitted : /\ frame'[x] = frame[x]
                                 /\ born'[x] = born[x]
                                 /\ stage'[x] = stage[x]
      BY <1>0, <2>2, <3>1 DEF ReceiveAction, TypeOK
    <3>3. QED
      BY <3>2, LogFrame DEF Entry
  <2>3. CASE \/ Connect \/ Drop \/ Stop
             \/ \E id \in ActionIDs : ReceiveCancel(id)
             \/ \E e \in Envelopes : DeadlinePasses(e)
    <3>1. UNCHANGED <<stage, frame, observation, sequences, incarnation, born,
                      admitted>>
      BY <2>3 DEF Connect, Drop, Stop, ReceiveCancel, DeadlinePasses, goroutines
    <3>2. QED
      BY <3>1, LogFrame DEF Entry
  <2>4. QED
    BY <1>1, <2>1, <2>2, <2>3 DEF Environment
<1>2. ASSUME NEW d \in Deliveries, RunAction(d)
      PROVE  Ledger!Next \/ Log' = Log
  <2>0. stage[d] \in {"spawned", "registered", "checked"} => d \notin admitted
    BY DEF AdmissionInv, AdmittedAreBeyond, Beyond
  <2>1. CASE Admit(d)
    BY <2>1, LogAdmit
  <2>2. CASE Withhold(d) \/ Finish(d)
    BY <2>2, LogSettle DEF Withhold, Finish, Outcomes
  <2>3. CASE \/ Register(d) \/ RefuseRunning(d) \/ PassChecks(d) \/ FailChecks(d)
             \/ Replay(d) \/ RefuseOutOfOrder(d)
    <3>1. /\ d \notin admitted
          /\ UNCHANGED <<frame, sequences, incarnation, born, admitted>>
          /\ \A x \in Deliveries \ {d} : /\ stage'[x] = stage[x]
                                         /\ observation'[x] = observation[x]
      BY <2>0, <2>3 DEF Register, RefuseRunning, PassChecks, FailChecks, Replay,
                        RefuseOutOfOrder, Unanswered, Conclude, MoveTo, TypeOK
    <3>2. \A x \in admitted : Entry(x)' = Entry(x)
      BY <1>0, <3>1 DEF Entry
    <3>3. QED
      BY <3>1, <3>2, LogFrame
  <2>4. CASE Perform(d) \/ Reply(d) \/ Cleanup(d)
    <3>1. /\ UNCHANGED <<frame, observation, sequences, incarnation, born,
                         admitted>>
          /\ \A x \in Deliveries \ {d} : stage'[x] = stage[x]
          /\ stage[d] \in {"admitted", "acting"}
                 <=> stage'[d] \in {"admitted", "acting"}
      BY <2>4 DEF Perform, Reply, Cleanup, MoveTo, TypeOK
    <3>2. \A x \in admitted : Entry(x)' = Entry(x)
      BY <1>0, <3>1 DEF Entry
    <3>3. QED
      BY <3>1, <3>2, LogFrame
  <2>5. QED
    BY <1>2, <2>1, <2>2, <2>3, <2>4 DEF RunAction
<1>3. CASE UNCHANGED vars
  BY <1>3, LogFrame DEF vars, goroutines, Entry
<1>4. QED
  BY <1>1, <1>2, <1>3 DEF Next

\* The goroutines and the tables under the lock keep the log that ActionLedger
\* promises: every step is appended once, in order, and settled at most once.
THEOREM ActionsAreLogged == Spec => ImplementsLedger
<1>1. Init => Ledger!Init
  <2> SUFFICES ASSUME Init PROVE Log = [t \in Tasks |-> << >>]
    BY DEF Ledger!Init
  <2>1. \A t \in Tasks : sequences[t] = 0
    BY DEF Init
  <2>2. QED
    BY <2>1 DEF Log
<1>2. QED
  BY <1>1, LedgerStep, TypeCorrect, AdmissionAlways, AnswersAlways, PTL
     DEF Spec, ImplementsLedger, Ledger!Spec

-----------------------------------------------------------------------------
(* Coming to an end *)

\* The steps a goroutine has at most before it, by the point it has reached.
StepsFrom(point) ==
    IF point = "spawned" THEN 7
    ELSE IF point = "registered" THEN 6
    ELSE IF point = "checked" THEN 5
    ELSE IF point = "admitted" THEN 4
    ELSE IF point = "acting" THEN 3
    ELSE IF point = "finished" THEN 2
    ELSE IF point \in {"refused", "replied"} THEN 1
    ELSE 0

StepsLeft(d) == StepsFrom(stage[d])

\* Every step of a goroutine leaves it fewer.
LEMMA RunActionMovesOn ==
    ASSUME TypeOK, NEW d \in Deliveries, RunAction(d)
    PROVE  StepsLeft(d)' < StepsLeft(d)
<1> USE DEF StepsLeft, StepsFrom, MoveTo
<1>0. stage \in [Deliveries -> Stages]
  BY DEF TypeOK
<1>1. CASE Register(d) \/ RefuseRunning(d)
  BY <1>0, <1>1 DEF Register, RefuseRunning
<1>2. CASE PassChecks(d) \/ FailChecks(d)
  BY <1>0, <1>2 DEF PassChecks, FailChecks, Conclude
<1>3. CASE Replay(d) \/ RefuseOutOfOrder(d) \/ Admit(d)
  BY <1>0, <1>3 DEF Replay, RefuseOutOfOrder, Admit, Start, Unanswered, Conclude
<1>4. CASE Withhold(d) \/ Perform(d)
  BY <1>0, <1>4 DEF Withhold, Perform, Settle, Conclude
<1>5. CASE Finish(d)
  BY <1>0, <1>5 DEF Finish, Settle, Conclude
<1>6. CASE Reply(d) \/ Cleanup(d)
  BY <1>0, <1>6 DEF Reply, Cleanup
<1>7. QED
  BY <1>1, <1>2, <1>3, <1>4, <1>5, <1>6 DEF RunAction

\* A step of a goroutine moves no other.
LEMMA RunActionMovesOne ==
    ASSUME TypeOK, NEW d \in Deliveries, RunAction(d),
           NEW x \in Deliveries, x # d
    PROVE  stage'[x] = stage[x]
<1>1. PICK next : MoveTo(d, next)
  BY DEF RunAction, Register, RefuseRunning, PassChecks, FailChecks, Replay,
         RefuseOutOfOrder, Admit, Start, Withhold, Perform, Finish, Reply,
         Cleanup, Settle, Conclude
<1>2. QED
  BY <1>1 DEF MoveTo, TypeOK

\* The environment moves a goroutine that runs only by ending the process.
LEMMA EnvironmentMovesNone ==
    ASSUME TypeOK, Environment, NEW d \in Deliveries, Alive(d)
    PROVE  stage'[d] = stage[d] \/ stage'[d] = "dead"
<1>1. CASE Restart
  BY <1>1 DEF Restart, TypeOK
<1>2. ASSUME NEW x \in Deliveries, NEW e \in Envelopes, ReceiveAction(x, e)
      PROVE  stage'[d] = stage[d]
  BY <1>2 DEF ReceiveAction, Alive, TypeOK
<1>3. CASE \/ Connect \/ Drop \/ Stop
           \/ \E id \in ActionIDs : ReceiveCancel(id)
           \/ \E e \in Envelopes : DeadlinePasses(e)
  BY <1>3 DEF Connect, Drop, Stop, ReceiveCancel, DeadlinePasses, goroutines
<1>4. QED
  BY <1>1, <1>2, <1>3 DEF Environment

\* A goroutine ends after at most seven steps of its own, whatever the control
\* plane, the connection, the clock and the other goroutines do meanwhile: they
\* neither take it back nor move it, except that the process may end with it
\* (runAction, execute).
THEOREM GoroutinesMoveOn ==
    Spec => /\ [](\A d \in Deliveries : StepsLeft(d) \in 0 .. 7)
            /\ [][\A d \in Deliveries :
                    Alive(d) =>
                        IF RunAction(d) THEN StepsLeft(d)' < StepsLeft(d)
                        ELSE \/ StepsLeft(d)' = StepsLeft(d)
                             \/ stage'[d] = "dead"]_vars
<1>1. TypeOK => \A d \in Deliveries : StepsLeft(d) \in 0 .. 7
  BY DEF StepsLeft, StepsFrom
<1>2. TypeOK /\ [Next]_vars =>
        [\A d \in Deliveries :
            Alive(d) =>
                IF RunAction(d) THEN StepsLeft(d)' < StepsLeft(d)
                ELSE \/ StepsLeft(d)' = StepsLeft(d)
                     \/ stage'[d] = "dead"]_vars
  <2> SUFFICES ASSUME TypeOK, Next, NEW d \in Deliveries, Alive(d)
               PROVE  IF RunAction(d) THEN StepsLeft(d)' < StepsLeft(d)
                      ELSE \/ StepsLeft(d)' = StepsLeft(d)
                           \/ stage'[d] = "dead"
    OBVIOUS
  <2>1. CASE RunAction(d)
    BY <2>1, RunActionMovesOn
  <2>2. CASE ~RunAction(d)
    <3>1. stage'[d] = stage[d] \/ stage'[d] = "dead"
      BY <2>2, RunActionMovesOne, EnvironmentMovesNone DEF Next
    <3>2. stage'[d] = stage[d] => StepsLeft(d)' = StepsLeft(d)
      BY DEF StepsLeft
    <3>3. QED
      BY <2>2, <3>1, <3>2
  <2>3. QED
    BY <2>1, <2>2
<1>3. QED
  BY <1>1, <1>2, TypeCorrect, PTL DEF Spec

=============================================================================
