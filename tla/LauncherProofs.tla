--------------------------- MODULE LauncherProofs ---------------------------
(***************************************************************************)
(* Proofs about Launcher, for any number of requests, services, packages   *)
(* and releases, without the bounds of the runs.                           *)
(***************************************************************************)
EXTENDS Launcher, FiniteSetTheorems, TLAPS

-----------------------------------------------------------------------------
(* The inductive invariant *)

Serving == {"starting", "health", "running", "comparing", "restarting"}

\* The exits that wait are those of different processes, which have ended; a
\* process that has ended and is still in the map has its exit there.
ExitsKept ==
    /\ \A i, j \in 1 .. Len(exits) : exits[i] = exits[j] => i = j
    /\ \A i \in 1 .. Len(exits) : process[exits[i]] # "up"
    /\ stage \in Serving =>
           \A i \in 1 .. Len(exits) : process[exits[i]] = "ended"
    /\ \A s \in Service : process[s] = "ended" =>
           \E i \in 1 .. Len(exits) : exits[i] = s

\* Which services have a process where the loop is.
Processes ==
    /\ orphans = {}
    /\ stage \in {"prepare", "deciding", "installing", "failed", "done"} =>
           Stopped
    /\ stage \in {"starting", "health"} =>
           \A s \in Service : s > current => process[s] = "none"
    /\ stage = "starting" => current # 0
    /\ stage = "starting" =>
           \A s \in Service :
               /\ s = current => process[s] = "none"
               /\ s < current /\ ~remoteMode => process[s] # "none"
    /\ stage = "health" =>
           /\ current \in Service /\ ~remoteMode
           /\ \A s \in Service : s <= current => process[s] # "none"
    /\ stage \in {"running", "comparing", "restarting"} /\ ~remoteMode =>
           \A s \in Service : process[s] # "none"

\* The release runManaged goes by once it has chosen one; what it may fall back
\* to is complete.
Chosen ==
    /\ stage \in {"deciding", "installing"} => manifest \in Version
    /\ stage = "deciding" /\ deferrable => Usable

\* The requests and the loop pass on approvals that were not used yet.
Pending == {r \in Requests : request[r] \in {"approved", "apply"}}
Token(b) == IF b THEN 1 ELSE 0
LoopHolds ==
    \/ stage = "stopping" /\ result = "update"
    \/ stage = "prepare" /\ approved
    \/ stage = "installing" /\ Differs(Compared, manifest)
Used == updates + Token("apply" \in signals) + Token(LoopHolds)
ApprovalsSuffice == desktop => Used + Cardinality(Pending) <= approvals

Inv ==
    /\ Values
    /\ ExitsKept
    /\ Processes
    /\ Chosen
    /\ ApprovalsSuffice
    /\ OffersAreShown

-----------------------------------------------------------------------------
(* The exits and the processes *)

\* A process that ends keeps the exits: its exit was not waiting before.
LEMMA EndKeepsExits ==
    ASSUME Values, ExitsKept, NEW s \in Service, End(s), UNCHANGED stage
    PROVE  ExitsKept'
<1>1. /\ process \in [Service -> {"none", "up", "ended"}]
      /\ exits \in Seq(Service)
  BY DEF Values, SupervisorType
<1>2. /\ exits' = Append(exits, s)
      /\ process' = [process EXCEPT ![s] = "ended"]
      /\ process[s] = "up"
  BY DEF End
<1>3. /\ Len(exits') = Len(exits) + 1
      /\ exits'[Len(exits) + 1] = s
      /\ \A i \in 1 .. Len(exits) : exits'[i] = exits[i] /\ exits[i] \in Service
  BY <1>1, <1>2
<1>4. \A i \in 1 .. Len(exits) : exits[i] # s
  BY <1>2 DEF ExitsKept
<1>5. \A i \in 1 .. Len(exits') : i \in 1 .. Len(exits) \/ i = Len(exits) + 1
  BY <1>1, <1>3
<1>6. \A i, j \in 1 .. Len(exits') : exits'[i] = exits'[j] => i = j
  BY <1>3, <1>4, <1>5 DEF ExitsKept
<1>7. \A i \in 1 .. Len(exits') : process'[exits'[i]] # "up"
  BY <1>1, <1>2, <1>3, <1>4, <1>5 DEF ExitsKept
<1>8. stage' \in Serving => \A i \in 1 .. Len(exits') : process'[exits'[i]] = "ended"
  BY <1>1, <1>2, <1>3, <1>4, <1>5 DEF ExitsKept
<1>9. \A t \in Service : process'[t] = "ended" =>
          \E i \in 1 .. Len(exits') : exits'[i] = t
  <2> SUFFICES ASSUME NEW t \in Service, process'[t] = "ended"
               PROVE  \E i \in 1 .. Len(exits') : exits'[i] = t
    OBVIOUS
  <2>1. CASE t = s
    <3>1. Len(exits) + 1 \in 1 .. Len(exits')
      BY <1>1, <1>3
    <3>2. QED
      BY <2>1, <3>1, <1>3
  <2>2. CASE t # s
    <3>1. PICK i \in 1 .. Len(exits) : exits[i] = t
      BY <2>2, <1>1, <1>2 DEF ExitsKept
    <3>2. i \in 1 .. Len(exits') /\ exits'[i] = t
      BY <3>1, <1>1, <1>3
    <3>3. QED
      BY <3>2
  <2>3. QED
    BY <2>1, <2>2
<1>10. QED
  BY <1>6, <1>7, <1>8, <1>9 DEF ExitsKept

\* An exit is consumed by the restart of its service, which was not running.
LEMMA RestartKeepsExits ==
    ASSUME Values, ExitsKept, Processes, RunExit
    PROVE  ExitsKept' /\ Processes'
<1> DEFINE s == Head(exits)
<1>1. /\ process \in [Service -> {"none", "up", "ended"}]
      /\ exits \in Seq(Service)
      /\ exits # << >>
      /\ stage = "running" /\ stage' = "restarting"
      /\ remoteMode' = remoteMode
  BY DEF Values, SupervisorType, RunExit, Selects, Goto, settings
<1>2. /\ exits' = Tail(exits)
      /\ process' = [process EXCEPT ![s] = "up"]
      /\ orphans' = IF process[s] = "up" THEN orphans \cup {s} ELSE orphans
  BY DEF RunExit, Launch
<1>3. /\ s \in Service /\ s = exits[1]
      /\ Len(exits) >= 1 /\ Len(exits') = Len(exits) - 1
      /\ \A i \in 1 .. Len(exits') : /\ exits'[i] = exits[i + 1]
                                   /\ i + 1 \in 1 .. Len(exits)
                                   /\ exits'[i] \in Service
  BY <1>1, <1>2
<1>4. process[s] = "ended"
  BY <1>1, <1>3 DEF ExitsKept, Serving
<1>5. \A i \in 1 .. Len(exits') : exits'[i] # s
  <2> TAKE i \in 1 .. Len(exits')
  <2>1. i + 1 \in 1 .. Len(exits) /\ 1 \in 1 .. Len(exits) /\ i + 1 # 1
    BY <1>1, <1>3
  <2>2. QED
    BY <2>1, <1>3 DEF ExitsKept
<1>6. \A i, j \in 1 .. Len(exits') : exits'[i] = exits'[j] => i = j
  <2> TAKE i, j \in 1 .. Len(exits')
  <2>1. exits[i + 1] = exits[j + 1] => i + 1 = j + 1
    BY <1>3 DEF ExitsKept
  <2>2. QED
    BY <2>1, <1>3
<1>7. \A i \in 1 .. Len(exits') : process'[exits'[i]] = "ended"
  <2> TAKE i \in 1 .. Len(exits')
  <2>1. process[exits[i + 1]] = "ended"
    BY <1>1, <1>3 DEF ExitsKept, Serving
  <2>2. QED
    BY <2>1, <1>1, <1>2, <1>3, <1>5
<1>8. \A t \in Service : process'[t] = "ended" =>
          \E i \in 1 .. Len(exits') : exits'[i] = t
  <2> SUFFICES ASSUME NEW t \in Service, process'[t] = "ended"
               PROVE  \E i \in 1 .. Len(exits') : exits'[i] = t
    OBVIOUS
  <2>1. t # s /\ process[t] = "ended"
    BY <1>1, <1>2, <1>3
  <2>2. PICK i \in 1 .. Len(exits) : exits[i] = t
    BY <2>1 DEF ExitsKept
  <2>3. i # 1
    BY <2>1, <2>2, <1>3
  <2>4. i - 1 \in 1 .. Len(exits') /\ (i - 1) + 1 = i
    BY <2>3, <1>1, <1>3
  <2>5. exits'[i - 1] = t
    BY <2>2, <2>4, <1>3
  <2>6. QED
    BY <2>4, <2>5
<1>9. ExitsKept'
  BY <1>6, <1>7, <1>8 DEF ExitsKept
<1>10. Processes'
  BY <1>1, <1>2, <1>3, <1>4 DEF Processes
<1>11. QED
  BY <1>9, <1>10

\* StopAll: a process ends, or is forgotten when it has ended.
LEMMA StopKeepsExits ==
    ASSUME Values, ExitsKept, Processes, StopService
    PROVE  ExitsKept' /\ Processes'
<1>1. PICK s \in Service : Stop(s)
  BY DEF StopService
<1>2. /\ process \in [Service -> {"none", "up", "ended"}]
      /\ exits \in Seq(Service)
      /\ stage = "stopping" /\ stage' = stage
  BY DEF Values, SupervisorType, StopService, loop
<1>3. CASE End(s)
  <2>1. ExitsKept'
    BY <1>2, <1>3, EndKeepsExits
  <2>2. Processes'
    BY <1>2, <1>3 DEF Processes, End
  <2>3. QED
    BY <2>1, <2>2
<1>4. CASE ~End(s)
  <2>1. /\ process' = [process EXCEPT ![s] = "none"]
        /\ UNCHANGED <<exits, orphans>>
    BY <1>1, <1>4 DEF Stop
  <2>2. \A i \in 1 .. Len(exits) : exits[i] \in Service
    BY <1>2
  <2>3. ExitsKept'
    BY <1>2, <2>1, <2>2 DEF ExitsKept, Serving
  <2>4. Processes'
    BY <1>2, <2>1 DEF Processes
  <2>5. QED
    BY <2>3, <2>4
<1>5. QED
  BY <1>3, <1>4

\* What the loop does keeps exits and processes.
LEMMA StepKeepsExits ==
    ASSUME Values, ExitsKept, Processes, Step
    PROVE  ExitsKept' /\ Processes'
<1>1. /\ process \in [Service -> {"none", "up", "ended"}]
      /\ exits \in Seq(Service)
      /\ \A i \in 1 .. Len(exits) : exits[i] \in Service
      /\ current \in 0 .. Services + 1 /\ Services \in Nat
  BY ServicesAssumption DEF Values, SupervisorType
<1>2. CASE ReadManifest
  <2>1. UNCHANGED supervisor
    BY <1>2 DEF ReadManifest
  <2>2. QED
    BY <1>2, <2>1, <1>1 DEF ExitsKept, Processes, Stopped, Serving, supervisor,
       settings, ReadManifest, SetUpdate, Goto
<1>3. CASE DecideApply
  <2>1. UNCHANGED supervisor
    BY <1>3 DEF DecideApply, Decided
  <2>2. QED
    BY <1>3, <2>1, <1>1 DEF ExitsKept, Processes, Stopped, Serving, supervisor,
       settings, DecideApply, Decided, Take, SetUpdate, Goto
<1>4. CASE DecideDismiss
  <2>1. UNCHANGED supervisor
    BY <1>4 DEF DecideDismiss, Decided
  <2>2. QED
    BY <1>4, <2>1, <1>1 DEF ExitsKept, Processes, Stopped, Serving, supervisor,
       settings, DecideDismiss, Decided, Take, SetUpdate, Goto
<1>5. CASE Approve
  <2>1. UNCHANGED supervisor
    BY <1>5 DEF Approve, Returned
  <2>2. QED
    BY <1>5, <2>1, <1>1 DEF ExitsKept, Processes, Stopped, Serving, supervisor,
       settings, Approve, Returned, Goto
<1>6. CASE GiveUp
  <2>1. UNCHANGED supervisor
    BY <1>6 DEF GiveUp, Returned
  <2>2. QED
    BY <1>6, <2>1, <1>1 DEF ExitsKept, Processes, Stopped, Serving, supervisor,
       settings, GiveUp, Returned, Goto
<1>7. CASE Retry
  <2>1. UNCHANGED supervisor
    BY <1>7 DEF Retry
  <2>2. QED
    BY <1>7, <2>1, <1>1 DEF ExitsKept, Processes, Stopped, Serving, supervisor,
       settings, Retry, Take, Goto
<1>8. CASE Exit
  <2>1. UNCHANGED supervisor
    BY <1>8 DEF Exit
  <2>2. QED
    BY <1>8, <2>1, <1>1 DEF ExitsKept, Processes, Stopped, Serving, supervisor,
       settings, Exit, Goto
<1>9. CASE Done
  <2>1. UNCHANGED supervisor
    BY <1>9 DEF Done, Returned
  <2>2. QED
    BY <1>9, <2>1, <1>1 DEF ExitsKept, Processes, Stopped, Serving, supervisor,
       settings, Done, Returned, Goto
<1>10. CASE ManifestFails
  <2>1. UNCHANGED supervisor
    BY <1>10 DEF ManifestFails
  <2>2. QED
    BY <1>10, <2>1, <1>1 DEF ExitsKept, Processes, Stopped, Serving,
       supervisor,
       settings, ManifestFails, Fails, Leave, Goto
<1>11. CASE DecideCancelled
  <2>1. UNCHANGED supervisor
    BY <1>11 DEF DecideCancelled, Decided
  <2>2. QED
    BY <1>11, <2>1, <1>1 DEF ExitsKept, Processes, Stopped, Serving,
       supervisor,
       settings, DecideCancelled, Decided, Leave, Goto
<1>12. CASE InstallFails
  <2>1. UNCHANGED supervisor
    BY <1>12 DEF InstallFails
  <2>2. QED
    BY <1>12, <2>1, <1>1 DEF ExitsKept, Processes, Stopped, Serving,
       supervisor,
       settings, InstallFails, Fails, Leave, Goto
<1>13. CASE StartFails
  <2>1. UNCHANGED supervisor
    BY <1>13 DEF StartFails
  <2>2. QED
    BY <1>13, <2>1, <1>1 DEF ExitsKept, Processes, Stopped, Serving,
       supervisor,
       settings, StartFails, Fails, Leave, Goto
<1>14. CASE RunCancelled
  <2>1. UNCHANGED supervisor
    BY <1>14 DEF RunCancelled, Selects
  <2>2. QED
    BY <1>14, <2>1, <1>1 DEF ExitsKept, Processes, Stopped, Serving,
       supervisor,
       settings, RunCancelled, Selects, Leave, Goto
<1>15. CASE RunCheck
  <2>1. UNCHANGED supervisor
    BY <1>15 DEF RunCheck, Selects
  <2>2. QED
    BY <1>15, <2>1, <1>1 DEF ExitsKept, Processes, Stopped, Serving,
       supervisor,
       settings, RunCheck, Selects, Take, SetUpdate, Goto
<1>16. CASE RunDismiss
  <2>1. UNCHANGED supervisor
    BY <1>16 DEF RunDismiss, Selects
  <2>2. QED
    BY <1>16, <2>1, <1>1 DEF ExitsKept, Processes, Stopped, Serving,
       supervisor,
       settings, RunDismiss, Selects, Take, SetUpdate
<1>17. CASE RunApply
  <2>1. UNCHANGED supervisor
    BY <1>17 DEF RunApply, Selects
  <2>2. QED
    BY <1>17, <2>1, <1>1 DEF ExitsKept, Processes, Stopped, Serving,
       supervisor,
       settings, RunApply, Selects, Take, SetUpdate, Leave, Goto
<1>18. CASE Compare
  <2>1. UNCHANGED supervisor
    BY <1>18 DEF Compare
  <2>2. QED
    BY <1>18, <2>1, <1>1 DEF ExitsKept, Processes, Stopped, Serving,
       supervisor,
       settings, Compare, SetUpdate, Goto
<1>19. CASE Restarted
  <2>1. UNCHANGED supervisor
    BY <1>19 DEF Restarted
  <2>2. QED
    BY <1>19, <2>1, <1>1 DEF ExitsKept, Processes, Stopped, Serving,
       supervisor,
       settings, Restarted, Goto
<1>20. CASE Install
  <2>1. /\ stage' = "starting" /\ current' = 1 /\ remoteMode' = remoteMode
        /\ process' = [s \in Service |-> "none"] /\ exits' = << >>
        /\ orphans' = {}
    BY <1>20, <1>1 DEF Install, NewSupervisor, ForgetProcesses, Goto, settings,
       Processes, Stopped
  <2>2. Len(exits') = 0
    BY <2>1
  <2>3. ExitsKept'
    BY <2>1, <2>2 DEF ExitsKept
  <2>4. Processes'
    BY <2>1 DEF Processes, Service
  <2>5. QED
    BY <2>3, <2>4
<1>21. CASE StartService
  <2>1. /\ stage = "starting" /\ stage' = "health"
        /\ current \in Service /\ ~remoteMode
        /\ remoteMode' = remoteMode /\ current' = current
        /\ process[current] = "none"
        /\ process' = [process EXCEPT ![current] = "up"]
        /\ exits' = exits /\ orphans' = {}
    <3>1. stage = "starting" /\ ~remoteMode /\ current <= Services /\ Launch(current)
      BY <1>21 DEF StartService
    <3>2. current # 0
      BY <3>1 DEF Processes
    <3>3. QED
      BY <1>21, <1>1, <3>1, <3>2 DEF StartService, Launch, Goto, settings,
         Processes, Service
  <2>2. \A i \in 1 .. Len(exits) : exits[i] # current
    BY <2>1 DEF ExitsKept, Serving
  <2>3. ExitsKept'
    BY <1>1, <2>1, <2>2 DEF ExitsKept, Serving
  <2>4. Processes'
    BY <1>1, <2>1 DEF Processes, Service
  <2>5. QED
    BY <2>3, <2>4
<1>22. CASE Healthy
  <2>1. /\ stage = "health" /\ stage' = "starting"
        /\ current' = current + 1 /\ UNCHANGED <<supervisor, remoteMode>>
    BY <1>22 DEF Healthy, Goto, settings
  <2>2. ExitsKept'
    BY <1>1, <2>1 DEF ExitsKept, Serving, supervisor
  <2>3. current' # 0 /\ \A s \in Service : s < current' => s <= current
    BY <1>1, <2>1 DEF Service
  <2>4. Processes'
    BY <1>1, <2>1, <2>3 DEF Processes, supervisor, Service
  <2>5. QED
    BY <2>2, <2>4
<1>23. CASE Ready
  <2>1. /\ stage = "starting" /\ stage' = "running"
        /\ remoteMode \/ current > Services
        /\ UNCHANGED <<supervisor, remoteMode, current>>
    BY <1>23 DEF Ready, Goto, settings
  <2>2. ExitsKept'
    BY <1>1, <2>1 DEF ExitsKept, Serving, supervisor
  <2>3. Processes'
    BY <1>1, <2>1 DEF Processes, supervisor, Service
  <2>4. QED
    BY <2>2, <2>3
<1>24. CASE RunExit
  BY <1>24, RestartKeepsExits
<1>25. CASE StopService
  BY <1>25, StopKeepsExits
<1>26. QED
  BY <1>2, <1>3, <1>4, <1>5, <1>6, <1>7, <1>8, <1>9, <1>10, <1>11, <1>12,
     <1>13, <1>14, <1>15, <1>16, <1>17, <1>18, <1>19, <1>20, <1>21, <1>22,
     <1>23, <1>24, <1>25 DEF Step

\* So does everything else: a process that ends, the page, a stop, a release.
LEMMA NextKeepsExits ==
    ASSUME Values, ExitsKept, Processes, [Next]_vars
    PROVE  ExitsKept' /\ Processes'
<1>1. CASE Step
  BY <1>1, StepKeepsExits
<1>2. CASE ServiceEnds
  <2>1. PICK s \in Service : Crash(s)
    BY <1>2 DEF ServiceEnds
  <2>2. End(s) /\ UNCHANGED <<stage, current, remoteMode>>
    BY <1>2, <2>1 DEF ServiceEnds, Crash, loop, settings
  <2>3. ExitsKept'
    BY <2>2, EndKeepsExits
  <2>4. process \in [Service -> {"none", "up", "ended"}]
    BY DEF Values, SupervisorType
  <2>5. process[s] = "up" /\ process' = [process EXCEPT ![s] = "ended"] /\ orphans' = orphans
    BY <2>2 DEF End
  <2>6. Processes'
    BY <2>2, <2>4, <2>5 DEF Processes, Stopped
  <2>7. QED
    BY <2>3, <2>6
<1>3. CASE UserActs \/ Cancel \/ Publish \/ UNCHANGED vars
  <2>1. UNCHANGED <<supervisor, stage, current, remoteMode>>
    BY <1>3 DEF UserActs, Cancel, Publish, vars, loop, settings
  <2>2. QED
    BY <2>1 DEF ExitsKept, Processes, Stopped, supervisor
<1>4. QED
  BY <1>1, <1>2, <1>3 DEF Next

\* A step of the loop keeps the values of the tracker and of the channels.
LEMMA StepKeepsControl ==
    ASSUME Values, Step
    PROVE  ControlType'
<1>1. ControlType
  BY DEF Values
<1> USE DEF ControlType, Channels, UpdateStates, window
<1>2. CASE ReadManifest
  BY <1>1, <1>2 DEF ReadManifest, SetUpdate, Goto, Shows, Usable, control
<1>3. CASE ManifestFails
  BY <1>1, <1>3 DEF ManifestFails, Fails, Leave, Goto, control
<1>4. CASE DecideApply
  BY <1>1, <1>4 DEF DecideApply, Decided, Take, SetUpdate, Goto, Shows,
     control
<1>5. CASE DecideDismiss
  BY <1>1, <1>5 DEF DecideDismiss, Decided, Take, SetUpdate, Goto, Shows,
     control
<1>6. CASE DecideCancelled
  BY <1>1, <1>6 DEF DecideCancelled, Decided, Leave, Goto, control
<1>7. CASE Install
  BY <1>1, <1>7 DEF Install, NewSupervisor, ForgetProcesses, Goto, control
<1>8. CASE InstallFails
  BY <1>1, <1>8 DEF InstallFails, Fails, Leave, Goto, control
<1>9. CASE StartService
  BY <1>1, <1>9 DEF StartService, Launch, Goto, control
<1>10. CASE Healthy
  BY <1>1, <1>10 DEF Healthy, Goto, control
<1>11. CASE Ready
  BY <1>1, <1>11 DEF Ready, Goto, control
<1>12. CASE StartFails
  BY <1>1, <1>12 DEF StartFails, Fails, Leave, Goto, control
<1>13. CASE RunCancelled
  BY <1>1, <1>13 DEF RunCancelled, Selects, Leave, Goto, control
<1>14. CASE RunCheck
  BY <1>1, <1>14 DEF RunCheck, Selects, Take, SetUpdate, Goto, Shows, control
<1>15. CASE RunDismiss
  BY <1>1, <1>15 DEF RunDismiss, Selects, Take, SetUpdate, Shows, control
<1>16. CASE RunApply
  BY <1>1, <1>16 DEF RunApply, Selects, Take, SetUpdate, Leave, Goto, Shows,
     control
<1>17. CASE RunExit
  BY <1>1, <1>17 DEF RunExit, Selects, Launch, Goto, control
<1>18. CASE Compare
  BY <1>1, <1>18 DEF Compare, SetUpdate, Goto, Shows, control
<1>19. CASE Restarted
  BY <1>1, <1>19 DEF Restarted, Goto, control
<1>20. CASE StopService
  BY <1>1, <1>20 DEF StopService, Stop, End, control
<1>21. CASE Done
  BY <1>1, <1>21 DEF Done, Returned, Goto, control
<1>22. CASE Approve
  BY <1>1, <1>22 DEF Approve, Returned, Goto, control
<1>23. CASE GiveUp
  BY <1>1, <1>23 DEF GiveUp, Returned, Goto, control
<1>24. CASE Retry
  BY <1>1, <1>24 DEF Retry, Take, Goto, control
<1>25. CASE Exit
  BY <1>1, <1>25 DEF Exit, Goto, control
<1>26. QED
  BY <1>2, <1>3, <1>4, <1>5, <1>6, <1>7, <1>8, <1>9, <1>10, <1>11, <1>12,
     <1>13, <1>14, <1>15, <1>16, <1>17, <1>18, <1>19, <1>20, <1>21, <1>22,
     <1>23, <1>24, <1>25 DEF Step

\* The handlers keep them.
LEMMA ClicksKeepControl ==
    ASSUME ControlType, ControlNext
    PROVE  ControlType'
<1> USE DEF ControlType, window
<1>1. CASE \E r \in Requests : ClickCheck(r) \/ ClickApply(r) \/ ClickDismiss(r)
  <2>1. PICK r \in Requests : ClickCheck(r) \/ ClickApply(r) \/ ClickDismiss(r)
    BY <1>1
  <2>2. CASE ClickCheck(r)
    <3>1. /\ update' \in UpdateStates /\ canDefer' \in BOOLEAN
          /\ showFrontend' \in BOOLEAN /\ root' \in BOOLEAN
      BY <2>2 DEF ClickCheck, SetUpdate, Shows, UpdateStates
    <3>2. /\ clicks' \in 0 .. MaxClicks /\ approvals' \in 0 .. clicks'
          /\ request' \in [Requests -> RequestStates]
      BY <2>2, ClicksAssumption DEF ClickCheck, Click, RequestStates
    <3>3. QED
      BY <2>2, <3>1, <3>2 DEF ClickCheck
  <2>3. CASE ClickApply(r)
    BY <2>3, ClicksAssumption DEF ClickApply, Click, RequestStates
  <2>4. CASE ClickDismiss(r)
    BY <2>4, ClicksAssumption DEF ClickDismiss, Click, RequestStates
  <2>5. QED
    BY <2>1, <2>2, <2>3, <2>4
<1>2. CASE \E r \in Requests : Finish(r)
  <2>1. PICK r \in Requests : Answer(r) \/ Signal(r)
    BY <1>2 DEF Finish
  <2>2. CASE Answer(r)
    BY <2>2 DEF Answer, SetUpdate, Shows, UpdateStates, RequestStates
  <2>3. CASE Signal(r)
    BY <2>3 DEF Signal, Channels, RequestStates
  <2>4. QED
    BY <2>1, <2>2, <2>3
<1>3. CASE ClickRetry
  BY <1>3, ClicksAssumption DEF ClickRetry, Channels
<1>4. QED
  BY <1>1, <1>2, <1>3 DEF ControlNext

\* A step of the loop keeps the values of processes and exits.
LEMMA StepKeepsSupervisor ==
    ASSUME Values, Processes, Step
    PROVE  SupervisorType'
<1>1. SupervisorType /\ current \in 0 .. Services + 1
  BY DEF Values
<1> USE DEF SupervisorType
<1>2. CASE ReadManifest
  BY <1>1, <1>2 DEF ReadManifest, supervisor
<1>3. CASE ManifestFails
  BY <1>1, <1>3 DEF ManifestFails, supervisor
<1>4. CASE DecideApply
  BY <1>1, <1>4 DEF DecideApply, Decided, supervisor
<1>5. CASE DecideDismiss
  BY <1>1, <1>5 DEF DecideDismiss, Decided, supervisor
<1>6. CASE DecideCancelled
  BY <1>1, <1>6 DEF DecideCancelled, Decided, supervisor
<1>7. CASE Install
  BY <1>1, <1>7 DEF Install, NewSupervisor, ForgetProcesses
<1>8. CASE InstallFails
  BY <1>1, <1>8 DEF InstallFails, supervisor
<1>9. CASE StartService
  <2>1. current \in Service
    BY <1>1, <1>9, ServicesAssumption DEF StartService, Processes, Service
  <2>2. QED
    BY <1>1, <1>9, <2>1 DEF StartService, Launch
<1>10. CASE Healthy
  BY <1>1, <1>10 DEF Healthy, supervisor
<1>11. CASE Ready
  BY <1>1, <1>11 DEF Ready, supervisor
<1>12. CASE StartFails
  BY <1>1, <1>12 DEF StartFails, supervisor
<1>13. CASE RunCancelled
  BY <1>1, <1>13 DEF RunCancelled, Selects, supervisor
<1>14. CASE RunCheck
  BY <1>1, <1>14 DEF RunCheck, Selects, supervisor
<1>15. CASE RunDismiss
  BY <1>1, <1>15 DEF RunDismiss, Selects, supervisor
<1>16. CASE RunApply
  BY <1>1, <1>16 DEF RunApply, Selects, supervisor
<1>17. CASE RunExit
  <2>1. Head(exits) \in Service /\ Tail(exits) \in Seq(Service)
    BY <1>1, <1>17 DEF RunExit
  <2>2. QED
    BY <1>1, <1>17, <2>1 DEF RunExit, Selects, Launch
<1>18. CASE Compare
  BY <1>1, <1>18 DEF Compare, supervisor
<1>19. CASE Restarted
  BY <1>1, <1>19 DEF Restarted, supervisor
<1>20. CASE StopService
  <2>1. PICK s \in Service : Stop(s)
    BY <1>20 DEF StopService
  <2>2. CASE End(s)
    <3>1. exits' = Append(exits, s) /\ Append(exits, s) \in Seq(Service)
      BY <1>1, <2>2 DEF End
    <3>2. /\ process' = [process EXCEPT ![s] = "ended"]
          /\ UNCHANGED <<orphans, crashes>>
      BY <2>1, <2>2 DEF Stop, End
    <3>3. QED
      BY <1>1, <3>1, <3>2
  <2>3. CASE /\ process' = [process EXCEPT ![s] = "none"]
             /\ UNCHANGED <<exits, orphans, crashes>>
    BY <1>1, <2>3
  <2>4. QED
    BY <2>1, <2>2, <2>3 DEF Stop
<1>21. CASE Done
  BY <1>1, <1>21 DEF Done, Returned, supervisor
<1>22. CASE Approve
  BY <1>1, <1>22 DEF Approve, Returned, supervisor
<1>23. CASE GiveUp
  BY <1>1, <1>23 DEF GiveUp, Returned, supervisor
<1>24. CASE Retry
  BY <1>1, <1>24 DEF Retry, supervisor
<1>25. CASE Exit
  BY <1>1, <1>25 DEF Exit, supervisor
<1>26. QED
  BY <1>2, <1>3, <1>4, <1>5, <1>6, <1>7, <1>8, <1>9, <1>10, <1>11, <1>12,
     <1>13, <1>14, <1>15, <1>16, <1>17, <1>18, <1>19, <1>20, <1>21, <1>22,
     <1>23, <1>24, <1>25 DEF Step

LoopValues ==
    /\ stage \in Stages
    /\ current \in 0 .. Services + 1
    /\ approved \in BOOLEAN
    /\ result \in {"nil", "update", "error"}
    /\ manifest \in 0 .. Versions
    /\ deferrable \in BOOLEAN
    /\ desktop \in BOOLEAN
    /\ remoteMode \in BOOLEAN
    /\ cancelled \in BOOLEAN
    /\ release \in Version
    /\ published \in 0 .. MaxPublished

\* A step of the loop keeps the values of the variables of the loop.
LEMMA StepKeepsLoop ==
    ASSUME Values, Processes, Step
    PROVE  LoopValues'
<1>1. /\ LoopValues /\ SupervisorType /\ record \in 0 .. Versions
      /\ Version \subseteq 0 .. Versions
  BY VersionsAssumption DEF LoopValues, Values, Version
<1> USE DEF LoopValues, Stages, loop, settings, outside
<1>2. CASE ReadManifest
  BY <1>1, <1>2 DEF ReadManifest, Goto, Usable
<1>3. CASE ManifestFails
  BY <1>1, <1>3 DEF ManifestFails, Fails, Leave, Goto
<1>4. CASE DecideApply
  BY <1>1, <1>4 DEF DecideApply, Decided, Goto
<1>5. CASE DecideDismiss
  BY <1>1, <1>5 DEF DecideDismiss, Decided, Goto
<1>6. CASE DecideCancelled
  BY <1>1, <1>6 DEF DecideCancelled, Decided, Leave, Goto
<1>7. CASE Install
  BY <1>1, <1>7, ServicesAssumption DEF Install, Goto
<1>8. CASE InstallFails
  BY <1>1, <1>8 DEF InstallFails, Fails, Leave, Goto
<1>9. CASE StartService
  BY <1>1, <1>9 DEF StartService, Goto
<1>10. CASE Healthy
  BY <1>1, <1>10, ServicesAssumption DEF Healthy, Goto, Processes, Service
<1>11. CASE Ready
  BY <1>1, <1>11 DEF Ready, Goto
<1>12. CASE StartFails
  BY <1>1, <1>12 DEF StartFails, Fails, Leave, Goto
<1>13. CASE RunCancelled
  BY <1>1, <1>13 DEF RunCancelled, Selects, Leave, Goto
<1>14. CASE RunCheck
  BY <1>1, <1>14 DEF RunCheck, Selects, Goto
<1>15. CASE RunDismiss
  BY <1>1, <1>15 DEF RunDismiss, Selects
<1>16. CASE RunApply
  BY <1>1, <1>16 DEF RunApply, Selects, Leave, Goto
<1>17. CASE RunExit
  <2>1. Head(exits) \in Service
    BY <1>1, <1>17 DEF RunExit, SupervisorType
  <2>2. QED
    BY <1>1, <1>17, <2>1, ServicesAssumption DEF RunExit, Selects, Goto,
       Service
<1>18. CASE Compare
  BY <1>1, <1>18 DEF Compare, Goto
<1>19. CASE Restarted
  BY <1>1, <1>19 DEF Restarted, Goto
<1>20. CASE StopService
  BY <1>1, <1>20 DEF StopService
<1>21. CASE Done
  BY <1>1, <1>21 DEF Done, Returned, Goto
<1>22. CASE Approve
  BY <1>1, <1>22 DEF Approve, Returned, Goto
<1>23. CASE GiveUp
  BY <1>1, <1>23 DEF GiveUp, Returned, Goto
<1>24. CASE Retry
  BY <1>1, <1>24 DEF Retry, Goto
<1>25. CASE Exit
  BY <1>1, <1>25 DEF Exit, Goto
<1>26. QED
  BY <1>2, <1>3, <1>4, <1>5, <1>6, <1>7, <1>8, <1>9, <1>10, <1>11, <1>12,
     <1>13, <1>14, <1>15, <1>16, <1>17, <1>18, <1>19, <1>20, <1>21, <1>22,
     <1>23, <1>24, <1>25 DEF Step

PackageValues ==
    /\ installed \in [Component -> SUBSET Version]
    /\ record \in 0 .. Versions
    /\ chosen \in 0 .. Versions
    /\ served \in 0 .. Versions
    /\ updates \in Nat

\* An installation keeps the values of the packages.
LEMMA AddKeepsPackages ==
    ASSUME Values, manifest \in Version, NEW S, Add(S)
    PROVE  /\ installed' \in [Component -> SUBSET Version]
           /\ chosen' \in 0 .. Versions
           /\ updates' \in Nat
BY VersionsAssumption DEF Values, Add, Version

\* A step of the loop keeps the values of the packages.
LEMMA StepKeepsPackages ==
    ASSUME Values, Chosen, Step
    PROVE  PackageValues'
<1>1. /\ PackageValues /\ manifest \in 0 .. Versions
      /\ stage = "installing" => manifest \in Version
  BY DEF PackageValues, Values, Chosen
<1> USE DEF PackageValues, packages
<1>2. CASE ReadManifest
  BY <1>1, <1>2 DEF ReadManifest
<1>3. CASE ManifestFails
  BY <1>1, <1>3 DEF ManifestFails
<1>4. CASE DecideApply
  BY <1>1, <1>4 DEF DecideApply, Decided
<1>5. CASE DecideDismiss
  BY <1>1, <1>5 DEF DecideDismiss, Decided
<1>6. CASE DecideCancelled
  BY <1>1, <1>6 DEF DecideCancelled, Decided
<1>7. CASE Install
  <2>1. PICK S : Add(S)
    BY <1>7 DEF Install
  <2>2. QED
    BY <1>1, <1>7, <2>1, AddKeepsPackages DEF Install
<1>8. CASE InstallFails
  <2>1. PICK S : Add(S)
    BY <1>8 DEF InstallFails
  <2>2. QED
    BY <1>1, <1>8, <2>1, AddKeepsPackages DEF InstallFails
<1>9. CASE StartService
  BY <1>1, <1>9 DEF StartService
<1>10. CASE Healthy
  BY <1>1, <1>10 DEF Healthy
<1>11. CASE Ready
  BY <1>1, <1>11 DEF Ready
<1>12. CASE StartFails
  BY <1>1, <1>12 DEF StartFails
<1>13. CASE RunCancelled
  BY <1>1, <1>13 DEF RunCancelled, Selects
<1>14. CASE RunCheck
  BY <1>1, <1>14 DEF RunCheck, Selects
<1>15. CASE RunDismiss
  BY <1>1, <1>15 DEF RunDismiss, Selects
<1>16. CASE RunApply
  BY <1>1, <1>16 DEF RunApply, Selects
<1>17. CASE RunExit
  BY <1>1, <1>17 DEF RunExit, Selects
<1>18. CASE Compare
  BY <1>1, <1>18 DEF Compare
<1>19. CASE Restarted
  BY <1>1, <1>19 DEF Restarted
<1>20. CASE StopService
  BY <1>1, <1>20 DEF StopService
<1>21. CASE Done
  BY <1>1, <1>21 DEF Done, Returned
<1>22. CASE Approve
  BY <1>1, <1>22 DEF Approve, Returned
<1>23. CASE GiveUp
  BY <1>1, <1>23 DEF GiveUp, Returned
<1>24. CASE Retry
  BY <1>1, <1>24 DEF Retry
<1>25. CASE Exit
  BY <1>1, <1>25 DEF Exit
<1>26. QED
  BY <1>2, <1>3, <1>4, <1>5, <1>6, <1>7, <1>8, <1>9, <1>10, <1>11, <1>12,
     <1>13, <1>14, <1>15, <1>16, <1>17, <1>18, <1>19, <1>20, <1>21, <1>22,
     <1>23, <1>24, <1>25 DEF Step

\* It keeps what is known of the release it goes by.
LEMMA StepKeepsChosen ==
    ASSUME Values, Chosen, Step
    PROVE  Chosen'
<1>1. release \in Version /\ record \in 0 .. Versions /\ Versions \in Nat
  BY VersionsAssumption DEF Values
<1> USE DEF Chosen
<1>2. CASE ReadManifest
  BY <1>1, <1>2 DEF ReadManifest, Goto, Usable, Compared, packages, settings
<1>3. CASE ManifestFails
  BY <1>3 DEF ManifestFails, Fails, Leave, Goto
<1>4. CASE DecideApply
  BY <1>4 DEF DecideApply, Decided, Goto
<1>5. CASE DecideDismiss
  <2>1. record \in Version
    BY <1>1, <1>5 DEF DecideDismiss, Decided, Usable, Version
  <2>2. QED
    BY <1>5, <2>1 DEF DecideDismiss, Decided, Goto
<1>6. CASE DecideCancelled
  BY <1>6 DEF DecideCancelled, Decided, Leave, Goto
<1>7. CASE Install
  BY <1>7 DEF Install, Goto
<1>8. CASE InstallFails
  BY <1>8 DEF InstallFails, Fails, Leave, Goto
<1>9. CASE StartService
  BY <1>9 DEF StartService, Goto
<1>10. CASE Healthy
  BY <1>10 DEF Healthy, Goto
<1>11. CASE Ready
  BY <1>11 DEF Ready, Goto
<1>12. CASE StartFails
  BY <1>12 DEF StartFails, Fails, Leave, Goto
<1>13. CASE RunCancelled
  BY <1>13 DEF RunCancelled, Selects, Leave, Goto
<1>14. CASE RunCheck
  BY <1>14 DEF RunCheck, Selects, Goto
<1>15. CASE RunDismiss
  BY <1>15 DEF RunDismiss, Selects
<1>16. CASE RunApply
  BY <1>16 DEF RunApply, Selects, Leave, Goto
<1>17. CASE RunExit
  BY <1>17 DEF RunExit, Selects, Goto
<1>18. CASE Compare
  BY <1>18 DEF Compare, Goto
<1>19. CASE Restarted
  BY <1>19 DEF Restarted, Goto
<1>20. CASE StopService
  BY <1>20 DEF StopService, loop
<1>21. CASE Done
  BY <1>21 DEF Done, Returned, Goto
<1>22. CASE Approve
  BY <1>22 DEF Approve, Returned, Goto
<1>23. CASE GiveUp
  BY <1>23 DEF GiveUp, Returned, Goto
<1>24. CASE Retry
  BY <1>24 DEF Retry, Goto
<1>25. CASE Exit
  BY <1>25 DEF Exit, Goto
<1>26. QED
  BY <1>2, <1>3, <1>4, <1>5, <1>6, <1>7, <1>8, <1>9, <1>10, <1>11, <1>12,
     <1>13, <1>14, <1>15, <1>16, <1>17, <1>18, <1>19, <1>20, <1>21, <1>22,
     <1>23, <1>24, <1>25 DEF Step

\* Everything else leaves the loop and the packages alone.
LEMMA NextKeepsValues ==
    ASSUME Values, Processes, Chosen, [Next]_vars
    PROVE  Values' /\ Chosen'
<1>1. CASE Step
  <2>1. PackageValues' /\ LoopValues' /\ SupervisorType' /\ ControlType'
    BY <1>1, StepKeepsControl, StepKeepsSupervisor, StepKeepsLoop,
       StepKeepsPackages
  <2>2. Values'
    BY <2>1 DEF Values, LoopValues, PackageValues
  <2>3. QED
    BY <1>1, <2>2, StepKeepsChosen
<1>2. CASE UserActs
  <2>1. ControlType'
    BY <1>2, ClicksKeepControl DEF UserActs, Values
  <2>2. QED
    BY <1>2, <2>1 DEF UserActs, Values, Chosen, Usable, Compared,
       SupervisorType,
       supervisor, loop, settings, packages, outside
<1>3. CASE ServiceEnds
  <2>1. PICK s \in Service : Crash(s)
    BY <1>3 DEF ServiceEnds
  <2>2. SupervisorType'
    BY <2>1, CrashesAssumption DEF Values, SupervisorType, Crash, End
  <2>3. ControlType'
    BY <1>3 DEF ServiceEnds, Values, ControlType, control, window
  <2>4. QED
    BY <1>3, <2>2, <2>3 DEF ServiceEnds, Values, Chosen, Usable, Compared,
       loop,
       settings, packages, outside
<1>4. CASE Cancel \/ Publish \/ UNCHANGED vars
  <2>1. /\ UNCHANGED <<control, supervisor, loop, settings, packages, served>>
    BY <1>4 DEF Cancel, Publish, vars
  <2>2. ControlType' /\ SupervisorType'
    BY <2>1 DEF Values, ControlType, SupervisorType, control, window,
       supervisor
  <2>3. release' \in Version /\ published' \in 0 .. MaxPublished
    BY <1>4, PublishedAssumption DEF Cancel, Publish, vars, Values, outside
  <2>4. cancelled' \in BOOLEAN
    BY <1>4 DEF Cancel, Publish, vars, Values
  <2>5. QED
    BY <2>1, <2>2, <2>3, <2>4 DEF Values, Chosen, Usable, Compared, loop,
       settings, packages
<1>5. QED
  BY <1>1, <1>2, <1>3, <1>4 DEF Next

-----------------------------------------------------------------------------
(* Approvals *)

\* The requests that carry an approval can be counted.
LEMMA PendingIsFinite ==
    ASSUME Values
    PROVE  /\ IsFiniteSet(Pending) /\ Cardinality(Pending) \in Nat
           /\ Used \in Nat /\ approvals \in Nat
<1>1. Pending \in SUBSET Requests
  BY DEF Pending
<1>2. IsFiniteSet(Pending)
  BY <1>1, RequestsAssumption, FS_Subset
<1>3. Cardinality(Pending) \in Nat
  BY <1>2, FS_CardinalityType
<1>4. Used \in Nat /\ approvals \in Nat
  BY DEF Values, ControlType, Used, Token
<1>5. QED
  BY <1>2, <1>3, <1>4

\* An installation counts as an update only if its packages differ.
LEMMA AddUsesApproval ==
    ASSUME Values, NEW S, Add(S)
    PROVE  /\ updates' <= updates + Token(Differs(Compared, manifest))
           /\ updates' \in Nat
<1>1. Differs(S \cap Compared, manifest) => Differs(Compared, manifest)
  BY DEF Differs
<1>2. QED
  BY <1>1 DEF Add, Token, Values

\* The loop uses no approval it has not taken.
LEMMA StepUsesApprovals ==
    ASSUME Values, Chosen, Step, desktop
    PROVE  Used' <= Used /\ UNCHANGED <<request, approvals, desktop>>
<1>1. updates \in Nat /\ desktop \in BOOLEAN /\ approved \in BOOLEAN
  BY DEF Values
<1> USE DEF Used, Token, LoopHolds
<1>2. CASE ReadManifest
  BY <1>1, <1>2 DEF ReadManifest, Goto, SetUpdate, Outdated, Differs,
     Compared, control, packages, settings, loop
<1>3. CASE ManifestFails
  BY <1>1, <1>3 DEF ManifestFails, Fails, Leave, Goto, control, packages,
     settings, loop
<1>4. CASE DecideApply
  BY <1>1, <1>4 DEF DecideApply, Decided, Goto, Take, SetUpdate, control,
     packages, settings, loop
<1>5. CASE DecideDismiss
  <2>1. manifest' = record /\ stage = "deciding" /\ deferrable
    BY <1>5 DEF DecideDismiss, Decided
  <2>2. ~Differs(Compared, manifest)'
    BY <1>5, <2>1 DEF Chosen, Usable, Differs, Compared, DecideDismiss,
       Decided,
       packages, settings
  <2>3. QED
    BY <1>1, <1>5, <2>2 DEF DecideDismiss, Decided, Goto, Take, SetUpdate,
       control, packages, settings, loop
<1>6. CASE DecideCancelled
  BY <1>1, <1>6 DEF DecideCancelled, Decided, Leave, Goto, control, packages,
     settings, loop
<1>7. CASE Install
  <2>1. PICK S : Add(S)
    BY <1>7 DEF Install
  <2>2. /\ updates' <= updates + Token(Differs(Compared, manifest))
        /\ updates' \in Nat
    BY <2>1, AddUsesApproval
  <2>3. /\ stage = "installing" /\ signals' = signals
        /\ stage' = "starting" \/ (stage' = "stopping" /\ result' = "error")
    BY <1>7 DEF Install, Goto, control
  <2>4. Token(LoopHolds') = 0
    BY <2>3
  <2>5. Token(LoopHolds) = Token(Differs(Compared, manifest))
    <3>1. CASE Differs(Compared, manifest)
      BY <2>3, <3>1
    <3>2. CASE ~Differs(Compared, manifest)
      BY <2>3, <3>2
    <3>3. QED
      BY <3>1, <3>2
  <2>6. Used' <= Used
    <3> DEFINE a == Token("apply" \in signals)
               d == Token(Differs(Compared, manifest))
    <3>1. a \in Nat /\ d \in Nat
      OBVIOUS
    <3>2. Used' = updates' + a + 0 /\ Used = updates + a + d
      BY <2>3, <2>4, <2>5
    <3> HIDE DEF a, d, Used, Token, LoopHolds
    <3>3. QED
      BY <1>1, <2>2, <3>1, <3>2 DEF d
  <2>7. QED
    BY <1>7, <2>6 DEF Install, control, settings
<1>8. CASE InstallFails
  <2>1. PICK S : Add(S)
    BY <1>8 DEF InstallFails
  <2>2. /\ updates' <= updates + Token(Differs(Compared, manifest))
        /\ updates' \in Nat
    BY <2>1, AddUsesApproval
  <2>3. /\ stage = "installing" /\ signals' = signals
        /\ stage' = "starting" \/ (stage' = "stopping" /\ result' = "error")
    BY <1>8 DEF InstallFails, Fails, Leave, Goto, control
  <2>4. Token(LoopHolds') = 0
    BY <2>3
  <2>5. Token(LoopHolds) = Token(Differs(Compared, manifest))
    <3>1. CASE Differs(Compared, manifest)
      BY <2>3, <3>1
    <3>2. CASE ~Differs(Compared, manifest)
      BY <2>3, <3>2
    <3>3. QED
      BY <3>1, <3>2
  <2>6. Used' <= Used
    <3> DEFINE a == Token("apply" \in signals)
               d == Token(Differs(Compared, manifest))
    <3>1. a \in Nat /\ d \in Nat
      OBVIOUS
    <3>2. Used' = updates' + a + 0 /\ Used = updates + a + d
      BY <2>3, <2>4, <2>5
    <3> HIDE DEF a, d, Used, Token, LoopHolds
    <3>3. QED
      BY <1>1, <2>2, <3>1, <3>2 DEF d
  <2>7. QED
    BY <1>8, <2>6 DEF InstallFails, control, settings
<1>9. CASE StartService
  BY <1>1, <1>9 DEF StartService, Goto, control, packages, settings, loop
<1>10. CASE Healthy
  BY <1>1, <1>10 DEF Healthy, Goto, control, packages, settings, loop
<1>11. CASE Ready
  BY <1>1, <1>11 DEF Ready, Goto, control, packages, settings, loop
<1>12. CASE StartFails
  BY <1>1, <1>12 DEF StartFails, Fails, Leave, Goto, control, packages,
     settings, loop
<1>13. CASE RunCancelled
  BY <1>1, <1>13 DEF RunCancelled, Selects, Leave, Goto, control, packages,
     settings, loop
<1>14. CASE RunCheck
  BY <1>1, <1>14 DEF RunCheck, Selects, Goto, Take, SetUpdate, control,
     packages, settings, loop
<1>15. CASE RunDismiss
  BY <1>1, <1>15 DEF RunDismiss, Selects, Take, SetUpdate, control, packages,
     settings, loop
<1>16. CASE RunApply
  BY <1>1, <1>16 DEF RunApply, Selects, Leave, Goto, Take, SetUpdate, control,
     packages, settings, loop
<1>17. CASE RunExit
  BY <1>1, <1>17 DEF RunExit, Selects, Goto, control, packages, settings, loop
<1>18. CASE Compare
  BY <1>1, <1>18 DEF Compare, Goto, SetUpdate, control, packages, settings,
     loop
<1>19. CASE Restarted
  BY <1>1, <1>19 DEF Restarted, Goto, control, packages, settings, loop
<1>20. CASE StopService
  BY <1>1, <1>20 DEF StopService, control, packages, settings, loop
<1>21. CASE Done
  BY <1>1, <1>21 DEF Done, Returned, Goto, control, packages, settings, loop
<1>22. CASE Approve
  BY <1>1, <1>22 DEF Approve, Returned, Goto, control, packages, settings,
     loop
<1>23. CASE GiveUp
  BY <1>1, <1>23 DEF GiveUp, Returned, Goto, control, packages, settings, loop
<1>24. CASE Retry
  <2>1. /\ stage' = "prepare"
        /\ ("apply" \in signals' <=> "apply" \in signals)
    BY <1>24 DEF Retry, Take, Goto
  <2>2. ~approved'
    BY <1>24 DEF Retry
  <2>3. ~LoopHolds' /\ updates' = updates
    BY <1>24, <2>1, <2>2 DEF Retry, packages
  <2>4. QED
    BY <1>1, <1>24, <2>1, <2>3 DEF Retry, settings
<1>25. CASE Exit
  BY <1>1, <1>25 DEF Exit, Goto, control, packages, settings, loop
<1>26. QED
  BY <1>2, <1>3, <1>4, <1>5, <1>6, <1>7, <1>8, <1>9, <1>10, <1>11, <1>12,
     <1>13, <1>14, <1>15, <1>16, <1>17, <1>18, <1>19, <1>20, <1>21, <1>22,
     <1>23, <1>24, <1>25 DEF Step

\* The page passes an approval on: a request that is accepted brings its own.
LEMMA ClicksBringApprovals ==
    ASSUME Values, UserActs
    PROVE  Used' + Cardinality(Pending') + approvals
               <= Used + Cardinality(Pending) + approvals'
<1> DEFINE Apply(set) == Token("apply" \in set)
<1>1. /\ IsFiniteSet(Pending) /\ Cardinality(Pending) \in Nat
      /\ Used \in Nat /\ approvals \in Nat /\ updates \in Nat
      /\ request \in [Requests -> RequestStates]
  BY PendingIsFinite DEF Values, ControlType
<1>2. UNCHANGED <<updates, stage, result, approved, manifest, installed,
                  remoteMode>>
  BY DEF UserActs, packages, loop, settings
<1>3. LoopHolds' = LoopHolds
  BY <1>2 DEF LoopHolds, Differs, Compared
<1>4. ASSUME UNCHANGED approvals, Pending' = Pending,
             Apply(signals') <= Apply(signals)
      PROVE  Used' + Cardinality(Pending') + approvals
                 <= Used + Cardinality(Pending) + approvals'
  BY <1>1, <1>2, <1>3, <1>4 DEF Used, Token
<1>5. CASE \E r \in Requests : ClickCheck(r) \/ ClickApply(r) \/ ClickDismiss(r)
  <2>1. PICK r \in Requests : ClickCheck(r) \/ ClickApply(r) \/ ClickDismiss(r)
    BY <1>5
  <2>2. CASE ClickCheck(r) \/ ClickDismiss(r)
    <3>1. Pending' = Pending
      BY <1>1, <2>2 DEF ClickCheck, ClickDismiss, Click, Pending
    <3>2. UNCHANGED <<approvals, signals>>
      BY <2>2 DEF ClickCheck, ClickDismiss
    <3>3. QED
      BY <3>1, <3>2, <1>4 DEF Token
  <2>3. CASE ClickApply(r)
    <3>1. Pending' = Pending \cup {r} /\ r \notin Pending
      BY <1>1, <2>3 DEF ClickApply, Click, Pending
    <3>2. Cardinality(Pending') = Cardinality(Pending) + 1
      BY <1>1, <3>1, FS_AddElement
    <3>3. approvals' = approvals + 1 /\ signals' = signals
      BY <2>3 DEF ClickApply
    <3>4. Used' = Used
      BY <1>2, <1>3, <3>3 DEF Used
    <3>5. QED
      BY <1>1, <3>2, <3>3, <3>4
  <2>4. QED
    BY <2>1, <2>2, <2>3
<1>6. CASE \E r \in Requests : Finish(r)
  <2>1. PICK r \in Requests : Answer(r) \/ Signal(r)
    BY <1>6 DEF Finish
  <2>2. CASE Answer(r)
    <3>1. Pending' = Pending
      BY <1>1, <2>2 DEF Answer, Pending
    <3>2. UNCHANGED <<approvals, signals>>
      BY <2>2 DEF Answer
    <3>3. QED
      BY <3>1, <3>2, <1>4 DEF Token
  <2>3. CASE Signal(r) /\ request[r] = "apply"
    <3>1. Pending' = Pending \ {r} /\ r \in Pending
      BY <1>1, <2>3 DEF Signal, Pending
    <3>2. Cardinality(Pending') = Cardinality(Pending) - 1
      BY <1>1, <3>1, FS_RemoveElement
    <3>3. UNCHANGED approvals
      BY <2>3 DEF Signal
    <3>4. Used' <= Used + 1 /\ Used' \in Nat
      BY <1>1, <1>2, <1>3 DEF Used, Token
    <3>5. QED
      BY <1>1, <3>2, <3>3, <3>4
  <2>4. CASE Signal(r) /\ request[r] # "apply"
    <3>1. Pending' = Pending
      BY <1>1, <2>4 DEF Signal, Pending
    <3>2. UNCHANGED approvals /\ ("apply" \in signals' <=> "apply" \in signals)
      BY <2>4 DEF Signal
    <3>3. QED
      BY <3>1, <3>2, <1>4 DEF Token
  <2>5. QED
    BY <2>1, <2>2, <2>3, <2>4
<1>7. CASE ClickRetry
  <2>1. /\ UNCHANGED <<approvals, request>>
        /\ ("apply" \in signals' <=> "apply" \in signals)
    BY <1>7 DEF ClickRetry
  <2>2. Pending' = Pending
    BY <2>1 DEF Pending
  <2>3. QED
    BY <2>1, <2>2, <1>4 DEF Token
<1>8. QED
  BY <1>5, <1>6, <1>7 DEF UserActs, ControlNext

\* There is an approval for everything that may still be installed.
LEMMA NextKeepsApprovals ==
    ASSUME Values, Chosen, ApprovalsSuffice, [Next]_vars, Values'
    PROVE  ApprovalsSuffice'
<1>1. /\ Cardinality(Pending) \in Nat /\ Used \in Nat
      /\ approvals \in Nat
  BY PendingIsFinite
<1>2. /\ Cardinality(Pending') \in Nat /\ Used' \in Nat
      /\ approvals' \in Nat
  <2>1. Pending' \in SUBSET Requests
    BY DEF Pending
  <2>2. Cardinality(Pending') \in Nat
    BY <2>1, RequestsAssumption, FS_Subset, FS_CardinalityType
  <2>3. updates' \in Nat /\ approvals' \in Nat
    BY DEF Values, ControlType
  <2>4. Used' \in Nat
    <3>1. Token("apply" \in signals') \in Nat /\ Token(LoopHolds') \in Nat
      BY DEF Token
    <3>2. QED
      BY <2>3, <3>1 DEF Used
  <2>5. QED
    BY <2>2, <2>3, <2>4
<1>3. SUFFICES ASSUME desktop'
               PROVE  Used' + Cardinality(Pending') <= approvals'
  BY DEF ApprovalsSuffice
<1>4. ASSUME desktop PROVE Used + Cardinality(Pending) <= approvals
  BY <1>4 DEF ApprovalsSuffice
<1>5. CASE Step
  <2>1. desktop
    BY <1>3, <1>5 DEF Step, settings, ReadManifest, ManifestFails,
       DecideApply, DecideDismiss, DecideCancelled, Install,
       InstallFails, StartService, Healthy, Ready, StartFails, RunCancelled,
       RunCheck, RunDismiss, RunApply, RunExit, Compare, Restarted,
       StopService, Done, Approve, GiveUp, Retry, Exit,
       Decided, Selects, Returned
  <2>2. Used' <= Used /\ UNCHANGED <<request, approvals>>
    BY <1>5, <2>1, StepUsesApprovals
  <2>3. Pending' = Pending
    BY <2>2 DEF Pending
  <2>4. QED
    BY <1>1, <1>2, <1>4, <2>1, <2>2, <2>3
<1>6. CASE UserActs
  <2>1. desktop
    BY <1>3, <1>6 DEF UserActs, settings
  <2>2. QED
    BY <1>1, <1>2, <1>4, <1>6, <2>1, ClicksBringApprovals
<1>7. CASE ServiceEnds \/ Cancel \/ Publish \/ UNCHANGED vars
  <2>1. /\ UNCHANGED <<desktop, remoteMode, request, signals, approvals>>
        /\ UNCHANGED <<updates, stage, result, approved, manifest, installed>>
    BY <1>7 DEF ServiceEnds, Cancel, Publish, vars, control, loop, settings,
       packages
  <2>2. Pending' = Pending
    BY <2>1 DEF Pending
  <2>3. LoopHolds' = LoopHolds
    BY <2>1 DEF LoopHolds, Differs, Compared
  <2>4. Used' = Used
    BY <2>1, <2>3 DEF Used
  <2>5. QED
    BY <1>3, <1>4, <2>1, <2>2, <2>4
<1>8. QED
  BY <1>5, <1>6, <1>7 DEF Next
-----------------------------------------------------------------------------
(* What the window shows *)

\* handleSnapshot keeps an offer, or an update under way, before Athena.
LEMMA SetUpdateShowsOffers ==
    ASSUME OffersAreShown, UNCHANGED desktop,
           NEW next, NEW defer, SetUpdate(next, defer)
    PROVE  OffersAreShown'
BY DEF OffersAreShown, SetUpdate, Shows

LEMMA NextShowsOffers ==
    ASSUME OffersAreShown, [Next]_vars
    PROVE  OffersAreShown'
<1> USE DEF OffersAreShown, settings, control, window
<1>1. CASE ReadManifest
  BY <1>1, SetUpdateShowsOffers DEF ReadManifest
<1>2. CASE DecideApply \/ DecideDismiss
  BY <1>2, SetUpdateShowsOffers DEF DecideApply, DecideDismiss, Decided
<1>3. CASE RunCheck \/ RunDismiss
  BY <1>3, SetUpdateShowsOffers DEF RunCheck, RunDismiss, Selects
<1>4. CASE RunApply
  BY <1>4, SetUpdateShowsOffers DEF RunApply, Selects
<1>5. CASE Compare
  BY <1>5, SetUpdateShowsOffers DEF Compare
<1>6. CASE Ready \/ Approve \/ Retry
  BY <1>6 DEF Ready, Approve, Retry
<1>7. CASE ManifestFails \/ DecideCancelled \/ Install \/ InstallFails
            \/ StartService \/ Healthy \/ StartFails
  BY <1>7 DEF ManifestFails, Fails, Leave, DecideCancelled, Decided, Install,
     InstallFails, StartService, Healthy, StartFails
<1>8. CASE RunCancelled \/ RunExit \/ Restarted \/ StopService
            \/ Done \/ GiveUp \/ Exit
  BY <1>8 DEF RunCancelled, Selects, Leave, RunExit, Restarted, StopService,
     Done, Returned, GiveUp, Exit
<1>9. CASE UserActs
  <2>1. CASE \E r \in Requests : ClickCheck(r) \/ ClickApply(r) \/ ClickDismiss(r)
    <3>1. PICK r \in Requests : ClickCheck(r) \/ ClickApply(r) \/ ClickDismiss(r)
      BY <2>1
    <3>2. QED
      BY <1>9, <3>1, SetUpdateShowsOffers DEF UserActs, ClickCheck, ClickApply,
         ClickDismiss
  <2>2. CASE \E r \in Requests : Finish(r)
    <3>1. PICK r \in Requests : Answer(r) \/ Signal(r)
      BY <2>2 DEF Finish
    <3>2. QED
      BY <1>9, <3>1, SetUpdateShowsOffers DEF UserActs, Answer, Signal
  <2>3. CASE ClickRetry
    BY <1>9, <2>3 DEF UserActs, ClickRetry
  <2>4. QED
    BY <1>9, <2>1, <2>2, <2>3 DEF UserActs, ControlNext
<1>10. CASE ServiceEnds \/ Cancel \/ Publish \/ UNCHANGED vars
  BY <1>10 DEF ServiceEnds, Cancel, Publish, vars
<1>11. QED
  BY <1>1, <1>2, <1>3, <1>4, <1>5, <1>6, <1>7, <1>8, <1>9, <1>10 DEF Next,
     Step

-----------------------------------------------------------------------------
(* The theorems *)

LEMMA InitInv == Init => Inv
<1> SUFFICES ASSUME Init PROVE Inv
  OBVIOUS
<1> USE DEF Init, ControlInit, SupervisorInit
<1>1. Values
  <2>1. ControlType
    <3>1. clicks \in 0 .. MaxClicks /\ approvals \in 0 .. clicks
      BY ClicksAssumption
    <3>2. request \in [Requests -> RequestStates]
      BY DEF RequestStates
    <3>3. QED
      BY <3>1, <3>2 DEF ControlType, UpdateStates
  <2>2. SupervisorType
    BY CrashesAssumption DEF SupervisorType
  <2>3. installed \in [Component -> SUBSET Version]
    BY VersionsAssumption DEF Version
  <2>4. record \in 0 .. Versions /\ chosen \in 0 .. Versions
    BY VersionsAssumption
  <2>5. current \in 0 .. Services + 1 /\ published \in 0 .. MaxPublished
    BY ServicesAssumption, PublishedAssumption
  <2>6. manifest \in 0 .. Versions /\ served \in 0 .. Versions
    BY VersionsAssumption
  <2>7. QED
    BY <2>1, <2>2, <2>3, <2>4, <2>5, <2>6 DEF Values, Stages
<1>2. ExitsKept
  BY DEF ExitsKept
<1>3. Processes
  BY DEF Processes, Stopped
<1>4. Chosen
  BY DEF Chosen
<1>5. ApprovalsSuffice
  <2>1. Pending = {} /\ Cardinality({}) = 0
    BY FS_EmptySet DEF Pending
  <2>2. Used = 0
    BY DEF Used, Token, LoopHolds
  <2>3. QED
    BY <2>1, <2>2 DEF ApprovalsSuffice
<1>6. OffersAreShown
  BY DEF OffersAreShown
<1>7. QED
  BY <1>1, <1>2, <1>3, <1>4, <1>5, <1>6 DEF Inv

LEMMA InvStep == Inv /\ [Next]_vars => Inv'
<1> SUFFICES ASSUME Inv, [Next]_vars PROVE Inv'
  OBVIOUS
<1> USE DEF Inv
<1>1. ExitsKept' /\ Processes'
  BY NextKeepsExits
<1>2. Values' /\ Chosen'
  BY NextKeepsValues
<1>3. ApprovalsSuffice'
  BY <1>2, NextKeepsApprovals
<1>4. OffersAreShown'
  BY NextShowsOffers
<1>5. QED
  BY <1>1, <1>2, <1>3, <1>4

THEOREM Invariance == Spec => []Inv
<1>1. QED
  BY InitInv, InvStep, PTL DEF Spec

\* Each service has at most one exit in the channel, which has room for twice
\* as many: reportExit is never blocked and never drops one.
LEMMA ExitsBounded ==
    ASSUME Values, ExitsKept
    PROVE  Len(exits) <= 2 * Services
<1>1. exits \in Seq(Service) /\ Len(exits) \in Nat
  BY DEF Values, SupervisorType
<1>2. SUFFICES ASSUME Len(exits) > Services PROVE FALSE
  BY <1>1, ServicesAssumption
<1> DEFINE slots == 1 .. Len(exits)
           f == [i \in slots |-> exits[i]]
<1>3. IsFiniteSet(slots) /\ Cardinality(slots) = Len(exits)
  <2>1. Len(exits) >= 1 /\ Len(exits) \in Int
    BY <1>1, <1>2, ServicesAssumption
  <2>2. QED
    BY <2>1, FS_Interval
<1>4. IsFiniteSet(Service) /\ Cardinality(Service) = Services
  BY ServicesAssumption, FS_Interval DEF Service
<1>5. f \in [slots -> Service]
  BY <1>1
<1>6. \E i, j \in slots : i # j /\ f[i] = f[j]
  <2> HIDE DEF f, slots
  <2>1. QED
    BY <1>2, <1>3, <1>4, <1>5, FS_PigeonHole
<1>7. QED
  BY <1>6 DEF ExitsKept

\* Every variable keeps to its values, and the channel of exits never overflows
\* (supervisor.reportExit).
THEOREM TypeCorrect == Spec => []TypeOK
<1>1. Inv => TypeOK
  BY ExitsBounded DEF Inv, TypeOK
<1>2. QED
  BY <1>1, Invariance, PTL

\* The desktop never installs more updates than the user has approved
\* (prepareWithTracker, desktopApplication.run).
THEOREM UpdatesNeedApproval == Spec => []UpdatesAreApproved
<1>1. Inv => UpdatesAreApproved
  <2> SUFFICES ASSUME Inv, desktop PROVE updates <= approvals
    BY DEF UpdatesAreApproved
  <2>1. Cardinality(Pending) \in Nat /\ updates \in Nat /\ approvals \in Nat
    BY PendingIsFinite DEF Inv, Values
  <2>2. Used >= updates /\ Used \in Nat
    BY <2>1 DEF Used, Token
  <2>3. QED
    BY <2>1, <2>2 DEF Inv, ApprovalsSuffice
<1>2. QED
  BY <1>1, Invariance, PTL

\* No process of a service is alive while packages are changed, while the loop
\* waits for a retry or after it has ended (supervisor.StopAll).
THEOREM NothingUnattended == Spec => []NothingRunsUnattended
<1>1. Inv => NothingRunsUnattended
  BY DEF Inv, Processes, NothingRunsUnattended
<1>2. QED
  BY <1>1, Invariance, PTL

\* The supervisor finds the exit of every service that has ended in the channel
\* (supervisor.Run).
THEOREM ExitsRemembered == Spec => []NoExitIsForgotten
<1>1. Inv => NoExitIsForgotten
  <2> SUFFICES ASSUME Inv, stage \in {"running", "comparing"}, ~remoteMode,
                      NEW s \in Service, process[s] # "up"
               PROVE  \E i \in 1 .. Len(exits) : exits[i] = s
    BY DEF NoExitIsForgotten
  <2>1. process[s] \in {"none", "up", "ended"} /\ process[s] # "none"
    BY DEF Inv, Values, SupervisorType, Processes
  <2>2. QED
    BY <2>1 DEF Inv, ExitsKept
<1>2. QED
  BY <1>1, Invariance, PTL

\* The window never hides an offer or an update under way behind Athena
\* (desktopAssetSwitch.handleSnapshot, UseFrontend).
THEOREM OffersShown == Spec => []OffersAreShown
<1>1. Inv => OffersAreShown
  BY DEF Inv
<1>2. QED
  BY <1>1, Invariance, PTL

-----------------------------------------------------------------------------
(* What becomes of an offer *)

\* An answer the loop listens to is in the channel or about to be put there.
OnItsWay(channel) ==
    \/ channel \in signals
    \/ \E r \in Requests : request[r] = channel

\* While the loop waits for the answer to an offer, the page shows the offer, an
\* answer the loop listens to is on its way, or a check got in between.
OffersStand ==
    stage = "deciding" =>
        \/ update = "available"
        \/ OnItsWay("apply")
        \/ deferrable /\ OnItsWay("dismiss")
        \/ update = "checking"

\* What can be dismissed, or was, has a release to fall back to; and the loop
\* listens to a dismissal exactly if there is one.
Fallback ==
    /\ stage \in Serving => Usable
    /\ stage = "deciding" => deferrable = Usable
    /\ update = "available" /\ canDefer => Usable
    /\ \A r \in Requests : request[r] = "dismissed" => Usable

\* Packages are only added, so that a release stays there.
LEMMA AddKeepsUsable ==
    ASSUME Values, Usable, NEW S, Add(S), UNCHANGED <<record, remoteMode>>
    PROVE  Usable'
<1>1. \A c \in Component : installed[c] \subseteq installed'[c]
  BY DEF Add, Values
<1>2. Compared' = Compared /\ Compared \subseteq Component
  BY ComponentsAssumption DEF Compared, Component, Frontend
<1>3. QED
  BY <1>1, <1>2 DEF Usable

\* What was installed can be fallen back to.
LEMMA InstallIsUsable ==
    ASSUME Values, Chosen, Install
    PROVE  Usable'
<1>1. PICK S \in Installable : Add(S)
  BY DEF Install
<1>2. manifest \in Version /\ record' = manifest /\ remoteMode' = remoteMode
  BY DEF Install, Chosen, settings
<1>3. Compared \subseteq S /\ Compared \subseteq Component
  BY <1>1, ComponentsAssumption DEF Compared, Component, Frontend, Installable
<1>4. \A c \in Compared : manifest \in installed'[c]
  BY <1>1, <1>3 DEF Add
<1>5. record' # 0
  BY <1>2, VersionsAssumption DEF Version
<1>6. QED
  BY <1>2, <1>4, <1>5 DEF Usable, Compared

\* A release to fall back to is never lost.
LEMMA UsableStays ==
    ASSUME Values, Chosen, [Next]_vars, Usable
    PROVE  Usable'
<1>1. CASE Install
  BY <1>1, InstallIsUsable
<1>2. CASE InstallFails
  BY <1>2, AddKeepsUsable DEF InstallFails, settings
<1>3. CASE ~Install /\ ~InstallFails
  <2>1. UNCHANGED <<installed, record, remoteMode>>
    BY <1>3 DEF Next, Step, ReadManifest, ManifestFails, DecideApply,
           DecideDismiss, DecideCancelled, Decided, StartService, Healthy, Ready,
           StartFails, RunCancelled, RunCheck, RunDismiss, RunApply, RunExit,
           Selects, Compare, Restarted, StopService, Done, Approve, GiveUp,
           Returned, Retry, Exit, UserActs, ServiceEnds, Cancel, Publish,
           settings, packages, vars
  <2>2. QED
    BY <2>1 DEF Usable, Compared
<1>4. QED
  BY <1>1, <1>2, <1>3

\* The handlers dismiss what can be dismissed.
LEMMA HandlersKeepFallback ==
    ASSUME Values, Fallback, ControlNext, Usable => Usable',
           UNCHANGED <<stage, deferrable, installed, record, remoteMode>>
    PROVE  Fallback'
<1>0. request \in [Requests -> RequestStates]
  BY DEF Values, ControlType
<1>1. Usable' = Usable
  BY DEF Usable, Compared
<1>2. /\ stage' \in Serving => Usable'
      /\ stage' = "deciding" => deferrable' = Usable'
  BY <1>1 DEF Fallback
<1>3. update' = "available" /\ canDefer' => update = "available" /\ canDefer
  BY DEF ControlNext, ClickCheck, ClickApply, ClickDismiss, ClickRetry, Finish,
         Answer, Signal, SetUpdate
<1>4. ASSUME NEW r \in Requests, request'[r] = "dismissed"
      PROVE  request[r] = "dismissed" \/ (update = "available" /\ canDefer)
  <2>1. ASSUME NEW x \in Requests, NEW next \in {"idle", "check", "approved",
                                                "apply", "dismiss"},
               request' = [request EXCEPT ![x] = next]
        PROVE  request[r] = "dismissed"
    BY <1>0, <1>4, <2>1
  <2>2. ASSUME NEW x \in Requests, ClickCheck(x) \/ ClickApply(x)
        PROVE  request[r] = "dismissed"
    <3>1. CASE ClickCheck(x)
      BY <2>1, <3>1 DEF ClickCheck, Click
    <3>2. CASE ClickApply(x)
      BY <2>1, <3>2 DEF ClickApply, Click
    <3>3. QED
      BY <2>2, <3>1, <3>2
  <2>3. ASSUME NEW x \in Requests, ClickDismiss(x)
        PROVE  update = "available" /\ canDefer
    BY <2>3 DEF ClickDismiss
  <2>4. ASSUME NEW x \in Requests, Finish(x)
        PROVE  request[r] = "dismissed"
    <3>1. CASE Answer(x)
      BY <2>1, <3>1 DEF Answer
    <3>2. CASE Signal(x)
      BY <2>1, <3>2 DEF Signal
    <3>3. QED
      BY <2>4, <3>1, <3>2 DEF Finish
  <2>5. CASE ClickRetry
    <3>1. request' = request
      BY <2>5 DEF ClickRetry
    <3>2. request[r] = "dismissed"
      BY <1>4, <3>1
    <3>3. QED
      BY <3>2
  <2>6. CASE \E x \in Requests : ClickDismiss(x)
    BY <2>3, <2>6
  <2>7. CASE ~(\E x \in Requests : ClickDismiss(x)) /\ ~ClickRetry
    <3>1. \E x \in Requests : ClickCheck(x) \/ ClickApply(x) \/ Finish(x)
      BY <2>7 DEF ControlNext
    <3>2. QED
      BY <2>2, <2>4, <3>1
  <2>8. QED
    BY <2>5, <2>6, <2>7
<1>5. QED
  BY <1>1, <1>2, <1>3, <1>4 DEF Fallback

LEMMA OnlyReadManifestWaits ==
    ASSUME Step, stage' = "deciding"
    PROVE  ReadManifest
BY DEF Step, ManifestFails, DecideApply, DecideDismiss, DecideCancelled,
       Decided, Install, InstallFails, StartService, Healthy, Ready, StartFails,
       RunCancelled, RunCheck, RunDismiss, RunApply, RunExit, Selects, Compare,
       Restarted, StopService, Done, Approve, GiveUp, Retry, Exit, Fails, Leave,
       Goto, loop

\* The loop offers to postpone what can be postponed.
LEMMA StepKeepsFallback ==
    ASSUME Values, Chosen, Fallback, Step, Usable => Usable'
    PROVE  Fallback'
<1>1. stage' \in Serving => Usable'
  <2>1. CASE Install
    BY <2>1, InstallIsUsable
  <2>2. CASE ~Install
    <3>1. stage' \in Serving => stage \in Serving
      BY <2>2 DEF Step, ReadManifest, ManifestFails, DecideApply, DecideDismiss,
             DecideCancelled, Decided, InstallFails, StartService, Healthy,
             Ready, StartFails, RunCancelled, RunCheck, RunDismiss, RunApply,
             RunExit, Selects, Compare, Restarted, StopService, Done, Approve,
             GiveUp, Retry, Exit, Fails, Leave, Goto, loop, Serving
    <3>2. QED
      BY <3>1 DEF Fallback
  <2>3. QED
    BY <2>1, <2>2
<1>2. stage' = "deciding" => ReadManifest
  BY OnlyReadManifestWaits
<1>3. ReadManifest => UNCHANGED <<installed, record, remoteMode, request>>
  BY DEF ReadManifest, packages, settings
<1>4. ReadManifest => Usable' = Usable
  BY <1>3 DEF Usable, Compared
<1>5. stage' = "deciding" => deferrable' = Usable'
  BY <1>2, <1>4 DEF ReadManifest, Goto
<1>6. update' = "available" /\ canDefer' =>
          \/ update = "available" /\ canDefer
          \/ ReadManifest /\ Usable
          \/ stage \in Serving
  BY DEF Step, ReadManifest, ManifestFails, DecideApply, DecideDismiss,
         DecideCancelled, Decided, Install, InstallFails, StartService, Healthy,
         Ready, StartFails, RunCancelled, RunCheck, RunDismiss, RunApply,
         RunExit, Selects, Compare, Restarted, StopService, Done, Approve,
         GiveUp, Returned, Retry, Exit, SetUpdate, control, Serving
<1>7. request' = request
  BY DEF Step, ReadManifest, ManifestFails, DecideApply, DecideDismiss,
         DecideCancelled, Decided, Install, InstallFails, StartService, Healthy,
         Ready, StartFails, RunCancelled, RunCheck, RunDismiss, RunApply,
         RunExit, Selects, Compare, Restarted, StopService, Done, Approve,
         GiveUp, Returned, Retry, Exit, control
<1>8. QED
  BY <1>1, <1>5, <1>6, <1>7 DEF Fallback

LEMMA NextKeepsFallback ==
    Values /\ Chosen /\ Fallback /\ [Next]_vars => Fallback'
<1> SUFFICES ASSUME Values, Chosen, Fallback, [Next]_vars PROVE Fallback'
  OBVIOUS
<1>0. Usable => Usable'
  BY UsableStays
<1>1. CASE UserActs
  BY <1>0, <1>1, HandlersKeepFallback DEF UserActs, loop, packages, settings
<1>2. CASE ServiceEnds \/ Cancel \/ Publish \/ UNCHANGED vars
  <2>1. UNCHANGED <<stage, deferrable, update, canDefer, request, installed,
                    record, remoteMode>>
    BY <1>2 DEF ServiceEnds, Cancel, Publish, vars, control, loop, packages,
                settings
  <2>2. Usable' = Usable
    BY <2>1 DEF Usable, Compared
  <2>3. QED
    BY <2>1, <2>2 DEF Fallback
<1>3. CASE Step
  BY <1>0, <1>3, StepKeepsFallback
<1>4. QED
  BY <1>1, <1>2, <1>3 DEF Next

\* The handlers: a request that is answered is about to signal, and one that
\* signals has done so.
LEMMA HandlersLeaveOffers ==
    ASSUME Values, Fallback, OffersStand, ControlNext,
           UNCHANGED <<stage, deferrable>>
    PROVE  OffersStand'
<1>0. /\ request \in [Requests -> RequestStates]
      /\ deferrable \in BOOLEAN
  BY DEF Values, ControlType
<1>1. ASSUME NEW r \in Requests, ClickCheck(r) PROVE OffersStand'
  BY <1>1 DEF ClickCheck, SetUpdate, OffersStand
<1>2. ASSUME NEW r \in Requests, Signal(r) PROVE OffersStand'
  <2>1. /\ signals' = signals \cup {request[r]}
        /\ request' = [request EXCEPT ![r] = "idle"]
        /\ update' = update
    BY <1>2 DEF Signal
  <2>2. \A channel : OnItsWay(channel) => OnItsWay(channel)'
    <3> SUFFICES ASSUME NEW channel, OnItsWay(channel)
                 PROVE  OnItsWay(channel)'
      OBVIOUS
    <3>1. CASE channel \in signals
      BY <2>1, <3>1 DEF OnItsWay
    <3>2. ASSUME NEW x \in Requests, request[x] = channel
          PROVE  OnItsWay(channel)'
      <4>1. CASE x = r
        BY <2>1, <3>2, <4>1 DEF OnItsWay
      <4>2. CASE x # r
        <5>1. request'[x] = channel
          BY <1>0, <2>1, <3>2, <4>2
        <5>2. QED
          BY <5>1 DEF OnItsWay
      <4>3. QED
        BY <4>1, <4>2
    <3>3. QED
      BY <3>1, <3>2 DEF OnItsWay
  <2>3. QED
    BY <2>1, <2>2 DEF OffersStand
<1>3. ASSUME NEW r \in Requests, Answer(r) PROVE OffersStand'
  <2>1. CASE request' = [request EXCEPT ![r] = "apply"]
    <3>1. request'[r] = "apply"
      BY <1>0, <2>1
    <3>2. OnItsWay("apply")'
      BY <3>1 DEF OnItsWay
    <3>3. QED
      BY <3>2 DEF OffersStand
  <2>2. CASE /\ request[r] = "dismissed"
             /\ request' = [request EXCEPT ![r] = "dismiss"]
    <3>1. request'[r] = "dismiss"
      BY <1>0, <2>2
    <3>2. OnItsWay("dismiss")'
      BY <3>1 DEF OnItsWay
    <3>3. stage = "deciding" => deferrable
      BY <2>2 DEF Fallback
    <3>4. QED
      BY <3>2, <3>3 DEF OffersStand
  <2>3. QED
    BY <1>3, <2>1, <2>2 DEF Answer
<1>4. ASSUME NEW r \in Requests, ClickApply(r) \/ ClickDismiss(r)
      PROVE  OffersStand'
  BY <1>4 DEF ClickApply, ClickDismiss, OffersStand
<1>5. CASE ClickRetry
  <2>1. /\ update' = update /\ request' = request
        /\ signals \subseteq signals'
    BY <1>5 DEF ClickRetry
  <2>2. \A channel : OnItsWay(channel) => OnItsWay(channel)'
    BY <2>1 DEF OnItsWay
  <2>3. QED
    BY <2>1, <2>2 DEF OffersStand
<1>6. QED
  BY <1>1, <1>2, <1>3, <1>4, <1>5 DEF ControlNext, Finish

\* The loop begins to wait with an offer on the page.
LEMMA StepLeavesOffers ==
    ASSUME OffersStand, Step
    PROVE  OffersStand'
<1>1. stage' = "deciding" => ReadManifest
  BY OnlyReadManifestWaits
<1>2. ReadManifest /\ stage' = "deciding" => update' = "available"
  BY DEF ReadManifest, SetUpdate, Goto
<1>3. QED
  BY <1>1, <1>2 DEF OffersStand

LEMMA NextLeavesOffers ==
    Values /\ Fallback /\ OffersStand /\ [Next]_vars => OffersStand'
<1> SUFFICES ASSUME Values, Fallback, OffersStand, [Next]_vars
             PROVE  OffersStand'
  OBVIOUS
<1>1. CASE UserActs
  BY <1>1, HandlersLeaveOffers DEF UserActs, loop
<1>2. CASE ServiceEnds \/ Cancel \/ Publish \/ UNCHANGED vars
  <2>1. UNCHANGED <<stage, deferrable, update, signals, request>>
    BY <1>2 DEF ServiceEnds, Cancel, Publish, vars, control, loop
  <2>2. QED
    BY <2>1 DEF OffersStand, OnItsWay
<1>3. QED
  BY <1>1, <1>2, StepLeavesOffers DEF Next

\* While the loop waits for the answer to an offer, the user can give it, or has
\* given one the loop takes, whatever the handlers did before in whatever order:
\* a check is the only thing that can get in between, as in the finding of the
\* run launcher_offer.  In particular no late dismissal does, as what can be
\* dismissed once can be dismissed for ever (prepareWithTracker, prepareRemote, the
\* handlers of /api/update/apply and /api/update/dismiss).
THEOREM OffersStandUnlessChecked == Spec => []OffersStand
<1>1. Init => Fallback /\ OffersStand
  BY DEF Init, ControlInit, Fallback, Serving, OffersStand
<1>2. Spec => [](Fallback /\ OffersStand)
  BY <1>1, NextKeepsFallback, NextLeavesOffers, Invariance, PTL DEF Spec, Inv
<1>3. QED
  BY <1>2, PTL

-----------------------------------------------------------------------------
(* Coming to rest *)

\* What StopAll has still to do: to end the processes and to forget them.
Known == {s \in Service : process[s] # "none"}
Up == {s \in Service : process[s] = "up"}
StopWork == Cardinality(Known) + Cardinality(Up)

\* One more than the steps a signal can bring about: those of a new start of
\* everything.
PerSignal == 4 * Services + 7

\* The steps the loop can still make without taking a signal; an exit that
\* waits is worth two of them, a service that is to be started as well.
StageSteps ==
    IF stage = "done" THEN 0
    ELSE IF stage = "failed" THEN 1
    ELSE IF stage = "stopping"
         THEN 2 + StopWork + (IF result = "update" THEN PerSignal - 1 ELSE 0)
    ELSE IF stage = "running" THEN 2 * Services + 3 + 2 * Len(exits)
    ELSE IF stage \in {"comparing", "restarting"}
         THEN 2 * Services + 4 + 2 * Len(exits)
    ELSE IF stage = "health"
         THEN 2 * Services + 3 + 2 * Len(exits) + 2 * (Services + 1 - current)
    ELSE IF stage = "starting"
         THEN 2 * Services + 4 + 2 * Len(exits) + 2 * (Services + 1 - current)
    ELSE IF stage = "installing" THEN 4 * Services + 5
    ELSE IF stage = "deciding" THEN 4 * Services + 6
    ELSE 4 * Services + 7

SignalSteps == PerSignal * Cardinality(signals)
StepsLeft == SignalSteps + StageSteps

\* All of these are numbers.
Counted ==
    /\ StopWork \in 0 .. 2 * Services
    /\ StageSteps \in 0 .. 8 * Services + 8
    /\ SignalSteps \in 0 .. 4 * PerSignal

\* Three sums: the provers use them for operators, of which they know no type.
LEMMA SumFalls ==
    ASSUME NEW a \in Int, NEW b \in Int, NEW c \in Int, NEW d \in Int,
           NEW paid \in Int, a = b - paid, c < d + paid
    PROVE  a + c < b + d
OBVIOUS

LEMMA SumShifted ==
    ASSUME NEW a \in Int, NEW b \in Int, NEW n \in Int, a < b
    PROVE  2 + a + n < 2 + b + n
OBVIOUS

LEMMA SumKept ==
    ASSUME NEW a \in Int, NEW b \in Int, NEW c \in Int, a <= b
    PROVE  a + c <= b + c
OBVIOUS

LEMMA StepsLeftSum ==
    /\ StepsLeft = SignalSteps + StageSteps
    /\ StepsLeft' = SignalSteps' + StageSteps'
BY DEF StepsLeft

\* At most one process per service is to be ended and forgotten.
LEMMA StopWorkIsBounded ==
    ASSUME Values
    PROVE  /\ IsFiniteSet(Known) /\ IsFiniteSet(Up)
           /\ Cardinality(Known) \in 0 .. Services
           /\ Cardinality(Up) \in 0 .. Services
           /\ StopWork \in 0 .. 2 * Services
<1>1. IsFiniteSet(Service) /\ Cardinality(Service) = Services
  BY ServicesAssumption, FS_Interval DEF Service
<1>2. Known \subseteq Service /\ Up \subseteq Service
  BY DEF Known, Up
<1>3. /\ IsFiniteSet(Known) /\ Cardinality(Known) <= Services
      /\ IsFiniteSet(Up) /\ Cardinality(Up) <= Services
  BY <1>1, <1>2, FS_Subset
<1>4. Cardinality(Known) \in Nat /\ Cardinality(Up) \in Nat
  BY <1>3, FS_CardinalityType
<1>5. QED
  BY <1>3, <1>4, ServicesAssumption DEF StopWork

\* Each step of StopAll ends a process or forgets one that has ended.
LEMMA StopWorkFalls ==
    ASSUME Values, StopService
    PROVE  StopWork' < StopWork
<1>0. /\ process \in [Service -> {"none", "up", "ended"}]
      /\ IsFiniteSet(Known) /\ IsFiniteSet(Up)
      /\ Cardinality(Known) \in Int /\ Cardinality(Up) \in Int
  BY StopWorkIsBounded DEF Values, SupervisorType
<1>1. PICK s \in Service : Stop(s)
  BY DEF StopService
<1>2. CASE End(s)
  <2>1. process[s] = "up" /\ process' = [process EXCEPT ![s] = "ended"]
    BY <1>2 DEF End
  <2>2. Known' = Known /\ Up' = Up \ {s} /\ s \in Up
    BY <1>0, <2>1 DEF Known, Up
  <2>3. Cardinality(Up') = Cardinality(Up) - 1
    BY <1>0, <2>2, FS_RemoveElement
  <2>4. QED
    BY <1>0, <2>2, <2>3 DEF StopWork
<1>3. CASE process[s] = "ended" /\ process' = [process EXCEPT ![s] = "none"]
  <2>1. Known' = Known \ {s} /\ Up' = Up /\ s \in Known
    BY <1>0, <1>3 DEF Known, Up
  <2>2. Cardinality(Known') = Cardinality(Known) - 1
    BY <1>0, <2>1, FS_RemoveElement
  <2>3. QED
    BY <1>0, <2>1, <2>2 DEF StopWork
<1>4. QED
  BY <1>1, <1>2, <1>3 DEF Stop

LEMMA SignalsAreFew ==
    ASSUME Values
    PROVE  IsFiniteSet(signals) /\ Cardinality(signals) \in 0 .. 4
<1>1. IsFiniteSet({}) /\ Cardinality({}) = 0
  BY FS_EmptySet
<1>2. /\ IsFiniteSet({"check"}) /\ Cardinality({"check"}) = 1
  BY FS_Singleton
<1>3. /\ IsFiniteSet({"check"} \cup {"apply"})
      /\ Cardinality({"check"} \cup {"apply"}) = 2
  BY <1>2, FS_AddElement
<1>4. /\ IsFiniteSet(({"check"} \cup {"apply"}) \cup {"dismiss"})
      /\ Cardinality(({"check"} \cup {"apply"}) \cup {"dismiss"}) = 3
  BY <1>3, FS_AddElement
<1>5. /\ IsFiniteSet((({"check"} \cup {"apply"}) \cup {"dismiss"}) \cup {"retry"})
      /\ Cardinality((({"check"} \cup {"apply"}) \cup {"dismiss"})
                         \cup {"retry"}) = 4
  BY <1>4, FS_AddElement
<1>6. Channels = (({"check"} \cup {"apply"}) \cup {"dismiss"}) \cup {"retry"}
  BY DEF Channels
<1>7. signals \subseteq Channels
  BY DEF Values, ControlType
<1>8. IsFiniteSet(signals) /\ Cardinality(signals) <= 4
  BY <1>5, <1>6, <1>7, FS_Subset
<1>9. QED
  BY <1>8, FS_CardinalityType

\* A signal that is taken pays for PerSignal steps.
LEMMA TakingPays ==
    ASSUME Values, NEW channel, Take(channel)
    PROVE  SignalSteps' = SignalSteps - PerSignal
<1>1. IsFiniteSet(signals) /\ Cardinality(signals) \in Int
  BY SignalsAreFew
<1>2. Cardinality(signals') = Cardinality(signals) - 1
  BY <1>1, FS_RemoveElement DEF Take
<1>3. PerSignal \in Int
  BY ServicesAssumption DEF PerSignal
<1>4. PerSignal * (Cardinality(signals) - 1)
          = PerSignal * Cardinality(signals) - PerSignal
  BY <1>1, <1>3
<1>5. QED
  BY <1>2, <1>4 DEF SignalSteps, PerSignal

LEMMA StepsAreCounted == Inv => Counted
<1> SUFFICES ASSUME Inv PROVE Counted
  OBVIOUS
<1>0. Values /\ Len(exits) <= 2 * Services
  BY ExitsBounded DEF Inv
<1>1. /\ Services \in Nat
      /\ Len(exits) \in 0 .. 2 * Services
      /\ current \in 0 .. Services + 1
      /\ StopWork \in 0 .. 2 * Services
  BY <1>0, ServicesAssumption, StopWorkIsBounded DEF Values, SupervisorType
<1>2. StageSteps \in 0 .. 8 * Services + 8
  BY <1>1 DEF StageSteps, PerSignal
<1>3. Cardinality(signals) \in 0 .. 4
  BY <1>0, SignalsAreFew
<1>4. Cardinality(signals) \in {0, 1, 2, 3, 4}
  BY <1>3
<1>5. SignalSteps \in 0 .. 4 * PerSignal
  BY <1>1, <1>4 DEF SignalSteps, PerSignal
<1>6. QED
  BY <1>1, <1>2, <1>5 DEF Counted

\* A step that takes no signal brings the loop closer to its rest.
LEMMA QuietStepsFall ==
    ASSUME Inv, Counted, Counted', Step, UNCHANGED signals
    PROVE  StageSteps' < StageSteps
<1>1. /\ Services \in Nat
      /\ exits \in Seq(Service)
      /\ Len(exits) \in Nat
      /\ current \in 0 .. Services + 1
      /\ StopWork \in 0 .. 2 * Services
  BY ServicesAssumption, StopWorkIsBounded DEF Inv, Values, SupervisorType
<1>2. \A channel : ~Take(channel)
  BY DEF Take
<1> USE DEF StageSteps, PerSignal
<1>3. CASE ReadManifest
  BY <1>1, <1>3 DEF ReadManifest, Goto
<1>4. CASE ManifestFails \/ InstallFails \/ StartFails
  <2>1. /\ stage \in {"prepare", "installing", "starting", "health", "restarting"}
        /\ stage' = "stopping" /\ result' = "error"
        /\ UNCHANGED <<process, exits, current>>
    BY <1>4 DEF ManifestFails, InstallFails, StartFails, Fails, Leave, Goto,
                supervisor
  <2>2. StopWork' = StopWork
    BY <2>1 DEF StopWork, Known, Up
  <2>3. QED
    BY <1>1, <2>1, <2>2
<1>5. CASE DecideCancelled \/ RunCancelled
  <2>1. /\ stage \in {"deciding", "running"}
        /\ stage' = "stopping" /\ result' \in {"error", "nil"}
        /\ UNCHANGED process
    BY <1>5 DEF DecideCancelled, Decided, RunCancelled, Selects, Leave, Goto,
                supervisor
  <2>2. StopWork' = StopWork
    BY <2>1 DEF StopWork, Known, Up
  <2>3. QED
    BY <1>1, <2>1, <2>2
<1>6. CASE Install
  <2>1. Len(exits') = 0
    BY <1>6 DEF Install, NewSupervisor
  <2>2. QED
    BY <1>1, <1>6, <2>1 DEF Install, Goto
<1>7. CASE StartService
  BY <1>1, <1>7 DEF StartService, Goto
<1>8. CASE Healthy
  BY <1>1, <1>8 DEF Healthy, Goto, supervisor
<1>9. CASE Ready
  BY <1>1, <1>9 DEF Ready, Goto, supervisor
<1>10. CASE RunExit
  <2>1. exits # << >> /\ exits' = Tail(exits)
    BY <1>10 DEF RunExit
  <2>2. Len(exits') = Len(exits) - 1
    BY <1>1, <2>1
  <2>3. QED
    BY <1>1, <1>10, <2>2 DEF RunExit, Selects, Goto
<1>11. CASE Compare \/ Restarted
  <2>1. /\ stage \in {"comparing", "restarting"} /\ stage' = "running"
        /\ exits' = exits
    BY <1>11 DEF Compare, Restarted, Goto, supervisor
  <2>2. QED
    BY <1>1, <2>1
<1>12. CASE StopService
  <2>1. StopWork' < StopWork /\ StopWork' \in Int
    <3>1. StopWork' < StopWork
      BY <1>12, StopWorkFalls DEF Inv
    <3>2. QED
      BY <1>1, <3>1 DEF Counted
  <2>2. QED
    <3>1. stage = "stopping" /\ stage' = "stopping" /\ result' = result
      BY <1>12 DEF StopService, loop
    <3>2. ASSUME NEW n \in Int, result = "update" => n = PerSignal - 1,
                 result # "update" => n = 0
          PROVE  StageSteps' < StageSteps
      <4>1. StageSteps = 2 + StopWork + n
        BY <3>1, <3>2
      <4>2. StageSteps' = 2 + StopWork' + n
        BY <3>1, <3>2
      <4>3. 2 + StopWork' + n < 2 + StopWork + n
        <5>1. StopWork \in Int /\ StopWork' \in Int
          BY <1>1, <2>1
        <5>2. QED
          BY <2>1, <3>2, <5>1, SumShifted
      <4>4. QED
        BY <4>1, <4>2, <4>3
    <3>3. PerSignal - 1 \in Int /\ 0 \in Int
      BY <1>1
    <3>4. QED
      BY <3>2, <3>3
<1>13. CASE Done \/ GiveUp \/ Exit
  BY <1>1, <1>13 DEF Done, GiveUp, Exit, Returned, Goto
<1>14. CASE Approve
  BY <1>1, <1>14 DEF Approve, Returned, Goto
<1>15. QED
  BY <1>2, <1>3, <1>4, <1>5, <1>6, <1>7, <1>8, <1>9, <1>10, <1>11, <1>12,
     <1>13, <1>14
     DEF Step, DecideApply, DecideDismiss, RunCheck, RunDismiss, RunApply, Retry

\* The steps a signal brings about are fewer than those it pays for.
LEMMA SignalledStepsAreFew ==
    ASSUME Inv,
           DecideApply \/ DecideDismiss \/ RunCheck \/ RunDismiss \/ RunApply
               \/ Retry
    PROVE  StageSteps' < StageSteps + PerSignal
<1>1. /\ Services \in Nat
      /\ Len(exits) \in Nat
      /\ StopWork \in 0 .. 2 * Services
  BY ServicesAssumption, StopWorkIsBounded DEF Inv, Values, SupervisorType
<1> USE DEF StageSteps, PerSignal
<1>2. CASE DecideApply \/ DecideDismiss
  <2>1. stage = "deciding" /\ stage' = "installing"
    BY <1>2 DEF DecideApply, DecideDismiss, Decided, Goto
  <2>2. QED
    BY <1>1, <2>1
<1>3. CASE RunCheck
  BY <1>1, <1>3 DEF RunCheck, Selects, Goto, supervisor
<1>4. CASE RunDismiss
  BY <1>1, <1>4 DEF RunDismiss, Selects, supervisor
<1>5. CASE RunApply
  <2>1. stage = "running" /\ UNCHANGED <<process, exits>>
    BY <1>5 DEF RunApply, Selects, supervisor
  <2>2. StopWork' = StopWork
    BY <2>1 DEF StopWork, Known, Up
  <2>3. (stage' = "stopping" /\ result' = "update") \/ stage' = stage
    BY <1>5 DEF RunApply, Leave, Goto
  <2>4. CASE stage' = "stopping" /\ result' = "update"
    BY <1>1, <2>1, <2>2, <2>4
  <2>5. CASE stage' = stage
    BY <1>1, <2>1, <2>5
  <2>6. QED
    BY <2>3, <2>4, <2>5
<1>6. CASE Retry
  BY <1>1, <1>6 DEF Retry, Goto
<1>7. QED
  BY <1>2, <1>3, <1>4, <1>5, <1>6

\* Every step of the loop leaves it fewer.
LEMMA StepsFall ==
    ASSUME Inv, Counted, Counted', Step
    PROVE  StepsLeft' < StepsLeft
<1>2. /\ StageSteps \in Int /\ StageSteps' \in Int
      /\ SignalSteps \in Int /\ SignalSteps' \in Int
      /\ PerSignal \in Int
  BY ServicesAssumption DEF Counted, PerSignal
<1>3. CASE UNCHANGED signals
  <2>1. SignalSteps' = SignalSteps
    BY <1>3 DEF SignalSteps, PerSignal
  <2>2. StageSteps' < StageSteps
    BY <1>3, QuietStepsFall
  <2>3. /\ 0 \in Int
        /\ SignalSteps' = SignalSteps - 0
        /\ StageSteps' < StageSteps + 0
    BY <1>2, <2>1, <2>2
  <2>4. QED
    BY <1>2, <2>3, SumFalls, StepsLeftSum
<1>4. CASE DecideApply \/ DecideDismiss \/ RunCheck \/ RunDismiss \/ RunApply
               \/ Retry
  <2>1. PICK channel : Take(channel)
    BY <1>4 DEF DecideApply, DecideDismiss, RunCheck, RunDismiss, RunApply,
                Retry
  <2>2. SignalSteps' = SignalSteps - PerSignal
    BY <2>1, TakingPays DEF Inv
  <2>3. StageSteps' < StageSteps + PerSignal
    BY <1>4, SignalledStepsAreFew
  <2>4. QED
    BY <1>2, <2>2, <2>3, SumFalls, StepsLeftSum
<1>5. QED
  <2>1. \/ UNCHANGED signals
        \/ DecideApply \/ DecideDismiss \/ RunCheck \/ RunDismiss \/ RunApply
        \/ Retry
    BY DEF Step, ReadManifest, ManifestFails, DecideCancelled, Install,
           InstallFails, StartService, Healthy, Ready, StartFails, RunCancelled,
           RunExit, Compare, Restarted, StopService, Done, Approve, GiveUp, Exit,
           Returned, control
  <2>2. QED
    BY <1>3, <1>4, <2>1

\* The others give it more only by a signal or the end of a process.
LEMMA OnlyCausesAddSteps ==
    ASSUME Inv, UserActs \/ ServiceEnds \/ Cancel \/ Publish \/ UNCHANGED vars,
           signals' \subseteq signals, ~(crashes' > crashes)
    PROVE  StepsLeft' <= StepsLeft
<1>1. crashes \in Int
  BY DEF Inv, Values, SupervisorType
<1>2. ~ServiceEnds
  BY <1>1 DEF ServiceEnds, Crash
<1>3. UNCHANGED <<process, exits, stage, current, result>>
  BY <1>2 DEF UserActs, Cancel, Publish, vars, supervisor, loop
<1>4. StageSteps' = StageSteps
  BY <1>3 DEF StageSteps, PerSignal, StopWork, Known, Up
<1>5. StageSteps \in Int /\ Cardinality(signals) \in {0, 1, 2, 3, 4}
  <2>1. Cardinality(signals) \in 0 .. 4
    BY SignalsAreFew DEF Inv
  <2>2. QED
    BY <2>1, StepsAreCounted, ServicesAssumption DEF Counted
<1>6. /\ Cardinality(signals') \in Nat
      /\ Cardinality(signals') <= Cardinality(signals)
  <2>1. IsFiniteSet(signals)
    BY SignalsAreFew DEF Inv
  <2>2. QED
    BY <2>1, FS_Subset, FS_CardinalityType
<1>7. Cardinality(signals') \in {0, 1, 2, 3, 4}
  BY <1>5, <1>6
<1>8. SignalSteps' <= SignalSteps /\ SignalSteps \in Int /\ SignalSteps' \in Int
  BY <1>5, <1>6, <1>7, ServicesAssumption DEF SignalSteps, PerSignal
<1>9. QED
  BY <1>4, <1>5, <1>8, SumKept, StepsLeftSum

\* The loop never works without a cause: from every state it makes at most
\* StepsLeft steps, and what gives it more is a signal of the user or a process
\* that ends by itself.  Failed starts, updates and restarts end in a rest, and
\* services that cannot be started are not tried for ever (runManaged,
\* supervisor.Run, desktopApplication.run).
THEOREM LoopComesToRest ==
    Spec => /\ [](StepsLeft \in 0 .. 24 * Services + 36)
            /\ [][/\ Step => StepsLeft' < StepsLeft
                  /\ StepsLeft' > StepsLeft =>
                         ~(signals' \subseteq signals) \/ crashes' > crashes]_vars
<1>1. Counted => StepsLeft \in 0 .. 24 * Services + 36
  BY ServicesAssumption DEF Counted, StepsLeft, PerSignal
<1>2. Inv /\ Counted /\ Counted' /\ [Next]_vars =>
          [/\ Step => StepsLeft' < StepsLeft
           /\ StepsLeft' > StepsLeft =>
                  ~(signals' \subseteq signals) \/ crashes' > crashes]_vars
  <2> SUFFICES ASSUME Inv, Counted, Counted', [Next]_vars
               PROVE  /\ Step => StepsLeft' < StepsLeft
                      /\ StepsLeft' > StepsLeft =>
                             ~(signals' \subseteq signals) \/ crashes' > crashes
    OBVIOUS
  <2>1. StepsLeft \in Int /\ StepsLeft' \in Int
    BY ServicesAssumption DEF Counted, StepsLeft, PerSignal
  <2>2. Step => StepsLeft' < StepsLeft
    BY StepsFall
  <2>3. ~Step => UserActs \/ ServiceEnds \/ Cancel \/ Publish \/ UNCHANGED vars
    BY DEF Next
  <2>4. QED
    BY <2>1, <2>2, <2>3, OnlyCausesAddSteps
<1>3. QED
  BY <1>1, <1>2, StepsAreCounted, Invariance, PTL DEF Spec

=============================================================================
