------------------------------ MODULE Supervisor ------------------------------
(***************************************************************************)
(* The supervisor of internal/launcher/deployment/services.go: the         *)
(* processes of the services and the channel in which their exits wait.    *)
(* Services are numbered in the order of the manifest.  A process that     *)
(* ends closes its done channel and sends its exit; this is one step.      *)
(* The loop that starts, restarts and stops them is in module Launcher.    *)
(***************************************************************************)
EXTENDS Naturals, Sequences

CONSTANTS Services,    \* how many services the manifest lists
          MaxCrashes   \* bound on the processes that end by themselves

ASSUME ServicesAssumption == Services \in Nat
ASSUME CrashesAssumption == MaxCrashes \in Nat

Service == 1 .. Services

VARIABLES process,  \* s.processes: absent, running or ended
          exits,    \* s.exits
          orphans,  \* history: services with a process s.processes has lost
          crashes   \* bound

supervisor == <<process, exits, orphans, crashes>>

SupervisorType ==
    /\ process \in [Service -> {"none", "up", "ended"}]
    /\ exits \in Seq(Service)
    /\ orphans \subseteq Service
    /\ crashes \in 0 .. MaxCrashes

SupervisorInit ==
    /\ process = [s \in Service |-> "none"]
    /\ exits = << >>
    /\ orphans = {}
    /\ crashes = 0

\* The new supervisor knows no process of the old one.
ForgetProcesses ==
    /\ process' = [s \in Service |-> "none"]
    /\ orphans' = orphans \cup {s \in Service : process[s] = "up"}
    /\ UNCHANGED crashes

\* Slip: the channel of the old supervisor is used again.
KeepChannel == ForgetProcesses /\ UNCHANGED exits

\* newSupervisor
NewSupervisor == ForgetProcesses /\ exits' = << >>

\* start, up to cmd.Start and its entry in s.processes
Launch(s) ==
    /\ process' = [process EXCEPT ![s] = "up"]
    /\ orphans' = IF process[s] = "up" THEN orphans \cup {s} ELSE orphans
    /\ UNCHANGED crashes

\* cmd.Wait returns
End(s) ==
    /\ process[s] = "up"
    /\ process' = [process EXCEPT ![s] = "ended"]
    /\ exits' = Append(exits, s)
    /\ UNCHANGED orphans

\* The process of s ends by itself.
Crash(s) ==
    /\ crashes < MaxCrashes
    /\ crashes' = crashes + 1
    /\ End(s)

\* Slip: a process that does not stop in time is left behind.
StopImpatiently(s) ==
    /\ process[s] # "none"
    /\ \A t \in Service : t > s => process[t] = "none"
    /\ process' = [process EXCEPT ![s] = "none"]
    /\ orphans' = IF process[s] = "up" THEN orphans \cup {s} ELSE orphans
    /\ UNCHANGED <<exits, crashes>>

\* StopAll, for the last service it has not stopped yet: it interrupts the
\* process, after ten seconds kills it, waits until it has ended and forgets it.
Stop(s) ==
    /\ process[s] # "none"
    /\ \A t \in Service : t > s => process[t] = "none"
    /\ \/ End(s)
       \/ /\ process[s] = "ended"
          /\ process' = [process EXCEPT ![s] = "none"]
          /\ UNCHANGED <<exits, orphans>>
    /\ UNCHANGED crashes

Stopped == \A s \in Service : process[s] = "none"

=============================================================================
