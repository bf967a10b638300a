---------------------------- MODULE ActionLedger ----------------------------
(***************************************************************************)
(* What the device runtime promises the control plane, without goroutines, *)
(* connections, idempotency keys or retries: during one life of the        *)
(* launcher process every task is a log of steps.  A step is appended      *)
(* once, in order, and is settled at most once, with an outcome that never *)
(* changes afterwards.  A new process starts from empty logs, because      *)
(* nothing of the log is kept on disk.                                     *)
(***************************************************************************)
EXTENDS Naturals, Sequences

CONSTANTS Tasks,     \* the tasks the control plane runs on this device
          Outcomes   \* what a step can be settled with

VARIABLE ledger      \* ledger[t][n]: "running" or the outcome of step n of t

Entries == {"running"} \cup Outcomes

TypeOK == ledger \in [Tasks -> Seq(Entries)]

Init == ledger = [t \in Tasks |-> << >>]

\* The next step of task t starts.
Accept(t) == ledger' = [ledger EXCEPT ![t] = Append(@, "running")]

\* Step n of task t gets its outcome, for good.
Settle(t, n, outcome) ==
    /\ ledger[t][n] = "running"
    /\ ledger' = [ledger EXCEPT ![t][n] = outcome]

\* The launcher is replaced by a new process.
Forget == ledger' = [t \in Tasks |-> << >>]

Next ==
    \/ \E t \in Tasks : Accept(t)
    \/ \E t \in Tasks : \E n \in DOMAIN ledger[t] :
           \E outcome \in Outcomes : Settle(t, n, outcome)
    \/ Forget

Spec == Init /\ [][Next]_ledger

=============================================================================
