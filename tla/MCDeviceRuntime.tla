--------------------------- MODULE MCDeviceRuntime ---------------------------
(* Small instances of DeviceRuntime for TLC. *)
EXTENDS DeviceRuntime, TLC

MCActionIDs == {"a1", "a2", "a3"}
MCTasks == {"t"}
MCKeys == {"k1", "k2", "k3"}

Frame(id, seq, key, decision) ==
    [id |-> id, task |-> "t", seq |-> seq, key |-> key, valid |-> TRUE,
     decision |-> decision, near |-> FALSE]

Near(f) == [f EXCEPT !.near = TRUE]
Invalid(f) == [f EXCEPT !.valid = FALSE]

\* Two steps of a task.
StepEnvelopes ==
    {Near(Frame("a1", 1, "k1", "ALLOW")), Frame("a2", 2, "k2", "ALLOW")}

\* Two steps of a task; the first is also retried under a new action id, and one
\* delivery of the second is incomplete.
RetryEnvelopes ==
    {Near(Frame("a1", 1, "k1", "ALLOW")), Frame("a3", 1, "k1", "ALLOW"),
     Frame("a2", 2, "k2", "ALLOW"), Invalid(Frame("a2", 2, "k2", "ALLOW"))}

\* Three steps for a control plane that sends them one after the other; the
\* first two are withheld.
SequentialEnvelopes ==
    {Frame("a1", 1, "k1", "BLOCK"), Frame("a2", 2, "k2", "ASK_USER"),
     Frame("a3", 3, "k3", "ALLOW")}

Symmetry == Permutations(Deliveries)

=============================================================================
