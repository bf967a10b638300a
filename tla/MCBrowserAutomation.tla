------------------------- MODULE MCBrowserAutomation -------------------------
(* Small instances of BrowserAutomation for TLC. *)
EXTENDS BrowserAutomation, TLC

CONSTANT s1

OneSession == [r \in Rules |-> s1]

Symmetry == Permutations(Rules) \cup Permutations(Watchers)
                \cup Permutations(Callers)

=============================================================================
