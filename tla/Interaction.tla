----------------------------- MODULE Interaction ----------------------------
(* The rules of the interaction engine (interaction_engine.go): which        *)
(* actions a task may take unasked, when an action counts as done and which  *)
(* one may be tried again.                                                   *)
EXTENDS Perception

\* A request: its action, the URL it should reach, the URL of the page it was
\* decided on, and whether a label of it is sensitive ("buy", "password", ...).
Request ==
    [action: Actions, target: Urls \cup {None}, expected: Urls \cup {None},
     sensitive: BOOLEAN]

Plain(action) ==
    [action |-> action, target |-> None, expected |-> None, sensitive |-> FALSE]
Extract == Plain("extract")

\* browserTaskActionPolicy; "ASK_USER" and "BLOCK" differ in their text only.
Allowed(r) ==
    /\ ~r.sensitive
    /\ r.action \in {"navigate", "click", "play", "type", "hover", "select",
                     "press", "scroll", "back", "forward", "refresh", "wait",
                     "extract", "screenshot"}

\* browserInteractionPostcondition.  `own`: the view follows the action itself,
\* and not a later observation.  A play that returned no error has verified
\* its playback; the observation after it says nothing of it.
Postcondition(r, v, own, transition) ==
    CASE r.action \in {"navigate", "click"} /\ r.target # None ->
                v.class # "error" /\ UrlAt(v) = r.target
      [] r.action \in {"play", "screenshot"} -> own
      [] r.action \in {"back", "forward"} -> transition
      [] r.action \in {"type", "select", "refresh", "extract", "wait",
                       "scroll", "hover"} -> v.page # Blank
      [] OTHER -> FALSE

\* browserInteractionVerified, for the view that follows the action itself.
Verified(r, v, verdict, transition) ==
    CASE verdict = "verified" -> TRUE
      [] verdict = "observed" ->
            r.action \in {"extract", "wait", "scroll", "hover"}
      [] OTHER -> Postcondition(r, v, TRUE, transition)

\* Slip: whatever may be done unasked may be done again.
RetryAny(r) == Allowed(r)

Retryable(r) ==
    /\ Allowed(r)
    /\ \/ r.action \in {"navigate", "play"}
       \/ r.action = "click" /\ r.target # None

=============================================================================
