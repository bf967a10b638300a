----------------------------- MODULE Perception -----------------------------
(* What the controller sees of a page and what it concludes from it          *)
(* (perception/incremental.go, perception/orchestrator.go).  A page is one   *)
(* of a few states, two of which may share a URL; an observation is the page *)
(* and its class.  The baseline of a session is the page of the observation  *)
(* before.  Confidence, capture and the recovery plan only label the result  *)
(* for the agent and are left out.                                           *)
EXTENDS BrowserSessions

CONSTANTS
    Pages,      \* the states of a page
    Blank,      \* an observation without URL, title and content
    UrlOf       \* the URL of a page

ASSUME PagesAssumption ==
    /\ Blank \notin Pages
    /\ None \notin Pages \cup {Blank}
    /\ DOMAIN UrlOf = Pages

VARIABLE baseline   \* per session: the page observed last, or None

Urls == {UrlOf[p] : p \in Pages}

Actions ==
    {"navigate", "click", "play", "pause", "download", "type", "hover",
     "select", "drag", "press", "scroll", "wait", "back", "forward",
     "refresh", "extract", "screenshot", "upload", "close"}

\* A page that asks for a login needs the user but is no challenge; "asked" is
\* the state the interaction engine makes up when it needs the user.
Classes == {"plain", "challenge", "login", "error", "asked"}

View == [page: Pages \cup {Blank}, class: Classes]
NoView == [page |-> Blank, class |-> "plain"]
AskedView == [page |-> Blank, class |-> "asked"]

Intervened(v) == v.class \in {"challenge", "login", "asked"}
Challenged(v) == v.class = "challenge"

UrlAt(v) == IF v.page = Blank THEN None ELSE UrlOf[v.page]

PerceptionTypeOK == baseline \in [Sessions -> Pages \cup {Blank, None}]

\* The actions that are judged by the difference to the baseline.
Comparing == {"click", "press", "scroll", "drag"}

\* `transition`: the URL or the title was seen to change after the action.
verifyAction(r, v, base, transition) ==
    IF v.class = "challenge" THEN "blocked"
    ELSE IF v.class = "error" THEN "failed"
    ELSE CASE r.action \in {"navigate", "extract"} ->
                IF UrlAt(v) # None /\ r.target \in {None, UrlAt(v)}
                THEN "verified" ELSE "uncertain"
           [] r.action \in Comparing ->
                IF base \in {None, v.page} THEN "uncertain" ELSE "verified"
           [] r.action \in {"back", "forward"} ->
                IF transition THEN "verified" ELSE "uncertain"
           [] r.action \in {"type", "select", "refresh", "download", "screenshot"} ->
                "verified"
           [] OTHER -> "observed"

\* observeIncremental: the observation becomes the baseline of the next one.
SetBaseline(s, v) == baseline' = [baseline EXCEPT ![s] = v.page]

\* Slip: the baseline of a closed session stays.
KeepBaseline(s) == UNCHANGED baseline

ClearSession(s) == baseline' = [baseline EXCEPT ![s] = None]

=============================================================================
