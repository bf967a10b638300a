------------------------------ MODULE TaskFlow ------------------------------
(* The course of a browser task (browser_task.go).  A node is an action the  *)
(* task takes; After gives the nodes that may follow when the action         *)
(* returned without an error, from the view it returned.  What the words of  *)
(* the goal and the elements of the page decide is a free choice; what the   *)
(* code decides from the observed state is followed.                         *)
EXTENDS Interaction, TaskInference, TargetResolution

CONSTANTS
    Shown,      \* the pages targets are looked for on
    Wants       \* the targets looked for

\* What the search for a target to play, or to open, can come to.
Outcomes ==
    [plays \in BOOLEAN |->
        {Resolution(p, w, "LOW") : p \in Shown, w \in {w \in Wants : w.plays = plays}}]

Endings == {"completed", "asked", "handoff", "selection", "failed"}

ActionAt(node) ==
    CASE node \in {"leave_extract", "pause_extract", "select_extract",
                   "open_extract"} -> "extract"
      [] node = "leave_back" -> "back"
      [] node = "media_pause" -> "pause"
      [] node \in {"select_shot", "result_shot"} -> "screenshot"
      [] node \in {"select_click", "nth_click"} -> "click"
      [] node \in {"play_current", "result_play", "nth_play"} -> "play"
      [] node \in {"open_navigate", "search_navigate", "search_nowhere",
                   "collection_navigate", "result_navigate"} -> "navigate"
      [] node = "search_type" -> "type"
      [] node = "search_press" -> "press"
      [] OTHER -> "wait"

\* The nodes whose action names the page it was decided on, and a label.
Grounded == {"select_click", "result_play", "nth_click"}

\* The requests a node can make, decided at a URL.  A result may have no URL
\* and a site nobody knows no search page.  Where a play leads is part of its
\* effect; its URL is not compared with anything.
RequestsAt(node, url) ==
    [action: {ActionAt(node)},
     target: CASE node \in {"open_navigate", "search_navigate",
                           "collection_navigate"} -> Urls
               [] node \in {"result_navigate", "nth_click"} -> Urls \cup {None}
               [] OTHER -> {None},
     expected: {IF node \in Grounded \cup {"nth_play"} THEN url ELSE None},
     sensitive: IF node \in Grounded THEN BOOLEAN ELSE {FALSE}]

\* A view without elements has no reference to click, and none to type into.
HasRefs(v) == v.page # Blank

End(v) == IF Intervened(v) THEN "asked" ELSE "completed"

(* Results: openFirstTaskResult. *)

Open(plays) == IF plays THEN "result_play" ELSE "result_navigate"

\* findNthBrowserResultRef, with one more wait when it finds none.
NthResult(v) == {"nth_wait"} \cup IF HasRefs(v) THEN {"nth_click"} ELSE {}

\* Nothing could be resolved: a collection is opened for its items, then the
\* user is asked, then the element at the position is taken.
Fallback(plays, v, r) ==
    (IF plays THEN {"collection_navigate"} ELSE {})
        \cup (IF r.selected THEN {"asked"} ELSE NthResult(v))

\* With `next` the node that waits for the page, if there is still one; r is
\* what the search for the result comes to.
ResultsAfter(next, plays, v, r) ==
    CASE r.found -> {Open(plays)}
      [] ~r.found /\ next # None /\ ~Intervened(v) -> {next}
      [] ~r.found /\ (next = None \/ Intervened(v)) ->
            IF r.look THEN {"result_shot"} ELSE Fallback(plays, v, r)

ResultsAfterShot(plays, v, r) ==
    IF r.found THEN {Open(plays)} ELSE Fallback(plays, v, r)

(* Search: searchWithinTaskTarget, and what follows the opened target. *)

Search(v) ==
    {"search_navigate", "search_nowhere"}
        \cup IF HasRefs(v) THEN {"search_type"} ELSE {}

Results(wish, v, r) ==
    IF wish.results THEN ResultsAfter("result_wait1", wish.plays, v, r)
    ELSE {"completed"}

\* "selection": the page offers profiles or accounts to choose from.
AfterSearch(wish, v, r) ==
    IF Intervened(v) THEN {"asked"} ELSE {"selection"} \cup Results(wish, v, r)

\* A contextual title fails on a page that is no media catalog.
AfterOpen(wish, v, r) ==
    IF Intervened(v) THEN {"asked"}
    ELSE {"selection"}
            \cup (IF wish.contextual THEN {"failed"} ELSE {})
            \cup (IF wish.query THEN Search(v) ELSE Results(wish, v, r))

(* A choice on the current page: selectCurrentPageElement. *)

SelectAfter(next, v, r) ==
    CASE r.found /\ HasRefs(v) -> {"select_click"}
      [] ~(r.found /\ HasRefs(v)) /\ next # None -> {next}
      [] ~(r.found /\ HasRefs(v)) /\ next = None ->
            IF r.look /\ HasRefs(v) THEN {"select_shot"}
            ELSE IF r.shown THEN {"asked"} ELSE {"failed"}

\* The nodes that end when their view needs the user.
EndsIntervened ==
    {"leave_extract", "pause_extract", "select_extract", "select_wait1",
     "select_wait2", "select_shot", "select_click"}

\* What follows the action of task k that returned view v, where the search for
\* a target comes to r; k.url is the URL of the view before it.
NodesAfter(k, v, r) ==
    IF k.node \in EndsIntervened /\ Intervened(v) THEN {"asked"}
    ELSE CASE k.node = "leave_extract" -> {"leave_back"}
      [] k.node = "pause_extract" -> {"media_pause"}
      [] k.node = "leave_back" ->
            IF UrlAt(v) = k.url THEN {"media_pause"} ELSE {End(v)}
      [] k.node = "select_extract" -> SelectAfter("select_wait1", v, r)
      [] k.node = "select_wait1" -> SelectAfter("select_wait2", v, r)
      [] k.node \in {"select_wait2", "select_shot"} -> SelectAfter(None, v, r)
      [] k.node = "select_click" -> {"select_done"}
      [] k.node \in {"open_extract", "open_navigate"} -> AfterOpen(k.wish, v, r)
      [] k.node = "search_type" -> {"search_press"}
      [] k.node = "search_press" -> {"search_wait"}
      [] k.node \in {"search_navigate", "search_wait"} ->
            AfterSearch(k.wish, v, r)
      [] k.node = "result_wait1" -> ResultsAfter("result_wait2", k.wish.plays, v, r)
      [] k.node = "result_wait2" -> ResultsAfter(None, k.wish.plays, v, r)
      [] k.node = "result_shot" -> ResultsAfterShot(k.wish.plays, v, r)
      [] k.node = "collection_navigate" ->
            IF Intervened(v) THEN {"asked"} \cup NthResult(v)
            ELSE {"collection_wait"}
      [] k.node = "collection_wait" ->
            {Open(k.wish.plays), "asked"} \cup NthResult(v)
      [] k.node = "result_navigate" ->
            {IF UrlAt(v) = k.request.target THEN End(v) ELSE "failed"}
      [] k.node = "nth_wait" ->
            {"failed"} \cup IF HasRefs(v) THEN {"nth_click"} ELSE {}
      [] k.node = "nth_click" -> {"nth_done"}
      [] k.node = "nth_done" -> IF k.wish.plays THEN {"nth_play"} ELSE {End(v)}
      [] OTHER -> {End(v)}

\* A choice on the page plays nothing.
After(k, v) == UNION {NodesAfter(k, v, r) : r \in Outcomes[k.wish.plays]}

\* Only typing has a way out when it fails.
AfterFailure(node) == IF node = "search_type" THEN "search_nowhere" ELSE "failed"

=============================================================================
