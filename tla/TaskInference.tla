---------------------------- MODULE TaskInference ---------------------------
(* What a browser task is to do (task_planner.go; inferBrowserTask and its    *)
(* helpers in browser_task.go).  The words of a goal are reduced to what the  *)
(* helpers find in them; the rules that combine the findings are followed.    *)
EXTENDS Naturals

\* What a goal holds.  Control of the current media: a `mediaWord`, `current`,
\* `pause` and `leave`.  A choice on the current page: a `choice` at its begin,
\* or `embedded` in a goal that is about the page (`scoped`).  A target: a URL
\* or a known site, or a name nobody knows.  A result: its `ordinal`, `kinds`
\* of media, and whether to `play` or to `open` it.  A query: `given` with the
\* call, `search` words and something after them (`searched`), or the `title`
\* of a media item, which the target may just repeat.
Goal ==
    {g \in [mediaWord: BOOLEAN, current: BOOLEAN, pause: BOOLEAN, leave: BOOLEAN,
            choice: BOOLEAN, scoped: BOOLEAN, embedded: BOOLEAN,
            target: {"none", "site", "name"}, ordinal: 0 .. 2,
            kinds: BOOLEAN, play: BOOLEAN, open: BOOLEAN,
            given: BOOLEAN, search: BOOLEAN, searched: BOOLEAN,
            title: BOOLEAN, repeats: BOOLEAN, contextual: BOOLEAN] :
        (g.searched => g.search) /\ (g.repeats => g.target = "name")}

\* inferCurrentMediaControl
Control(g) ==
    CASE ~(g.mediaWord /\ g.current) -> "none"
      [] g.mediaWord /\ g.current /\ g.pause -> "pause"
      [] g.mediaWord /\ g.current /\ ~g.pause /\ g.leave -> "leave"
      [] OTHER -> "none"

\* inferCurrentPageSelectionIntent
Chooses(g) == g.choice \/ (g.scoped /\ g.embedded)

\* inferImplicitMediaQuery
NamesMedia(g) == (g.play \/ g.kinds) /\ g.title

\* browserGoalRequestsMediaOpen
OpensMedia(g) == g.kinds /\ g.open

\* inferBrowserQuery: after a search word there may be nothing but noise.
StatesQuery(g) == g.given \/ g.searched

\* The query of a goal; an ordinal without a search is about the page at hand.
Queried(g) ==
    IF g.ordinal > 0 /\ ~g.search THEN "none"
    ELSE IF StatesQuery(g) THEN "stated"
    ELSE IF NamesMedia(g) THEN "title" ELSE "none"

\* browserTargetLooksLikeMediaTitle: a name that repeats the title is no site.
Target(g) == IF Queried(g) = "title" /\ g.repeats THEN "none" ELSE g.target

\* A task: what it controls, whether it chooses on the current page, and else
\* its target, query and result.  `ordinal` 0 is no result.
Task(control, chooses, target, query, ordinal, plays, contextual) ==
    [control |-> control, chooses |-> chooses, target |-> target,
     query |-> query, ordinal |-> ordinal, plays |-> plays,
     contextual |-> contextual]

\* A goal that says nothing else is a target by itself, of no known site.
Opening(g) ==
    LET queried == Queried(g)
        query == queried # "none"
        plays == g.play \/ queried = "title"
                    \/ (g.ordinal > 0 /\ OpensMedia(g))
        ordinal == IF plays /\ query /\ g.ordinal = 0 THEN 1 ELSE g.ordinal
    IN  Task("none", FALSE,
             IF Target(g) = "none" /\ ~query /\ ordinal = 0 /\ ~plays
             THEN "name" ELSE Target(g),
             query, ordinal, plays, FALSE)

\* browserTaskPlanner.Plan
Plan(g) ==
    CASE g.contextual -> Task("none", FALSE, "none", TRUE, 0, FALSE, TRUE)
      [] ~g.contextual /\ Control(g) # "none" ->
            Task(Control(g), FALSE, "none", FALSE, 0, FALSE, FALSE)
      [] ~g.contextual /\ Control(g) = "none" /\ Chooses(g) ->
            Task("none", TRUE, "none", FALSE, 0, FALSE, FALSE)
      [] OTHER -> Opening(g)

\* runTask, openTaskTarget: the first action, in a session that exists.  A
\* target without a URL is handed to the search capability.
FirstNode(task) ==
    CASE task.control = "leave" -> "leave_extract"
      [] task.control = "pause" -> "pause_extract"
      [] task.chooses -> "select_extract"
      [] task.control = "none" /\ ~task.chooses ->
            IF task.target = "site" THEN "open_navigate"
            ELSE IF task.target = "name" THEN "handoff"
            ELSE IF task.plays /\ ~task.query /\ task.ordinal = 0
            THEN "play_current" ELSE "open_extract"

\* What is left to do once the target is open.
Wish(task) ==
    [query |-> task.query, results |-> task.ordinal > 0, plays |-> task.plays,
     contextual |-> task.contextual]

NoWish == [query |-> FALSE, results |-> FALSE, plays |-> FALSE, contextual |-> FALSE]

\* What is left once the target is open and its search begun.  A contextual
\* title is looked for on the media page at hand, to play the first result
\* (contextualizeMediaTask).
Rest(wish) ==
    IF wish.contextual THEN [NoWish EXCEPT !.results = TRUE, !.plays = TRUE]
    ELSE [wish EXCEPT !.query = FALSE]

=============================================================================
