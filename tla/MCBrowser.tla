----------------------------- MODULE MCBrowser -----------------------------
(* A small instance of Browser for TLC: two pages, two sessions of which     *)
(* calls name the default one, a goal of each kind, and a few things to look *)
(* for; and the laws of the planning and of the choice of a target, over all *)
(* goals and over small pages.                                               *)
EXTENDS Browser, Sequences

CONSTANTS a, b, main, other

MCUrlOf == [p \in Pages |-> p]

\* An earlier process closed both sessions, the other one while an action ran
\* in it, whose observation marked it as open again.
MCFiles ==
    {[sessions |-> [s \in Sessions |-> IF s = main THEN "closed" ELSE "open"],
      active |-> None]}

(* Goals. *)

\* "Take me there", of which nothing is known.
Silent ==
    [mediaWord |-> FALSE, current |-> FALSE, pause |-> FALSE, leave |-> FALSE,
     choice |-> FALSE, scoped |-> FALSE, embedded |-> FALSE, target |-> "none",
     ordinal |-> 0, kinds |-> FALSE, play |-> FALSE, open |-> FALSE,
     given |-> FALSE, search |-> FALSE, searched |-> FALSE, title |-> FALSE,
     repeats |-> FALSE, contextual |-> FALSE]

\* Leave or pause the current video; choose the second one on the right; play;
\* search a site and play the first result; open the second result here; a
\* title to look for on the media page at hand; a site; a name nobody knows.
MCGoals ==
    {[Silent EXCEPT !.mediaWord = TRUE, !.current = TRUE, !.leave = TRUE],
     [Silent EXCEPT !.mediaWord = TRUE, !.current = TRUE, !.pause = TRUE],
     [Silent EXCEPT !.choice = TRUE],
     [Silent EXCEPT !.play = TRUE],
     [Silent EXCEPT !.target = "site", !.search = TRUE, !.searched = TRUE,
                    !.play = TRUE],
     [Silent EXCEPT !.ordinal = 2, !.open = TRUE],
     [Silent EXCEPT !.contextual = TRUE, !.title = TRUE],
     [Silent EXCEPT !.target = "site"],
     Silent}

(* Things to look for. *)

Box(x, y) == [x |-> x, y |-> y, w |-> 10, h |-> 10]

\* A link of no place, seen well.
Link ==
    [id |-> 1, ref |-> TRUE, box |-> NoBox, playable |-> TRUE, kind |-> TRUE,
     role |-> TRUE, semantic |-> 100, anchor |-> 0, source |-> 94,
     match |-> 0, colour |-> 0, position |-> 0, order |-> 1, rank |-> 1]

\* A heading; a video beside it and another sighting of it, of better looks;
\* one below, the first of its list; a text that is nothing of the kind.
Pool ==
    {[Link EXCEPT !.box = Box(0, 0), !.anchor = 100, !.semantic = 0],
     [Link EXCEPT !.id = 2, !.box = Box(20, 0), !.position = 2, !.rank = 2],
     [Link EXCEPT !.id = 2, !.ref = FALSE, !.source = 74, !.rank = 2, !.match = 80],
     [Link EXCEPT !.id = 3, !.box = Box(60, 40), !.position = 1, !.anchor = 60,
                  !.rank = 3, !.colour = 20],
     [Link EXCEPT !.id = 4, !.ref = FALSE, !.playable = FALSE, !.kind = FALSE,
                  !.semantic = 60, !.source = 66, !.rank = 4]}

PagesOf(n, confidences) ==
    [things: UNION {[1 .. m -> Pool] : m \in 0 .. n}, confidence: confidences,
     pictured: {TRUE}]

Anything ==
    [ordinal |-> 1, direction |-> "none", anchored |-> FALSE,
     immediate |-> FALSE, visual |-> FALSE, query |-> FALSE, plays |-> FALSE,
     kinds |-> FALSE, roles |-> FALSE]

MCShown == PagesOf(1, {0, 62})

\* The first thing, the first one of some words, the second one, and the one
\* on the right.
MCWants ==
    {[w EXCEPT !.plays = plays] :
        w \in {Anything, [Anything EXCEPT !.query = TRUE, !.visual = TRUE],
               [Anything EXCEPT !.ordinal = 2],
               [Anything EXCEPT !.direction = "right"]},
        plays \in BOOLEAN}

(* Laws. *)

\* A plan plays no result of a search without saying which one, starts with an
\* action or hands over, and knows something to do on the page it looks at
\* first (inferBrowserTask, runTask).
ASSUME PlansAreWhole ==
    \A goal \in Goal :
        LET plan == Plan(goal)
            node == FirstNode(plan)
        IN  /\ plan.plays /\ plan.query => plan.ordinal > 0
            /\ node = "handoff" \/ ActionAt(node) # "wait"
            /\ node = "open_extract" => plan.query \/ plan.ordinal > 0

\* Of each page, any number of things to look for: the eligible ones are in a
\* strict total order, so that an ordinal selects at most one of them; what is
\* resolved at a high risk is at a low one; what was asked for in a direction
\* lies there (orderBrowserCandidates, browserResolutionThresholds,
\* browserSpatialEvidenceScore).
ASSUME ResolutionIsUnambiguous ==
    \A p \in PagesOf(2, {62}) \cup [things: [1 .. 3 -> Pool], confidence: {62}, pictured: {TRUE}],
       direction \in {"right", "none"}, anchored, immediate, query \in BOOLEAN :
        LET w == [Anything EXCEPT !.direction = direction,
                                  !.anchored = anchored /\ direction # "none",
                                  !.immediate = immediate, !.query = query]
            eligible == Eligible(p, w)
        IN  /\ \A c, d \in eligible :
                /\ c = d \/ (Before(p, c, d, w) <=> ~Before(p, d, c, w))
                /\ ~Before(p, c, c, w)
                /\ \A e \in eligible :
                    Before(p, c, d, w) /\ Before(p, d, e, w) => Before(p, c, e, w)
            /\ Cardinality(Selection(p, w)) <= 1
            /\ Resolved(p, w, "HIGH") \subseteq Resolved(p, w, "LOW")
            /\ w.anchored => \A c \in Resolved(p, w, "LOW") :
                                LiesTo(w.direction, c.box, Anchor(p).box)

=============================================================================
