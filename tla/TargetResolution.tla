-------------------------- MODULE TargetResolution --------------------------
(* The choice of a target on an observed page (target_resolver.go,            *)
(* target_grounding.go).  A page is the sequence of the things seen on it,    *)
(* the same one perhaps more than once, how sure the page model is of it and  *)
(* whether there is a screenshot.  What the comparison of words and colours   *)
(* yields is an attribute of a thing; evidence, order and decision follow     *)
(* from these as in the code, in percent.                                     *)
EXTENDS Integers, Sequences, FiniteSets

CONSTANT NoBox      \* the box of a thing the browser gave no place for

\* A thing: its identity, whether it has a reference, its box; whether it can
\* be played and has a wanted kind or role; how well its words match the
\* wanted ones and those of the anchor, what its source is worth; how sure an
\* explicit visual match is of it and how much of its picture has the wanted
\* colour, 0 for unknown; its position on the page, its order, the rank of its
\* label and sighting.  Only by its reference a thing has a box.
Things(Boxes) ==
    {c \in [id: Nat, ref: BOOLEAN, box: Boxes \cup {NoBox},
            playable: BOOLEAN, kind: BOOLEAN, role: BOOLEAN,
            semantic: 0 .. 100, anchor: 0 .. 100, source: 0 .. 100,
            match: 0 .. 100, colour: 0 .. 100, position: Nat, order: Nat, rank: Nat] :
        c.box # NoBox => c.ref}

\* What is wanted: which of the eligible things, in which direction (of an
\* anchor, perhaps right beside it), by its looks, by a query, to be played,
\* of certain kinds or roles.
Directions == {"right", "left", "top", "bottom"}
Wanted ==
    {w \in [ordinal: Nat \ {0}, direction: Directions \cup {"none"},
            anchored: BOOLEAN, immediate: BOOLEAN, visual: BOOLEAN,
            query: BOOLEAN, plays: BOOLEAN, kinds: BOOLEAN, roles: BOOLEAN] :
        w.anchored => w.direction # "none"}

(* Places.  Centres are doubled, distances in fortieths. *)

Abs(n) == IF n < 0 THEN -n ELSE n
LargerOf(m, n) == IF m > n THEN m ELSE n
LesserOf(m, n) == IF m < n THEN m ELSE n

CentreX(b) == 2 * b.x + b.w
CentreY(b) == 2 * b.y + b.h

\* browserRelativeSpatialDistance, its condition ...
LiesTo(direction, b, a) ==
    CASE direction = "right" -> CentreX(b) > CentreX(a)
      [] direction = "left" -> CentreX(b) < CentreX(a)
      [] direction = "bottom" -> CentreY(b) > CentreY(a)
      [] direction = "top" -> CentreY(b) < CentreY(a)

\* ... and its value.
Distance(direction, b, a) ==
    CASE direction = "right" -> 40 * Abs(b.x - (a.x + a.w)) + 7 * Abs(CentreY(b) - CentreY(a))
      [] direction = "left" -> 40 * Abs(a.x - (b.x + b.w)) + 7 * Abs(CentreY(b) - CentreY(a))
      [] direction = "bottom" -> 40 * Abs(b.y - (a.y + a.h)) + 7 * Abs(CentreX(b) - CentreX(a))
      [] direction = "top" -> 40 * Abs(a.y - (b.y + b.h)) + 7 * Abs(CentreX(b) - CentreX(a))

\* browserImmediateSpatialAlignment
InLine(direction, b, a) ==
    LET within(d, size) == d <= 48 \/ 5 * d <= 8 * size
    IN  IF direction \in {"right", "left"}
        THEN within(Abs(CentreY(b) - CentreY(a)), LargerOf(b.h, a.h))
        ELSE within(Abs(CentreX(b) - CentreX(a)), LargerOf(b.w, a.w))

\* resolveBrowserSpatialRelation: the first of the things with a place that
\* match the anchor's words best.
Anchors(model) ==
    LET things == model.things
    IN  {i \in DOMAIN things :
            /\ things[i].box # NoBox /\ things[i].anchor >= 55
            /\ \A j \in DOMAIN things :
                things[j].box # NoBox =>
                    \/ things[j].anchor < things[i].anchor
                    \/ things[j].anchor = things[i].anchor /\ i <= j}

AnchorLost(model, w) == w.anchored /\ Anchors(model) = {}

Anchor(model) == model.things[CHOOSE i \in Anchors(model) : TRUE]

\* The things that have a place in the wanted direction.
Placed(model, c, w) ==
    /\ c.box # NoBox
    /\ w.anchored => /\ Anchors(model) # {}
                     /\ c.id # Anchor(model).id
                     /\ LiesTo(w.direction, c.box, Anchor(model).box)

(* Evidence, in percent. *)

\* browserSpatialEvidenceScore
Spatial(model, c, w) ==
    IF w.direction = "none" THEN 75
    ELSE IF ~Placed(model, c, w) THEN 0
    ELSE IF ~w.anchored THEN 94
    ELSE IF w.immediate /\ ~InLine(w.direction, c.box, Anchor(model).box) THEN 0
    ELSE 78 + (18 * 12000) \div (12000 + Distance(w.direction, c.box, Anchor(model).box))

\* browserCandidateSemanticEvidence
Semantic(c, w) == IF w.query THEN c.semantic ELSE 82

\* browserKindEvidence
KindEvidence(c, w) ==
    IF w.roles /\ ~c.role THEN 10
    ELSE IF w.kinds THEN IF c.kind THEN 96 ELSE 10
    ELSE IF w.roles THEN 96
    ELSE IF w.plays /\ c.playable THEN 90 ELSE 78

\* browserVisualEvidenceScore: a screenshot alone is no evidence.
Visual(model, c) ==
    IF c.match > 0 THEN c.match
    ELSE IF ~model.pictured THEN 0
    ELSE LesserOf(100, 35 + (5 * c.colour) \div 2)

\* browserOrdinalEvidence
OrdinalEvidence(c) == IF c.position > 0 \/ c.order > 0 THEN 96 ELSE 82

\* browserCandidateConfidence
Confidence(model, c, w, ordinal, visual) ==
    LET sum == IF visual
               THEN 22 * Semantic(c, w) + 13 * KindEvidence(c, w) + 14 * ordinal
                    + 9 * c.source + 9 * model.confidence + 25 * Visual(model, c) + 8 * Spatial(model, c, w)
               ELSE 31 * Semantic(c, w) + 17 * KindEvidence(c, w) + 18 * ordinal
                    + 13 * c.source + 13 * model.confidence + 8 * Spatial(model, c, w)
    IN  (sum + 50) \div 100

\* Its confidence before it is known to be the one.
FirstConfidence(model, c, w) == Confidence(model, c, w, 0, FALSE)

(* The candidates. *)

\* browserCandidateResolver: of two sightings of a thing the better one, or
\* the one with a reference, takes the place of the other.
Replaces(model, c, old, w) ==
    \/ FirstConfidence(model, c, w) > FirstConfidence(model, old, w)
    \/ ~old.ref /\ c.ref

Joined(model, found, c, w) ==
    LET same == {d \in found : d.id = c.id}
    IN  IF \A d \in same : Replaces(model, c, d, w)
        THEN (found \ same) \cup {c} ELSE found

Candidates(model, w) ==
    LET things == model.things
        after[n \in 0 .. Len(things)] ==
            IF n = 0 THEN {} ELSE Joined(model, after[n - 1], things[n], w)
    IN  after[Len(things)]

\* browserCandidateEligible
IsEligible(model, c, w) ==
    /\ w.direction # "none" => Spatial(model, c, w) >= 65
    /\ w.plays => c.playable
    /\ w.roles => c.role
    /\ w.kinds => c.kind
    /\ w.query => Semantic(c, w) >= 55

Eligible(model, w) == {c \in Candidates(model, w) : IsEligible(model, c, w)}

\* browserSpatialOrderValue
Place(model, c, w) ==
    IF w.direction = "none" THEN 0
    ELSE IF w.anchored THEN Distance(w.direction, c.box, Anchor(model).box)
    ELSE CASE w.direction = "right" -> -CentreX(c.box)
           [] w.direction = "left" -> CentreX(c.box)
           [] w.direction = "bottom" -> -CentreY(c.box)
           [] w.direction = "top" -> CentreY(c.box)

\* What has no position comes after what has one.
Unnumbered(c) == IF c.position = 0 THEN 1 ELSE 0

\* orderBrowserCandidates, among eligible candidates: with a direction each of
\* them has a place in it.
Before(model, c, d, w) ==
    LET place(e) == Place(model, e, w)
        sure(e) == FirstConfidence(model, e, w)
    IN  \/ place(c) < place(d)
        \/ place(c) = place(d) /\ Unnumbered(c) < Unnumbered(d)
        \/ /\ place(c) = place(d) /\ Unnumbered(c) = Unnumbered(d)
           /\ \/ c.position < d.position
              \/ c.position = d.position /\ c.order < d.order
              \/ /\ c.position = d.position /\ c.order = d.order
                 /\ \/ sure(c) > sure(d)
                    \/ sure(c) = sure(d) /\ c.rank < d.rank

\* The candidate with as many before it as the ordinal asks for.
Selection(model, w) ==
    {c \in Eligible(model, w) :
        w.ordinal = 1 + Cardinality({d \in Eligible(model, w) : Before(model, d, c, w)})}

(* The decision. *)

Risks == {"LOW", "MEDIUM", "HIGH"}

\* browserResolutionThresholds
Threshold(risk) == CASE risk = "HIGH" -> 92 [] risk = "MEDIUM" -> 84 [] OTHER -> 72
ObserveThreshold(risk) ==
    CASE risk = "HIGH" -> 80 [] risk = "MEDIUM" -> 68 [] OTHER -> 52

Decision(model, c, w, risk) ==
    LET confidence == Confidence(model, c, w, OrdinalEvidence(c), w.visual)
    IN  IF w.visual /\ Visual(model, c) < 55 THEN "reobserve"
        ELSE IF w.direction # "none" /\ Spatial(model, c, w) < 65 THEN "reobserve"
        ELSE IF confidence >= Threshold(risk) THEN "execute"
        ELSE IF confidence >= ObserveThreshold(risk) THEN "reobserve"
        ELSE IF risk = "HIGH" THEN "block" ELSE "ask_user"

\* browserTargetResolver.Resolve: the candidates it executes, if any.
Resolved(model, w, risk) ==
    IF AnchorLost(model, w) THEN {}
    ELSE {c \in Selection(model, w) : Decision(model, c, w, risk) = "execute"}

\* What a task reads of a resolution: whether to act, whether a closer look at
\* the page may help, whether there is something to ask the user about.
Resolution(model, w, risk) ==
    [found |-> Resolved(model, w, risk) # {},
     look |-> w.visual \/ w.direction # "none",
     selected |-> ~AnchorLost(model, w) /\ Selection(model, w) # {},
     shown |-> Candidates(model, w) # {}]

=============================================================================
