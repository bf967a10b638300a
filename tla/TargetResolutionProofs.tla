----------------------- MODULE TargetResolutionProofs -----------------------
(* Proofs about TargetResolution, for pages of any number of things at any   *)
(* places.                                                                   *)
EXTENDS TargetResolution, TLAPS, FiniteSetTheorems, WellFoundedInduction

\* The places the browser gives: of any position, of no negative size.
Boxes == [x: Int, y: Int, w: Nat, h: Nat]

IsPage(p) ==
    p.things \in Seq(Things(Boxes)) /\ p.confidence \in 0 .. 100 /\ p.pictured \in BOOLEAN

-----------------------------------------------------------------------------
(* Places *)

LEMMA AnchorType ==
    ASSUME NEW p, IsPage(p), Anchors(p) # {}
    PROVE  Anchor(p) \in Things(Boxes) /\ Anchor(p).box # NoBox
<1> DEFINE i == CHOOSE i \in Anchors(p) : TRUE
<1>1. i \in Anchors(p)
  OBVIOUS
<1>2. i \in DOMAIN p.things /\ p.things[i].box # NoBox
  BY <1>1 DEF Anchors
<1>3. p.things[i] \in Things(Boxes)
  BY <1>2 DEF IsPage
<1>4. Anchor(p) = p.things[i]
  BY DEF Anchor
<1>5. QED
  BY <1>2, <1>3, <1>4

LEMMA BoxType ==
    ASSUME NEW c \in Things(Boxes), c.box # NoBox
    PROVE  /\ c.box.x \in Int /\ c.box.y \in Int /\ c.box.w \in Nat /\ c.box.h \in Nat
           /\ CentreX(c.box) \in Int /\ CentreY(c.box) \in Int
<1>1. c.box \in Boxes
  BY DEF Things
<1>2. c.box.x \in Int /\ c.box.y \in Int /\ c.box.w \in Nat /\ c.box.h \in Nat
  BY <1>1 DEF Boxes
<1>3. QED
  BY <1>2 DEF CentreX, CentreY

LEMMA AbsType == \A n \in Int : Abs(n) \in Nat
BY DEF Abs

LEMMA DistanceType ==
    ASSUME NEW c \in Things(Boxes), c.box # NoBox, NEW a \in Things(Boxes),
           a.box # NoBox, NEW direction \in Directions
    PROVE  Distance(direction, c.box, a.box) \in Nat
<1> DEFINE b == c.box
           o == a.box
<1>1. /\ b.x \in Int /\ b.y \in Int /\ b.w \in Nat /\ b.h \in Nat
      /\ CentreX(b) \in Int /\ CentreY(b) \in Int
      /\ o.x \in Int /\ o.y \in Int /\ o.w \in Nat /\ o.h \in Nat
      /\ CentreX(o) \in Int /\ CentreY(o) \in Int
  BY BoxType
<1> HIDE DEF b, o
<1>2. /\ Abs(b.x - (o.x + o.w)) \in Nat /\ Abs(o.x - (b.x + b.w)) \in Nat
      /\ Abs(b.y - (o.y + o.h)) \in Nat /\ Abs(o.y - (b.y + b.h)) \in Nat
      /\ Abs(CentreY(b) - CentreY(o)) \in Nat /\ Abs(CentreX(b) - CentreX(o)) \in Nat
  BY <1>1, AbsType
<1>3. CASE direction = "right"
  BY <1>2, <1>3 DEF Distance, b, o
<1>4. CASE direction = "left"
  BY <1>2, <1>4 DEF Distance, b, o
<1>5. CASE direction = "bottom"
  BY <1>2, <1>5 DEF Distance, b, o
<1>6. CASE direction = "top"
  BY <1>2, <1>6 DEF Distance, b, o
<1>7. QED
  BY <1>3, <1>4, <1>5, <1>6 DEF Directions

-----------------------------------------------------------------------------
(* Evidence *)

LEMMA ShareType == \A n \in Nat : (18 * 12000) \div (12000 + n) \in 0 .. 18
OBVIOUS

\* Evidence of the place is in percent, and none without a place in the wanted
\* direction.
LEMMA SpatialType ==
    ASSUME NEW p, IsPage(p), NEW c \in Things(Boxes), NEW w \in Wanted
    PROVE  /\ Spatial(p, c, w) \in 0 .. 100
           /\ w.direction # "none" /\ ~Placed(p, c, w) => Spatial(p, c, w) = 0
<1>1. CASE w.direction = "none" \/ ~Placed(p, c, w) \/ ~w.anchored
  BY <1>1 DEF Spatial
<1>2. CASE w.direction # "none" /\ Placed(p, c, w) /\ w.anchored
  <2>1. /\ Anchors(p) # {} /\ c.box # NoBox /\ w.direction \in Directions
    BY <1>2 DEF Placed, Wanted
  <2>2. Distance(w.direction, c.box, Anchor(p).box) \in Nat
    BY <2>1, AnchorType, DistanceType
  <2> DEFINE n == Distance(w.direction, c.box, Anchor(p).box)
  <2>3. (18 * 12000) \div (12000 + n) \in 0 .. 18
    BY <2>2, ShareType
  <2> DEFINE share == (18 * 12000) \div (12000 + n)
  <2>4. Spatial(p, c, w) \in {0, 78 + share}
    BY <1>2 DEF Spatial
  <2> HIDE DEF share
  <2>5. QED
    BY <1>2, <2>3, <2>4 DEF share
<1>3. QED
  BY <1>1, <1>2

LEMMA VisualType ==
    ASSUME NEW p, IsPage(p), NEW c \in Things(Boxes)
    PROVE  Visual(p, c) \in 0 .. 100
<1>1. c.match \in 0 .. 100 /\ c.colour \in 0 .. 100
  BY DEF Things
<1>2. QED
  BY <1>1 DEF Visual, LesserOf

LEMMA EvidenceType ==
    ASSUME NEW c \in Things(Boxes), NEW w \in Wanted
    PROVE  /\ Semantic(c, w) \in 0 .. 100 /\ KindEvidence(c, w) \in 0 .. 100
           /\ OrdinalEvidence(c) \in 0 .. 100
<1>1. c.semantic \in 0 .. 100
  BY DEF Things
<1>2. QED
  BY <1>1 DEF Semantic, KindEvidence, OrdinalEvidence

\* The weights of the evidence add up to the whole, so that a confidence is a
\* percentage.
THEOREM ConfidenceIsPercent ==
    ASSUME NEW p, IsPage(p), NEW c \in Things(Boxes), NEW w \in Wanted,
           NEW ordinal \in 0 .. 100, NEW visual \in BOOLEAN
    PROVE  Confidence(p, c, w, ordinal, visual) \in 0 .. 100
<1>1. PICK a \in 0 .. 100, b \in 0 .. 100, v \in 0 .. 100, s \in 0 .. 100,
           o \in 0 .. 100, m \in 0 .. 100 :
        /\ a = Semantic(c, w) /\ b = KindEvidence(c, w) /\ v = Visual(p, c)
        /\ s = Spatial(p, c, w) /\ o = c.source /\ m = p.confidence
  <2>1. c.source \in 0 .. 100 /\ p.confidence \in 0 .. 100
    BY DEF Things, IsPage
  <2>2. QED
    BY <2>1, EvidenceType, VisualType, SpatialType
<1>2. CASE visual = TRUE
  <2>1. Confidence(p, c, w, ordinal, visual) =
            (22 * Semantic(c, w) + 13 * KindEvidence(c, w) + 14 * ordinal
             + 9 * c.source + 9 * p.confidence + 25 * Visual(p, c)
             + 8 * Spatial(p, c, w) + 50) \div 100
    BY <1>2 DEF Confidence
  <2>2. Confidence(p, c, w, ordinal, visual) =
            (22 * a + 13 * b + 14 * ordinal + 9 * o + 9 * m + 25 * v + 8 * s + 50)
                \div 100
    BY <1>1, <2>1
  <2>3. (22 * a + 13 * b + 14 * ordinal + 9 * o + 9 * m + 25 * v + 8 * s + 50)
            \div 100 \in 0 .. 100
    OBVIOUS
  <2>4. QED
    BY <2>2, <2>3
<1>3. CASE visual = FALSE
  <2>1. Confidence(p, c, w, ordinal, visual) =
            (31 * Semantic(c, w) + 17 * KindEvidence(c, w) + 18 * ordinal
             + 13 * c.source + 13 * p.confidence + 8 * Spatial(p, c, w) + 50)
                \div 100
    BY <1>3 DEF Confidence
  <2>2. Confidence(p, c, w, ordinal, visual) =
            (31 * a + 17 * b + 18 * ordinal + 13 * o + 13 * m + 8 * s + 50) \div 100
    BY <1>1, <2>1
  <2>3. (31 * a + 17 * b + 18 * ordinal + 13 * o + 13 * m + 8 * s + 50)
            \div 100 \in 0 .. 100
    OBVIOUS
  <2>4. QED
    BY <2>2, <2>3
<1>4. QED
  BY <1>2, <1>3

-----------------------------------------------------------------------------
(* The decision *)

LEMMA DecisionConfidence ==
    ASSUME NEW p, IsPage(p), NEW c \in Things(Boxes), NEW w \in Wanted
    PROVE  Confidence(p, c, w, OrdinalEvidence(c), w.visual) \in 0 .. 100
<1>1. OrdinalEvidence(c) \in 0 .. 100 /\ w.visual \in BOOLEAN
  BY EvidenceType DEF Wanted
<1>2. QED
  BY <1>1, ConfidenceIsPercent

\* What is done at a risk is done at every lower one, and a high risk is never
\* left to the user: what is not sure is not done.
THEOREM RisksAreOrdered ==
    ASSUME NEW p, IsPage(p), NEW c \in Things(Boxes), NEW w \in Wanted
    PROVE  /\ Decision(p, c, w, "HIGH") = "execute" => Decision(p, c, w, "MEDIUM") = "execute"
           /\ Decision(p, c, w, "MEDIUM") = "execute" => Decision(p, c, w, "LOW") = "execute"
           /\ Decision(p, c, w, "HIGH") # "ask_user"
<1> DEFINE n == Confidence(p, c, w, OrdinalEvidence(c), w.visual)
<1>1. n \in 0 .. 100
  BY DecisionConfidence
<1>2. ASSUME NEW risk
      PROVE  Decision(p, c, w, risk) =
                IF w.visual /\ Visual(p, c) < 55 THEN "reobserve"
                ELSE IF w.direction # "none" /\ Spatial(p, c, w) < 65 THEN "reobserve"
                ELSE IF n >= Threshold(risk) THEN "execute"
                ELSE IF n >= ObserveThreshold(risk) THEN "reobserve"
                ELSE IF risk = "HIGH" THEN "block" ELSE "ask_user"
  BY DEF Decision
<1> HIDE DEF n
<1>3. Threshold("HIGH") = 92 /\ Threshold("MEDIUM") = 84 /\ Threshold("LOW") = 72
  BY DEF Threshold
<1>4. QED
  BY <1>1, <1>2, <1>3

\* Nothing is done without the place and the looks that were asked for: what
\* is executed lies in the wanted direction of the anchor, is not the anchor,
\* and stands beside it if it should.
THEOREM ExecutedAsWanted ==
    ASSUME NEW p, IsPage(p), NEW c \in Things(Boxes), NEW w \in Wanted, NEW risk,
           Decision(p, c, w, risk) = "execute"
    PROVE  /\ w.visual => Visual(p, c) >= 55
           /\ w.direction # "none" => c.box # NoBox
           /\ w.anchored => /\ Anchors(p) # {} /\ c.id # Anchor(p).id
                            /\ LiesTo(w.direction, c.box, Anchor(p).box)
                            /\ w.immediate =>
                                  InLine(w.direction, c.box, Anchor(p).box)
<1>1. /\ ~(w.visual /\ Visual(p, c) < 55)
      /\ ~(w.direction # "none" /\ Spatial(p, c, w) < 65)
  BY DEF Decision
<1>2. Visual(p, c) \in 0 .. 100 /\ Spatial(p, c, w) \in 0 .. 100
  BY VisualType, SpatialType
<1>3. w.direction # "none" => Placed(p, c, w)
  BY <1>1, <1>2, SpatialType
<1>4. w.anchored => w.direction # "none"
  BY DEF Wanted
<1>5. w.anchored /\ w.immediate => InLine(w.direction, c.box, Anchor(p).box)
  BY <1>1, <1>3, <1>4 DEF Spatial
<1>6. QED
  BY <1>1, <1>2, <1>3, <1>4, <1>5 DEF Placed

-----------------------------------------------------------------------------
(* The order *)

\* The six keys of a thing, compared one after the other; the fifth one is the
\* confidence, of which the larger comes first.
Less(a1, a2, a3, a4, a5, a6, b1, b2, b3, b4, b5, b6) ==
    \/ a1 < b1
    \/ a1 = b1 /\ a2 < b2
    \/ /\ a1 = b1 /\ a2 = b2
       /\ \/ a3 < b3
          \/ a3 = b3 /\ a4 < b4
          \/ a3 = b3 /\ a4 = b4 /\ (a5 > b5 \/ (a5 = b5 /\ a6 < b6))

LEMMA LessIsStrict ==
    ASSUME NEW a1 \in Int, NEW a2 \in Int, NEW a3 \in Int, NEW a4 \in Int,
           NEW a5 \in Int, NEW a6 \in Int, NEW b1 \in Int, NEW b2 \in Int,
           NEW b3 \in Int, NEW b4 \in Int, NEW b5 \in Int, NEW b6 \in Int
    PROVE  /\ ~Less(a1, a2, a3, a4, a5, a6, a1, a2, a3, a4, a5, a6)
           /\ Less(a1, a2, a3, a4, a5, a6, b1, b2, b3, b4, b5, b6)
                => ~Less(b1, b2, b3, b4, b5, b6, a1, a2, a3, a4, a5, a6)
BY DEF Less

\* Keys of which neither comes first are the same.
LEMMA LessIsTotal ==
    ASSUME NEW a1 \in Int, NEW a2 \in Int, NEW a3 \in Int, NEW a4 \in Int,
           NEW a5 \in Int, NEW a6 \in Int, NEW b1 \in Int, NEW b2 \in Int,
           NEW b3 \in Int, NEW b4 \in Int, NEW b5 \in Int, NEW b6 \in Int,
           a6 # b6
    PROVE  \/ Less(a1, a2, a3, a4, a5, a6, b1, b2, b3, b4, b5, b6)
           \/ Less(b1, b2, b3, b4, b5, b6, a1, a2, a3, a4, a5, a6)
BY DEF Less

LEMMA LessIsTransitive ==
    ASSUME NEW a1 \in Int, NEW a2 \in Int, NEW a3 \in Int, NEW a4 \in Int,
           NEW a5 \in Int, NEW a6 \in Int, NEW b1 \in Int, NEW b2 \in Int,
           NEW b3 \in Int, NEW b4 \in Int, NEW b5 \in Int, NEW b6 \in Int,
           NEW c1 \in Int, NEW c2 \in Int, NEW c3 \in Int, NEW c4 \in Int,
           NEW c5 \in Int, NEW c6 \in Int,
           Less(a1, a2, a3, a4, a5, a6, b1, b2, b3, b4, b5, b6),
           Less(b1, b2, b3, b4, b5, b6, c1, c2, c3, c4, c5, c6)
    PROVE  Less(a1, a2, a3, a4, a5, a6, c1, c2, c3, c4, c5, c6)
BY DEF Less

LEMMA PlaceType ==
    ASSUME NEW p, IsPage(p), NEW w \in Wanted, NEW c \in Things(Boxes),
           IsEligible(p, c, w)
    PROVE  Place(p, c, w) \in Int
<1>1. CASE w.direction = "none"
  BY <1>1 DEF Place
<1>2. CASE w.direction # "none"
  <2>1. Spatial(p, c, w) >= 65 /\ Spatial(p, c, w) \in 0 .. 100
    BY <1>2, SpatialType DEF IsEligible
  <2>2. Placed(p, c, w)
    BY <1>2, <2>1, SpatialType
  <2>3. c.box # NoBox /\ w.direction \in Directions
    BY <1>2, <2>2 DEF Placed, Wanted
  <2>4. CASE w.anchored
    <3>1. Anchors(p) # {}
      BY <2>2, <2>4 DEF Placed
    <3>2. Distance(w.direction, c.box, Anchor(p).box) \in Nat
      BY <2>3, <3>1, AnchorType, DistanceType
    <3>3. QED
      BY <1>2, <2>4, <3>2 DEF Place
  <2>5. CASE ~w.anchored
    <3>1. CentreX(c.box) \in Int /\ CentreY(c.box) \in Int
      BY <2>3, BoxType
    <3>2. Place(p, c, w) \in Int
      BY <2>3, <2>5, <3>1 DEF Place, Directions
    <3>3. QED
      BY <1>2, <3>2 DEF Place
  <2>6. QED
    BY <2>4, <2>5
<1>3. QED
  BY <1>1, <1>2

LEMMA KeysType ==
    ASSUME NEW p, IsPage(p), NEW w \in Wanted, NEW c \in Things(Boxes),
           IsEligible(p, c, w)
    PROVE  /\ Place(p, c, w) \in Int /\ Unnumbered(c) \in Int
           /\ c.position \in Int /\ c.order \in Int /\ c.rank \in Int
           /\ FirstConfidence(p, c, w) \in Int
<1>1. c.position \in Nat /\ c.order \in Nat /\ c.rank \in Nat /\ Unnumbered(c) \in Int
  BY DEF Things, Unnumbered
<1>2. FirstConfidence(p, c, w) \in 0 .. 100
  <2>1. 0 \in 0 .. 100 /\ FALSE \in BOOLEAN
    OBVIOUS
  <2>2. Confidence(p, c, w, 0, FALSE) \in 0 .. 100
    BY <2>1, ConfidenceIsPercent
  <2>3. QED
    BY <2>2 DEF FirstConfidence
<1>3. QED
  BY <1>1, <1>2, PlaceType

LEMMA BeforeIsLess ==
    ASSUME NEW p, NEW w, NEW c, NEW d
    PROVE  Before(p, c, d, w) <=>
              Less(Place(p, c, w), Unnumbered(c), c.position, c.order,
                   FirstConfidence(p, c, w), c.rank,
                   Place(p, d, w), Unnumbered(d), d.position, d.order,
                   FirstConfidence(p, d, w), d.rank)
BY DEF Before, Less

\* The things among which an ordinal counts are strictly ordered, wherever they
\* stand and however many there are.
THEOREM BeforeIsAnOrder ==
    ASSUME NEW p, IsPage(p), NEW w \in Wanted,
           NEW c \in Things(Boxes), IsEligible(p, c, w),
           NEW d \in Things(Boxes), IsEligible(p, d, w),
           NEW e \in Things(Boxes), IsEligible(p, e, w)
    PROVE  /\ ~Before(p, c, c, w)
           /\ Before(p, c, d, w) => ~Before(p, d, c, w)
           /\ Before(p, c, d, w) /\ Before(p, d, e, w) => Before(p, c, e, w)
<1>1. \A x \in {c, d, e} :
        /\ Place(p, x, w) \in Int /\ Unnumbered(x) \in Int
        /\ x.position \in Int /\ x.order \in Int /\ x.rank \in Int
        /\ FirstConfidence(p, x, w) \in Int
  BY KeysType
<1> DEFINE L(x, y) == Less(Place(p, x, w), Unnumbered(x), x.position, x.order,
                           FirstConfidence(p, x, w), x.rank,
                           Place(p, y, w), Unnumbered(y), y.position, y.order,
                           FirstConfidence(p, y, w), y.rank)
<1>2. ~Before(p, c, c, w)
  <2>1. Before(p, c, c, w) <=> L(c, c)
    BY BeforeIsLess
  <2>2. ~L(c, c)
    BY <1>1 DEF Less
  <2>3. QED
    BY <2>1, <2>2
<1>3. Before(p, c, d, w) => ~Before(p, d, c, w)
  <2>1. (Before(p, c, d, w) <=> L(c, d)) /\ (Before(p, d, c, w) <=> L(d, c))
    BY BeforeIsLess
  <2>2. L(c, d) => ~L(d, c)
    BY <1>1, LessIsStrict
  <2>3. QED
    BY <2>1, <2>2
<1>4. Before(p, c, d, w) /\ Before(p, d, e, w) => Before(p, c, e, w)
  BY <1>1, BeforeIsLess, LessIsTransitive
<1>5. QED
  BY <1>2, <1>3, <1>4

-----------------------------------------------------------------------------
(* The candidates *)

\* Induction, stated for sets: a counterexample would have a least one.
LEMMA Induction ==
    ASSUME NEW S, 0 \in S, \A n \in Nat : n \in S => n + 1 \in S
    PROVE  Nat \subseteq S
<1> DEFINE T == Nat \ S
           Smaller == {pair \in Nat \X Nat : pair[1] < pair[2]}
<1>1. IsWellFoundedOn(Smaller, Nat)
  <2>1. OpToRel(<, Nat) = Smaller
    BY Zenon DEF OpToRel
  <2>2. QED
    BY <2>1, NatLessThanWellFounded, Zenon
<1>2. SUFFICES ASSUME T # {} PROVE FALSE
  OBVIOUS
<1>3. PICK n \in T : \A m \in T : ~(<<m, n>> \in Smaller)
  BY <1>1, <1>2, WFMin
<1>4. n - 1 \in Nat /\ n - 1 < n
  OBVIOUS
<1>5. n - 1 \notin T
  BY <1>3, <1>4
<1>6. QED
  BY <1>4, <1>5

\* The candidates after each of the first n sightings.
IsRun(p, w, f, n) ==
    /\ DOMAIN f = 0 .. n
    /\ f[0] = {}
    /\ \A i \in 1 .. n : f[i] = Joined(p, f[i - 1], p.things[i], w)

LEMMA RunsExist == ASSUME NEW p, NEW w PROVE \A n \in Nat : \E f : IsRun(p, w, f, n)
<1> DEFINE S == {n \in Nat : \E f : IsRun(p, w, f, n)}
<1>1. 0 \in S
  <2>1. IsRun(p, w, [i \in 0 .. 0 |-> {}], 0)
    BY DEF IsRun
  <2>2. QED
    BY <2>1
<1>2. ASSUME NEW n \in Nat, n \in S PROVE n + 1 \in S
  <2>1. PICK f : IsRun(p, w, f, n)
    BY <1>2
  <2> DEFINE g == [i \in 0 .. n + 1 |->
                      IF i <= n THEN f[i] ELSE Joined(p, f[n], p.things[n + 1], w)]
  <2>2. DOMAIN g = 0 .. n + 1 /\ g[0] = {}
    BY <2>1 DEF IsRun
  <2>3. ASSUME NEW i \in 1 .. n + 1
        PROVE  g[i] = Joined(p, g[i - 1], p.things[i], w)
    <3>1. CASE i <= n
      <4>1. i \in 1 .. n /\ i - 1 <= n /\ i \in 0 .. n + 1 /\ i - 1 \in 0 .. n + 1
        BY <3>1
      <4>2. f[i] = Joined(p, f[i - 1], p.things[i], w)
        BY <2>1, <4>1 DEF IsRun
      <4>3. g[i] = f[i] /\ g[i - 1] = f[i - 1]
        BY <4>1
      <4>4. QED
        BY <4>2, <4>3
    <3>2. CASE i = n + 1
      <4>1. i - 1 = n /\ ~(i <= n) /\ i \in 0 .. n + 1 /\ n \in 0 .. n + 1
        BY <3>2
      <4>2. g[i] = Joined(p, f[n], p.things[n + 1], w) /\ g[n] = f[n]
        BY <4>1
      <4>3. QED
        BY <3>2, <4>1, <4>2
    <3>3. QED
      BY <3>1, <3>2
  <2>4. IsRun(p, w, g, n + 1)
    <3> HIDE DEF g
    <3> QED
      BY <2>2, <2>3 DEF IsRun
  <2>5. QED
    BY <2>4
<1>3. Nat \subseteq S
  <2> HIDE DEF S
  <2> QED
    BY <1>1, <1>2, Induction
<1>4. QED
  BY <1>3

\* The candidates are what such a run ends with.
LEMMA CandidatesRun ==
    ASSUME NEW p, IsPage(p), NEW w
    PROVE  \E f : IsRun(p, w, f, Len(p.things)) /\ Candidates(p, w) = f[Len(p.things)]
<1> DEFINE N == Len(p.things)
           Step(f) == [n \in 0 .. N |->
                          IF n = 0 THEN {} ELSE Joined(p, f[n - 1], p.things[n], w)]
           After == CHOOSE f : f = Step(f)
<1>1. N \in Nat
  BY DEF IsPage
<1>2. PICK g : IsRun(p, w, g, N)
  BY <1>1, RunsExist
<1> DEFINE h == [n \in 0 .. N |-> g[n]]
<1>3. h = Step(h)
  <2>1. ASSUME NEW n \in 0 .. N
        PROVE  h[n] = IF n = 0 THEN {} ELSE Joined(p, h[n - 1], p.things[n], w)
    <3>1. CASE n = 0
      BY <1>2, <3>1 DEF IsRun
    <3>2. CASE n # 0
      <4>1. n \in 1 .. N /\ n - 1 \in 0 .. N
        BY <1>1, <3>2
      <4>2. g[n] = Joined(p, g[n - 1], p.things[n], w)
        BY <1>2, <4>1 DEF IsRun
      <4>3. h[n] = g[n] /\ h[n - 1] = g[n - 1]
        BY <4>1
      <4>4. QED
        BY <3>2, <4>2, <4>3
    <3>3. QED
      BY <3>1, <3>2
  <2> DEFINE r == Step(h)
  <2>2. \A n \in 0 .. N : h[n] = r[n]
    <3> HIDE DEF h
    <3> QED
      BY <2>1
  <2>3. h = [n \in 0 .. N |-> h[n]] /\ r = [n \in 0 .. N |-> r[n]]
    OBVIOUS
  <2>4. h = r
    <3> HIDE DEF h, r
    <3> QED
      BY <2>2, <2>3
  <2>5. QED
    BY <2>4
<1>4. After = Step(After)
  <2> HIDE DEF Step, h
  <2> QED
    BY <1>3
<1>5. Candidates(p, w) = After[N]
  BY DEF Candidates
<1>6. IsRun(p, w, After, N)
  <2>1. DOMAIN After = 0 .. N
    <3>1. DOMAIN Step(After) = 0 .. N
      OBVIOUS
    <3> HIDE DEF After, Step
    <3> QED
      BY <1>4, <3>1
  <2>2. ASSUME NEW n \in 0 .. N
        PROVE  After[n] = IF n = 0 THEN {} ELSE Joined(p, After[n - 1], p.things[n], w)
    <3>1. Step(After)[n] = IF n = 0 THEN {} ELSE Joined(p, After[n - 1], p.things[n], w)
      <4> HIDE DEF After
      <4> QED
        OBVIOUS
    <3> HIDE DEF After, Step
    <3> QED
      BY <1>4, <3>1
  <2> HIDE DEF After
  <2>3. QED
    BY <1>1, <2>1, <2>2 DEF IsRun
<1>7. QED
  <2> HIDE DEF After
  <2> QED
    BY <1>5, <1>6

\* What is known of the candidates after n sightings.
Sifted(p, found, n) ==
    /\ IsFiniteSet(found)
    /\ \A c \in found : \E i \in 1 .. n : c = p.things[i]
    /\ \A c, d \in found : c.id = d.id => c = d
    /\ \A i \in 1 .. n : \E c \in found : c.id = p.things[i].id

\* One more sighting replaces the one candidate with its identity, joins those
\* without, or is left out.
LEMMA JoinedIsSifted ==
    ASSUME NEW p, NEW w, NEW n \in Nat, NEW found, Sifted(p, found, n)
    PROVE  Sifted(p, Joined(p, found, p.things[n + 1], w), n + 1)
<1> DEFINE t == p.things[n + 1]
           same == {d \in found : d.id = t.id}
           new == (found \ same) \cup {t}
<1>1. /\ IsFiniteSet(found)
      /\ \A c \in found : \E i \in 1 .. n : c = p.things[i]
      /\ \A c, d \in found : c.id = d.id => c = d
      /\ \A i \in 1 .. n : \E c \in found : c.id = p.things[i].id
  BY DEF Sifted
<1>2. 1 .. n + 1 = (1 .. n) \cup {n + 1}
  OBVIOUS
<1>3. CASE \A d \in same : Replaces(p, t, d, w)
  <2>1. Joined(p, found, t, w) = new
    BY <1>3 DEF Joined
  <2>2. IsFiniteSet(new)
    BY <1>1, FS_Subset, FS_AddElement
  <2>3. \A c \in new : \E i \in 1 .. n + 1 : c = p.things[i]
    BY <1>1, <1>2
  <2>4. \A c, d \in new : c.id = d.id => c = d
    BY <1>1
  <2>5. ASSUME NEW i \in 1 .. n + 1 PROVE \E c \in new : c.id = p.things[i].id
    <3>1. CASE p.things[i].id = t.id
      BY <3>1
    <3>2. CASE p.things[i].id # t.id
      <4>1. i \in 1 .. n
        BY <1>2, <3>2
      <4>2. PICK c \in found : c.id = p.things[i].id
        BY <1>1, <4>1
      <4>3. QED
        BY <3>2, <4>2
    <3>3. QED
      BY <3>1, <3>2
  <2>6. Sifted(p, new, n + 1)
    <3> HIDE DEF new
    <3> QED
      BY <2>2, <2>3, <2>4, <2>5 DEF Sifted
  <2>7. QED
    BY <2>1, <2>6
<1>4. CASE ~ \A d \in same : Replaces(p, t, d, w)
  <2>1. Joined(p, found, t, w) = found
    BY <1>4 DEF Joined
  <2>2. \E c \in found : c.id = t.id
    BY <1>4
  <2>3. /\ \A c \in found : \E i \in 1 .. n + 1 : c = p.things[i]
        /\ \A i \in 1 .. n + 1 : \E c \in found : c.id = p.things[i].id
    BY <1>1, <1>2, <2>2
  <2>4. QED
    BY <1>1, <2>1, <2>3 DEF Sifted
<1>5. QED
  BY <1>3, <1>4

\* However often a page shows the same thing, one candidate stands for it; and
\* nothing is a candidate that the page does not show.
THEOREM CandidatesAreSifted ==
    ASSUME NEW p, IsPage(p), NEW w
    PROVE  Sifted(p, Candidates(p, w), Len(p.things))
<1> DEFINE N == Len(p.things)
<1>1. PICK f : IsRun(p, w, f, N) /\ Candidates(p, w) = f[N]
  BY CandidatesRun
<1>2. N \in Nat
  BY DEF IsPage
<1> HIDE DEF N
<1> DEFINE S == {n \in Nat : n <= N => Sifted(p, f[n], n)}
<1>3. 0 \in S
  <2>1. f[0] = {} /\ 1 .. 0 = {}
    BY <1>1 DEF IsRun
  <2>2. Sifted(p, {}, 0)
    BY <2>1, FS_EmptySet DEF Sifted
  <2>3. QED
    BY <2>1, <2>2
<1>4. ASSUME NEW n \in Nat, n \in S PROVE n + 1 \in S
  <2>1. SUFFICES ASSUME n + 1 <= N PROVE Sifted(p, f[n + 1], n + 1)
    OBVIOUS
  <2>2. Sifted(p, f[n], n)
    BY <1>2, <1>4, <2>1
  <2>3. n + 1 \in 1 .. N /\ n + 1 - 1 = n
    BY <1>2, <2>1
  <2>4. f[n + 1] = Joined(p, f[n], p.things[n + 1], w)
    BY <1>1, <2>3 DEF IsRun
  <2>5. QED
    BY <2>2, <2>4, JoinedIsSifted
<1>5. Nat \subseteq S
  <2> HIDE DEF S
  <2> QED
    BY <1>3, <1>4, Induction
<1>6. Sifted(p, f[N], N)
  BY <1>2, <1>5
<1>7. QED
  BY <1>1, <1>6 DEF N

LEMMA CandidatesType ==
    ASSUME NEW p, IsPage(p), NEW w
    PROVE  Candidates(p, w) \subseteq Things(Boxes) /\ IsFiniteSet(Candidates(p, w))
<1>1. Sifted(p, Candidates(p, w), Len(p.things))
  BY CandidatesAreSifted
<1>2. \A i \in 1 .. Len(p.things) : p.things[i] \in Things(Boxes)
  BY DEF IsPage
<1>3. QED
  BY <1>1, <1>2 DEF Sifted

\* Two things that the same ordinal selects are equal in all that the order
\* looks at: neither comes before the other.
THEOREM SelectedAreTied ==
    ASSUME NEW p, IsPage(p), NEW w \in Wanted,
           NEW c \in Selection(p, w), NEW d \in Selection(p, w)
    PROVE  ~Before(p, c, d, w)
<1> DEFINE all == Eligible(p, w)
           first(x) == {y \in all : Before(p, y, x, w)}
<1>1. /\ \A x \in all : x \in Things(Boxes) /\ IsEligible(p, x, w)
      /\ IsFiniteSet(all)
  BY CandidatesType, FS_Subset DEF Eligible
<1>2. /\ c \in all /\ w.ordinal = 1 + Cardinality(first(c))
      /\ d \in all /\ w.ordinal = 1 + Cardinality(first(d))
  BY DEF Selection
<1> HIDE DEF all
<1>3. SUFFICES ASSUME Before(p, c, d, w) PROVE FALSE
  OBVIOUS
<1>4. c \notin first(c) /\ first(c) \cup {c} \subseteq first(d)
  <2>1. ~Before(p, c, c, w)
    BY <1>1, <1>2, BeforeIsAnOrder
  <2>2. ASSUME NEW y \in all, Before(p, y, c, w) PROVE Before(p, y, d, w)
    BY <1>1, <1>2, <1>3, <2>2, BeforeIsAnOrder
  <2>3. QED
    BY <1>2, <1>3, <2>1, <2>2
<1>5. IsFiniteSet(first(c)) /\ IsFiniteSet(first(d))
  BY <1>1, FS_Subset
<1> HIDE DEF first
<1>6. Cardinality(first(c) \cup {c}) = Cardinality(first(c)) + 1
  BY <1>4, <1>5, FS_AddElement
<1>7. Cardinality(first(c) \cup {c}) <= Cardinality(first(d))
  BY <1>4, <1>5, FS_Subset
<1>8. Cardinality(first(c)) \in Nat /\ Cardinality(first(d)) \in Nat
  BY <1>5, FS_CardinalityType
<1>9. QED
  BY <1>2, <1>6, <1>7, <1>8

-----------------------------------------------------------------------------
(* The ordinal *)

\* In a finite set with a strict total order the places from 0 on are taken, up
\* to the size of the set: the numbers of predecessors are all different.
LEMMA PlacesAreTaken ==
    ASSUME NEW S, IsFiniteSet(S), NEW R,
           \A c \in S : <<c, c>> \notin R,
           \A c, d, e \in S : <<c, d>> \in R /\ <<d, e>> \in R => <<c, e>> \in R,
           \A c, d \in S : c # d => <<c, d>> \in R \/ <<d, c>> \in R
    PROVE  \A k \in Nat : (\E c \in S : k = Cardinality({d \in S : <<d, c>> \in R}))
                              <=> k < Cardinality(S)
<1> DEFINE first(c) == {d \in S : <<d, c>> \in R}
           N == Cardinality(S)
           f == [c \in S |-> Cardinality(first(c))]
<1>1. N \in Nat
  BY FS_CardinalityType
<1>2. ASSUME NEW c \in S
      PROVE  /\ IsFiniteSet(first(c)) /\ Cardinality(first(c)) \in Nat
             /\ c \notin first(c) /\ first(c) \in SUBSET S
  BY FS_Subset, FS_CardinalityType
<1> HIDE DEF N
<1>3. ASSUME NEW c \in S PROVE Cardinality(first(c)) \in 0 .. N - 1
  <2>1. first(c) \in SUBSET (S \ {c}) /\ IsFiniteSet(S \ {c})
    BY <1>2, FS_RemoveElement
  <2>2. Cardinality(S \ {c}) = N - 1
    BY FS_RemoveElement DEF N
  <2>3. Cardinality(first(c)) <= Cardinality(S \ {c})
    <3> HIDE DEF first
    <3> QED
      BY <2>1, FS_Subset
  <2>4. QED
    <3> HIDE DEF first
    <3> QED
      BY <1>1, <1>2, <2>2, <2>3
<1>4. ASSUME NEW c \in S, NEW d \in S, <<c, d>> \in R
      PROVE  Cardinality(first(c)) < Cardinality(first(d))
  <2>1. first(c) \cup {c} \in SUBSET first(d)
    BY <1>4
  <2> HIDE DEF first
  <2>2. Cardinality(first(c) \cup {c}) = Cardinality(first(c)) + 1
    BY <1>2, FS_AddElement
  <2>3. Cardinality(first(c) \cup {c}) <= Cardinality(first(d))
    BY <1>2, <2>1, FS_Subset
  <2>4. QED
    BY <1>2, <2>2, <2>3
<1>5. f \in Injection(S, 0 .. N - 1)
  <2>1. f \in [S -> 0 .. N - 1]
    <3> HIDE DEF first
    <3> QED
      BY <1>3
  <2>2. ASSUME NEW c \in S, NEW d \in S, f[c] = f[d] PROVE c = d
    <3>1. Cardinality(first(c)) = Cardinality(first(d))
      <4> HIDE DEF first
      <4> QED
        BY <2>2
    <3>2. SUFFICES ASSUME c # d PROVE FALSE
      OBVIOUS
    <3>3. <<c, d>> \in R \/ <<d, c>> \in R
      BY <3>2
    <3> HIDE DEF first
    <3>4. QED
      BY <1>2, <1>4, <3>1, <3>3
  <2> HIDE DEF f
  <2>3. QED
    BY <2>1, <2>2 DEF Injection, IsInjective
<1>6. IsFiniteSet(0 .. N - 1) /\ Cardinality(0 .. N - 1) = N
  BY <1>1, FS_Interval
<1>7. f \in Surjection(S, 0 .. N - 1)
  <2> HIDE DEF f
  <2> QED
    BY <1>5, <1>6, FS_Injection DEF N
<1>8. ASSUME NEW k \in Nat
      PROVE  (\E c \in S : k = Cardinality(first(c))) <=> k < N
  <2>1. ASSUME k < N PROVE \E c \in S : k = Cardinality(first(c))
    <3>1. k \in 0 .. N - 1
      BY <1>1, <2>1
    <3>2. \E c \in S : f[c] = k
      <4> HIDE DEF f
      <4> QED
        BY <1>7, <3>1 DEF Surjection
    <3>3. QED
      <4> HIDE DEF first
      <4> QED
        BY <3>2
  <2>2. ASSUME NEW c \in S, k = Cardinality(first(c)) PROVE k < N
    <3> HIDE DEF first
    <3> QED
      BY <1>1, <1>3, <2>2
  <2>3. QED
    <3> HIDE DEF first
    <3> QED
      BY <2>1, <2>2
<1>9. QED
  BY <1>8 DEF N

\* What the rank stands for: things of different identity differ in their label
\* or in when they were first seen, which is what the stable sort of
\* orderBrowserCandidates goes by at last.
IsRanked(p) ==
    \A i, j \in DOMAIN p.things :
        p.things[i].id # p.things[j].id => p.things[i].rank # p.things[j].rank

\* Two candidates are never tied: one of them comes before the other.
LEMMA BeforeIsTotal ==
    ASSUME NEW p, IsPage(p), IsRanked(p), NEW w \in Wanted,
           NEW c \in Eligible(p, w), NEW d \in Eligible(p, w), c # d
    PROVE  Before(p, c, d, w) \/ Before(p, d, c, w)
<1>1. Sifted(p, Candidates(p, w), Len(p.things))
  BY CandidatesAreSifted
<1>2. c \in Candidates(p, w) /\ d \in Candidates(p, w)
      /\ IsEligible(p, c, w) /\ IsEligible(p, d, w)
  BY DEF Eligible
<1>3. c.id # d.id
  BY <1>1, <1>2 DEF Sifted
<1>4. PICK i \in 1 .. Len(p.things), j \in 1 .. Len(p.things) :
        c = p.things[i] /\ d = p.things[j]
  BY <1>1, <1>2 DEF Sifted
<1>5. c.rank # d.rank
  <2>1. 1 .. Len(p.things) = DOMAIN p.things
    BY DEF IsPage
  <2>2. QED
    BY <1>3, <1>4, <2>1 DEF IsRanked
<1>6. c \in Things(Boxes) /\ d \in Things(Boxes)
  BY <1>2, CandidatesType
<1>7. \A x \in {c, d} :
        /\ Place(p, x, w) \in Int /\ Unnumbered(x) \in Int
        /\ x.position \in Int /\ x.order \in Int /\ x.rank \in Int
        /\ FirstConfidence(p, x, w) \in Int
  BY <1>2, <1>6, KeysType
<1>8. QED
  BY <1>5, <1>7, BeforeIsLess, LessIsTotal

\* The ordinal means what it says: if there are as many eligible things as it
\* asks for, it selects one, and otherwise none. In the code that is the index
\* into the sorted list, and the length of it.
THEOREM OrdinalSelectsOne ==
    ASSUME NEW p, IsPage(p), IsRanked(p), NEW w \in Wanted
    PROVE  /\ \A c, d \in Selection(p, w) : c = d
           /\ Selection(p, w) # {} <=> w.ordinal <= Cardinality(Eligible(p, w))
<1> DEFINE all == Eligible(p, w)
           R == {pair \in all \X all : Before(p, pair[1], pair[2], w)}
<1>1. /\ \A x \in all : x \in Things(Boxes) /\ IsEligible(p, x, w)
      /\ IsFiniteSet(all)
  BY CandidatesType, FS_Subset DEF Eligible
<1>2. \A c, d \in all : <<c, d>> \in R <=> Before(p, c, d, w)
  OBVIOUS
<1>3. \A c, d \in Selection(p, w) : c = d
  BY SelectedAreTied, BeforeIsTotal DEF Selection
<1> HIDE DEF R
<1>4. ASSUME NEW c \in all
      PROVE  {d \in all : <<d, c>> \in R} = {d \in all : Before(p, d, c, w)}
  BY <1>2
<1>5. \A k \in Nat : (\E c \in all : k = Cardinality({d \in all : <<d, c>> \in R}))
                         <=> k < Cardinality(all)
  <2> HIDE DEF all
  <2>1. \A c \in all : <<c, c>> \notin R
    BY <1>1, <1>2, BeforeIsAnOrder
  <2>2. \A c, d, e \in all : <<c, d>> \in R /\ <<d, e>> \in R => <<c, e>> \in R
    BY <1>1, <1>2, BeforeIsAnOrder
  <2>3. \A c, d \in all : c # d => <<c, d>> \in R \/ <<d, c>> \in R
    BY <1>2, BeforeIsTotal DEF all
  <2>4. QED
    BY <1>1, <2>1, <2>2, <2>3, PlacesAreTaken
<1>6. w.ordinal - 1 \in Nat /\ w.ordinal \in Nat /\ Cardinality(all) \in Nat
  BY <1>1, FS_CardinalityType DEF Wanted
<1>7. ASSUME NEW c \in all
      PROVE  c \in Selection(p, w)
                <=> w.ordinal - 1 = Cardinality({d \in all : <<d, c>> \in R})
  <2> DEFINE first == {d \in all : <<d, c>> \in R}
  <2>1. Cardinality(first) \in Nat
    BY <1>1, FS_Subset, FS_CardinalityType
  <2>2. first = {d \in all : Before(p, d, c, w)}
    BY <1>4
  <2>3. c \in Selection(p, w) <=> w.ordinal = 1 + Cardinality(first)
    <3>1. c \in Selection(p, w)
            <=> w.ordinal = 1 + Cardinality({d \in all : Before(p, d, c, w)})
      BY DEF Selection
    <3> HIDE DEF all, first
    <3> QED
      BY <2>2, <3>1
  <2> HIDE DEF first
  <2>4. w.ordinal = 1 + Cardinality(first) <=> w.ordinal - 1 = Cardinality(first)
    BY <1>6, <2>1
  <2>5. QED
    BY <2>3, <2>4 DEF first
<1>8. Selection(p, w) \subseteq all
  BY DEF Selection
<1> HIDE DEF all
<1>9. Selection(p, w) # {} <=> w.ordinal <= Cardinality(all)
  <2>1. (\E c \in all : w.ordinal - 1 = Cardinality({d \in all : <<d, c>> \in R}))
            <=> w.ordinal - 1 < Cardinality(all)
    BY <1>5, <1>6
  <2>2. Selection(p, w) # {} <=> w.ordinal - 1 < Cardinality(all)
    BY <1>7, <1>8, <2>1
  <2>3. QED
    BY <1>6, <2>2
<1>10. QED
  BY <1>3, <1>9 DEF all

\* At most one thing is acted on, at any risk.
COROLLARY AtMostOneIsExecuted ==
    ASSUME NEW p, IsPage(p), IsRanked(p), NEW w \in Wanted, NEW risk
    PROVE  \A c, d \in Resolved(p, w, risk) : c = d
BY OrdinalSelectsOne DEF Resolved

=============================================================================
