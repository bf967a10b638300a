------------------------- MODULE DeviceReconnectProofs -------------------------
(***************************************************************************)
(* Proofs about DeviceReconnect, for any number of endpoints and any       *)
(* threshold.                                                              *)
(***************************************************************************)
EXTENDS DeviceReconnect, WellFoundedInduction, TLAPS

\* In a round, connect is at an endpoint of the list and all those before it
\* have failed; after the round, all of them have.
RoundInv ==
    /\ phase \in {"dialing", "connected", "pausing", "returned"}
    /\ endpoint \in 1 .. Endpoints
    /\ failed = IF phase \in {"dialing", "connected"} THEN 1 .. endpoint - 1
                                                      ELSE 1 .. Endpoints

\* The pause is a number of seconds, at least one, and less than twice the
\* threshold.
PauseInv ==
    /\ delay \in Nat \ {0}
    /\ delay <= 2 * StableSeconds - 1

LEMMA InitRoundInv == Init => RoundInv
BY EndpointsAssumption DEF Init, RoundInv

\* An endpoint that fails joins those before it.
LEMMA FailsKeepsRound ==
    ASSUME RoundInv, EndpointFails
    PROVE  RoundInv'
<1>1. /\ phase \in {"dialing", "connected"} /\ endpoint \in 1 .. Endpoints
      /\ failed = 1 .. endpoint - 1 /\ failed' = failed \cup {endpoint}
  BY DEF RoundInv, EndpointFails
<1>2. failed' = 1 .. endpoint
  BY <1>1, EndpointsAssumption
<1>3. CASE endpoint < Endpoints /\ NextEndpoint
  <2>1. phase' = "dialing" /\ endpoint' = endpoint + 1
    BY <1>3 DEF NextEndpoint
  <2>2. endpoint' \in 1 .. Endpoints /\ endpoint' - 1 = endpoint
    BY <1>1, <1>3, <2>1, EndpointsAssumption
  <2>3. QED
    BY <1>2, <2>1, <2>2 DEF RoundInv
<1>4. CASE endpoint = Endpoints /\ EndRound
  <2>1. phase' \in {"returned", "pausing"} /\ endpoint' = endpoint
    BY <1>4 DEF EndRound
  <2>2. failed' = 1 .. Endpoints
    BY <1>2, <1>4
  <2>3. QED
    BY <1>1, <2>1, <2>2 DEF RoundInv
<1>5. QED
  BY <1>3, <1>4 DEF EndpointFails

LEMMA StepRoundInv == RoundInv /\ [Next]_vars => RoundInv'
<1> SUFFICES ASSUME RoundInv, [Next]_vars PROVE RoundInv'
  OBVIOUS
<1>1. CASE TimePasses
  BY <1>1 DEF TimePasses, RoundInv
<1>2. CASE Connected
  BY <1>2 DEF Connected, RoundInv
<1>3. CASE EndpointFails
  BY <1>3, FailsKeepsRound
<1>4. CASE Retry
  <2>1. phase' = "dialing" /\ endpoint' = 1 /\ failed' = {}
    BY <1>4 DEF Retry
  <2>2. 1 .. endpoint' - 1 = {} /\ endpoint' \in 1 .. Endpoints
    BY <2>1, EndpointsAssumption
  <2>3. QED
    BY <2>1, <2>2 DEF RoundInv
<1>5. CASE Stop
  BY <1>5 DEF Stop, RoundInv
<1>6. CASE UNCHANGED vars
  BY <1>6 DEF vars, RoundInv
<1>7. QED
  BY <1>1, <1>2, <1>3, <1>4, <1>5, <1>6 DEF Next

\* Run pauses only after every endpoint has failed in this round, however many
\* connections were made and lost in it.
THEOREM AllFailBeforeAPause == Spec => []PausesAfterAllFailed
<1>1. RoundInv => PausesAfterAllFailed
  BY DEF RoundInv, PausesAfterAllFailed
<1>2. QED
  BY <1>1, InitRoundInv, StepRoundInv, PTL DEF Spec

LEMMA InitPauseInv == Init => PauseInv
BY StableAssumption DEF Init, PauseInv

LEMMA StepPauseInv == PauseInv /\ [Next]_vars => PauseInv'
<1> SUFFICES ASSUME PauseInv, [Next]_vars PROVE PauseInv'
  OBVIOUS
<1>1. CASE Retry
  BY <1>1, StableAssumption DEF Retry, Doubled, PauseInv
<1>2. CASE EndpointFails
  BY <1>2, StableAssumption DEF EndpointFails, EndRound, NextEndpoint, PauseInv
<1>3. CASE TimePasses \/ Connected \/ Stop \/ UNCHANGED vars
  BY <1>3 DEF TimePasses, Connected, Stop, vars, PauseInv
<1>4. QED
  BY <1>1, <1>2, <1>3 DEF Next

\* However often it doubles, no pause reaches twice the threshold (a minute), and
\* none is skipped.
THEOREM PausesAreBounded == Spec => []PauseInv
BY InitPauseInv, StepPauseInv, PTL DEF Spec


-----------------------------------------------------------------------------
(* The backoff law *)

\* Induction, stated for sets: a counterexample would have a least one.
LEMMA Induction ==
    ASSUME NEW S, 0 \in S, \A n \in Nat : n \in S => n + 1 \in S
    PROVE  Nat \subseteq S
<1> DEFINE T == Nat \ S
           Less == {pair \in Nat \X Nat : pair[1] < pair[2]}
<1>1. IsWellFoundedOn(Less, Nat)
  <2>1. OpToRel(<, Nat) = Less
    BY Zenon DEF OpToRel
  <2>2. QED
    BY <2>1, NatLessThanWellFounded, Zenon
<1>2. SUFFICES ASSUME T # {} PROVE FALSE
  OBVIOUS
<1>3. PICK n \in T : \A m \in T : ~(<<m, n>> \in Less)
  BY <1>1, <1>2, WFMin
<1>4. n - 1 \in Nat /\ n - 1 < n
  OBVIOUS
<1>5. n - 1 \notin T
  BY <1>3, <1>4
<1>6. QED
  BY <1>4, <1>5

\* The first n values of a function that doubles from one on.
DoublesUpTo(f, n) ==
    /\ f \in [0 .. n -> Nat]
    /\ f[0] = 1
    /\ \A i \in 1 .. n : f[i] = 2 * f[i - 1]

\* Such functions agree where both are defined.
LEMMA DoublingIsUnique ==
    ASSUME NEW n \in Nat, NEW f, DoublesUpTo(f, n),
           NEW k \in Nat, NEW g, DoublesUpTo(g, k)
    PROVE  \A i \in Nat : i <= n /\ i <= k => f[i] = g[i]
<1> DEFINE S == {i \in Nat : i <= n /\ i <= k => f[i] = g[i]}
<1>1. 0 \in S
  BY DEF DoublesUpTo
<1>2. ASSUME NEW i \in Nat, i \in S PROVE i + 1 \in S
  <2>1. SUFFICES ASSUME i + 1 <= n, i + 1 <= k PROVE f[i + 1] = g[i + 1]
    OBVIOUS
  <2>2. f[i] = g[i]
    BY <1>2, <2>1
  <2>3. i + 1 \in 1 .. n /\ i + 1 \in 1 .. k /\ i + 1 - 1 = i
    BY <2>1
  <2>4. f[i + 1] = 2 * f[i] /\ g[i + 1] = 2 * g[i]
    BY <2>3 DEF DoublesUpTo
  <2>5. QED
    BY <2>2, <2>4
<1>3. Nat \subseteq S
  <2> HIDE DEF S
  <2> QED
    BY <1>1, <1>2, Induction
<1>4. QED
  BY <1>3

\* There is one for every n.
LEMMA DoublingExists == \A n \in Nat : \E f : DoublesUpTo(f, n)
<1> DEFINE S == {n \in Nat : \E f : DoublesUpTo(f, n)}
<1>1. 0 \in S
  <2>1. DoublesUpTo([i \in 0 .. 0 |-> 1], 0)
    BY DEF DoublesUpTo
  <2>2. QED
    BY <2>1
<1>2. ASSUME NEW n \in Nat, n \in S PROVE n + 1 \in S
  <2>1. PICK f : DoublesUpTo(f, n)
    BY <1>2
  <2> DEFINE g == [i \in 0 .. n + 1 |-> IF i <= n THEN f[i] ELSE 2 * f[n]]
  <2>2. f \in [0 .. n -> Nat] /\ f[n] \in Nat
    BY <2>1 DEF DoublesUpTo
  <2>3. g \in [0 .. n + 1 -> Nat]
    BY <2>2
  <2>4. g[0] = 1
    BY <2>1 DEF DoublesUpTo
  <2>5. ASSUME NEW i \in 1 .. n + 1 PROVE g[i] = 2 * g[i - 1]
    <3>1. CASE i <= n
      BY <2>1, <3>1 DEF DoublesUpTo
    <3>2. CASE i = n + 1
      BY <3>2
    <3>3. QED
      BY <3>1, <3>2
  <2>6. DoublesUpTo(g, n + 1)
    <3> HIDE DEF g
    <3> QED
      BY <2>3, <2>4, <2>5 DEF DoublesUpTo
  <2>7. QED
    BY <2>6
<1>3. Nat \subseteq S
  <2> HIDE DEF S
  <2> QED
    BY <1>1, <1>2, Induction
<1>4. QED
  BY <1>3

\* The recursive definition has a solution, put together from these, so
\* PowerOfTwo is one.
LEMMA PowerOfTwoDef ==
    PowerOfTwo = [n \in Nat |-> IF n = 0 THEN 1 ELSE 2 * PowerOfTwo[n - 1]]
<1> DEFINE Part(n) == CHOOSE f : DoublesUpTo(f, n)
           p == [n \in Nat |-> Part(n)[n]]
<1>1. ASSUME NEW n \in Nat PROVE DoublesUpTo(Part(n), n)
  BY DoublingExists
<1>2. p[0] = 1
  BY <1>1 DEF DoublesUpTo
<1>3. ASSUME NEW n \in Nat, n # 0 PROVE p[n] = 2 * p[n - 1]
  <2>1. n - 1 \in Nat /\ n \in 1 .. n /\ n - 1 <= n
    BY <1>3
  <2>2. DoublesUpTo(Part(n), n) /\ DoublesUpTo(Part(n - 1), n - 1)
    BY <1>1, <2>1
  <2> HIDE DEF Part
  <2>3. Part(n)[n - 1] = Part(n - 1)[n - 1]
    BY <2>1, <2>2, DoublingIsUnique
  <2>4. Part(n)[n] = 2 * Part(n)[n - 1]
    BY <2>1, <2>2 DEF DoublesUpTo
  <2>5. QED
    BY <2>1, <2>3, <2>4
<1>4. p = [n \in Nat |-> IF n = 0 THEN 1 ELSE 2 * p[n - 1]]
  <2> DEFINE q == [n \in Nat |-> IF n = 0 THEN 1 ELSE 2 * p[n - 1]]
  <2>1. ASSUME NEW n \in Nat PROVE p[n] = q[n]
    <3> HIDE DEF p
    <3> QED
      BY <1>2, <1>3
  <2>2. \A n \in Nat : Part(n)[n] \in Nat
    <3> HIDE DEF Part
    <3> QED
      BY <1>1 DEF DoublesUpTo
  <2>3. p \in [Nat -> Nat]
    <3> HIDE DEF Part
    <3> QED
      BY <2>2
  <2>4. q \in [Nat -> Nat]
    <3> HIDE DEF p
    <3> QED
      BY <2>3
  <2>5. p = q
    <3> HIDE DEF p, q
    <3> QED
      BY <2>1, <2>3, <2>4
  <2>6. QED
    BY <2>5
<1>5. QED
  <2> HIDE DEF p
  <2> QED
    BY <1>4, Zenon DEF PowerOfTwo

LEMMA PowerOfTwoStep ==
    /\ PowerOfTwo[0] = 1
    /\ \A n \in Nat : PowerOfTwo[n + 1] = 2 * PowerOfTwo[n]
<1>1. ASSUME NEW n \in Nat
      PROVE  PowerOfTwo[n] = IF n = 0 THEN 1 ELSE 2 * PowerOfTwo[n - 1]
  BY PowerOfTwoDef
<1>2. \A n \in Nat : n + 1 \in Nat /\ n + 1 # 0 /\ n + 1 - 1 = n
  OBVIOUS
<1>3. QED
  BY <1>1, <1>2

\* Doubling outgrows counting.
LEMMA PowerOfTwoGrows ==
    \A n \in Nat : PowerOfTwo[n] \in Nat /\ PowerOfTwo[n] >= n + 1
<1> DEFINE S == {n \in Nat : PowerOfTwo[n] \in Nat /\ PowerOfTwo[n] >= n + 1}
<1>1. 0 \in S
  BY PowerOfTwoStep
<1>2. ASSUME NEW n \in Nat, n \in S PROVE n + 1 \in S
  BY <1>2, PowerOfTwoStep
<1>3. Nat \subseteq S
  <2> HIDE DEF S
  <2> QED
    BY <1>1, <1>2, Induction
<1>4. QED
  BY <1>3

\* So there is a first power of two that is not below the threshold.
LEMMA DoublingsProperty ==
    /\ Doublings \in Nat
    /\ PowerOfTwo[Doublings] >= StableSeconds
    /\ \A m \in Nat : m < Doublings => PowerOfTwo[m] < StableSeconds
<1> DEFINE Below == {n \in Nat : \A m \in 0 .. n : PowerOfTwo[m] < StableSeconds}
           First(n) == /\ PowerOfTwo[n] >= StableSeconds
                       /\ \A m \in 0 .. n - 1 : PowerOfTwo[m] < StableSeconds
<1>1. \E n \in 0 .. StableSeconds : First(n)
  <2>1. SUFFICES ASSUME ~ \E n \in 0 .. StableSeconds : First(n) PROVE FALSE
    OBVIOUS
  <2> DEFINE S == {n \in Nat : n <= StableSeconds =>
                        \A m \in 0 .. n : PowerOfTwo[m] < StableSeconds}
  <2>2. 0 \in S
    <3>1. 0 \in 0 .. StableSeconds /\ 0 .. 0 - 1 = {}
      BY StableAssumption
    <3>2. ~ (PowerOfTwo[0] >= StableSeconds)
      BY <2>1, <3>1
    <3>3. PowerOfTwo[0] < StableSeconds
      BY <3>2, PowerOfTwoGrows, StableAssumption
    <3>4. QED
      BY <3>3
  <2>3. ASSUME NEW n \in Nat, n \in S PROVE n + 1 \in S
    <3>1. SUFFICES ASSUME n + 1 <= StableSeconds
                   PROVE  \A m \in 0 .. n + 1 : PowerOfTwo[m] < StableSeconds
      OBVIOUS
    <3>2. \A m \in 0 .. n : PowerOfTwo[m] < StableSeconds
      BY <2>3, <3>1, StableAssumption
    <3>3. n + 1 \in 0 .. StableSeconds /\ n + 1 - 1 = n
      BY <3>1
    <3>4. ~ (PowerOfTwo[n + 1] >= StableSeconds)
      BY <2>1, <3>2, <3>3
    <3>5. PowerOfTwo[n + 1] < StableSeconds
      BY <3>4, PowerOfTwoGrows, StableAssumption
    <3>6. QED
      BY <3>2, <3>5
  <2>4. Nat \subseteq S
    <3> HIDE DEF S
    <3> QED
      BY <2>2, <2>3, Induction
  <2>5. PowerOfTwo[StableSeconds] < StableSeconds
    BY <2>4, StableAssumption
  <2>6. QED
    BY <2>5, PowerOfTwoGrows, StableAssumption
<1>2. Doublings \in 0 .. StableSeconds /\ First(Doublings)
  BY <1>1 DEF Doublings
<1>3. QED
  BY <1>2, StableAssumption

\* What the pause is, with the type of the history counter it needs.
BackoffInv ==
    /\ shortRounds \in Nat
    /\ BackoffLaw

LEMMA InitBackoffInv == Init => BackoffInv
BY DoublingsProperty, PowerOfTwoStep DEF Init, BackoffInv, BackoffLaw

\* Below the threshold the pause doubles, and from there on it stays.
LEMMA RetryKeepsBackoff ==
    ASSUME BackoffInv, Retry
    PROVE  BackoffInv'
<1>1. /\ delay' = Doubled(delay)
      /\ shortRounds' = IF shortRounds < MaxShortRounds THEN shortRounds + 1
                                                        ELSE shortRounds
  BY DEF Retry
<1>2. shortRounds \in Nat /\ shortRounds' \in Nat
  BY <1>1, BoundAssumption DEF BackoffInv
<1>3. Doublings \in Nat /\ StableSeconds \in Nat /\ MaxShortRounds \in Nat
  BY DoublingsProperty, StableAssumption, BoundAssumption
<1>4. CASE Doublings > MaxShortRounds
  BY <1>2, <1>3, <1>4 DEF BackoffInv, BackoffLaw
<1>5. CASE Doublings <= MaxShortRounds /\ shortRounds < Doublings
  <2>1. delay = PowerOfTwo[shortRounds] /\ delay < StableSeconds
    BY <1>2, <1>3, <1>5, DoublingsProperty DEF BackoffInv, BackoffLaw
  <2>2. shortRounds' = shortRounds + 1 /\ delay' = PowerOfTwo[shortRounds + 1]
    BY <1>1, <1>2, <1>3, <1>5, <2>1, PowerOfTwoStep DEF Doubled
  <2>3. shortRounds' < Doublings \/ shortRounds' = Doublings
    BY <1>2, <1>3, <1>5, <2>2
  <2>4. QED
    BY <1>2, <2>2, <2>3 DEF BackoffInv, BackoffLaw
<1>6. CASE Doublings <= MaxShortRounds /\ shortRounds >= Doublings
  <2>1. delay = PowerOfTwo[Doublings] /\ ~ (delay < StableSeconds)
    <3>1. delay = PowerOfTwo[Doublings]
      BY <1>2, <1>3, <1>6 DEF BackoffInv, BackoffLaw
    <3>2. QED
      BY <1>3, <3>1, DoublingsProperty, PowerOfTwoGrows
  <2>2. delay' = PowerOfTwo[Doublings] /\ shortRounds' >= Doublings
    BY <1>1, <1>2, <1>3, <1>6, <2>1 DEF Doubled
  <2>3. QED
    BY <1>2, <1>3, <2>2 DEF BackoffInv, BackoffLaw
<1>7. QED
  BY <1>2, <1>3, <1>4, <1>5, <1>6

LEMMA StepBackoffInv == BackoffInv /\ [Next]_vars => BackoffInv'
<1> SUFFICES ASSUME BackoffInv, [Next]_vars PROVE BackoffInv'
  OBVIOUS
<1>1. CASE Retry
  BY <1>1, RetryKeepsBackoff
<1>2. CASE EndpointFails
  <2>1. \/ delay' = delay /\ shortRounds' = shortRounds
        \/ delay' = 1 /\ shortRounds' = 0
    BY <1>2 DEF EndpointFails, EndRound, NextEndpoint
  <2>2. CASE delay' = delay /\ shortRounds' = shortRounds
    BY <2>2 DEF BackoffInv, BackoffLaw
  <2>3. CASE delay' = 1 /\ shortRounds' = 0
    BY <2>3, DoublingsProperty, PowerOfTwoStep DEF BackoffInv, BackoffLaw
  <2>4. QED
    BY <2>1, <2>2, <2>3
<1>3. CASE TimePasses \/ Connected \/ Stop \/ UNCHANGED vars
  <2>1. delay' = delay /\ shortRounds' = shortRounds
    BY <1>3 DEF TimePasses, Connected, Stop, vars
  <2>2. QED
    BY <2>1 DEF BackoffInv, BackoffLaw
<1>4. QED
  BY <1>1, <1>2, <1>3 DEF Next

\* For any threshold, not only thirty seconds, the pause is the power of two
\* that the short rounds in a row call for, up to the first that reaches the
\* threshold.
THEOREM PausesFollowTheLaw == Spec => []BackoffLaw
<1>1. BackoffInv => BackoffLaw
  BY DEF BackoffInv
<1>2. QED
  BY <1>1, InitBackoffInv, StepBackoffInv, PTL DEF Spec

-----------------------------------------------------------------------------
(* Coming to an end *)

\* The steps to the end of the round: at most two for each endpoint that is
\* left, and the pause.
StepsLeft ==
    IF phase = "returned" THEN 0
    ELSE IF phase = "pausing" THEN 1
    ELSE IF phase = "connected" THEN 2 * (Endpoints - endpoint) + 2
    ELSE 2 * (Endpoints - endpoint) + 3

\* Nobody pauses once the context is done.
EndInv == RoundInv /\ stopping \in BOOLEAN /\ (stopping => phase # "pausing")

LEMMA StepEndInv == EndInv /\ [Next]_vars => EndInv'
<1> SUFFICES ASSUME EndInv, [Next]_vars PROVE EndInv'
  OBVIOUS
<1>1. RoundInv'
  BY StepRoundInv DEF EndInv
<1>2. CASE EndpointFails
  BY <1>1, <1>2 DEF EndpointFails, EndRound, NextEndpoint, EndInv
<1>3. CASE Stop
  <2>1. phase' # "pausing" /\ stopping' = TRUE
    BY <1>3 DEF Stop
  <2>2. QED
    BY <1>1, <2>1 DEF EndInv
<1>4. CASE TimePasses \/ Connected \/ Retry \/ UNCHANGED vars
  <2>1. /\ stopping' = stopping
        /\ phase' = phase \/ phase' \in {"connected", "dialing"}
    BY <1>4 DEF TimePasses, Connected, Retry, vars
  <2>2. QED
    BY <1>1, <2>1 DEF EndInv
<1>5. QED
  BY <1>2, <1>3, <1>4 DEF Next

\* A dial that succeeds, and an endpoint that fails, bring the end nearer.
LEMMA RoundMovesOn ==
    ASSUME EndInv, Connected \/ EndpointFails
    PROVE  StepsLeft' < StepsLeft
<1>1. Endpoints \in Nat /\ endpoint \in 1 .. Endpoints
  BY EndpointsAssumption DEF EndInv, RoundInv
<1> DEFINE left == Endpoints - endpoint
<1>2. left \in Nat
  BY <1>1
<1>3. CASE Connected
  <2>1. /\ phase = "dialing" /\ phase' = "connected" /\ endpoint' = endpoint
    BY <1>3 DEF Connected
  <2>2. StepsLeft = 2 * left + 3 /\ StepsLeft' = 2 * left + 2
    BY <2>1 DEF StepsLeft
  <2>3. QED
    BY <1>2, <2>2
<1>4. CASE EndpointFails
  <2>1. StepsLeft \in {2 * left + 2, 2 * left + 3}
    BY <1>4 DEF EndpointFails, StepsLeft
  <2>2. CASE endpoint < Endpoints /\ NextEndpoint
    <3>1. phase' = "dialing" /\ endpoint' = endpoint + 1
      BY <2>2 DEF NextEndpoint
    <3>2. StepsLeft' = 2 * (Endpoints - (endpoint + 1)) + 3
      BY <3>1 DEF StepsLeft
    <3>3. StepsLeft' = 2 * left + 1
      BY <1>1, <3>2
    <3>4. QED
      BY <1>2, <2>1, <3>3
  <2>3. CASE endpoint = Endpoints /\ EndRound
    <3>1. StepsLeft' \in {0, 1}
      BY <2>3 DEF EndRound, StepsLeft
    <3>2. QED
      BY <1>2, <2>1, <3>1
  <2>4. QED
    BY <1>4, <2>2, <2>3 DEF EndpointFails
<1>5. QED
  BY <1>3, <1>4

\* Every round comes to its end, unless a connection lasts: each dial and each
\* failure brings it nearer and nothing takes it back.  Once the context is done
\* no round is begun and there is no pause to wait for, so that its end is the
\* end of Run, which is final (Run, connect).
THEOREM RoundsComeToAnEnd ==
    Spec => /\ [](StepsLeft \in 0 .. 2 * Endpoints + 1)
            /\ [](stopping => phase # "pausing")
            /\ [][/\ Connected \/ EndpointFails => StepsLeft' < StepsLeft
                  /\ StepsLeft' > StepsLeft => Retry /\ ~stopping
                  /\ stopping => stopping'
                  /\ phase = "returned" => phase' = "returned"]_vars
<1>1. Init => EndInv
  BY InitRoundInv DEF Init, EndInv
<1>2. EndInv => StepsLeft \in 0 .. 2 * Endpoints + 1 /\ (stopping => phase # "pausing")
  BY EndpointsAssumption DEF EndInv, RoundInv, StepsLeft
<1>3. EndInv /\ [Next]_vars =>
        [/\ Connected \/ EndpointFails => StepsLeft' < StepsLeft
         /\ StepsLeft' > StepsLeft => Retry /\ ~stopping
         /\ stopping => stopping'
         /\ phase = "returned" => phase' = "returned"]_vars
  <2> SUFFICES ASSUME EndInv, Next
               PROVE  /\ Connected \/ EndpointFails => StepsLeft' < StepsLeft
                      /\ StepsLeft' > StepsLeft => Retry /\ ~stopping
                      /\ stopping => stopping'
                      /\ phase = "returned" => phase' = "returned"
    OBVIOUS
  <2>1. Connected \/ EndpointFails => StepsLeft' < StepsLeft
    BY RoundMovesOn
  <2>2. Retry => ~stopping
    BY DEF Retry, EndInv
  <2>3. stopping => stopping'
    BY DEF Next, TimePasses, Connected, EndpointFails, Retry, Stop
  <2>4. phase = "returned" => phase' = "returned"
    BY DEF Next, TimePasses, Connected, EndpointFails, Retry, Stop
  <2>5. StepsLeft' > StepsLeft => Retry
    <3>1. StepsLeft \in Int /\ StepsLeft' \in Int
      <4>1. StepsLeft \in Int
        BY <1>2
      <4>2. endpoint' \in Int /\ Endpoints \in Int
        BY EndpointsAssumption, StepEndInv DEF EndInv, RoundInv
      <4>3. StepsLeft' \in Int
        BY <4>2 DEF StepsLeft
      <4>4. QED
        BY <4>1, <4>3
    <3>2. CASE TimePasses
      BY <3>1, <3>2 DEF TimePasses, StepsLeft
    <3>3. CASE Stop
      <4>1. CASE phase = "pausing"
        <5>1. StepsLeft = 1 /\ StepsLeft' = 0
          BY <3>3, <4>1 DEF Stop, StepsLeft
        <5>2. QED
          BY <5>1
      <4>2. CASE phase # "pausing"
        BY <3>1, <3>3, <4>2 DEF Stop, StepsLeft
      <4>3. QED
        BY <4>1, <4>2
    <3>4. QED
      BY <2>1, <3>1, <3>2, <3>3 DEF Next
  <2>6. QED
    BY <2>1, <2>2, <2>3, <2>4, <2>5
<1>4. QED
  BY <1>1, <1>2, <1>3, StepEndInv, PTL DEF Spec

=============================================================================
