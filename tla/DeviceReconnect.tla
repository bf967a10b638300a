--------------------------- MODULE DeviceReconnect ---------------------------
(***************************************************************************)
(* How the device runtime keeps its connection: Run, connect and           *)
(* connectEndpoint of internal/launcher/deployment/device_runtime.go.  A   *)
(* round is one call of connect.  It tries every endpoint in order, and    *)
(* because connectEndpoint only returns with an error, also when an        *)
(* established connection is lost, it goes on to the next endpoint then.   *)
(* The pause after a round doubles, unless the round lasted thirty seconds.*)
(* Time is abstracted to the only comparison Run makes: has this round     *)
(* lasted StableSeconds?                                                   *)
(***************************************************************************)
EXTENDS Naturals

CONSTANTS Endpoints,      \* how many endpoints deviceWebSocketURLs returned
          StableSeconds,  \* 30: both thresholds of Run
          MaxShortRounds  \* bound on the history counter

ASSUME EndpointsAssumption == Endpoints \in Nat \ {0}
ASSUME StableAssumption == StableSeconds \in Nat \ {0}
ASSUME BoundAssumption == MaxShortRounds \in Nat

VARIABLES phase,        \* dialing, connected, pausing or returned
          endpoint,     \* the endpoint connect is at
          long,         \* the round has lasted StableSeconds
          delay,        \* the pause after this round, in seconds
          stopping,     \* Run's context is done
          shortRounds,  \* history: short rounds since the last long one
          failed        \* history: endpoints that failed in this round

vars == <<phase, endpoint, long, delay, stopping, shortRounds, failed>>

Init ==
    /\ phase = "dialing"
    /\ endpoint = 1
    /\ long = FALSE
    /\ delay = 1
    /\ stopping = FALSE
    /\ shortRounds = 0
    /\ failed = {}

\* Thirty seconds have passed since connect was called.
TimePasses ==
    /\ phase \in {"dialing", "connected"}
    /\ long' = TRUE
    /\ UNCHANGED <<phase, endpoint, delay, stopping, shortRounds, failed>>

\* The dial and the HELLO succeed.
Connected ==
    /\ phase = "dialing"
    /\ phase' = "connected"
    /\ UNCHANGED <<endpoint, long, delay, stopping, shortRounds, failed>>

\* Slip: the test on the round's length is the wrong way round.
EndRoundInverted ==
    /\ phase' = IF stopping THEN "returned" ELSE "pausing"
    /\ delay' = IF long THEN delay ELSE 1
    /\ shortRounds' = IF long THEN 0 ELSE shortRounds
    /\ UNCHANGED endpoint

\* Slip: the pause does not listen to the context.
EndRoundDeaf ==
    /\ phase' = "pausing"
    /\ delay' = IF long THEN 1 ELSE delay
    /\ shortRounds' = IF long THEN 0 ELSE shortRounds
    /\ UNCHANGED endpoint

\* connect returns the failures of all endpoints.
EndRound ==
    /\ phase' = IF stopping THEN "returned" ELSE "pausing"
    /\ delay' = IF long THEN 1 ELSE delay
    /\ shortRounds' = IF long THEN 0 ELSE shortRounds
    /\ UNCHANGED endpoint

NextEndpoint ==
    /\ phase' = "dialing"
    /\ endpoint' = endpoint + 1
    /\ UNCHANGED <<delay, shortRounds>>

\* Slip: connect is done when a connection it had is lost.
EndpointFailsEarly ==
    /\ phase \in {"dialing", "connected"}
    /\ \/ phase = "dialing" /\ endpoint < Endpoints /\ NextEndpoint
       \/ phase = "connected" /\ EndRound
       \/ endpoint = Endpoints /\ EndRound
    /\ failed' = failed \cup {endpoint}
    /\ UNCHANGED <<long, stopping>>

\* connectEndpoint returns: the dial failed or the connection was lost, which
\* the watcher also brings about when the context is done.
EndpointFails ==
    /\ phase \in {"dialing", "connected"}
    /\ \/ endpoint < Endpoints /\ NextEndpoint
       \/ endpoint = Endpoints /\ EndRound
    /\ failed' = failed \cup {endpoint}
    /\ UNCHANGED <<long, stopping>>

Doubled(pause) == IF pause < StableSeconds THEN 2 * pause ELSE pause

\* Slip: the next round goes on where the last one ended.
RetryLast ==
    /\ phase = "pausing"
    /\ delay' = Doubled(delay)
    /\ phase' = "dialing"
    /\ long' = FALSE
    /\ failed' = {}
    /\ shortRounds' = IF shortRounds < MaxShortRounds THEN shortRounds + 1
                                                      ELSE shortRounds
    /\ UNCHANGED <<endpoint, stopping>>

\* The pause is over: the next one is twice as long, then connect is called.
Retry ==
    /\ phase = "pausing"
    /\ delay' = Doubled(delay)
    /\ phase' = "dialing"
    /\ endpoint' = 1
    /\ long' = FALSE
    /\ failed' = {}
    /\ shortRounds' = IF shortRounds < MaxShortRounds THEN shortRounds + 1
                                                      ELSE shortRounds
    /\ UNCHANGED stopping

Stop ==
    /\ ~stopping
    /\ stopping' = TRUE
    /\ phase' = IF phase = "pausing" THEN "returned" ELSE phase
    /\ UNCHANGED <<endpoint, long, delay, shortRounds, failed>>

Next == TimePasses \/ Connected \/ EndpointFails \/ Retry \/ Stop

Spec == Init /\ [][Next]_vars

\* The timer fires, a dial ends one way or the other, and a done context closes
\* the connection.  An established connection may last for ever.
FairSpec ==
    /\ Spec
    /\ WF_vars(Retry)
    /\ WF_vars(phase = "dialing" /\ (Connected \/ EndpointFails))
    /\ WF_vars(stopping /\ EndpointFails)

-----------------------------------------------------------------------------
(* Properties *)

PowerOfTwo[n \in Nat] == IF n = 0 THEN 1 ELSE 2 * PowerOfTwo[n - 1]

\* How often the pause doubles before it stays: five times, for thirty seconds.
Doublings == CHOOSE n \in 0 .. StableSeconds :
                 /\ PowerOfTwo[n] >= StableSeconds
                 /\ \A m \in 0 .. n - 1 : PowerOfTwo[m] < StableSeconds

\* The pause is 2^n seconds after n short rounds in a row, up to the first power
\* of two that is not below StableSeconds, and one second after a round that
\* lasted that long, whether a connection or a slow dial made it long (Run).
BackoffLaw ==
    Doublings <= MaxShortRounds =>
        delay = PowerOfTwo[IF shortRounds < Doublings THEN shortRounds
                                                      ELSE Doublings]

\* Run pauses only after every endpoint of the list has failed in this round:
\* losing an established connection makes connect go on with the endpoints
\* after it before it pauses.
PausesAfterAllFailed == phase = "pausing" => failed = 1 .. Endpoints

\* Unless a connection lasts or Run was stopped, every endpoint is dialled again
\* and again, so a control plane that moved between them is found.
EveryEndpointRetried ==
    \A e \in 1 .. Endpoints :
        []<>(\/ phase \in {"connected", "returned"}
             \/ phase = "dialing" /\ endpoint = e)

\* Stopping the application ends Run, in whatever phase it finds it.
StopReturns == stopping ~> phase = "returned"

=============================================================================
