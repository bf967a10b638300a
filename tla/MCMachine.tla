------------------------------ MODULE MCMachine ------------------------------
(* Small instances of Machine for TLC. *)
EXTENDS Machine, TLC

CONSTANTS service, frontend, loop, h1, http

\* The second release keeps, under a version of its own, the front end of the
\* first.
MCVersionOf == service :> <<1, 2>> @@ frontend :> <<1, 2>>
MCHashOf == service :> <<1, 2>> @@ frontend :> <<1, 1>>
MCOrder == <<service, frontend>>

=============================================================================
