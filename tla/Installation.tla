----------------------------- MODULE Installation -----------------------------
(***************************************************************************)
(* What the installation of packages promises, whatever happens while it   *)
(* runs: a package of a release is there completely or not at all, a       *)
(* package that is there stays, and the release the launcher falls back to *)
(* when an update is postponed is there completely.                        *)
(***************************************************************************)
CONSTANTS
    Packages,  \* what a release consists of
    Releases,
    HashOf,    \* HashOf[p][r]: the checksum of package p in release r
    NoRelease

VARIABLES
    complete,  \* the checksums that are installed, by package
    fallback   \* the release of installed-manifest.json

vars == <<complete, fallback>>

Contents(r) == {<<p, HashOf[p][r]>> : p \in Packages}

Init ==
    /\ complete = {}
    /\ fallback = NoRelease

Install(p, r) ==
    /\ complete' = complete \cup {<<p, HashOf[p][r]>>}
    /\ UNCHANGED fallback

Record(r) ==
    /\ Contents(r) \subseteq complete
    /\ fallback' = r
    /\ UNCHANGED complete

Next ==
    \/ \E p \in Packages, r \in Releases : Install(p, r)
    \/ \E r \in Releases : Record(r)

Spec == Init /\ [][Next]_vars

=============================================================================
