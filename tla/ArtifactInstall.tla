---------------------------- MODULE ArtifactInstall ----------------------------
(***************************************************************************)
(* The directories of the packages (download.go).  A package of a release  *)
(* has a directory of its version; it counts as installed when the file    *)
(* .artifact-sha256 in it names its checksum.  A new one is unpacked       *)
(* beside its directory, which is then removed and replaced.               *)
(***************************************************************************)
EXTENDS Naturals, FiniteSetsExt

CONSTANTS
    Packages,
    Releases,
    VersionOf,   \* VersionOf[p][r]: the directory of package p of release r
    HashOf,      \* HashOf[p][r]: its checksum
    Executables  \* the packages whose executable is looked for

VARIABLES
    dirs,     \* dirs[p][v]: the directory of version v
    staging   \* the directory a download is unpacked in

None == 0

Versions == {VersionOf[p][r] : p \in Packages, r \in Releases}
Hashes == {HashOf[p][r] : p \in Packages, r \in Releases}

\* A checksum is a number; a release keeps to the checksum of a version that
\* was published before (see the README on releases that do not).
ASSUME InstallAssumption ==
    /\ VersionOf \in [Packages -> [Releases -> Nat \ {None}]]
    /\ HashOf \in [Packages -> [Releases -> Nat \ {None}]]
    /\ Executables \subseteq Packages
    /\ \A p \in Packages, r \in Releases, s \in Releases :
          VersionOf[p][r] = VersionOf[p][s] => HashOf[p][r] = HashOf[p][s]

\* The files of a directory (all of them or some), and its marker.
Directory == [files : Hashes \cup {None}, whole : BOOLEAN,
              marker : Hashes \cup {None}]
NoDirectory == [files |-> None, whole |-> FALSE, marker |-> None]

InstallTypeOK ==
    /\ dirs \in [Packages -> [Versions -> Directory]]
    /\ staging \in {"absent", "partial", "whole"}

InstallInit ==
    /\ dirs = [p \in Packages |-> [v \in Versions |-> NoDirectory]]
    /\ staging = "absent"

-----------------------------------------------------------------------------

\* findArtifactRootByMarker, which takes the first one
Marked(p, hash) == {v \in Versions : dirs[p][v].marker = hash}

\* findInstalledExecutable; what is left of a directory is taken to have it
Runs(p, v) == p \in Executables => dirs[p][v].files # None

\* The directory package p of release r is used from, if there is one.
Root(p, r) ==
    LET target == VersionOf[p][r]
        marked == Marked(p, HashOf[p][r])
    IN  IF target \in marked /\ Runs(p, target) THEN target
        ELSE IF marked # {} THEN Min(marked) ELSE None

Ready(p, r) == Root(p, r) # None /\ Runs(p, Root(p, r))

\* The package p of release r is there, with all its files.
Whole(p, r) ==
    /\ Ready(p, r)
    /\ dirs[p][Root(p, r)] =
          [files |-> HashOf[p][r], whole |-> TRUE, marker |-> HashOf[p][r]]

-----------------------------------------------------------------------------

SetTarget(p, r, directory) ==
    dirs' = [dirs EXCEPT ![p][VersionOf[p][r]] = directory]

\* The download has the checksum; what an earlier attempt left is removed.
Unpack == staging' = "partial" /\ UNCHANGED dirs

Unpacked == staging = "partial" /\ staging' = "whole" /\ UNCHANGED dirs

UnpackFails == staging' = "absent" /\ UNCHANGED dirs

\* Slip: older versions are removed as well.
RemoveVersions(p, r) ==
    /\ dirs' = [dirs EXCEPT ![p] = [v \in Versions |-> NoDirectory]]
    /\ UNCHANGED staging

\* os.RemoveAll, whose error is ignored: it may stop after some of the files.
RemoveTarget(p, r) ==
    LET target == dirs[p][VersionOf[p][r]]
    IN  /\ \/ SetTarget(p, r, NoDirectory)
           \/ /\ target.files # None
              /\ \E marker \in {None, target.marker} :
                    SetTarget(p, r, [target EXCEPT !.whole = FALSE, !.marker = marker])
        /\ UNCHANGED staging

\* A directory that is not empty cannot be replaced.
Replaceable(p, r) == dirs[p][VersionOf[p][r]] = NoDirectory

RenameStaging(p, r) ==
    /\ Replaceable(p, r)
    /\ SetTarget(p, r, [files |-> HashOf[p][r], whole |-> staging = "whole",
                        marker |-> None])
    /\ staging' = "absent"

Mark(p, r) ==
    /\ dirs' = [dirs EXCEPT ![p][VersionOf[p][r]].marker = HashOf[p][r]]
    /\ UNCHANGED staging

=============================================================================
