----------------------------- MODULE MachineProofs -----------------------------
(***************************************************************************)
(* Proofs about Machine, for any releases, packages, services, requests    *)
(* and secrets, and any number of failed steps and ends of the process.    *)
(***************************************************************************)
EXTENDS Machine, TLAPS, FiniteSetTheorems, WellFoundedInduction

-----------------------------------------------------------------------------
(* What the operators return *)

\* The first of some versions is one of them.
LEMMA MinIsIn ==
    ASSUME NEW S \in SUBSET Nat, S # {}
    PROVE  Min(S) \in S
<1> DEFINE Less == {ss \in Nat \X Nat : ss[1] < ss[2]}
<1>1. OpToRel(<, Nat) = Less
  BY Zenon DEF OpToRel
<1>2. IsWellFoundedOn(Less, Nat)
  BY <1>1, NatLessThanWellFounded, Zenon
<1>3. PICK n \in S : \A m \in S : ~(<<m, n>> \in Less)
  BY <1>2, WFMin
<1>4. \A m \in S : n <= m
  <2>1. ASSUME NEW m \in S, ~(n <= m) PROVE FALSE
    <3>1. m \in Nat /\ n \in Nat /\ m < n
      BY <2>1
    <3>2. <<m, n>> \in Less
      BY <3>1
    <3>3. QED
      BY <1>3, <3>2
  <2>2. QED
    BY <2>1
<1>5. QED
  BY <1>4 DEF Min

LEMMA UnionAtMost ==
    ASSUME NEW S, IsFiniteSet(S), NEW T, IsFiniteSet(T)
    PROVE  /\ IsFiniteSet(S \cup T)
           /\ Cardinality(S \cup T) <= Cardinality(S) + Cardinality(T)
<1>1. /\ IsFiniteSet(S \cup T)
      /\ Cardinality(S \cup T) =
            Cardinality(S) + Cardinality(T) - Cardinality(S \cap T)
  BY FS_Union
<1>2. IsFiniteSet(S \cap T)
  BY FS_Intersection
<1>3. /\ Cardinality(S) \in Nat /\ Cardinality(T) \in Nat
      /\ Cardinality(S \cap T) \in Nat
  BY <1>2, FS_CardinalityType
<1>4. QED
  BY <1>1, <1>3

LEMMA ThreeAtMost ==
    ASSUME NEW x, NEW y, NEW z
    PROVE  IsFiniteSet({x, y, z}) /\ Cardinality({x, y, z}) <= 3
<1> DEFINE X == {x}  Y == {y}  Z == {z}
<1>1. {x, y, z} = (X \cup Y) \cup Z
  OBVIOUS
<1>2. /\ IsFiniteSet(X) /\ Cardinality(X) = 1
      /\ IsFiniteSet(Y) /\ Cardinality(Y) = 1
      /\ IsFiniteSet(Z) /\ Cardinality(Z) = 1
  BY FS_Singleton
<1> HIDE DEF X, Y, Z
<1>3. /\ IsFiniteSet(X \cup Y)
      /\ Cardinality(X \cup Y) <= Cardinality(X) + Cardinality(Y)
  BY <1>2, UnionAtMost
<1>4. /\ IsFiniteSet((X \cup Y) \cup Z)
      /\ Cardinality((X \cup Y) \cup Z) <= Cardinality(X \cup Y) + Cardinality(Z)
  BY <1>2, <1>3, UnionAtMost
<1>5. Cardinality(X \cup Y) \in Nat /\ Cardinality((X \cup Y) \cup Z) \in Nat
  BY <1>3, <1>4, FS_CardinalityType
<1>6. Cardinality((X \cup Y) \cup Z) <= 3
  BY <1>2, <1>3, <1>4, <1>5
<1>7. QED
  BY <1>1, <1>4, <1>6

\* The secret that is drawn is a secret: the files and the processes, of which
\* there are finitely many, do not have them all.
LEMMA FreshIsSecret == Fresh \in Secrets
<1> DEFINE Taken == {file.secret, temp.text.secret, cluster.password}
                        \cup {held[p].secret : p \in Savers}
<1>1. IsFiniteSet(Savers) /\ Cardinality(Savers) = Cardinality(Posts) + 1
  BY StateAssumption, FS_AddElement DEF Savers
<1>2. /\ IsFiniteSet({held[p].secret : p \in Savers})
      /\ Cardinality({held[p].secret : p \in Savers}) <= Cardinality(Savers)
  <2> DEFINE f == [p \in Savers |-> held[p].secret]
             T == {held[p].secret : p \in Savers}
  <2>1. f \in Surjection(Savers, T)
    BY DEF Surjection
  <2>2. QED
    BY <1>1, <2>1, FS_Surjection
<1>3. /\ IsFiniteSet({file.secret, temp.text.secret, cluster.password})
      /\ Cardinality({file.secret, temp.text.secret, cluster.password}) <= 3
  BY ThreeAtMost
<1>4. IsFiniteSet(Taken) /\ Cardinality(Taken) <= Cardinality(Posts) + 4
  <2> HIDE DEF Taken
  <2> DEFINE A == {file.secret, temp.text.secret, cluster.password}
             B == {held[p].secret : p \in Savers}
  <2>1. Taken = A \cup B
    BY DEF Taken
  <2> HIDE DEF A, B
  <2>2. /\ IsFiniteSet(A) /\ Cardinality(A) <= 3
        /\ IsFiniteSet(B) /\ Cardinality(B) <= Cardinality(Posts) + 1
    BY <1>1, <1>2, <1>3 DEF A, B
  <2>3. IsFiniteSet(A \cup B) /\ Cardinality(A \cup B) <= Cardinality(A) + Cardinality(B)
    BY <2>2, UnionAtMost
  <2>4. /\ Cardinality(A) \in Nat /\ Cardinality(B) \in Nat
        /\ Cardinality(A \cup B) \in Nat /\ Cardinality(Posts) \in Nat
    BY <2>2, <2>3, FS_CardinalityType, StateAssumption
  <2>5. QED
    BY <2>1, <2>2, <2>3, <2>4
<1>5. ~(Secrets \subseteq Taken)
  <2>1. ASSUME Secrets \subseteq Taken PROVE FALSE
    <3>1. IsFiniteSet(Secrets) /\ Cardinality(Secrets) <= Cardinality(Taken)
      BY <1>4, <2>1, FS_Subset
    <3>2. QED
      BY <1>4, <3>1, StateAssumption, FS_CardinalityType
  <2>2. QED
    BY <2>1
<1>6. {s \in Secrets : s \notin Taken} # {}
  BY <1>5
<1>7. Min({s \in Secrets : s \notin Taken}) \in {s \in Secrets : s \notin Taken}
  BY <1>6, MinIsIn, StateAssumption
<1>8. QED
  BY <1>7 DEF Fresh

\* Directories and checksums of a release are never None.
LEMMA VersionsAndHashes ==
    /\ Versions \subseteq Nat \ {None}
    /\ Hashes \subseteq Nat \ {None}
    /\ \A p \in Packages, r \in Releases :
           VersionOf[p][r] \in Versions /\ HashOf[p][r] \in Hashes
BY InstallAssumption DEF Versions, Hashes

-----------------------------------------------------------------------------
(* Types of the launcher state *)

LEMMA BlankType ==
    /\ Blank \in Contents /\ Blank.secret = NoSecret
    /\ NoTemp \in [there : BOOLEAN, text : Contents]
    /\ NoTemp.there = FALSE /\ NoTemp.text = Blank
BY DEF Blank, NoTemp, Contents

\* A process that loads the state has the secret of the file, or a fresh one.
LEMMA LoadType ==
    ASSUME StateTypeOK, NEW p \in Savers, NEW change \in SUBSET Posts,
           Load(p, Fresh, change)
    PROVE  /\ StateTypeOK'
           /\ held'[p].secret \in Secrets
           /\ held'[p].secret = IF file.secret = NoSecret THEN Fresh
                                                          ELSE file.secret
           /\ \A q \in Savers \ {p} : held'[q] = held[q]
<1> DEFINE copy == [file EXCEPT !.secret = IF file.secret = NoSecret
                                           THEN Fresh ELSE file.secret,
                                !.settings = file.settings \cup change]
<1>1. file \in Contents /\ Fresh \in Secrets
  BY FreshIsSecret DEF StateTypeOK
<1>2. /\ copy \in Contents
      /\ copy.secret \in Secrets
      /\ copy.secret = IF file.secret = NoSecret THEN Fresh ELSE file.secret
  BY <1>1 DEF Contents
<1>3. held' = [held EXCEPT ![p] = copy]
  BY <1>1 DEF Load, Contents
<1> HIDE DEF copy
<1>4. /\ held' \in [Savers -> Contents] /\ held'[p] = copy
      /\ \A q \in Savers \ {p} : held'[q] = held[q]
  BY <1>2, <1>3 DEF StateTypeOK
<1>5. QED
  BY <1>2, <1>4 DEF Load, StateTypeOK

LEMMA OpenType ==
    ASSUME StateTypeOK, NEW p \in Savers, Open(p)
    PROVE  StateTypeOK'
<1>1. temp' \in [there : BOOLEAN, text : Contents]
  BY BlankType DEF Open
<1>2. QED
  BY <1>1 DEF Open, StateTypeOK

LEMMA WriteType ==
    ASSUME StateTypeOK, NEW p \in Savers, Write(p)
    PROVE  StateTypeOK'
<1>1. [held[p] EXCEPT !.torn = TRUE] \in Contents /\ held[p] \in Contents
  BY DEF StateTypeOK, Contents
<1>2. \A old : Written(old, p) \subseteq Contents
  BY <1>1 DEF Written
<1>3. file' \in Contents /\ temp' \in [there : BOOLEAN, text : Contents]
  <2>1. CASE handle[p] = "temp"
    <3>1. PICK text \in Contents : temp' = [temp EXCEPT !.text = text]
      BY <1>2, <2>1 DEF Write
    <3>2. temp' \in [there : BOOLEAN, text : Contents]
      BY <3>1 DEF StateTypeOK
    <3>3. QED
      BY <2>1, <3>2 DEF Write, StateTypeOK
  <2>2. CASE handle[p] = "file"
    BY <1>2, <2>2 DEF Write, StateTypeOK
  <2>3. CASE handle[p] \notin {"temp", "file"}
    BY <2>3 DEF Write, StateTypeOK
  <2>4. QED
    BY <2>1, <2>2, <2>3
<1>4. QED
  BY <1>3 DEF Write, StateTypeOK

\* The copies of the processes are kept or forgotten.
LEMMA ReleaseType ==
    ASSUME StateTypeOK, NEW p \in Savers, Release(p)
    PROVE  /\ held' \in [Savers -> Contents]
           /\ \A q \in Savers : held'[q] = held[q] \/ (q = p /\ held'[q] = Blank)
           /\ held'[Loop] = held[Loop]
BY BlankType, StateAssumption DEF Release, Forget, StateTypeOK, Savers

LEMMA RenameType ==
    ASSUME StateTypeOK, NEW p \in Savers, Rename(p) \/ RenameFails(p)
    PROVE  StateTypeOK'
<1>1. held' \in [Savers -> Contents]
  BY ReleaseType DEF Rename, RenameFails
<1>2. CASE Rename(p)
  BY <1>1, <1>2, BlankType DEF Rename, StateTypeOK
<1>3. CASE RenameFails(p)
  BY <1>1, <1>3 DEF RenameFails, StateTypeOK
<1>4. QED
  BY <1>2, <1>3

-----------------------------------------------------------------------------
(* Types of the packages and of the database *)

LEMMA DirectoryType ==
    /\ NoDirectory \in Directory
    /\ \A d \in Directory, h \in Hashes, m \in Hashes \cup {None} :
           /\ [d EXCEPT !.marker = h] \in Directory
           /\ [d EXCEPT !.whole = FALSE, !.marker = m] \in Directory
    /\ \A h \in Hashes, b \in BOOLEAN :
           [files |-> h, whole |-> b, marker |-> None] \in Directory
BY DEF NoDirectory, Directory

\* One directory is replaced, the others stay.
LEMMA SetTargetType ==
    ASSUME InstallTypeOK, NEW p \in Packages, NEW r \in Releases,
           NEW d \in Directory, SetTarget(p, r, d)
    PROVE  /\ dirs' \in [Packages -> [Versions -> Directory]]
           /\ dirs'[p][VersionOf[p][r]] = d
           /\ \A q \in Packages, v \in Versions :
                  q # p \/ v # VersionOf[p][r] => dirs'[q][v] = dirs[q][v]
BY VersionsAndHashes DEF SetTarget, InstallTypeOK

\* RemoveAll takes the whole directory or leaves some files, perhaps the marker.
LEMMA RemoveType ==
    ASSUME InstallTypeOK, NEW p \in Packages, NEW r \in Releases,
           RemoveTarget(p, r)
    PROVE  /\ InstallTypeOK' /\ staging' = staging
           /\ dirs'[p][VersionOf[p][r]].marker
                  \in {None, dirs[p][VersionOf[p][r]].marker}
           /\ \A q \in Packages, v \in Versions :
                  q # p \/ v # VersionOf[p][r] => dirs'[q][v] = dirs[q][v]
<1> DEFINE target == dirs[p][VersionOf[p][r]]
<1>1. target \in Directory /\ target.marker \in Hashes \cup {None}
  <2>1. VersionOf[p][r] \in Versions
    BY VersionsAndHashes
  <2>2. target \in Directory
    BY <2>1 DEF InstallTypeOK
  <2>3. QED
    BY <2>2 DEF Directory
<1>2. staging' = staging
  BY DEF RemoveTarget
<1>3. PICK d \in Directory : /\ SetTarget(p, r, d)
                             /\ d.marker \in {None, target.marker}
  <2>1. NoDirectory \in Directory /\ NoDirectory.marker = None
    BY DEF NoDirectory, Directory
  <2>2. ASSUME NEW m \in {None, target.marker}
        PROVE  /\ [target EXCEPT !.whole = FALSE, !.marker = m] \in Directory
               /\ [target EXCEPT !.whole = FALSE, !.marker = m].marker = m
    BY <1>1 DEF Directory
  <2>3. \/ SetTarget(p, r, NoDirectory)
        \/ \E m \in {None, target.marker} :
               SetTarget(p, r, [target EXCEPT !.whole = FALSE, !.marker = m])
    BY DEF RemoveTarget
  <2> HIDE DEF target
  <2>4. CASE SetTarget(p, r, NoDirectory)
    BY <2>1, <2>4
  <2>5. CASE \E m \in {None, target.marker} :
                 SetTarget(p, r, [target EXCEPT !.whole = FALSE, !.marker = m])
    <3>1. PICK m \in {None, target.marker} :
              SetTarget(p, r, [target EXCEPT !.whole = FALSE, !.marker = m])
      BY <2>5
    <3>2. QED
      BY <2>2, <3>1
  <2>6. QED
    BY <2>3, <2>4, <2>5
<1>4. QED
  BY <1>2, <1>3, SetTargetType DEF InstallTypeOK

LEMMA MarkType ==
    ASSUME InstallTypeOK, NEW p \in Packages, NEW r \in Releases, Mark(p, r)
    PROVE  /\ InstallTypeOK' /\ staging' = staging
           /\ dirs'[p][VersionOf[p][r]] =
                 [dirs[p][VersionOf[p][r]] EXCEPT !.marker = HashOf[p][r]]
           /\ \A q \in Packages, v \in Versions :
                  q # p \/ v # VersionOf[p][r] => dirs'[q][v] = dirs[q][v]
<1> DEFINE d == [dirs[p][VersionOf[p][r]] EXCEPT !.marker = HashOf[p][r]]
<1>1. d \in Directory
  BY VersionsAndHashes, DirectoryType DEF InstallTypeOK
<1>2. SetTarget(p, r, d)
  BY VersionsAndHashes DEF Mark, SetTarget, InstallTypeOK
<1> HIDE DEF d
<1>3. QED
  BY <1>1, <1>2, SetTargetType DEF d, Mark, InstallTypeOK

LEMMA RenameStagingType ==
    ASSUME InstallTypeOK, NEW p \in Packages, NEW r \in Releases,
           RenameStaging(p, r)
    PROVE  /\ InstallTypeOK'
           /\ dirs[p][VersionOf[p][r]] = NoDirectory
           /\ dirs'[p][VersionOf[p][r]] =
                 [files |-> HashOf[p][r], whole |-> staging = "whole",
                  marker |-> None]
           /\ \A q \in Packages, v \in Versions :
                  q # p \/ v # VersionOf[p][r] => dirs'[q][v] = dirs[q][v]
<1>1. [files |-> HashOf[p][r], whole |-> staging = "whole", marker |-> None]
          \in Directory
  BY VersionsAndHashes, DirectoryType
<1>2. QED
  BY <1>1, SetTargetType DEF RenameStaging, Replaceable, InstallTypeOK

LEMMA DatabaseType ==
    ASSUME DatabaseTypeOK
    PROVE  /\ InitStart => DatabaseTypeOK'
           /\ \A s \in Passwords \cup {NoPassword} :
                  InitDone(s) \/ SyncPassword(s) => DatabaseTypeOK'
           /\ InitFails \/ CreateDatabase \/ StopPrevious \/ StartServer
                  \/ StopServer => DatabaseTypeOK'
<1> DEFINE Cluster == [state : ClusterStates, version : BOOLEAN,
                       password : Passwords \cup {NoPassword}]
<1>1. NoCluster \in Cluster
  BY DEF NoCluster, ClusterStates
<1>2. \A b \in BOOLEAN :
          [NoCluster EXCEPT !.state = "partial", !.version = b] \in Cluster
  BY <1>1 DEF ClusterStates
<1>3. \A s \in Passwords \cup {NoPassword} :
          [state |-> "bare", version |-> TRUE, password |-> s] \in Cluster
  BY DEF ClusterStates
<1>4. /\ \A s \in Passwords \cup {NoPassword} :
             [cluster EXCEPT !.password = s] \in Cluster
      /\ [cluster EXCEPT !.state = "created"] \in Cluster
  BY DEF DatabaseTypeOK, ClusterStates
<1> HIDE DEF Cluster
<1>5. InitStart => DatabaseTypeOK'
  BY <1>2 DEF InitStart, DatabaseTypeOK, Cluster
<1>6. ASSUME NEW s \in Passwords \cup {NoPassword}, InitDone(s) \/ SyncPassword(s)
      PROVE  DatabaseTypeOK'
  BY <1>3, <1>4, <1>6 DEF InitDone, SyncPassword, DatabaseTypeOK, Cluster
<1>7. InitFails \/ CreateDatabase => DatabaseTypeOK'
  BY <1>1, <1>4 DEF InitFails, CreateDatabase, DatabaseTypeOK, Cluster
<1>8. StopPrevious \/ StartServer \/ StopServer => DatabaseTypeOK'
  BY DEF StopPrevious, StartServer, StopServer, DatabaseTypeOK
<1>9. QED
  BY <1>5, <1>6, <1>7, <1>8

-----------------------------------------------------------------------------
(* Types of the loop *)

Resumes == {"idle", "check", "record", "database"}

\* The loop, the requests and the ports; in a round, the loop has a release and
\* the secret it has loaded.
LoopType ==
    /\ place \in Places
    /\ at \in 1 .. Len(Order)
    /\ release \in Releases \cup {NoRelease}
    /\ record \in Releases \cup {NoRelease}
    /\ resume \in Resumes
    /\ ports \in [Services -> {"free", "ours", "previous", "foreign"}]
    /\ post \in [Posts -> {"new", "loaded", "opened", "written", "saved", "refused"}]
    /\ faults \in 0 .. MaxFaults
    /\ place # "idle" => held[Loop].secret \in Secrets /\ release \in Releases

TypeInv == InstallTypeOK /\ StateTypeOK /\ DatabaseTypeOK /\ LoopType

LEMMA TypeInvImplies == TypeInv => TypeOK
BY DEF TypeInv, LoopType, TypeOK, Resumes, Places, Installing, Starting

LEMMA Unchanged ==
    /\ InstallTypeOK /\ UNCHANGED installVars => InstallTypeOK'
    /\ StateTypeOK /\ UNCHANGED stateVars => StateTypeOK'
    /\ DatabaseTypeOK /\ UNCHANGED databaseVars => DatabaseTypeOK'
BY DEF InstallTypeOK, StateTypeOK, DatabaseTypeOK, installVars, stateVars,
       databaseVars

\* The package the loop is at is one of the release.
LEMMA PackageType ==
    ASSUME TypeInv
    PROVE  package \in Packages /\ Len(Order) \in Nat
BY MachineAssumption DEF package, TypeInv, LoopType

\* There is a first package to begin with.
LEMMA OrderIsThere == 1 \in 1 .. Len(Order)
<1>1. PICK p \in Packages : TRUE
  BY MachineAssumption
<1>2. \E i \in DOMAIN Order : Order[i] = p
  BY MachineAssumption
<1>3. Len(Order) \in Nat /\ DOMAIN Order = 1 .. Len(Order)
  BY MachineAssumption
<1>4. QED
  BY <1>2, <1>3

\* The goods of a step of the loop that goes to a place and touches neither the
\* launcher state, nor ports and requests.
LEMMA MoveType ==
    ASSUME LoopType, place # "idle",
           place' \in Places, resume' \in Resumes, at' \in 1 .. Len(Order),
           record' \in Releases \cup {NoRelease},
           UNCHANGED <<release, ports, post, faults, held>>
    PROVE  LoopType'
BY DEF LoopType

LEMMA AdvanceType ==
    ASSUME TypeInv, NEW saves, Advance(saves)
    PROVE  /\ place' \in Places /\ resume' \in Resumes
           /\ at' \in 1 .. Len(Order)
           /\ UNCHANGED <<release, record>>
BY PackageType
   DEF Advance, TypeInv, LoopType, Resumes, Places, Installing, Saving

\* The steps that install packages keep the types.
LEMMA InstallingType ==
    ASSUME TypeInv,
           \/ Reuse \/ Missing \/ Download \/ Extract \/ Remove \/ Replace
           \/ MarkInstalled \/ RecordRelease
    PROVE  TypeInv'
<1> USE DEF Places, Installing, Saving
<1>0. /\ package \in Packages /\ LoopType
      /\ InstallTypeOK /\ StateTypeOK /\ DatabaseTypeOK
      /\ place # "idle" => release \in Releases
  BY PackageType DEF TypeInv, LoopType
<1>1. /\ UNCHANGED <<stateVars, databaseVars, ports, post, faults>>
      /\ place # "idle"
  BY DEF Reuse, Missing, Download, Extract, Remove, Replace, MarkInstalled,
         RecordRelease, InstallStep
<1>2. StateTypeOK' /\ DatabaseTypeOK' /\ UNCHANGED held
  BY <1>0, <1>1, Unchanged DEF stateVars
<1>3. CASE Reuse
  <2>1. Advance(package \in SavesAlways) /\ UNCHANGED installVars
    BY <1>3 DEF Reuse
  <2>2. /\ place' \in Places /\ resume' \in Resumes
        /\ at' \in 1 .. Len(Order)
        /\ UNCHANGED <<release, record>>
    BY <2>1, AdvanceType
  <2>3. record' \in Releases \cup {NoRelease}
    BY <1>0, <2>2 DEF LoopType
  <2>4. LoopType'
    BY <1>0, <1>1, <1>2, <2>2, <2>3, MoveType
  <2>5. QED
    BY <1>0, <1>2, <2>1, <2>4, Unchanged DEF TypeInv
<1>4. CASE MarkInstalled
  <2>1. Advance(package \in SavesNew \cup SavesAlways) /\ Mark(package, release)
    BY <1>4 DEF MarkInstalled
  <2>2. /\ place' \in Places /\ resume' \in Resumes
        /\ at' \in 1 .. Len(Order)
        /\ UNCHANGED <<release, record>>
    BY <2>1, AdvanceType
  <2>3. record' \in Releases \cup {NoRelease}
    BY <1>0, <2>2 DEF LoopType
  <2>4. LoopType'
    BY <1>0, <1>1, <1>2, <2>2, <2>3, MoveType
  <2>5. QED
    BY <1>0, <1>1, <1>2, <2>1, <2>4, MarkType DEF TypeInv
<1>5. CASE Missing \/ Download \/ Extract \/ Remove \/ Replace
  <2>1. /\ place' \in {"download", "extract", "remove", "rename", "mark"}
        /\ UNCHANGED <<at, release, record, resume>>
    BY <1>5 DEF Missing, Download, Extract, Remove, Replace, InstallStep, Goto
  <2>2. LoopType'
    BY <1>0, <1>1, <1>2, <2>1, MoveType DEF LoopType
  <2>3. CASE Missing \/ Download \/ Extract
    BY <1>0, <1>2, <2>2, <2>3
       DEF Missing, Download, Extract, InstallStep, Unpack, Unpacked,
           installVars, InstallTypeOK, TypeInv
  <2>4. CASE Remove \/ Replace
    BY <1>0, <1>1, <1>2, <2>2, <2>4, RemoveType, RenameStagingType
       DEF Remove, Replace, InstallStep, TypeInv
  <2>5. QED
    BY <1>5, <2>3, <2>4
<1>6. CASE RecordRelease
  <2>1. /\ place' = "open" /\ resume' = "database" /\ record' = release
        /\ UNCHANGED <<at, release, installVars>>
    BY <1>6 DEF RecordRelease
  <2>2. LoopType'
    BY <1>0, <1>1, <1>2, <2>1 DEF LoopType, Resumes
  <2>3. QED
    BY <1>0, <1>2, <2>1, <2>2, Unchanged DEF TypeInv
<1>7. QED
  BY <1>3, <1>4, <1>5, <1>6

\* The beginning of a round, the saves of the loop and failures keep the types.
LEMMA SavingType ==
    ASSUME TypeInv,
           Begin \/ SaveOpen \/ SaveWrite \/ SaveRename \/ SaveFails \/ Fails
    PROVE  TypeInv'
<1> USE DEF Places, Installing, Saving
<1>0. /\ LoopType /\ InstallTypeOK /\ StateTypeOK /\ DatabaseTypeOK
      /\ Loop \in Savers
  BY DEF TypeInv, Savers
<1>1. CASE Begin
  <2>1. /\ StateTypeOK' /\ held'[Loop].secret \in Secrets
    BY <1>0, <1>1, LoadType DEF Begin
  <2>2. LoopType'
    BY <1>0, <1>1, <2>1, OrderIsThere DEF Begin, LoopType
  <2>3. QED
    BY <1>0, <1>1, <2>1, <2>2, Unchanged DEF Begin, TypeInv
<1>2. CASE SaveOpen \/ SaveWrite \/ SaveRename \/ SaveFails
  <2>1. StateTypeOK'
    BY <1>0, <1>2, OpenType, WriteType, RenameType
       DEF SaveOpen, SaveWrite, SaveRename, SaveFails
  <2>2. held'[Loop] = held[Loop]
    BY <1>0, <1>2
       DEF SaveOpen, SaveWrite, SaveRename, SaveFails, Open, Write, Rename,
           RenameFails, Release
  <2>3. /\ place' \in {"write", "replace", "idle"} \cup Resumes
        /\ place # "idle"
        /\ UNCHANGED <<at, release, record, resume, installVars, databaseVars,
                       ports, post, faults>>
    BY <1>0, <1>2
       DEF SaveOpen, SaveWrite, SaveRename, SaveFails, Goto, LoopType
  <2>4. LoopType'
    BY <1>0, <2>2, <2>3 DEF LoopType, Resumes, Starting
  <2>5. QED
    BY <1>0, <2>1, <2>3, <2>4, Unchanged DEF TypeInv
<1>3. CASE Fails
  <2>1. /\ InstallTypeOK'
    BY <1>0, <1>3 DEF Fails, UnpackFails, InstallTypeOK, installVars
  <2>2. StateTypeOK'
    BY <1>0, <1>3, BlankType DEF Fails, Forget, StateTypeOK
  <2>3. LoopType'
    BY <1>0, <1>3, MachineAssumption DEF Fails, Goto, Fault, LoopType
  <2>4. QED
    BY <1>0, <1>3, <2>1, <2>2, <2>3, Unchanged DEF Fails, TypeInv
<1>4. QED
  BY <1>1, <1>2, <1>3

\* The start and the stop of the database and of the services keep the types.
LEMMA StartingType ==
    ASSUME TypeInv,
           \/ Inspect \/ Initialize \/ Initdb \/ Create \/ Claim \/ Sync
           \/ StartDatabase \/ PortsFree \/ StartServices \/ Stop \/ StartFails
           \/ \E s \in Services : FreePort(s) \/ ForeignEnds(s)
    PROVE  TypeInv'
<1> USE DEF Places, Starting
<1>0. /\ LoopType /\ InstallTypeOK /\ StateTypeOK /\ DatabaseTypeOK
  BY DEF TypeInv
<1>1. UNCHANGED <<installVars, stateVars>>
  BY DEF Inspect, Initialize, Initdb, Create, Claim, Sync, StartDatabase,
         PortsFree, StartServices, Stop, StartFails, FreePort, ForeignEnds,
         DatabaseStep, EndRound
<1>2. InstallTypeOK' /\ StateTypeOK' /\ UNCHANGED held
  BY <1>0, <1>1, Unchanged DEF stateVars
<1>3. CASE \/ Inspect \/ Initialize \/ Initdb \/ Create \/ Claim \/ Sync
           \/ StartDatabase
  <2>1. /\ place # "idle"
        /\ place' \in {"claim", "initdb", "createdb", "sync", "start", "ports"}
        /\ UNCHANGED <<at, release, record, resume, ports, post, faults>>
    BY <1>3 DEF Inspect, Initialize, Initdb, Create, Claim, Sync, StartDatabase,
                DatabaseStep, Goto
  <2>2. LoopType'
    BY <1>0, <1>2, <2>1 DEF LoopType
  <2>3. held[Loop].secret \in Passwords \cup {NoPassword}
    BY <1>0, <2>1, MachineAssumption DEF LoopType
  <2>4. DatabaseTypeOK'
    BY <1>0, <1>3, <2>3, DatabaseType, Unchanged
       DEF Inspect, Initialize, Initdb, Create, Claim, Sync, StartDatabase,
           DatabaseStep
  <2>5. QED
    BY <1>2, <2>2, <2>4 DEF TypeInv
<1>4. CASE PortsFree \/ StartServices
  <2>1. /\ LoopType'
    BY <1>0, <1>2, <1>4 DEF PortsFree, StartServices, Goto, LoopType
  <2>2. QED
    BY <1>0, <1>2, <1>4, <2>1, Unchanged DEF PortsFree, StartServices, TypeInv
<1>5. CASE Stop \/ StartFails
  <2>1. DatabaseTypeOK'
    <3>1. interrupted' = TRUE /\ UNCHANGED <<cluster, server>> => DatabaseTypeOK'
      BY <1>0 DEF DatabaseTypeOK
    <3>2. QED
      BY <1>0, <1>5, <3>1, DatabaseType DEF Stop, StartFails
  <2>2. /\ place # "idle" /\ place' = "open" /\ resume' = "idle"
        /\ ports' = [s \in Services |-> IF ports[s] = "ours" THEN "free"
                                                             ELSE ports[s]]
        /\ UNCHANGED <<at, release, record, post>>
        /\ faults' = faults \/ Fault
    BY <1>5 DEF Stop, StartFails, EndRound, SaveThen
  <2>3. LoopType'
    BY <1>0, <1>2, <2>2, MachineAssumption DEF Fault, LoopType, Resumes, Saving
  <2>4. QED
    BY <1>2, <2>1, <2>3 DEF TypeInv
<1>6. ASSUME NEW s \in Services, FreePort(s) \/ ForeignEnds(s) PROVE TypeInv'
  <2>1. /\ LoopType'
    BY <1>0, <1>2, <1>6 DEF FreePort, ForeignEnds, loopVars, LoopType
  <2>2. QED
    BY <1>0, <1>2, <1>6, <2>1, Unchanged DEF FreePort, ForeignEnds, TypeInv
<1>7. QED
  BY <1>3, <1>4, <1>5, <1>6

\* The requests keep the types.
LEMMA PostsType ==
    ASSUME TypeInv, NEW h \in Posts,
           \/ PostLoad(h) \/ PostOpen(h) \/ PostWrite(h) \/ PostSaved(h)
           \/ PostRefused(h)
    PROVE  TypeInv' /\ held'[Loop] = held[Loop]
<1>0. /\ LoopType /\ InstallTypeOK /\ StateTypeOK /\ DatabaseTypeOK
      /\ h \in Savers /\ Loop \in Savers \ {h}
  BY StateAssumption DEF TypeInv, Savers
<1>1. StateTypeOK' /\ held'[Loop] = held[Loop]
  <2>1. CASE PostLoad(h)
    <3>1. Load(h, Fresh, {h})
      BY <2>1 DEF PostLoad, PostStep
    <3>2. QED
      BY <1>0, <3>1, LoadType
  <2>2. CASE PostOpen(h) \/ PostWrite(h)
    BY <1>0, <2>2, OpenType, WriteType
       DEF PostOpen, PostWrite, PostStep, Open, Write
  <2>3. CASE PostSaved(h) \/ PostRefused(h)
    <3>1. Rename(h) \/ RenameFails(h)
      BY <2>3 DEF PostSaved, PostRefused, PostStep
    <3>2. QED
      BY <1>0, <3>1, RenameType, ReleaseType DEF Rename, RenameFails
  <2>4. QED
    BY <2>1, <2>2, <2>3
<1>2. /\ UNCHANGED <<installVars, databaseVars, loopVars, ports, faults>>
      /\ \E next \in {"loaded", "opened", "written", "saved", "refused"} :
             post' = [post EXCEPT ![h] = next]
  BY DEF PostLoad, PostOpen, PostWrite, PostSaved, PostRefused, PostStep
<1>3. LoopType'
  BY <1>0, <1>1, <1>2 DEF loopVars, LoopType
<1>4. QED
  BY <1>0, <1>1, <1>2, <1>3, Unchanged DEF TypeInv

\* The end of the process keeps the types.
LEMMA CrashType == TypeInv /\ Crash => TypeInv'
<1> SUFFICES ASSUME TypeInv, Crash PROVE TypeInv'
  OBVIOUS
<1>0. /\ LoopType /\ InstallTypeOK /\ StateTypeOK /\ DatabaseTypeOK
  BY DEF TypeInv
<1>1. StateTypeOK'
  BY <1>0, BlankType DEF Crash, ForgetAll, StateTypeOK
<1>2. DatabaseTypeOK'
  BY <1>0 DEF Crash, Orphan, DatabaseTypeOK
<1>3. LoopType'
  BY <1>0, OrderIsThere, MachineAssumption
     DEF Crash, Fault, LoopType, Places, Resumes
<1>4. QED
  BY <1>0, <1>1, <1>2, <1>3, Unchanged DEF Crash, TypeInv

LEMMA InitTypeInv == Init => TypeInv
<1> SUFFICES ASSUME Init PROVE TypeInv
  OBVIOUS
<1>1. InstallTypeOK
  BY DirectoryType DEF Init, InstallInit, InstallTypeOK
<1>2. StateTypeOK
  BY BlankType DEF Init, StateInit, StateTypeOK
<1>3. DatabaseTypeOK
  BY DEF Init, DatabaseInit, NoCluster, DatabaseTypeOK, ClusterStates
<1>4. LoopType
  BY OrderIsThere, MachineAssumption DEF Init, LoopType, Places, Resumes
<1>5. QED
  BY <1>1, <1>2, <1>3, <1>4 DEF TypeInv

LEMMA StepTypeInv == TypeInv /\ [Next]_vars => TypeInv'
<1>1. TypeInv /\ UNCHANGED vars => TypeInv'
  BY Unchanged DEF vars, stateVars, loopVars, TypeInv, LoopType
<1>2. QED
  BY <1>1, InstallingType, SavingType, StartingType, PostsType, CrashType DEF Next

\* Every reachable state of the machine is well typed.
THEOREM TypeCorrect == Spec => []TypeOK
<1>1. Spec => []TypeInv
  BY InitTypeInv, StepTypeInv, PTL DEF Spec
<1>2. QED
  BY <1>1, TypeInvImplies, PTL

-----------------------------------------------------------------------------
(* The packages *)

\* A marked directory is complete, and of a release that is kept in it.
MarkedAreWhole ==
    \A p \in Packages, v \in Versions :
        dirs[p][v].marker # None =>
            /\ dirs[p][v].whole /\ dirs[p][v].files = dirs[p][v].marker
            /\ \E r \in Releases : /\ v = VersionOf[p][r]
                                   /\ dirs[p][v].marker = HashOf[p][r]

\* Package p of release r is installed in d, in whichever directory.
Has(d, p, r) == \E v \in Versions : d[p][v].marker = HashOf[p][r]

\* Where the loop will be when its save is done.
Due == IF place \in Saving THEN resume ELSE place

Unpacking == {"download", "extract", "remove", "rename", "mark"}

\* The round installs what is missing, has what is before the package it is at
\* and, from the record on, has all packages of its release.
RoundInv ==
    /\ place \in Unpacking => ~Has(dirs, package, release)
    /\ place \in {"remove", "rename"} => staging = "whole"
    /\ place = "mark" =>
           dirs[package][VersionOf[package][release]] =
               [files |-> HashOf[package][release], whole |-> TRUE, marker |-> None]
    /\ Due \in {"check"} \cup Unpacking =>
           \A i \in 1 .. at - 1 : Has(dirs, Order[i], release)
    /\ Due \in {"record", "running"} \cup Starting =>
           \A p \in Packages : Has(dirs, p, release)

PackagesInv == MarkedAreWhole /\ RoundInv

\* What is installed is ready and whole, and the other way round: Ready does not
\* take a directory for installed that is not, nor miss one that is.
LEMMA HaveIsReady ==
    ASSUME InstallTypeOK, MarkedAreWhole, NEW p \in Packages, NEW r \in Releases
    PROVE  /\ Ready(p, r) <=> Has(dirs, p, r)
           /\ Has(dirs, p, r) => Whole(p, r)
<1> DEFINE h == HashOf[p][r]
           marked == Marked(p, h)
           target == VersionOf[p][r]
<1>0. /\ h \in Hashes /\ h \in Nat /\ h # None /\ target \in Versions
      /\ Versions \subseteq Nat \ {None}
      /\ marked \subseteq Versions
  BY VersionsAndHashes DEF Marked
<1>1. \A v \in marked : /\ v \in Versions /\ v # None
                        /\ dirs[p][v] \in Directory
                        /\ dirs[p][v].whole /\ dirs[p][v].files = h
                        /\ dirs[p][v].marker = h
  BY <1>0 DEF Marked, MarkedAreWhole, InstallTypeOK
<1>2. \A v \in marked : Runs(p, v)
  BY <1>0, <1>1 DEF Runs
<1>3. marked # {} => Min(marked) \in marked
  <2>1. marked \in SUBSET Nat
    BY <1>0
  <2>2. QED
    BY <2>1, MinIsIn
<1>4. Root(p, r) = IF target \in marked /\ Runs(p, target) THEN target
                   ELSE IF marked # {} THEN Min(marked) ELSE None
  BY DEF Root
<1> HIDE DEF marked, target
<1>5. marked # {} => Root(p, r) \in marked
  BY <1>3, <1>4
<1>6. marked = {} => Root(p, r) = None
  BY <1>4
<1>7. Ready(p, r) <=> marked # {}
  BY <1>1, <1>2, <1>5, <1>6 DEF Ready
<1>8. ASSUME marked # {} PROVE Whole(p, r)
  <2>1. \A d \in Directory : d.whole /\ d.files = h /\ d.marker = h =>
            d = [files |-> h, whole |-> TRUE, marker |-> h]
    BY DEF Directory
  <2>2. dirs[p][Root(p, r)] = [files |-> h, whole |-> TRUE, marker |-> h]
    BY <1>1, <1>5, <1>8, <2>1
  <2>3. QED
    BY <1>7, <1>8, <2>2 DEF Whole
<1>9. QED
  BY <1>7, <1>8 DEF Has, marked, Marked

\* While the package is missing, nothing is marked in the directory it goes to:
\* a directory holds the package of one checksum only.
LEMMA TargetIsUnmarked ==
    ASSUME TypeInv, PackagesInv, place \in Unpacking
    PROVE  /\ package \in Packages /\ release \in Releases
           /\ VersionOf[package][release] \in Versions
           /\ dirs[package][VersionOf[package][release]].marker = None
<1>1. package \in Packages /\ release \in Releases
  BY PackageType DEF TypeInv, LoopType, Unpacking
<1>2. VersionOf[package][release] \in Versions
  BY <1>1, VersionsAndHashes
<1>3. dirs[package][VersionOf[package][release]].marker # HashOf[package][release]
  BY <1>2 DEF PackagesInv, RoundInv, Has
<1>4. QED
  BY <1>1, <1>2, <1>3, InstallAssumption DEF PackagesInv, MarkedAreWhole

\* A step leaves every marked directory as it is, and marks at most the package
\* that is being installed.
LEMMA DirsStep ==
    ASSUME TypeInv, PackagesInv, [Next]_vars
    PROVE  /\ \A p \in Packages, v \in Versions :
                  dirs[p][v].marker # None => dirs'[p][v] = dirs[p][v]
           /\ \A p \in Packages, v \in Versions :
                  dirs'[p][v].marker # None =>
                      \/ dirs'[p][v] = dirs[p][v]
                      \/ /\ MarkInstalled
                         /\ p = package /\ v = VersionOf[p][release]
                         /\ release \in Releases
                         /\ dirs'[p][v] =
                               [files |-> HashOf[p][release], whole |-> TRUE,
                                marker |-> HashOf[p][release]]
<1> USE DEF Unpacking
<1> DEFINE target == VersionOf[package][release]
<1>0. InstallTypeOK
  BY DEF TypeInv
<1>1. CASE Remove \/ Replace
  <2>1. place \in Unpacking
    BY <1>1 DEF Remove, Replace, InstallStep
  <2>2. /\ package \in Packages /\ release \in Releases /\ target \in Versions
        /\ dirs[package][target].marker = None
    BY <2>1, TargetIsUnmarked
  <2>3. /\ dirs'[package][target].marker = None
        /\ \A q \in Packages, v \in Versions :
               q # package \/ v # target => dirs'[q][v] = dirs[q][v]
    <3>1. CASE Remove
      <4>1. RemoveTarget(package, release)
        BY <3>1 DEF Remove, InstallStep
      <4>2. QED
        BY <1>0, <2>2, <4>1, RemoveType
    <3>2. CASE Replace
      <4>1. RenameStaging(package, release)
        BY <3>2 DEF Replace, InstallStep
      <4>2. /\ dirs'[package][target] =
                   [files |-> HashOf[package][release],
                    whole |-> staging = "whole", marker |-> None]
            /\ \A q \in Packages, v \in Versions :
                   q # package \/ v # target => dirs'[q][v] = dirs[q][v]
        BY <1>0, <2>2, <4>1, RenameStagingType
      <4>3. QED
        BY <4>2
    <3>3. QED
      BY <1>1, <3>1, <3>2
  <2> HIDE DEF target
  <2>4. QED
    BY <2>2, <2>3
<1>3. CASE MarkInstalled
  <2>1. /\ place = "mark" /\ Mark(package, release)
    BY <1>3 DEF MarkInstalled
  <2>2. /\ package \in Packages /\ release \in Releases /\ target \in Versions
        /\ dirs[package][target].marker = None
    BY <2>1, TargetIsUnmarked
  <2>3. dirs[package][target] =
            [files |-> HashOf[package][release], whole |-> TRUE, marker |-> None]
    BY <2>1 DEF PackagesInv, RoundInv
  <2>4. /\ dirs'[package][target] =
               [dirs[package][target] EXCEPT !.marker = HashOf[package][release]]
        /\ \A q \in Packages, v \in Versions :
               q # package \/ v # target => dirs'[q][v] = dirs[q][v]
    BY <1>0, <2>1, <2>2, MarkType
  <2>5. dirs'[package][target] =
            [files |-> HashOf[package][release], whole |-> TRUE,
             marker |-> HashOf[package][release]]
    <3> DEFINE d == dirs[package][target]
               h == HashOf[package][release]
    <3>1. d \in Directory /\ h \in Hashes
      BY <1>0, <2>2, VersionsAndHashes DEF InstallTypeOK
    <3>2. d.files = h /\ d.whole
      BY <2>3
    <3> HIDE DEF d, h, target
    <3>3. [d EXCEPT !.marker = h] =
              [files |-> d.files, whole |-> d.whole, marker |-> h]
      BY <3>1 DEF Directory
    <3>4. [files |-> d.files, whole |-> d.whole, marker |-> h] =
              [files |-> h, whole |-> TRUE, marker |-> h]
      <4>1. d.whole = TRUE
        BY <3>1, <3>2 DEF Directory
      <4>2. QED
        BY <3>2, <4>1
    <3>5. dirs'[package][target] = [d EXCEPT !.marker = h]
      BY <2>4 DEF d, h
    <3>6. QED
      BY <3>3, <3>4, <3>5 DEF h
  <2>6. \A p \in Packages, v \in Versions :
            \/ p = package /\ v = target
            \/ dirs'[p][v] = dirs[p][v]
    BY <2>4
  <2>7. target = VersionOf[package][release]
    OBVIOUS
  <2> HIDE DEF target
  <2>8. ASSUME NEW p \in Packages, NEW v \in Versions, dirs[p][v].marker # None
        PROVE  dirs'[p][v] = dirs[p][v]
    BY <2>2, <2>6, <2>8
  <2>9. ASSUME NEW p \in Packages, NEW v \in Versions
        PROVE  \/ dirs'[p][v] = dirs[p][v]
               \/ /\ p = package /\ v = VersionOf[p][release]
                  /\ dirs'[p][v] = [files |-> HashOf[p][release], whole |-> TRUE,
                                    marker |-> HashOf[p][release]]
    BY <2>5, <2>6, <2>7
  <2>10. QED
    BY <1>3, <2>2, <2>8, <2>9
<1>4. ASSUME ~Remove, ~Replace, ~MarkInstalled PROVE dirs' = dirs
  BY <1>4
     DEF Next, vars, installVars, Begin, Reuse, Missing, Download, Extract,
         InstallStep, Unpack, Unpacked, UnpackFails, RecordRelease, SaveOpen,
         SaveWrite, SaveRename, SaveFails, Fails, Inspect, Initialize, Initdb,
         Create, Claim, Sync, StartDatabase, DatabaseStep, FreePort,
         ForeignEnds, PortsFree, StartServices, Stop, StartFails, EndRound,
         PostLoad, PostOpen, PostWrite, PostSaved, PostRefused, PostStep, Crash
<1>5. QED
  BY <1>1, <1>3, <1>4

LEMMA StepKeepsMarked ==
    ASSUME TypeInv, PackagesInv, [Next]_vars
    PROVE  MarkedAreWhole'
<1> SUFFICES ASSUME NEW p \in Packages, NEW v \in Versions,
                    dirs'[p][v].marker # None
             PROVE  /\ dirs'[p][v].whole
                    /\ dirs'[p][v].files = dirs'[p][v].marker
                    /\ \E r \in Releases : /\ v = VersionOf[p][r]
                                           /\ dirs'[p][v].marker = HashOf[p][r]
  BY DEF MarkedAreWhole
<1>1. CASE dirs'[p][v] = dirs[p][v]
  BY <1>1 DEF PackagesInv, MarkedAreWhole
<1>2. CASE /\ v = VersionOf[p][release] /\ release \in Releases
           /\ dirs'[p][v] = [files |-> HashOf[p][release], whole |-> TRUE,
                             marker |-> HashOf[p][release]]
  BY <1>2
<1>3. QED
  BY <1>1, <1>2, DirsStep

\* What is installed stays installed.
LEMMA HaveGrows ==
    ASSUME TypeInv, PackagesInv, [Next]_vars, NEW p \in Packages,
           NEW r \in Releases, Has(dirs, p, r)
    PROVE  Has(dirs', p, r)
<1>1. PICK v \in Versions : dirs[p][v].marker = HashOf[p][r]
  BY DEF Has
<1>2. HashOf[p][r] # None
  BY VersionsAndHashes
<1>3. dirs'[p][v] = dirs[p][v]
  BY <1>1, <1>2, DirsStep
<1>4. QED
  BY <1>1, <1>3 DEF Has

\* Only MarkInstalled installs a package.
LEMMA OnlyMarkInstalls ==
    ASSUME TypeInv, PackagesInv, [Next]_vars, ~MarkInstalled,
           NEW p \in Packages, NEW r \in Releases, Has(dirs', p, r)
    PROVE  Has(dirs, p, r)
<1>1. PICK v \in Versions : dirs'[p][v].marker = HashOf[p][r]
  BY DEF Has
<1>2. HashOf[p][r] # None
  BY VersionsAndHashes
<1>3. dirs'[p][v] = dirs[p][v]
  BY <1>1, <1>2, DirsStep
<1>4. QED
  BY <1>1, <1>3 DEF Has

\* When the package the loop is at is there, the next ones are due, or all are there.
LEMMA AdvanceKeepsRound ==
    ASSUME TypeInv, PackagesInv, [Next]_vars,
           place \in {"check", "mark"}, Advance(TRUE) \/ Advance(FALSE),
           package \in Packages, release \in Releases, Has(dirs', package, release)
    PROVE  RoundInv'
<1> DEFINE next == IF at < Len(Order) THEN "check" ELSE "record"
<1>1. /\ Due' = next /\ release' = release
      /\ place' \notin {"remove", "rename", "mark"} \cup Unpacking
      /\ at' = IF at < Len(Order) THEN at + 1 ELSE at
  BY DEF Advance, Due, Saving, Unpacking
<1>2. at \in 1 .. Len(Order) /\ Len(Order) \in Nat
  BY OrderIsThere DEF TypeInv, LoopType
<1>3. \A i \in 1 .. at : Order[i] \in Packages /\ Has(dirs', Order[i], release)
  <2>1. TAKE i \in 1 .. at
  <2>2. Order[i] \in Packages
    BY <1>2, MachineAssumption
  <2>3. CASE i = at
    <3>1. Order[i] = package
      BY <2>3 DEF package
    <3>2. QED
      BY <2>2, <3>1
  <2>4. CASE i # at
    <3>1. Has(dirs, Order[i], release)
      BY <1>2, <2>4 DEF PackagesInv, RoundInv, Due, Saving, Unpacking
    <3>2. QED
      BY <2>2, <3>1, HaveGrows
  <2>5. QED
    BY <2>3, <2>4
<1>4. CASE at < Len(Order)
  <2>1. Due' = "check" /\ at' - 1 = at
    BY <1>1, <1>2, <1>4
  <2>2. \A i \in 1 .. at' - 1 : Has(dirs', Order[i], release')
    BY <1>1, <1>3, <2>1
  <2>3. QED
    BY <1>1, <2>1, <2>2 DEF RoundInv, Starting, Unpacking
<1>5. CASE ~(at < Len(Order))
  <2>1. Due' = "record" /\ at = Len(Order)
    BY <1>1, <1>2, <1>5
  <2>2. \A p \in Packages : \E i \in 1 .. at : Order[i] = p
    BY <1>2, <2>1, MachineAssumption
  <2>3. \A p \in Packages : Has(dirs', p, release')
    BY <1>1, <1>3, <2>2
  <2>4. QED
    BY <1>1, <2>1, <2>3 DEF RoundInv, Starting, Unpacking
<1>6. QED
  BY <1>4, <1>5

\* The steps of installArtifact.
LEMMA InstallKeepsRound ==
    ASSUME TypeInv, PackagesInv, [Next]_vars,
           Missing \/ Download \/ Extract \/ Remove \/ Replace
    PROVE  RoundInv'
<1> USE DEF Unpacking
<1>1. /\ place \in {"check"} \cup Unpacking /\ place' \in Unpacking
      /\ UNCHANGED <<at, release>> /\ ~MarkInstalled
  BY DEF Missing, Download, Extract, Remove, Replace, InstallStep, Goto,
         MarkInstalled
<1>2. /\ package \in Packages /\ release \in Releases /\ package' = package
      /\ at \in 1 .. Len(Order) /\ InstallTypeOK
  BY <1>1, PackageType DEF TypeInv, LoopType, package
<1>3. ~Has(dirs', package, release)
  <2>1. ~Has(dirs, package, release)
    BY <1>1, <1>2, HaveIsReady
       DEF PackagesInv, RoundInv, TypeInv, Missing, Download, Extract, Remove,
           Replace, InstallStep
  <2>2. QED
    BY <1>1, <1>2, <2>1, OnlyMarkInstalls
<1>4. \A i \in 1 .. at - 1 : Has(dirs', Order[i], release)
  <2>1. TAKE i \in 1 .. at - 1
  <2>2. Order[i] \in Packages
    BY <1>2, MachineAssumption
  <2>3. Has(dirs, Order[i], release)
    BY <1>1 DEF PackagesInv, RoundInv, Due, Saving
  <2>4. QED
    BY <1>2, <2>2, <2>3, HaveGrows
<1>5. place' \in {"remove", "rename"} => staging' = "whole"
  <2>1. CASE Extract
    BY <2>1 DEF Extract, InstallStep, Unpacked
  <2>2. CASE Remove
    BY <2>2 DEF Remove, InstallStep, RemoveTarget, PackagesInv, RoundInv
  <2>3. CASE Missing \/ Download \/ Replace
    BY <2>3 DEF Missing, Download, Replace, InstallStep, Goto
  <2>4. QED
    BY <2>1, <2>2, <2>3
<1>6. place' = "mark" =>
          dirs'[package][VersionOf[package][release]] =
              [files |-> HashOf[package][release], whole |-> TRUE, marker |-> None]
  <2>1. SUFFICES ASSUME place' = "mark"
                 PROVE  dirs'[package][VersionOf[package][release]] =
                            [files |-> HashOf[package][release],
                             whole |-> TRUE, marker |-> None]
    OBVIOUS
  <2>2. place = "rename" /\ RenameStaging(package, release)
    BY <2>1 DEF Missing, Download, Extract, Remove, Replace, InstallStep, Goto
  <2>3. staging = "whole"
    BY <2>2 DEF PackagesInv, RoundInv
  <2>4. dirs'[package][VersionOf[package][release]] =
            [files |-> HashOf[package][release], whole |-> staging = "whole",
             marker |-> None]
    BY <1>2, <2>2, RenameStagingType
  <2>5. (staging = "whole") = TRUE
    BY <2>3
  <2>6. QED
    BY <2>4, <2>5
<1>7. Due' \notin {"record", "running"} \cup Starting
  BY <1>1 DEF Due, Saving, Starting
<1>8. QED
  BY <1>1, <1>2, <1>3, <1>4, <1>5, <1>6, <1>7 DEF RoundInv, package

LEMMA StepKeepsRound ==
    ASSUME TypeInv, PackagesInv, [Next]_vars
    PROVE  RoundInv'
<1> USE DEF Unpacking, Saving, Starting
<1>0. resume \in Resumes /\ place \in Places
  BY DEF TypeInv, LoopType
<1>1. CASE place' = "idle" \/ (place' = "open" /\ resume' = "idle")
  BY <1>1 DEF RoundInv, Due
<1>2. CASE Begin
  <2>1. place' = "check" /\ at' = 1
    BY <1>2 DEF Begin
  <2>2. QED
    BY <2>1 DEF RoundInv, Due
<1>3. CASE Reuse
  <2>1. /\ place = "check" /\ Ready(package, release) /\ dirs' = dirs
        /\ Advance(TRUE) \/ Advance(FALSE)
    BY <1>3 DEF Reuse, installVars, Advance
  <2>2. package \in Packages /\ release \in Releases
    BY <2>1, PackageType DEF TypeInv, LoopType
  <2>3. Has(dirs, package, release)
    BY <2>1, <2>2, HaveIsReady DEF TypeInv, PackagesInv
  <2>4. QED
    BY <2>1, <2>2, <2>3, HaveGrows, AdvanceKeepsRound
<1>4. CASE MarkInstalled
  <2>1. /\ place = "mark" /\ Mark(package, release)
        /\ Advance(TRUE) \/ Advance(FALSE)
    BY <1>4 DEF MarkInstalled, Advance
  <2>2. /\ package \in Packages /\ release \in Releases
        /\ VersionOf[package][release] \in Versions
    BY <2>1, TargetIsUnmarked
  <2>3. dirs'[package][VersionOf[package][release]] =
            [dirs[package][VersionOf[package][release]]
                EXCEPT !.marker = HashOf[package][release]]
    BY <2>1, <2>2, MarkType DEF TypeInv
  <2>4. dirs[package][VersionOf[package][release]] \in Directory
    BY <2>2 DEF TypeInv, InstallTypeOK
  <2>5. dirs'[package][VersionOf[package][release]].marker =
            HashOf[package][release]
    BY <2>3, <2>4 DEF Directory
  <2>6. Has(dirs', package, release)
    BY <2>2, <2>5 DEF Has
  <2>7. QED
    BY <2>1, <2>2, <2>6, AdvanceKeepsRound
<1>5. CASE Missing \/ Download \/ Extract \/ Remove \/ Replace
  BY <1>5, InstallKeepsRound
<1>6. ASSUME dirs' = dirs, UNCHANGED <<at, release>>,
             \/ /\ place \in {"record"} \cup Starting
                /\ Due' \in {"running"} \cup Starting
                /\ place' \notin Unpacking
             \/ Due' = Due /\ place' \notin Unpacking
             \/ UNCHANGED <<place, resume, staging>>
      PROVE  RoundInv'
  <2>1. \A p, r : Has(dirs', p, r) <=> Has(dirs, p, r)
    BY <1>6 DEF Has
  <2>2. package' = package
    BY <1>6 DEF package
  <2>3. CASE /\ place \in {"record"} \cup Starting
             /\ Due' \in {"running"} \cup Starting
             /\ place' \notin Unpacking
    <3>1. \A p \in Packages : Has(dirs, p, release)
      BY <2>3 DEF PackagesInv, RoundInv, Due
    <3>2. Due' \notin {"check"} \cup Unpacking
      BY <2>3
    <3>3. QED
      BY <1>6, <2>1, <2>3, <3>1, <3>2 DEF RoundInv
  <2>4. CASE Due' = Due /\ place' \notin Unpacking
    BY <1>6, <2>1, <2>4 DEF PackagesInv, RoundInv
  <2>5. CASE UNCHANGED <<place, resume, staging>>
    <3>1. Due' = Due
      BY <2>5 DEF Due
    <3>2. QED
      BY <1>6, <2>1, <2>2, <2>5, <3>1 DEF PackagesInv, RoundInv
  <2>6. QED
    BY <1>6, <2>3, <2>4, <2>5
<1>7. CASE RecordRelease
  BY <1>6, <1>7 DEF RecordRelease, Due, installVars
<1>8. CASE SaveOpen \/ SaveWrite \/ SaveRename
  BY <1>0, <1>6, <1>8
     DEF SaveOpen, SaveWrite, SaveRename, Goto, Due, Resumes, installVars
<1>9. CASE \/ Inspect \/ Initialize \/ Initdb \/ Create \/ Claim \/ Sync
           \/ StartDatabase \/ PortsFree \/ StartServices
  BY <1>6, <1>9
     DEF Inspect, Initialize, Initdb, Create, Claim, Sync, StartDatabase,
         PortsFree, StartServices, DatabaseStep, Goto, Due, installVars
<1>10. CASE \/ \E s \in Services : FreePort(s) \/ ForeignEnds(s)
            \/ \E h \in Posts : PostLoad(h) \/ PostOpen(h) \/ PostWrite(h)
                                  \/ PostSaved(h) \/ PostRefused(h)
            \/ UNCHANGED vars
  BY <1>6, <1>10
     DEF FreePort, ForeignEnds, PostLoad, PostOpen, PostWrite, PostSaved,
         PostRefused, PostStep, loopVars, installVars, vars
<1>11. CASE SaveFails \/ Fails \/ Crash \/ Stop \/ StartFails
  BY <1>1, <1>11 DEF SaveFails, Fails, Crash, Stop, StartFails, EndRound,
                     SaveThen, Goto
<1>12. QED
  BY <1>2, <1>3, <1>4, <1>5, <1>7, <1>8, <1>9, <1>10, <1>11 DEF Next

LEMMA InitPackagesInv == Init => PackagesInv
<1> SUFFICES ASSUME Init PROVE PackagesInv
  OBVIOUS
<1>1. \A p \in Packages, v \in Versions : dirs[p][v].marker = None
  BY DEF Init, InstallInit, NoDirectory
<1>2. RoundInv
  BY DEF Init, RoundInv, Due, Saving, Starting, Unpacking
<1>3. QED
  BY <1>1, <1>2 DEF PackagesInv, MarkedAreWhole

LEMMA StepPackagesInv ==
    TypeInv /\ PackagesInv /\ [Next]_vars => PackagesInv'
BY StepKeepsMarked, StepKeepsRound DEF PackagesInv

-----------------------------------------------------------------------------
(* The installation that is promised *)

\* A directory that is complete and marked with h.
CompleteDirectory(h) == [files |-> h, whole |-> TRUE, marker |-> h]

\* The checksums that are installed, told by package and checksum.
LEMMA CompleteIs ==
    /\ Complete \subseteq Packages \X Hashes
    /\ \A p \in Packages, h \in Hashes :
           <<p, h>> \in Complete <=>
               \E v \in Versions : dirs[p][v] = CompleteDirectory(h)
    /\ Complete' \subseteq Packages \X Hashes
    /\ \A p \in Packages, h \in Hashes :
           <<p, h>> \in Complete' <=>
               \E v \in Versions : dirs'[p][v] = CompleteDirectory(h)
BY DEF Complete, CompleteDirectory

\* What is marked is complete.
LEMMA HasIsComplete ==
    ASSUME InstallTypeOK, MarkedAreWhole, NEW p \in Packages, NEW r \in Releases,
           Has(dirs, p, r)
    PROVE  <<p, HashOf[p][r]>> \in Complete
<1>0. HashOf[p][r] \in Hashes /\ HashOf[p][r] # None
  BY VersionsAndHashes
<1>1. PICK v \in Versions : dirs[p][v].marker = HashOf[p][r]
  BY DEF Has
<1>2. /\ dirs[p][v] \in Directory /\ dirs[p][v].whole
      /\ dirs[p][v].files = HashOf[p][r]
  BY <1>0, <1>1 DEF MarkedAreWhole, InstallTypeOK
<1>3. dirs[p][v] = CompleteDirectory(HashOf[p][r])
  BY <1>1, <1>2 DEF Directory, CompleteDirectory
<1>4. QED
  BY <1>0, <1>3, CompleteIs

\* MarkInstalled installs the package the loop is at, and nothing else does; no
\* step loses one.
LEMMA CompleteStep ==
    ASSUME TypeInv, PackagesInv, [Next]_vars
    PROVE  /\ MarkInstalled =>
                 /\ package \in Packages /\ release \in Releases
                 /\ Complete' = Complete \cup {<<package, HashOf[package][release]>>}
           /\ ~MarkInstalled => Complete' = Complete
<1> DEFINE At(d, p, h) == \E v \in Versions : d[p][v] = CompleteDirectory(h)
<1>1. \A h \in Hashes : CompleteDirectory(h).marker = h /\ h # None
  BY VersionsAndHashes DEF CompleteDirectory
<1>2. \A p \in Packages, h \in Hashes : At(dirs, p, h) => At(dirs', p, h)
  <2>1. \A p \in Packages, v \in Versions, h \in Hashes :
            dirs[p][v] = CompleteDirectory(h) => dirs'[p][v] = CompleteDirectory(h)
    BY <1>1, DirsStep
  <2>2. QED
    BY <2>1
<1>3. ASSUME NEW p \in Packages, NEW h \in Hashes, At(dirs', p, h)
      PROVE  \/ At(dirs, p, h)
             \/ /\ MarkInstalled /\ release \in Releases
                /\ p = package /\ h = HashOf[p][release]
  <2>1. PICK v \in Versions : dirs'[p][v] = CompleteDirectory(h)
    BY <1>3
  <2>2. dirs'[p][v].marker = h /\ h # None
    BY <1>1, <2>1
  <2>3. CASE dirs'[p][v] = dirs[p][v]
    BY <2>1, <2>3
  <2>4. CASE /\ MarkInstalled /\ p = package /\ v = VersionOf[p][release]
             /\ release \in Releases
             /\ dirs'[p][v] = [files |-> HashOf[p][release], whole |-> TRUE,
                               marker |-> HashOf[p][release]]
    BY <2>2, <2>4
  <2>5. QED
    BY <2>2, <2>3, <2>4, DirsStep
<1>4. ASSUME MarkInstalled
      PROVE  /\ package \in Packages /\ release \in Releases
             /\ HashOf[package][release] \in Hashes
             /\ At(dirs', package, HashOf[package][release])
  <2>1. place = "mark" /\ Mark(package, release)
    BY <1>4 DEF MarkInstalled
  <2>2. /\ package \in Packages /\ release \in Releases
        /\ VersionOf[package][release] \in Versions
        /\ HashOf[package][release] \in Hashes
    BY <2>1, TargetIsUnmarked, VersionsAndHashes DEF Unpacking
  <2>3. /\ dirs'[package][VersionOf[package][release]] =
              [dirs[package][VersionOf[package][release]]
                  EXCEPT !.marker = HashOf[package][release]]
        /\ dirs[package][VersionOf[package][release]] \in Directory
    BY <2>1, <2>2, MarkType DEF TypeInv, InstallTypeOK
  <2>4. dirs[package][VersionOf[package][release]] =
            [files |-> HashOf[package][release], whole |-> TRUE, marker |-> None]
    BY <2>1 DEF PackagesInv, RoundInv
  <2>5. /\ dirs[package][VersionOf[package][release]].files
               = HashOf[package][release]
        /\ dirs[package][VersionOf[package][release]].whole = TRUE
    BY <2>4
  <2>6. \A d \in Directory, h \in Hashes :
            [d EXCEPT !.marker = h] =
                [files |-> d.files, whole |-> d.whole, marker |-> h]
    BY DEF Directory
  <2>7. dirs'[package][VersionOf[package][release]] =
            CompleteDirectory(HashOf[package][release])
    BY <2>2, <2>3, <2>5, <2>6 DEF CompleteDirectory
  <2>8. QED
    BY <2>2, <2>7
<1>5. /\ Complete \subseteq Packages \X Hashes /\ Complete' \subseteq Packages \X Hashes
      /\ \A p \in Packages, h \in Hashes :
             /\ <<p, h>> \in Complete <=> At(dirs, p, h)
             /\ <<p, h>> \in Complete' <=> At(dirs', p, h)
  BY CompleteIs
<1> HIDE DEF At
<1>6. CASE MarkInstalled
  BY <1>2, <1>3, <1>4, <1>5, <1>6
<1>7. CASE ~MarkInstalled
  BY <1>2, <1>3, <1>5, <1>7
<1>8. QED
  BY <1>6, <1>7

LEMMA InitInstallation == Init => Abstract!Init
<1> SUFFICES ASSUME Init PROVE Complete = {} /\ record = NoRelease
  BY DEF Abstract!Init
<1>1. \A p \in Packages, v \in Versions : dirs[p][v].marker = None
  BY DEF Init, InstallInit, NoDirectory
<1>2. \A h \in Hashes : CompleteDirectory(h).marker = h /\ h # None
  BY VersionsAndHashes DEF CompleteDirectory
<1>3. Complete = {}
  BY <1>1, <1>2, CompleteIs
<1>4. QED
  BY <1>3 DEF Init

LEMMA StepInstallation ==
    ASSUME TypeInv, PackagesInv, [Next]_vars
    PROVE  [Abstract!Next]_(Abstract!vars)
<1>1. CASE MarkInstalled
  <2>1. /\ package \in Packages /\ release \in Releases
        /\ Complete' = Complete \cup {<<package, HashOf[package][release]>>}
    BY <1>1, CompleteStep
  <2>2. record' = record
    BY <1>1 DEF MarkInstalled, Advance
  <2>3. Abstract!Install(package, release)
    BY <2>1, <2>2 DEF Abstract!Install
  <2>4. QED
    BY <2>1, <2>3 DEF Abstract!Next
<1>2. CASE RecordRelease
  <2>1. /\ place = "record" /\ record' = release /\ ~MarkInstalled
    BY <1>2 DEF RecordRelease, MarkInstalled
  <2>2. release \in Releases /\ Complete' = Complete
    BY <2>1, CompleteStep DEF TypeInv, LoopType
  <2>3. \A p \in Packages : <<p, HashOf[p][release]>> \in Complete
    BY <2>1, <2>2, HasIsComplete DEF TypeInv, PackagesInv, RoundInv, Due, Saving
  <2>4. Abstract!Record(release)
    BY <2>1, <2>2, <2>3 DEF Abstract!Record, Abstract!Contents
  <2>5. QED
    BY <2>2, <2>4 DEF Abstract!Next
<1>3. CASE ~MarkInstalled /\ ~RecordRelease
  <2>1. Complete' = Complete
    BY <1>3, CompleteStep
  <2>2. record' = record
    BY <1>3
       DEF Next, vars, loopVars, Begin, Reuse, Missing, Download, Extract, Remove,
           Replace, InstallStep, Goto, Advance, SaveOpen, SaveWrite, SaveRename,
           SaveFails, Fails, Inspect, Initialize, Initdb, Create, Claim, Sync,
           StartDatabase, DatabaseStep, FreePort, ForeignEnds, PortsFree,
           StartServices, Stop, StartFails, EndRound, SaveThen, PostLoad,
           PostOpen, PostWrite, PostSaved, PostRefused, PostStep, Crash
  <2>3. QED
    BY <2>1, <2>2 DEF Abstract!vars
<1>4. QED
  BY <1>1, <1>2, <1>3

\* The directories and their markers implement the installation that is
\* promised: a package is there completely or not at all, what is there stays,
\* and the release an update falls back to is complete, whichever step fails
\* and wherever the process ends.
THEOREM PackagesAreInstalled == Spec => ImplementsInstallation
<1>1. Spec => []TypeInv
  BY InitTypeInv, StepTypeInv, PTL DEF Spec
<1>2. Spec => [](TypeInv /\ PackagesInv)
  BY <1>1, InitPackagesInv, StepPackagesInv, PTL DEF Spec
<1>3. TypeInv /\ PackagesInv /\ [Next]_vars => [Abstract!Next]_(Abstract!vars)
  BY StepInstallation
<1>4. QED
  BY <1>2, <1>3, InitInstallation, PTL DEF Spec, ImplementsInstallation, Abstract!Spec

-----------------------------------------------------------------------------
(* What runs *)

AfterSync == {"start", "ports", "services", "running"}
AfterStart == {"ports", "services", "running"}

\* The server is up once it was started and has the password of the loop once
\* it was synchronized; a cluster has its database unless its initialization
\* is going on or was cut short; the ports are free when they were cleared,
\* and taken by the services when these run.
RunInv ==
    /\ place \in AfterStart => server = "up"
    /\ place \in AfterSync =>
           /\ cluster.password = held[Loop].secret
           /\ cluster.state \in {"bare", "created"}
    /\ cluster.state = "bare" => interrupted \/ place = "createdb"
    /\ place = "services" => \A s \in Services : ports[s] = "free"
    /\ place = "running" => \A s \in Services : ports[s] = "ours"

LEMMA InitRunInv == Init => RunInv
BY DEF Init, DatabaseInit, NoCluster, RunInv, AfterSync, AfterStart

\* A step that starts and ends before the database is synchronized, and is not
\* one of its own.
LEMMA OutsideRun ==
    ASSUME RunInv, UNCHANGED databaseVars,
           place # "createdb", place' \notin AfterSync
    PROVE  RunInv'
BY DEF RunInv, databaseVars, AfterSync, AfterStart

LEMMA DatabaseKeepsRun ==
    ASSUME TypeInv, RunInv,
           \/ Inspect \/ Initialize \/ Initdb \/ Create \/ Claim \/ Sync
           \/ StartDatabase
    PROVE  RunInv'
<1> USE DEF AfterSync, AfterStart, DatabaseStep, Goto
<1>0. /\ DatabaseTypeOK
      /\ UNCHANGED held
      /\ cluster \in [state : ClusterStates, version : BOOLEAN,
                      password : Passwords \cup {NoPassword}]
  BY DEF TypeInv, DatabaseTypeOK, Inspect, Initialize, Initdb, Create, Claim,
         Sync, StartDatabase, stateVars
<1>1. CASE Inspect
  BY <1>1, OutsideRun DEF Inspect
<1>2. CASE Initialize
  <2>1. cluster'.state = "partial"
    BY <1>2 DEF Initialize, InitStart, NoCluster
  <2>2. QED
    BY <1>2, <2>1 DEF Initialize, RunInv
<1>3. CASE Initdb
  BY <1>3 DEF Initdb, RunInv
<1>4. CASE Create
  <2>1. cluster'.state = "created"
    BY <1>0, <1>4 DEF Create, CreateDatabase
  <2>2. QED
    BY <1>4, <2>1 DEF Create, RunInv
<1>5. CASE Claim
  BY <1>5 DEF Claim, StopPrevious, databaseVars, RunInv
<1>6. CASE Sync
  <2>1. /\ cluster'.password = held[Loop].secret
        /\ cluster'.state = cluster.state
        /\ cluster.state \in {"bare", "created"}
        /\ interrupted' = interrupted /\ place = "sync" /\ place' = "start"
    BY <1>0, <1>6 DEF Sync, SyncPassword
  <2>2. QED
    BY <1>0, <2>1 DEF RunInv
<1>7. CASE StartDatabase
  BY <1>0, <1>7 DEF StartDatabase, StartServer, RunInv
<1>8. QED
  BY <1>1, <1>2, <1>3, <1>4, <1>5, <1>6, <1>7

LEMMA EndKeepsRun ==
    ASSUME TypeInv, RunInv, Stop \/ StartFails \/ Crash
    PROVE  RunInv'
<1>1. place' \in {"idle", "open"}
  BY DEF Stop, StartFails, Crash, EndRound, SaveThen
<1>2. cluster'.state = "bare" => interrupted'
  <2>1. CASE Crash
    BY <2>1 DEF Crash, RunInv
  <2>2. CASE Stop
    BY <2>2 DEF Stop, StopServer, RunInv
  <2>3. CASE StartFails /\ place = "createdb"
    BY <2>3 DEF StartFails
  <2>4. CASE StartFails /\ place = "initdb"
    BY <2>4 DEF StartFails, InitFails, NoCluster, RunInv
  <2>5. CASE StartFails /\ place \notin {"createdb", "initdb"}
    BY <2>5 DEF StartFails, StopServer, RunInv
  <2>6. QED
    BY <2>1, <2>2, <2>3, <2>4, <2>5
<1>3. QED
  BY <1>1, <1>2 DEF RunInv, AfterSync, AfterStart

LEMMA StepRunInv == TypeInv /\ RunInv /\ [Next]_vars => RunInv'
<1> SUFFICES ASSUME TypeInv, RunInv, [Next]_vars PROVE RunInv'
  OBVIOUS
<1> USE DEF AfterSync, AfterStart
<1>0. /\ resume \in Resumes
      /\ ports \in [Services -> {"free", "ours", "previous", "foreign"}]
  BY DEF TypeInv, LoopType
<1>1. CASE \/ Begin \/ Reuse \/ Missing \/ Download \/ Extract \/ Remove
           \/ Replace \/ MarkInstalled \/ RecordRelease \/ SaveOpen
           \/ SaveWrite \/ SaveRename \/ SaveFails \/ Fails
  <2>1. UNCHANGED databaseVars /\ place # "createdb" /\ place' \notin AfterSync
    BY <1>0, <1>1
       DEF Begin, Reuse, Missing, Download, Extract, Remove, Replace,
           MarkInstalled, InstallStep, Advance, RecordRelease, SaveOpen,
           SaveWrite, SaveRename, SaveFails, Fails, Goto, Installing, Resumes
  <2>2. QED
    BY <2>1, OutsideRun
<1>2. CASE \/ Inspect \/ Initialize \/ Initdb \/ Create \/ Claim \/ Sync
           \/ StartDatabase
  BY <1>2, DatabaseKeepsRun
<1>3. CASE Stop \/ StartFails \/ Crash
  BY <1>3, EndKeepsRun
<1>4. CASE PortsFree
  BY <1>4 DEF PortsFree, Goto, stateVars, databaseVars, RunInv
<1>5. CASE StartServices
  BY <1>5 DEF StartServices, Goto, stateVars, databaseVars, RunInv
<1>6. ASSUME NEW s \in Services, FreePort(s) \/ ForeignEnds(s) PROVE RunInv'
  <2>1. /\ UNCHANGED <<held, databaseVars, place>>
        /\ place = "ports" \/ ports[s] = "foreign"
        /\ ports' = [ports EXCEPT ![s] = "free"]
    BY <1>6 DEF FreePort, ForeignEnds, stateVars, loopVars
  <2>2. place \notin {"services", "running"}
    BY <2>1 DEF RunInv
  <2>3. QED
    BY <2>1, <2>2 DEF RunInv, databaseVars
<1>7. ASSUME NEW h \in Posts,
             \/ PostLoad(h) \/ PostOpen(h) \/ PostWrite(h) \/ PostSaved(h)
             \/ PostRefused(h)
      PROVE  RunInv'
  <2>1. held'[Loop] = held[Loop]
    BY <1>7, PostsType
  <2>2. UNCHANGED <<databaseVars, place, ports>>
    BY <1>7 DEF PostLoad, PostOpen, PostWrite, PostSaved, PostRefused, PostStep,
                loopVars
  <2>3. QED
    BY <2>1, <2>2 DEF RunInv, databaseVars
<1>8. CASE UNCHANGED vars
  BY <1>8 DEF vars, stateVars, databaseVars, loopVars, RunInv
<1>9. QED
  BY <1>1, <1>2, <1>3, <1>4, <1>5, <1>6, <1>7, <1>8 DEF Next

LEMMA RunInvImplies ==
    TypeInv /\ PackagesInv /\ RunInv => RunsAreSound
<1> SUFFICES ASSUME TypeInv, PackagesInv, RunInv, place = "running"
             PROVE  /\ \A p \in Packages : Whole(p, release)
                    /\ server = "up"
                    /\ cluster.password = held[Loop].secret
                    /\ cluster.state = "created" \/ interrupted
                    /\ \A s \in Services : ports[s] = "ours"
  BY DEF RunsAreSound
<1>1. release \in Releases /\ InstallTypeOK
  BY DEF TypeInv, LoopType
<1>2. \A p \in Packages : Has(dirs, p, release)
  BY DEF PackagesInv, RoundInv, Due, Saving
<1>3. \A p \in Packages : Whole(p, release)
  BY <1>1, <1>2, HaveIsReady DEF PackagesInv
<1>4. QED
  BY <1>3 DEF RunInv, AfterSync, AfterStart

\* What the launcher runs is what it has installed: whole packages, a database
\* with the password of its services, and nobody else on their ports.
THEOREM SoundRuns == Spec => []RunsAreSound
<1>1. Spec => []TypeInv
  BY InitTypeInv, StepTypeInv, PTL DEF Spec
<1>2. Spec => [](TypeInv /\ PackagesInv /\ RunInv)
  BY <1>1, InitPackagesInv, StepPackagesInv, InitRunInv, StepRunInv, PTL DEF Spec
<1>3. QED
  BY <1>2, RunInvImplies, PTL

-----------------------------------------------------------------------------
(* The secrets *)

\* Where a process is: it has a copy of the state, it has the temporary file
\* open, it has written it and has still to rename it.
Active(p) == IF p = Loop THEN place # "idle"
                         ELSE post[p] \in {"loaded", "opened", "written"}
Opening(p) == IF p = Loop THEN place = "write" ELSE post[p] = "opened"
Closing(p) == IF p = Loop THEN place = "replace" ELSE post[p] = "written"

\* The temporary file is that of the one process that saves.
OneSaver ==
    /\ \A p, q \in saving : p = q
    /\ \A p \in Savers : Opening(p) =>
           temp.there /\ temp.text = Blank /\ handle[p] = "temp"
    /\ \A p \in Savers : Closing(p) => temp.there /\ temp.text = held[p]

\* The processes have the secrets of the file; while it has none, one process
\* at most has drawn some.
OneSecret ==
    /\ file.secret # NoSecret =>
           \A p \in Savers : held[p] = Blank \/ held[p].secret = file.secret
    /\ file.secret = NoSecret =>
           \A p, q \in Savers : held[p] # Blank /\ held[q] # Blank => p = q

SecretInv ==
    /\ saving = {p \in Savers : Opening(p) \/ Closing(p)}
    /\ \A p \in Savers : Active(p) => held[p].secret \in Secrets
    /\ ~raced => OneSaver /\ OneSecret

\* The processes but p are where they were.
Others(p) == \A q \in Savers \ {p} : /\ Active(q)' <=> Active(q)
                                     /\ Opening(q)' <=> Opening(q)
                                     /\ Closing(q)' <=> Closing(q)

\* What a step on the secrets may never do.
KeepsSecret == file.secret # NoSecret /\ ~raced' => file'.secret = file.secret

LEMMA Positions ==
    /\ \A p \in Savers : /\ Opening(p) => Active(p) /\ ~Closing(p)
                         /\ Closing(p) => Active(p)
    /\ UNCHANGED post => Others(Loop)
    /\ \A h \in Posts : \A next :
           /\ post \in [Posts -> {"new", "loaded", "opened", "written", "saved",
                                  "refused"}]
           /\ post' = [post EXCEPT ![h] = next] /\ UNCHANGED place
           => /\ Others(h)
              /\ Active(h)' <=> next \in {"loaded", "opened", "written"}
              /\ Opening(h)' <=> next = "opened"
              /\ Closing(h)' <=> next = "written"
BY StateAssumption DEF Active, Opening, Closing, Others, Savers

\* A process loads the state, which it did not have.
LEMMA LoadKeepsSecret ==
    ASSUME StateTypeOK, SecretInv, NEW p \in Savers, NEW change \in SUBSET Posts,
           Load(p, Fresh, change), Others(p),
           ~Active(p), ~Opening(p)', ~Closing(p)'
    PROVE  SecretInv' /\ KeepsSecret
<1>0. /\ ~Opening(p) /\ ~Closing(p)
      /\ UNCHANGED <<file, temp, handle, saving>>
      /\ raced' = (raced \/ (file.secret = NoSecret
                               /\ \E q \in Savers \ {p} : held[q] # Blank))
  BY Positions DEF Load
<1>1. /\ held'[p].secret \in Secrets
      /\ file.secret # NoSecret => held'[p].secret = file.secret
      /\ \A q \in Savers \ {p} : held'[q] = held[q]
  BY LoadType
<1>2. saving' = {q \in Savers : Opening(q)' \/ Closing(q)'}
  BY <1>0 DEF SecretInv, Others
<1>3. \A q \in Savers : Active(q)' => held'[q].secret \in Secrets
  BY <1>1 DEF SecretInv, Others
<1>4. ASSUME ~raced' PROVE OneSaver' /\ OneSecret'
  <2>1. OneSaver /\ OneSecret
    BY <1>0, <1>4 DEF SecretInv
  <2>2. OneSaver'
    BY <1>0, <1>1, <2>1 DEF OneSaver, Others
  <2>3. OneSecret'
    BY <1>0, <1>1, <1>4, <2>1 DEF OneSecret
  <2>4. QED
    BY <2>2, <2>3
<1>5. QED
  BY <1>0, <1>2, <1>3, <1>4 DEF SecretInv, KeepsSecret

\* A process truncates the temporary file.
LEMMA OpenKeepsSecret ==
    ASSUME StateTypeOK, SecretInv, NEW p \in Savers, Open(p), Others(p),
           Active(p), ~Opening(p), ~Closing(p), Opening(p)', ~Closing(p)'
    PROVE  SecretInv' /\ KeepsSecret
<1>0. /\ temp' = [there |-> TRUE, text |-> Blank]
      /\ handle'[p] = "temp" /\ saving' = saving \cup {p}
      /\ raced' = (raced \/ saving \ {p} # {})
      /\ UNCHANGED <<file, held>>
  BY DEF Open, StateTypeOK
<1>1. saving' = {q \in Savers : Opening(q)' \/ Closing(q)'}
  BY <1>0 DEF SecretInv, Others
<1>2. \A q \in Savers : Active(q)' => held'[q].secret \in Secrets
  BY <1>0 DEF SecretInv, Others
<1>3. ASSUME ~raced' PROVE OneSaver' /\ OneSecret'
  <2>1. OneSecret /\ saving \subseteq {p}
    BY <1>0, <1>3 DEF SecretInv
  <2>2. \A q \in Savers : Opening(q)' \/ Closing(q)' => q = p
    BY <1>0, <1>1, <2>1
  <2>3. temp'.there /\ temp'.text = Blank
    BY <1>0
  <2>4. OneSaver'
    BY <1>0, <2>1, <2>2, <2>3 DEF OneSaver
  <2>5. OneSecret'
    BY <1>0, <2>1 DEF OneSecret
  <2>6. QED
    BY <2>4, <2>5
<1>4. QED
  BY <1>0, <1>1, <1>2, <1>3 DEF SecretInv, KeepsSecret

\* A process writes its copy.
LEMMA WriteKeepsSecret ==
    ASSUME StateTypeOK, SecretInv, NEW p \in Savers, Write(p), Others(p),
           Opening(p), ~Opening(p)', Closing(p)'
    PROVE  SecretInv' /\ KeepsSecret
<1>0. /\ UNCHANGED <<held, saving, raced>> /\ Active(p)
  BY Positions DEF Write
<1>1. saving' = {q \in Savers : Opening(q)' \/ Closing(q)'}
  BY <1>0 DEF SecretInv, Others
<1>2. \A q \in Savers : Active(q)' => held'[q].secret \in Secrets
  BY <1>0 DEF SecretInv, Others
<1>3. ASSUME ~raced' PROVE OneSaver' /\ OneSecret' /\ file' = file
  <2>1. OneSaver /\ OneSecret /\ p \in saving
    BY <1>0, <1>3 DEF SecretInv
  <2>2. temp.there /\ temp.text = Blank /\ handle[p] = "temp"
    BY <2>1 DEF OneSaver
  <2>3. file' = file /\ temp' = [temp EXCEPT !.text = held[p]]
    BY <2>2 DEF Write, Written
  <2>4. temp'.there /\ temp'.text = held[p]
    BY <2>2, <2>3 DEF StateTypeOK
  <2>5. \A q \in Savers : Opening(q)' \/ Closing(q)' => q = p
    BY <1>0, <1>1, <2>1 DEF OneSaver
  <2>6. OneSaver'
    BY <1>0, <2>1, <2>4, <2>5 DEF OneSaver
  <2>7. OneSecret'
    BY <1>0, <2>1, <2>3 DEF OneSecret
  <2>8. QED
    BY <2>3, <2>6, <2>7
<1>4. QED
  BY <1>0, <1>1, <1>2, <1>3 DEF SecretInv, KeepsSecret

\* A process renames the file, or finds that another one has done so.
LEMMA RenameKeepsSecret ==
    ASSUME StateTypeOK, SecretInv, NEW p \in Savers, Others(p),
           Rename(p) \/ RenameFails(p),
           Closing(p), ~Opening(p)', ~Closing(p)',
           Active(p)' => p = Loop
    PROVE  SecretInv' /\ KeepsSecret
<1>0. /\ saving' = saving \ {p} /\ raced' = raced
      /\ Active(p) /\ ~Opening(p) /\ Release(p)
  BY Positions DEF Rename, RenameFails
<1>1. /\ \A q \in Savers : held'[q] = held[q] \/ (q = p /\ held'[q] = Blank)
      /\ held'[Loop] = held[Loop]
  BY <1>0, ReleaseType
<1>2. saving' = {q \in Savers : Opening(q)' \/ Closing(q)'}
  BY <1>0 DEF SecretInv, Others
<1>3. \A q \in Savers : Active(q)' => held'[q].secret \in Secrets
  BY <1>0, <1>1 DEF SecretInv, Others
<1>4. ASSUME ~raced'
      PROVE  OneSaver' /\ OneSecret' /\ KeepsSecret
  <2>1. OneSaver /\ OneSecret /\ p \in saving
    BY <1>0, <1>4 DEF SecretInv
  <2>2. temp.there /\ temp.text = held[p]
    BY <2>1 DEF OneSaver
  <2>3. file' = held[p]
    BY <2>2 DEF Rename, RenameFails
  <2>4. saving' = {}
    BY <1>0, <2>1 DEF OneSaver
  <2>5. OneSaver'
    BY <1>2, <2>4 DEF OneSaver
  <2>6. /\ held[p].secret \in Secrets /\ held[p].secret # NoSecret
        /\ held[p] # Blank /\ Blank.secret = NoSecret
    BY <1>0, BlankType, StateAssumption DEF SecretInv
  <2>7. file.secret # NoSecret => held[p].secret = file.secret
    BY <2>1, <2>6 DEF OneSecret
  <2>8. \A q \in Savers : held[q] = Blank \/ held[q].secret = held[p].secret
    BY <2>1, <2>6, <2>7 DEF OneSecret
  <2>9. OneSecret'
    BY <1>1, <2>3, <2>6, <2>8 DEF OneSecret
  <2>10. QED
    BY <2>3, <2>5, <2>7, <2>9 DEF KeepsSecret
<1>5. QED
  BY <1>2, <1>3, <1>4 DEF SecretInv, KeepsSecret

\* A process forgets its copy where it neither opens nor closes the file.
LEMMA ForgetKeepsSecret ==
    ASSUME StateTypeOK, SecretInv, NEW p \in Savers, Forget(p), Others(p),
           UNCHANGED <<file, temp, handle, saving, raced>>,
           ~Opening(p), ~Closing(p), ~Active(p)', ~Opening(p)', ~Closing(p)'
    PROVE  SecretInv' /\ KeepsSecret
<1>1. \A q \in Savers : held'[q] = IF q = p THEN Blank ELSE held[q]
  BY DEF Forget, StateTypeOK
<1>2. saving' = {q \in Savers : Opening(q)' \/ Closing(q)'}
  BY DEF SecretInv, Others
<1>3. \A q \in Savers : Active(q)' => held'[q].secret \in Secrets
  BY <1>1 DEF SecretInv, Others
<1>4. ASSUME ~raced' PROVE OneSaver' /\ OneSecret'
  <2>1. OneSaver /\ OneSecret
    BY <1>4 DEF SecretInv
  <2>2. OneSaver'
    BY <1>1, <2>1 DEF OneSaver, Others
  <2>3. OneSecret'
    BY <1>1, <2>1 DEF OneSecret
  <2>4. QED
    BY <2>2, <2>3
<1>5. QED
  BY <1>2, <1>3, <1>4 DEF SecretInv, KeepsSecret

\* The launcher state stays and nobody comes to or leaves the file.
LEMMA StayKeepsSecret ==
    ASSUME SecretInv, UNCHANGED <<stateVars, post>>,
           place \notin {"idle", "write", "replace"} \/ place' = place,
           place' \notin {"write", "replace"} \/ place' = place
    PROVE  SecretInv' /\ KeepsSecret
<1>1. \A p \in Savers : /\ Opening(p)' <=> Opening(p)
                        /\ Closing(p)' <=> Closing(p)
                        /\ Active(p)' => Active(p)
  BY DEF Opening, Closing, Active
<1>2. UNCHANGED <<file, temp, handle, held, saving, raced>>
  BY DEF stateVars
<1>3. OneSaver /\ OneSecret => OneSaver' /\ OneSecret'
  BY <1>1, <1>2 DEF OneSaver, OneSecret
<1>4. QED
  BY <1>1, <1>2, <1>3 DEF SecretInv, KeepsSecret

LEMMA InitSecretInv == Init => SecretInv
<1> SUFFICES ASSUME Init PROVE SecretInv
  OBVIOUS
<1>1. \A p \in Savers : ~Active(p) /\ ~Opening(p) /\ ~Closing(p)
  BY DEF Init, Active, Opening, Closing, Savers
<1>2. /\ saving = {} /\ file.secret = NoSecret
      /\ \A p \in Savers : held[p] = Blank
  BY BlankType DEF Init, StateInit
<1>3. QED
  BY <1>1, <1>2 DEF SecretInv, OneSaver, OneSecret

LEMMA CrashKeepsSecret ==
    ASSUME TypeInv, SecretInv, Crash
    PROVE  SecretInv' /\ KeepsSecret
<1>1. \A p \in Savers : ~Active(p)' /\ ~Opening(p)' /\ ~Closing(p)'
  BY DEF Crash, Active, Opening, Closing, Savers
<1>2. /\ saving' = {} /\ file' = file
      /\ \A p \in Savers : held'[p] = Blank
  BY DEF Crash, ForgetAll
<1>3. QED
  BY <1>1, <1>2 DEF SecretInv, OneSaver, OneSecret, KeepsSecret

LEMMA LoopKeepsSecret ==
    ASSUME TypeInv, SecretInv,
           Begin \/ SaveOpen \/ SaveWrite \/ SaveRename \/ SaveFails \/ Fails
    PROVE  SecretInv' /\ KeepsSecret
<1> USE DEF Active, Opening, Closing
<1>0. /\ Loop \in Savers /\ StateTypeOK /\ resume \in Resumes
  BY DEF TypeInv, LoopType, Savers
<1>1. UNCHANGED post
  BY DEF Begin, SaveOpen, SaveWrite, SaveRename, SaveFails, Fails
<1>2. Others(Loop)
  BY <1>1, Positions
<1>3. CASE Begin
  <2>1. /\ Load(Loop, Fresh, {}) /\ place = "idle" /\ place' = "check"
    BY <1>3 DEF Begin
  <2>2. ~Active(Loop) /\ ~Opening(Loop)' /\ ~Closing(Loop)'
    BY <2>1
  <2> HIDE DEF Active, Opening, Closing
  <2>3. QED
    BY <1>0, <1>2, <2>1, <2>2, LoadKeepsSecret
<1>4. CASE SaveOpen
  <2>1. /\ Open(Loop) /\ place = "open" /\ place' = "write"
    BY <1>4 DEF SaveOpen, Goto
  <2>2. /\ Active(Loop) /\ ~Opening(Loop) /\ ~Closing(Loop)
        /\ Opening(Loop)' /\ ~Closing(Loop)'
    BY <2>1
  <2> HIDE DEF Active, Opening, Closing
  <2>3. QED
    BY <1>0, <1>2, <2>1, <2>2, OpenKeepsSecret
<1>5. CASE SaveWrite
  <2>1. /\ Write(Loop) /\ place = "write" /\ place' = "replace"
    BY <1>5 DEF SaveWrite, Goto
  <2>2. Opening(Loop) /\ ~Opening(Loop)' /\ Closing(Loop)'
    BY <2>1
  <2> HIDE DEF Active, Opening, Closing
  <2>3. QED
    BY <1>0, <1>2, <2>1, <2>2, WriteKeepsSecret
<1>6. CASE SaveRename \/ SaveFails
  <2>1. /\ Rename(Loop) \/ RenameFails(Loop)
        /\ place = "replace" /\ place' \in Resumes
    BY <1>0, <1>6 DEF SaveRename, SaveFails, Goto, Resumes
  <2>2. Closing(Loop) /\ ~Opening(Loop)' /\ ~Closing(Loop)'
    BY <2>1 DEF Resumes
  <2> HIDE DEF Active, Opening, Closing
  <2>3. QED
    BY <1>0, <1>2, <2>1, <2>2, RenameKeepsSecret
<1>7. CASE Fails
  <2>1. /\ Forget(Loop) /\ place \in Installing /\ place' = "idle"
        /\ UNCHANGED <<file, temp, handle, saving, raced>>
    BY <1>7 DEF Fails, Goto
  <2>2. /\ ~Opening(Loop) /\ ~Closing(Loop)
        /\ ~Active(Loop)' /\ ~Opening(Loop)' /\ ~Closing(Loop)'
    BY <2>1 DEF Installing
  <2> HIDE DEF Active, Opening, Closing
  <2>3. QED
    BY <1>0, <1>2, <2>1, <2>2, ForgetKeepsSecret
<1>8. QED
  BY <1>3, <1>4, <1>5, <1>6, <1>7

LEMMA PostKeepsSecret ==
    ASSUME TypeInv, SecretInv, NEW h \in Posts,
           \/ PostLoad(h) \/ PostOpen(h) \/ PostWrite(h) \/ PostSaved(h)
           \/ PostRefused(h)
    PROVE  SecretInv' /\ KeepsSecret
<1>0. /\ h \in Savers /\ h # Loop /\ StateTypeOK /\ UNCHANGED place
      /\ post \in [Posts -> {"new", "loaded", "opened", "written", "saved",
                             "refused"}]
  BY StateAssumption
     DEF TypeInv, LoopType, Savers, PostLoad, PostOpen, PostWrite, PostSaved,
         PostRefused, PostStep, loopVars
<1>1. /\ Active(h) <=> post[h] \in {"loaded", "opened", "written"}
      /\ Opening(h) <=> post[h] = "opened"
      /\ Closing(h) <=> post[h] = "written"
  BY <1>0 DEF Active, Opening, Closing
<1>2. CASE PostLoad(h)
  <2>1. /\ Load(h, Fresh, {h}) /\ post[h] = "new"
        /\ post' = [post EXCEPT ![h] = "loaded"]
    BY <1>2 DEF PostLoad, PostStep
  <2>2. ~Active(h)
    BY <1>1, <2>1
  <2>3. post' = [post EXCEPT ![h] = "loaded"]
    BY <2>1
  <2>4. /\ Opening(h)' <=> "loaded" = "opened"
        /\ Closing(h)' <=> "loaded" = "written"
        /\ Others(h)
    BY <1>0, <2>3, Positions
  <2>5. ~Opening(h)' /\ ~Closing(h)' /\ Others(h)
    BY <2>4
  <2>6. QED
    BY <1>0, <2>1, <2>2, <2>5, LoadKeepsSecret
<1>3. CASE PostOpen(h)
  <2>1. /\ Open(h) /\ post[h] = "loaded"
        /\ post' = [post EXCEPT ![h] = "opened"]
    BY <1>3 DEF PostOpen, PostStep
  <2>2. /\ Active(h) /\ ~Opening(h) /\ ~Closing(h)
        /\ Opening(h)' /\ ~Closing(h)' /\ Others(h)
    BY <1>0, <1>1, <2>1, Positions
  <2>3. QED
    BY <1>0, <2>1, <2>2, OpenKeepsSecret
<1>4. CASE PostWrite(h)
  <2>1. /\ Write(h) /\ post[h] = "opened"
        /\ post' = [post EXCEPT ![h] = "written"]
    BY <1>4 DEF PostWrite, PostStep
  <2>2. Opening(h) /\ ~Opening(h)' /\ Closing(h)' /\ Others(h)
    BY <1>0, <1>1, <2>1, Positions
  <2>3. QED
    BY <1>0, <2>1, <2>2, WriteKeepsSecret
<1>5. CASE PostSaved(h) \/ PostRefused(h)
  <2>1. Rename(h) \/ RenameFails(h)
    BY <1>5 DEF PostSaved, PostRefused, PostStep
  <2>2. PICK next \in {"saved", "refused"} :
            post[h] = "written" /\ post' = [post EXCEPT ![h] = next]
    BY <1>5 DEF PostSaved, PostRefused, PostStep
  <2>3. Closing(h)
    BY <1>1, <2>2
  <2>4. ~Active(h)' /\ ~Opening(h)' /\ ~Closing(h)' /\ Others(h)
    BY <1>0, <2>2, Positions
  <2>5. QED
    BY <1>0, <2>1, <2>3, <2>4, RenameKeepsSecret
<1>6. QED
  BY <1>2, <1>3, <1>4, <1>5

LEMMA StepSecretInv ==
    ASSUME TypeInv, SecretInv, [Next]_vars
    PROVE  SecretInv' /\ KeepsSecret
<1>1. CASE Begin \/ SaveOpen \/ SaveWrite \/ SaveRename \/ SaveFails \/ Fails
  BY <1>1, LoopKeepsSecret
<1>2. CASE \E h \in Posts : \/ PostLoad(h) \/ PostOpen(h) \/ PostWrite(h)
                            \/ PostSaved(h) \/ PostRefused(h)
  BY <1>2, PostKeepsSecret
<1>3. CASE Crash
  BY <1>3, CrashKeepsSecret
<1>4. CASE \/ Reuse \/ Missing \/ Download \/ Extract \/ Remove \/ Replace
           \/ MarkInstalled \/ RecordRelease \/ Inspect \/ Initialize
           \/ Initdb \/ Create \/ Claim \/ Sync \/ StartDatabase
           \/ (\E s \in Services : FreePort(s) \/ ForeignEnds(s))
           \/ PortsFree \/ StartServices \/ Stop \/ StartFails
           \/ UNCHANGED vars
  <2>1. /\ UNCHANGED <<stateVars, post>>
        /\ place \notin {"idle", "write", "replace"} \/ place' = place
        /\ place' \notin {"write", "replace"} \/ place' = place
    BY <1>4
       DEF Reuse, Missing, Download, Extract, Remove, Replace, InstallStep,
           MarkInstalled, Advance, RecordRelease, Inspect, Initialize, Initdb,
           Create, Claim, Sync, StartDatabase, DatabaseStep, Goto, FreePort,
           ForeignEnds, PortsFree, StartServices, Stop, StartFails, Starting,
           EndRound, SaveThen, loopVars, vars
  <2>2. QED
    BY <2>1, StayKeepsSecret
<1>5. QED
  BY <1>1, <1>2, <1>3, <1>4 DEF Next

\* No save and no end of the process changes the secrets that were saved once,
\* unless two processes have saved, or first drawn them, at once.
THEOREM SecretsStay == Spec => SecretsAreKept
<1>1. Spec => []TypeInv
  BY InitTypeInv, StepTypeInv, PTL DEF Spec
<1>2. TypeInv /\ SecretInv /\ [Next]_vars => SecretInv'
  BY StepSecretInv
<1>3. Spec => [](TypeInv /\ SecretInv)
  BY <1>1, <1>2, InitSecretInv, PTL DEF Spec
<1>4. TypeInv /\ SecretInv /\ [Next]_vars
          => [file.secret # NoSecret /\ ~raced' => file'.secret = file.secret]_file
  BY StepSecretInv DEF KeepsSecret
<1>5. QED
  BY <1>3, <1>4, PTL DEF Spec, SecretsAreKept

=============================================================================
