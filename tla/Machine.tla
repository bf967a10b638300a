------------------------------- MODULE Machine -------------------------------
(***************************************************************************)
(* What the launcher keeps on the machine: the packages, the launcher      *)
(* state, the database and the ports of the services.  One round of the    *)
(* runtime loop (runManaged, local mode) installs a release, initializes   *)
(* and starts the database, frees the ports and starts the services;       *)
(* requests of the startup page change the launcher state beside it.  Any  *)
(* step may fail, and the process may end between any two of them.         *)
(***************************************************************************)
EXTENDS ArtifactInstall, LauncherState, ManagedDatabase, Sequences

CONSTANTS
    Order,        \* the packages in the order in which they are installed
    SavesNew,     \* the packages whose download ends with saveState
    SavesAlways,  \* the packages that end with saveState in any case
    Services,     \* the ports of the services
    MaxFaults     \* bound on the failed steps and the ends of the process

VARIABLES
    place,      \* where the loop is
    at,         \* the package it is at
    release,    \* the release of this round
    record,     \* installed-manifest.json
    resume,     \* where the loop goes on after saveState
    ports,      \* who listens on a port
    post,       \* where a request is
    faults

loopVars == <<place, at, release, record, resume>>
installVars == <<dirs, staging>>
vars == <<installVars, stateVars, databaseVars, loopVars, ports, post, faults>>

NoRelease == 0

ASSUME MachineAssumption ==
    /\ Releases \subseteq Nat \ {NoRelease}
    /\ Order \in Seq(Packages)
    /\ Packages # {}
    /\ \A p \in Packages : \E i \in DOMAIN Order : Order[i] = p
    /\ SavesNew \subseteq Packages
    /\ SavesAlways \subseteq Packages
    /\ Passwords = Secrets
    /\ MaxFaults \in Nat

Installing == {"check", "download", "extract", "remove", "rename", "mark", "record"}
Saving == {"open", "write", "replace"}
Starting == {"database", "initdb", "createdb", "claim", "sync", "start", "ports", "services"}
Places == {"idle", "running"} \cup Installing \cup Saving \cup Starting

TypeOK ==
    /\ InstallTypeOK
    /\ StateTypeOK
    /\ DatabaseTypeOK
    /\ place \in Places
    /\ at \in 1 .. Len(Order)
    /\ release \in Releases \cup {NoRelease}
    /\ record \in Releases \cup {NoRelease}
    /\ resume \in Places
    /\ ports \in [Services -> {"free", "ours", "previous", "foreign"}]
    /\ post \in [Posts -> {"new", "loaded", "opened", "written", "saved", "refused"}]
    /\ faults \in 0 .. MaxFaults

Init ==
    /\ InstallInit
    /\ StateInit
    /\ DatabaseInit
    /\ place = "idle"
    /\ at = 1
    /\ release = NoRelease
    /\ record = NoRelease
    /\ resume = "idle"
    /\ ports \in [Services -> {"free", "foreign"}]
    /\ post = [h \in Posts |-> "new"]
    /\ faults = 0

-----------------------------------------------------------------------------
(* The loop                                                                *)

package == Order[at]

Goto(next) ==
    /\ place' = next
    /\ UNCHANGED <<at, release, record, resume>>

SaveThen(next) ==
    /\ place' = "open"
    /\ resume' = next
    /\ UNCHANGED <<release, record>>

Fault == faults < MaxFaults /\ faults' = faults + 1

\* A secret nobody has: it is drawn from 2^128 values and more.
Fresh ==
    Min({s \in Secrets : s \notin {file.secret, temp.text.secret, cluster.password}
                                    \cup {held[p].secret : p \in Savers}})

\* runManaged and prepareWithTracker: the release is the published one, or,
\* when an update is postponed, the one that is recorded.
Begin ==
    /\ place = "idle"
    /\ Load(Loop, Fresh, {})
    /\ \E r \in Releases : release' = r
    /\ place' = "check"
    /\ at' = 1
    /\ UNCHANGED <<record, resume, installVars, databaseVars, ports, post, faults>>

\* Slip: the index runs past the last package.
AdvanceTooFar(saves) ==
    /\ at' = at + 1
    /\ SaveThen(IF at < Len(Order) THEN "check" ELSE "record")

\* The next package, after saveState if saves.
Advance(saves) ==
    LET next == IF at < Len(Order) THEN "check" ELSE "record"
    IN  /\ at' = IF at < Len(Order) THEN at + 1 ELSE at
        /\ IF saves
           THEN place' = "open" /\ resume' = next
           ELSE place' = next /\ UNCHANGED resume
        /\ UNCHANGED <<release, record>>

\* The package is there already, perhaps under another version.
Reuse ==
    /\ place = "check"
    /\ Ready(package, release)
    /\ Advance(package \in SavesAlways)
    /\ UNCHANGED <<installVars, stateVars, databaseVars, ports, post, faults>>

Missing ==
    /\ place = "check"
    /\ ~Ready(package, release)
    /\ Goto("download")
    /\ UNCHANGED <<installVars, stateVars, databaseVars, ports, post, faults>>

\* installArtifact
InstallStep(from, to, Step) ==
    /\ place = from
    /\ Step
    /\ Goto(to)
    /\ UNCHANGED <<stateVars, databaseVars, ports, post, faults>>

Download == InstallStep("download", "extract", Unpack)
Extract == InstallStep("extract", "remove", Unpacked)
Remove == InstallStep("remove", "rename", RemoveTarget(package, release))
Replace == InstallStep("rename", "mark", RenameStaging(package, release))

MarkInstalled ==
    /\ place = "mark"
    /\ Mark(package, release)
    /\ Advance(package \in SavesNew \cup SavesAlways)
    /\ UNCHANGED <<stateVars, databaseVars, ports, post, faults>>

\* saveInstalledManifest; the state is then saved with the process id
RecordRelease ==
    /\ place = "record"
    /\ record' = release
    /\ place' = "open"
    /\ resume' = "database"
    /\ UNCHANGED <<at, release, installVars, stateVars, databaseVars, ports, post, faults>>

\* saveState
SaveOpen ==
    /\ place = "open"
    /\ Open(Loop)
    /\ Goto("write")
    /\ UNCHANGED <<installVars, databaseVars, ports, post, faults>>

SaveWrite ==
    /\ place = "write"
    /\ Write(Loop)
    /\ Goto("replace")
    /\ UNCHANGED <<installVars, databaseVars, ports, post, faults>>

SaveRename ==
    /\ place = "replace"
    /\ Rename(Loop)
    /\ Goto(resume)
    /\ UNCHANGED <<installVars, databaseVars, ports, post, faults>>

\* The error of the deferred saveState is dropped.
SaveFails ==
    /\ place = "replace"
    /\ RenameFails(Loop)
    /\ Goto("idle")
    /\ UNCHANGED <<installVars, databaseVars, ports, post, faults>>

\* Any step before the process id is saved fails: the round ends.  A rename to
\* a directory that could not be emptied fails every time.
Fails ==
    /\ place \in Installing
    /\ IF place = "rename" /\ ~Replaceable(package, release)
       THEN UNCHANGED faults
       ELSE Fault
    /\ IF place = "extract" THEN UnpackFails ELSE UNCHANGED installVars
    /\ Goto("idle")
    /\ Forget(Loop)
    /\ UNCHANGED <<file, temp, handle, saving, raced, databaseVars, ports, post>>

-----------------------------------------------------------------------------
(* managedDatabase.Start                                                   *)

DatabaseStep(from, to, Step) ==
    /\ place = from
    /\ Step
    /\ Goto(to)
    /\ UNCHANGED <<installVars, stateVars, ports, post, faults>>

Inspect ==
    DatabaseStep("database", "claim", Initialized /\ UNCHANGED databaseVars)
Initialize == DatabaseStep("database", "initdb", ~Initialized /\ InitStart)
Initdb == DatabaseStep("initdb", "createdb", InitDone(held[Loop].secret))
Create == DatabaseStep("createdb", "claim", CreateDatabase)
Claim ==
    DatabaseStep("claim", "sync",
                 IF server = "previous" THEN StopPrevious ELSE UNCHANGED databaseVars)
Sync == DatabaseStep("sync", "start", SyncPassword(held[Loop].secret))
StartDatabase == DatabaseStep("start", "ports", StartServer)

-----------------------------------------------------------------------------
(* supervisor.StartAll, prepareManagedServicePorts                         *)

\* The process of an earlier run is terminated.
FreePort(s) ==
    /\ place = "ports"
    /\ ports[s] = "previous"
    /\ ports' = [ports EXCEPT ![s] = "free"]
    /\ UNCHANGED <<installVars, stateVars, databaseVars, loopVars, post, faults>>

PortsFree ==
    /\ place = "ports"
    /\ \A s \in Services : ports[s] = "free"
    /\ Goto("services")
    /\ UNCHANGED <<installVars, stateVars, databaseVars, ports, post, faults>>

\* A service takes its port unless somebody listens there; the health check
\* is answered by whoever does.
StartServices ==
    /\ place = "services"
    /\ ports' = [s \in Services |-> IF ports[s] = "free" THEN "ours" ELSE ports[s]]
    /\ Goto("running")
    /\ UNCHANGED <<installVars, stateVars, databaseVars, post, faults>>

\* The round ends after the process id was saved: the deferred calls stop the
\* services and the database and save the state.
EndRound ==
    /\ ports' = [s \in Services |-> IF ports[s] = "ours" THEN "free" ELSE ports[s]]
    /\ SaveThen("idle")
    /\ UNCHANGED <<at, installVars, stateVars, post>>

Stop ==
    /\ place = "running"
    /\ StopServer
    /\ EndRound
    /\ UNCHANGED faults

\* A program that keeps its port, an initdb that cannot start, a directory
\* that PostgreSQL does not take: these fail every time.
Refused ==
    \/ place = "ports" /\ \E s \in Services : ports[s] = "foreign"
    \/ place = "database" /\ ~Initialized /\ cluster.state # "absent"
    \/ place = "sync" /\ cluster.state = "partial"

StartFails ==
    /\ place \in Starting
    /\ IF Refused THEN UNCHANGED faults
       ELSE Fault
    /\ IF place = "initdb" THEN InitFails
       ELSE IF place = "createdb" THEN interrupted' = TRUE /\ UNCHANGED <<cluster, server>>
       ELSE StopServer
    /\ EndRound

-----------------------------------------------------------------------------
(* The handlers of settings, deployment and browser sign-in (startup.go)   *)

PostStep(h, from, to, Step) ==
    /\ post[h] = from
    /\ Step
    /\ post' = [post EXCEPT ![h] = to]
    /\ UNCHANGED <<installVars, databaseVars, loopVars, ports, faults>>

PostLoad(h) == PostStep(h, "new", "loaded", Load(h, Fresh, {h}))
PostOpen(h) == PostStep(h, "loaded", "opened", Open(h))
PostWrite(h) == PostStep(h, "opened", "written", Write(h))
PostSaved(h) ==
    PostStep(h, "written", "saved", Rename(h))
PostRefused(h) ==
    PostStep(h, "written", "refused", RenameFails(h))

-----------------------------------------------------------------------------
(* The environment                                                         *)

\* The launcher ends.  The database and the services go on.
Crash ==
    /\ Fault
    /\ place' = "idle"
    /\ at' = 1
    /\ release' = NoRelease
    /\ resume' = "idle"
    /\ ForgetAll
    /\ server' = Orphan
    /\ interrupted' = (interrupted \/ place = "createdb")
    /\ ports' = [s \in Services |-> IF ports[s] = "ours" THEN "previous" ELSE ports[s]]
    /\ post' = [h \in Posts |-> IF post[h] \in {"new", "saved"} THEN post[h] ELSE "refused"]
    /\ UNCHANGED <<cluster, record, installVars>>

\* The program on a port ends.
ForeignEnds(s) ==
    /\ ports[s] = "foreign"
    /\ ports' = [ports EXCEPT ![s] = "free"]
    /\ UNCHANGED <<installVars, stateVars, databaseVars, loopVars, post, faults>>

Next ==
    \/ Begin \/ Reuse \/ Missing
    \/ Download \/ Extract \/ Remove \/ Replace \/ MarkInstalled
    \/ RecordRelease \/ SaveOpen \/ SaveWrite \/ SaveRename \/ SaveFails \/ Fails
    \/ Inspect \/ Initialize \/ Initdb \/ Create \/ Claim \/ Sync \/ StartDatabase
    \/ \E s \in Services : FreePort(s) \/ ForeignEnds(s)
    \/ PortsFree \/ StartServices \/ Stop \/ StartFails
    \/ \E h \in Posts : PostLoad(h) \/ PostOpen(h) \/ PostWrite(h)
                          \/ PostSaved(h) \/ PostRefused(h)
    \/ Crash

Spec == Init /\ [][Next]_vars

-----------------------------------------------------------------------------
(* Properties                                                              *)

\* Installation, implemented by directories and markers: whatever fails and
\* wherever the process ends, a marked package is complete, no installed one
\* is lost, and the release an update can be postponed for stays usable.
Complete ==
    {i \in Packages \X Hashes : \E v \in Versions :
        dirs[i[1]][v] = [files |-> i[2], whole |-> TRUE, marker |-> i[2]]}

Abstract == INSTANCE Installation WITH complete <- Complete, fallback <- record

ImplementsInstallation == Abstract!Spec

\* What runs is what was installed: the files of each package are those of the
\* release, from the directory its executable is started in, the database has
\* the password of the services and, unless its initialization was cut short,
\* their database, and nobody else answers on their ports.
RunsAreSound ==
    place = "running" =>
        /\ \A p \in Packages : Whole(p, release)
        /\ server = "up"
        /\ cluster.password = held[Loop].secret
        /\ cluster.state = "created" \/ interrupted
        /\ \A s \in Services : ports[s] = "ours"

\* The secrets, once saved, stay what they are, wherever a save or the process
\* ends, unless two processes have saved, or first drawn them, at once.
SecretsAreKept ==
    [][file.secret # NoSecret /\ ~raced' => file'.secret = file.secret]_file

\* A setting whose request was answered is in the file while nobody saves, if
\* no two saves have met.
SettingsAreKept ==
    saving = {} /\ ~raced => \A h \in Posts : post[h] = "saved" => h \in file.settings

=============================================================================
