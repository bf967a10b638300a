---------------------------- MODULE ManagedDatabase ----------------------------
(***************************************************************************)
(* The data directory of PostgreSQL and its server (database.go).  The     *)
(* server is a process of its own, which outlives the launcher.            *)
(***************************************************************************)
EXTENDS Naturals

CONSTANTS Passwords, NoPassword

VARIABLES
    cluster,      \* the data directory
    server,       \* whose server runs on it: this run's, an earlier one's
    interrupted   \* history: initialize ended after initdb and before its end

databaseVars == <<cluster, server, interrupted>>

\* A data directory is absent, written by an initdb that did not end, without
\* or with the database of Athena.
ClusterStates == {"absent", "partial", "bare", "created"}

DatabaseTypeOK ==
    /\ cluster \in [state : ClusterStates, version : BOOLEAN,
                    password : Passwords \cup {NoPassword}]
    /\ server \in {"down", "up", "previous"}
    /\ interrupted \in BOOLEAN

NoCluster == [state |-> "absent", version |-> FALSE, password |-> NoPassword]

DatabaseInit ==
    /\ cluster = NoCluster
    /\ server = "down"
    /\ interrupted = FALSE

-----------------------------------------------------------------------------

\* The file PG_VERSION decides whether the directory is initialized.
Initialized == cluster.version

\* initdb refuses a directory that is not empty.  It writes PG_VERSION early.
InitStart ==
    /\ cluster.state = "absent"
    /\ \E version \in BOOLEAN :
          cluster' = [NoCluster EXCEPT !.state = "partial", !.version = version]
    /\ UNCHANGED <<server, interrupted>>

InitDone(password) ==
    /\ cluster' = [state |-> "bare", version |-> TRUE, password |-> password]
    /\ UNCHANGED <<server, interrupted>>

\* An initdb that fails removes what it has written, one that is killed with
\* the context does not.
InitFails ==
    /\ cluster' \in {NoCluster, cluster}
    /\ UNCHANGED <<server, interrupted>>

\* initialize: createDatabase
CreateDatabase ==
    /\ cluster' = [cluster EXCEPT !.state = "created"]
    /\ UNCHANGED <<server, interrupted>>

\* The server of an earlier run is stopped before the port is looked at.
StopPrevious ==
    /\ server' = "down"
    /\ UNCHANGED <<cluster, interrupted>>

\* Slip: the password is that of initdb for ever.
SyncNothing(password) ==
    /\ cluster.state \in {"bare", "created"}
    /\ UNCHANGED databaseVars

\* syncPassword needs a directory that is initialized.
SyncPassword(password) ==
    /\ cluster.state \in {"bare", "created"}
    /\ cluster' = [cluster EXCEPT !.password = password]
    /\ UNCHANGED <<server, interrupted>>

StartServer ==
    /\ server = "down"
    /\ server' = "up"
    /\ UNCHANGED <<cluster, interrupted>>

\* pg_ctl stop may fail, and its error is only logged.
StopServer ==
    /\ server' \in (IF server = "up" THEN {"down", "previous"} ELSE {server})
    /\ UNCHANGED <<cluster, interrupted>>

Orphan == IF server = "up" THEN "previous" ELSE server

=============================================================================
