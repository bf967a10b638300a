----------------------------- MODULE LauncherState -----------------------------
(***************************************************************************)
(* state.json (internal/state).  A process loads it, changes its copy and  *)
(* saves the copy: it writes state.json.tmp, a name all of them share, and *)
(* renames it.  The runtime loop keeps its copy for as long as it runs.    *)
(***************************************************************************)
EXTENDS Naturals, FiniteSets

CONSTANTS
    Loop,      \* the runtime loop
    Posts,     \* requests that change a setting
    Secrets    \* the values of the secrets; all of them are drawn together

VARIABLES
    file,      \* the contents of state.json
    temp,      \* state.json.tmp
    handle,    \* the file a process has open for writing
    held,      \* the copy of a process
    saving,    \* the processes between the truncation and the rename
    raced      \* history: two processes saved, or drew the secrets, at once

stateVars == <<file, temp, handle, held, saving, raced>>

Savers == Posts \cup {Loop}

NoSecret == 0

\* There are so many secrets that one can always be drawn that neither a
\* process nor a file has.
ASSUME StateAssumption ==
    /\ Loop \notin Posts
    /\ IsFiniteSet(Posts)
    /\ Secrets \subseteq Nat \ {NoSecret}
    /\ IsFiniteSet(Secrets) => Cardinality(Secrets) > Cardinality(Posts) + 4

\* The settings are the set of the requests that have taken effect.  Two
\* processes that write one file leave text that is not JSON ("torn").
Contents == [secret : Secrets \cup {NoSecret}, settings : SUBSET Posts, torn : BOOLEAN]

\* No file, or one that is empty, which is read in the same way.
Blank == [secret |-> NoSecret, settings |-> {}, torn |-> FALSE]

StateTypeOK ==
    /\ file \in Contents
    /\ temp \in [there : BOOLEAN, text : Contents]
    /\ handle \in [Savers -> {"none", "temp", "file", "lost"}]
    /\ held \in [Savers -> Contents]
    /\ saving \subseteq Savers
    /\ raced \in BOOLEAN

NoTemp == [there |-> FALSE, text |-> Blank]

StateInit ==
    /\ file = Blank
    /\ temp = NoTemp
    /\ handle = [p \in Savers |-> "none"]
    /\ held = [p \in Savers |-> Blank]
    /\ saving = {}
    /\ raced = FALSE

-----------------------------------------------------------------------------

\* Missing secrets are drawn.  The change is that of the handler.
Load(p, fresh, change) ==
    LET missing == file.secret = NoSecret
    IN  /\ ~file.torn
        /\ held' = [held EXCEPT ![p] =
                      [file EXCEPT !.secret = IF missing THEN fresh ELSE @,
                                   !.settings = @ \cup change]]
        /\ raced' = (raced \/ (missing /\ \E q \in Savers \ {p} : held[q] # Blank))
        /\ UNCHANGED <<file, temp, handle, saving>>

\* Slip: without the temporary file.
OpenInPlace(p) ==
    /\ file' = Blank
    /\ temp' = [there |-> TRUE, text |-> Blank]
    /\ handle' = [handle EXCEPT ![p] = "file"]
    /\ saving' = saving \cup {p}
    /\ UNCHANGED <<held, raced>>

\* os.WriteFile opens and truncates the file, and then writes.
Open(p) ==
    /\ temp' = [there |-> TRUE, text |-> Blank]
    /\ handle' = [handle EXCEPT ![p] = "temp"]
    /\ saving' = saving \cup {p}
    /\ raced' = (raced \/ saving \ {p} # {})
    /\ UNCHANGED <<file, held>>

\* Nobody has truncated the file since another process wrote it.
Written(old, p) ==
    {held[p]} \cup (IF old = Blank THEN {} ELSE {[held[p] EXCEPT !.torn = TRUE]})

Write(p) ==
    /\ CASE handle[p] = "temp" ->
              /\ \E text \in Written(temp.text, p) : temp' = [temp EXCEPT !.text = text]
              /\ UNCHANGED file
         [] handle[p] = "file" ->
              /\ \E text \in Written(file, p) : file' = text
              /\ UNCHANGED temp
         [] OTHER -> UNCHANGED <<file, temp>>
    /\ handle' = [handle EXCEPT ![p] = "none"]
    /\ UNCHANGED <<held, saving, raced>>

\* The copy of a request ends with it, that of the loop with its round.
Forget(p) == held' = [held EXCEPT ![p] = Blank]
Release(p) == IF p = Loop THEN UNCHANGED held ELSE Forget(p)

\* What others have open keeps its contents under its new name.
Rename(p) ==
    /\ temp.there
    /\ file' = temp.text
    /\ temp' = NoTemp
    /\ handle' = [q \in Savers |->
                    CASE handle[q] = "temp" -> "file"
                      [] handle[q] = "file" -> "lost"
                      [] OTHER -> handle[q]]
    /\ saving' = saving \ {p}
    /\ Release(p)
    /\ UNCHANGED raced

\* Another process has renamed it already.
RenameFails(p) ==
    /\ ~temp.there
    /\ saving' = saving \ {p}
    /\ Release(p)
    /\ UNCHANGED <<file, temp, handle, raced>>

\* The process of the launcher ends.
ForgetAll ==
    /\ handle' = [p \in Savers |-> "none"]
    /\ held' = [p \in Savers |-> Blank]
    /\ saving' = {}
    /\ UNCHANGED <<file, temp, raced>>

=============================================================================
