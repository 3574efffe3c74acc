-------------------------- MODULE StatePersistence --------------------------
(***************************************************************************)
(* StatePersistenceManager: the state of an assessment session is saved    *)
(* after a delay (debounced), or at once, to the backend and then to the   *)
(* storage of the browser.  A save waits for the backend; meanwhile the    *)
(* state may be updated, cleared or reloaded.                              *)
(*                                                                         *)
(* A state is the number of the update that made it.  NoState is null,     *)
(* which storage holds as the text "null"; Absent is no entry at all.      *)
(* Auto-save is on.                                                        *)
(***************************************************************************)
EXTENDS Integers

CONSTANT MaxUpdates  \* bound: updates made

ASSUME PersistenceAssumption == MaxUpdates \in Nat

VARIABLES
    backed,   \* whether onBackendSave is configured
    current,  \* currentState
    timer,    \* autoSaveTimer: "none", "set", or "spent" once it has fired
    saving,   \* isSaving: a save waits for the backend
    sent,     \* the state that this save has given to the backend
    stored,   \* the entry in the storage of the browser
    memory,   \* the entry in memoryStorage, the fallback
    updates,  \* updates so far
    held,     \* auto-save was paused and nothing has set its timer since
    cleared   \* the updates that clear() has disposed of

saveVars == <<backed, current, timer, saving, sent, stored, memory, updates, held, cleared>>

NoState == 0
Absent == -1

SaveInit ==
    /\ backed \in BOOLEAN
    /\ current = NoState
    /\ timer = "none"
    /\ saving = FALSE
    /\ sent = NoState
    /\ stored = Absent
    /\ memory = Absent
    /\ updates = 0
    /\ held = FALSE
    /\ cleared = 0

\* Variant: what the backend was given is stored, not what is current by now.
StoresSent ==
    \E full \in BOOLEAN :
        /\ stored' = IF full THEN stored ELSE IF saving THEN sent ELSE current
        /\ memory' = IF ~full THEN memory ELSE IF saving THEN sent ELSE current

\* saveToStorage() of the current state, into memory when the storage is full.
Stores ==
    \E full \in BOOLEAN :
        /\ stored' = IF full THEN stored ELSE current
        /\ memory' = IF full THEN current ELSE memory

\* save() up to its await, and all of it without a backend; it does nothing
\* without a state or while another save waits.
Starts ==
    IF current = NoState \/ saving THEN UNCHANGED <<saving, sent, stored, memory>>
    ELSE IF backed
         THEN saving' = TRUE /\ sent' = current /\ UNCHANGED <<stored, memory>>
         ELSE Stores /\ UNCHANGED <<saving, sent>>

UpdateState ==
    /\ updates < MaxUpdates
    /\ updates' = updates + 1
    /\ current' = updates'
    /\ timer' = "set"
    /\ held' = FALSE
    /\ UNCHANGED <<backed, saving, sent, stored, memory, cleared>>

\* The handle is not cleared when the timer fires.
TimerFires ==
    /\ timer = "set"
    /\ timer' = "spent"
    /\ Starts
    /\ UNCHANGED <<backed, current, updates, held, cleared>>

Save ==
    /\ Starts
    /\ UNCHANGED <<backed, current, timer, updates, held, cleared>>

ForceSave ==
    /\ timer' = "none"
    /\ Starts
    /\ UNCHANGED <<backed, current, updates, held, cleared>>

\* The backend has saved or refused; save() goes on with what is current now.
SaveResumes ==
    /\ saving
    /\ Stores
    /\ saving' = FALSE
    /\ sent' = NoState
    /\ UNCHANGED <<backed, current, timer, updates, held, cleared>>

\* load(), and hasSavedState(), which calls it: what is stored becomes current.
LoadState ==
    /\ current' = IF stored = Absent THEN current ELSE stored
    /\ UNCHANGED <<backed, timer, saving, sent, stored, memory, updates, held, cleared>>

\* Variant: the storage is cleared, and the state stays.
ClearStorage ==
    /\ stored' = Absent
    /\ memory' = Absent
    /\ cleared' = updates
    /\ UNCHANGED <<backed, current, timer, saving, sent, updates, held>>

\* Neither the timer nor a save that waits is touched.
Clear ==
    /\ current' = NoState
    /\ stored' = Absent
    /\ memory' = Absent
    /\ cleared' = updates
    /\ UNCHANGED <<backed, timer, saving, sent, updates, held>>

PauseAutoSave ==
    /\ timer' = "none"
    /\ held' = TRUE
    /\ UNCHANGED <<backed, current, saving, sent, stored, memory, updates, cleared>>

ResumeAutoSave ==
    /\ current # NoState
    /\ timer' = "set"
    /\ held' = FALSE
    /\ UNCHANGED <<backed, current, saving, sent, stored, memory, updates, cleared>>

\* destroy(); a save that waits goes on.
DestroyManager ==
    /\ current' = NoState
    /\ timer' = "none"
    /\ UNCHANGED <<backed, saving, sent, stored, memory, updates, held, cleared>>

\* The page is loaded again: only the storage of the browser is left.
Restart ==
    /\ current' = NoState
    /\ timer' = "none"
    /\ saving' = FALSE
    /\ sent' = NoState
    /\ memory' = Absent
    /\ held' = FALSE
    /\ UNCHANGED <<backed, stored, updates, cleared>>

SaveNext ==
    \/ UpdateState
    \/ TimerFires
    \/ Save
    \/ ForceSave
    \/ SaveResumes
    \/ LoadState
    \/ Clear
    \/ PauseAutoSave
    \/ ResumeAutoSave
    \/ DestroyManager
    \/ Restart

SaveSpec == SaveInit /\ [][SaveNext]_saveVars

-----------------------------------------------------------------------------
(* Properties.                                                             *)

Entries == Absent .. MaxUpdates

SaveTypeOK ==
    /\ backed \in BOOLEAN
    /\ current \in 0 .. MaxUpdates
    /\ timer \in {"none", "set", "spent"}
    /\ saving \in BOOLEAN
    /\ sent \in 0 .. MaxUpdates
    /\ stored \in Entries /\ memory \in Entries
    /\ updates \in 0 .. MaxUpdates
    /\ held \in BOOLEAN
    /\ cleared \in 0 .. updates
    /\ sent # NoState <=> saving

Unsaved == current # NoState /\ current \notin {stored, memory}

\* A state that is not saved yet is about to be: the timer is set or a save in
\* flight will take it along, although saves asked for during another one are
\* dropped; only a paused auto-save excuses it.
NothingForgotten == Unsaved => timer = "set" \/ saving \/ held

\* Cleared state stays cleared: a save in flight, a timer that still fires or a
\* later load brings nothing back that clear() has removed.
ClearedStays ==
    \A entry \in {current, stored, memory} : entry > 0 => entry > cleared
=============================================================================
