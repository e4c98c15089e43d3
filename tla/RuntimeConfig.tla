--------------------------- MODULE RuntimeConfig ---------------------------
(***************************************************************************)
(* The settings: the struct in memory, the YAML file and the form.         *)
(*                                                                         *)
(* The settings section of the dashboard (web/js/settings.js) fetches the  *)
(* configuration, fills two forms and posts all fields of one of them.     *)
(* handleUpdateCollector and handleUpdateSchedule (internal/api/handlers.go)*)
(* change the struct and save it under Server.mu; Save                     *)
(* (internal/config/config.go) truncates the file and writes it anew.  The *)
(* process may die in between and loads the file when it starts again.     *)
(*                                                                         *)
(* The goroutines that read the struct without the lock are not modelled,  *)
(* and so the fields of one update are set in one step.                    *)
(***************************************************************************)
EXTENDS Naturals

CONSTANTS
    Tab,          \* browser tabs with the settings section
    Field,        \* settings that can be edited
    SectionOf,    \* "collector" or "schedule"
    Value,
    Accepted,     \* Accepted[f]: the values a handler takes over for f
    Default,      \* of defaultConfig, which the forms fall back to as well
    FileRank,     \* position of a field in the YAML file
    InitialFile,  \* files the agent may be started with
    MaxCrashes,   \* bound: deaths of the process
    Nobody,       \* nobody holds Server.mu
    Missing       \* a field the file does not mention

ASSUME FieldAssumption ==
    /\ SectionOf \in [Field -> {"collector", "schedule"}]
    /\ Default \in [Field -> Value]
    /\ Accepted \in [Field -> SUBSET Value]
    /\ FileRank \in [Field -> Nat]
    /\ InitialFile \subseteq [Field -> Value]
    /\ Nobody \notin Tab
    /\ Missing \notin Value
    /\ MaxCrashes \in Nat

VARIABLES
    agent,    \* "up", "down", or "refused" when the file did not parse
    cfg,      \* the struct
    disk,     \* the fields the file sets
    garbled,  \* the file ends inside a token and does not parse
    lock,     \* who holds Server.mu
    step,     \* where a tab or the handler of its request is
    form,     \* what its form shows
    edited,   \* the fields its user has changed
    want,     \* the section it posted
    damaged,  \* history: the last save failed or was cut off
    granted,  \* history: the settings that all updates so far amount to
    crashes

fileVars == <<disk, garbled>>
tabVars  == <<form, edited, want>>
history  == <<damaged, granted>>
vars     == <<agent, cfg, fileVars, lock, step, tabVars, history, crashes>>

Section == {"collector", "schedule"}
Step    == {"closed", "open", "posted", "applied", "truncated", "answered", "failed"}

TypeOK ==
    /\ agent \in {"up", "down", "refused"}
    /\ cfg \in [Field -> Value]
    /\ disk \in [Field -> Value \union {Missing}]
    /\ garbled \in BOOLEAN
    /\ lock \in Tab \union {Nobody}
    /\ step \in [Tab -> Step]
    /\ form \in [Tab -> [Field -> Value]]
    /\ edited \in [Tab -> SUBSET Field]
    /\ want \in [Tab -> Section]
    /\ damaged \in BOOLEAN
    /\ granted \in [Field -> Value]
    /\ crashes \in 0 .. MaxCrashes

Init ==
    /\ agent = "up"
    /\ cfg \in InitialFile
    /\ disk = cfg
    /\ garbled = FALSE
    /\ lock = Nobody
    /\ step = [t \in Tab |-> "closed"]
    /\ form = [t \in Tab |-> Default]
    /\ edited = [t \in Tab |-> {}]
    /\ want = [t \in Tab |-> "collector"]
    /\ damaged = FALSE
    /\ granted = cfg
    /\ crashes = 0

----------------------------------------------------------------------------
(* The form.                                                               *)

Goto(t, s) == step' = [step EXCEPT ![t] = s]

\* encoding/json names the sections of Config after the Go fields, which have
\* no json tags; settings.js asks for them in lower case.
JsonKey == [collector |-> "Collector", schedule |-> "Schedule"]

Shown(f) == IF JsonKey[SectionOf[f]] = SectionOf[f] THEN cfg[f] ELSE Default[f]

Open(t) ==
    /\ agent = "up"
    /\ step[t] = "closed"
    /\ form' = [form EXCEPT ![t] = [f \in Field |-> Shown(f)]]
    /\ Goto(t, "open")
    /\ UNCHANGED <<agent, cfg, fileVars, lock, edited, want, history, crashes>>

\* The bound of the model: every field is edited once at most.
Edit(t) ==
    /\ step[t] = "open"
    /\ \E f \in Field \ edited[t], v \in Value :
          /\ v # form[t][f]
          /\ form' = [form EXCEPT ![t][f] = v]
          /\ edited' = [edited EXCEPT ![t] = @ \union {f}]
    /\ UNCHANGED <<agent, cfg, fileVars, lock, step, want, history, crashes>>

\* saveCollection or saveSchedule: every field of the section is sent.
Submit(t) ==
    /\ step[t] = "open"
    /\ \E s \in Section : want' = [want EXCEPT ![t] = s]
    /\ Goto(t, IF agent = "up" THEN "posted" ELSE "failed")
    /\ UNCHANGED <<agent, cfg, fileVars, lock, form, edited, history, crashes>>

----------------------------------------------------------------------------
(* The handlers.                                                           *)

\* A value out of range is passed over without an error.
Updated(settings, t) ==
    [f \in Field |-> IF SectionOf[f] = want[t] /\ form[t][f] \in Accepted[f]
                     THEN form[t][f] ELSE settings[f]]

\* Mutant: Server.mu is not taken.
ApplyUnlocked(t) ==
    /\ agent = "up" /\ step[t] = "posted"
    /\ lock' = t
    /\ cfg' = Updated(cfg, t)
    /\ Goto(t, "applied")
    /\ UNCHANGED <<agent, fileVars, tabVars, history, crashes>>

\* s.mu.Lock() and the assignments.
Apply(t) ==
    /\ agent = "up" /\ step[t] = "posted"
    /\ lock = Nobody
    /\ lock' = t
    /\ cfg' = Updated(cfg, t)
    /\ Goto(t, "applied")
    /\ UNCHANGED <<agent, fileVars, tabVars, history, crashes>>

Blank == [f \in Field |-> Missing]

\* Save marshals the struct, opens the file and truncates it.
SaveBegin(t) ==
    /\ step[t] = "applied"
    /\ disk' = Blank /\ garbled' = FALSE
    /\ Goto(t, "truncated")
    /\ UNCHANGED <<agent, cfg, lock, tabVars, history, crashes>>

\* The handler releases the lock and answers.
Answer(t) ==
    /\ lock' = Nobody
    /\ granted' = Updated(granted, t)
    /\ Goto(t, "answered")

SaveEnd(t) ==
    /\ step[t] = "truncated"
    /\ disk' = cfg
    /\ damaged' = FALSE
    /\ Answer(t)
    /\ UNCHANGED <<agent, cfg, garbled, tabVars, crashes>>

\* Mutant: the error path returns without unlocking.
SaveFailsLocked(t) ==
    /\ step[t] = "applied"
    /\ damaged' = TRUE
    /\ granted' = Updated(granted, t)
    /\ Goto(t, "answered")
    /\ UNCHANGED <<agent, cfg, fileVars, lock, tabVars, crashes>>

\* The file cannot be opened; the answer is ok all the same.
SaveFails(t) ==
    /\ step[t] = "applied"
    /\ damaged' = TRUE
    /\ Answer(t)
    /\ UNCHANGED <<agent, cfg, fileVars, tabVars, crashes>>

\* The disk is full: some fields, or half of one, reach the file.
SaveCut(t) ==
    /\ step[t] = "truncated"
    /\ \E g \in Field :
          disk' = [f \in Field |-> IF FileRank[f] < FileRank[g] THEN cfg[f] ELSE Missing]
    /\ garbled' \in BOOLEAN
    /\ damaged' = TRUE
    /\ Answer(t)
    /\ UNCHANGED <<agent, cfg, tabVars, crashes>>

----------------------------------------------------------------------------
(* Death and restart.                                                      *)

Die ==
    /\ agent = "up" /\ crashes < MaxCrashes
    /\ agent' = "down"
    /\ crashes' = crashes + 1
    /\ lock' = Nobody
    /\ damaged' = (damaged \/ \E t \in Tab : step[t] = "truncated")
    /\ step' = [t \in Tab |-> IF step[t] \in {"posted", "applied", "truncated"}
                              THEN "failed" ELSE step[t]]
    /\ UNCHANGED <<cfg, fileVars, tabVars, granted>>

\* Mutants: the file is unmarshalled into an empty struct; the defaults are laid
\* over what the file says.
RestartWithoutDefaults ==
    /\ agent = "down" /\ ~ garbled
    /\ agent' = "up"
    /\ cfg' = disk
    /\ granted' = IF damaged THEN cfg' ELSE granted
    /\ UNCHANGED <<fileVars, lock, step, tabVars, damaged, crashes>>

RestartDefaultsLast ==
    /\ agent = "down" /\ ~ garbled
    /\ agent' = "up"
    /\ cfg' = Default
    /\ granted' = IF damaged THEN cfg' ELSE granted
    /\ UNCHANGED <<fileVars, lock, step, tabVars, damaged, crashes>>

\* Load: the defaults, overwritten by what the file says; an empty file is a
\* valid one.
Restart ==
    /\ agent = "down" /\ ~ garbled
    /\ agent' = "up"
    /\ cfg' = [f \in Field |-> IF disk[f] = Missing THEN Default[f] ELSE disk[f]]
    /\ granted' = IF damaged THEN cfg' ELSE granted
    /\ UNCHANGED <<fileVars, lock, step, tabVars, damaged, crashes>>

\* main exits with status 1.
Refuse ==
    /\ agent = "down" /\ garbled
    /\ agent' = "refused"
    /\ UNCHANGED <<cfg, fileVars, lock, step, tabVars, history, crashes>>

----------------------------------------------------------------------------
Handler(t) == Apply(t) \/ SaveBegin(t) \/ SaveEnd(t) \/ SaveFails(t) \/ SaveCut(t)

Next ==
    \/ \E t \in Tab : Open(t) \/ Edit(t) \/ Submit(t) \/ Handler(t)
    \/ Die \/ Restart \/ Refuse

\* A handler goes on, and one that waits for the lock gets it in its turn:
\* Go's mutex does not starve a waiter.
Spec == Init /\ [][Next]_vars /\ \A t \in Tab : SF_vars(Handler(t))

----------------------------------------------------------------------------
(* Properties.                                                             *)

Idle == agent = "up" /\ lock = Nobody

\* Updates of different tabs do not undo each other, and what was answered is
\* in force, in memory and after a restart, unless a save failed or was cut.
UpdatesKept == Idle => cfg = granted

\* Unless the last save failed or was cut off, the file says what the struct
\* says, whatever the order of the handlers and across restarts.
DiskFollowsMemory == Idle /\ ~ damaged => disk = cfg /\ ~ garbled

\* Every posted form is answered, or fails with the process.
UpdateAnswered ==
    \A t \in Tab : step[t] = "posted" ~> step[t] \in {"answered", "failed"}

\* "Data Collection Settings (editable)" (settings.js): saving a form changes
\* the settings its user edited.  Not so: the others go back to their defaults.
FormKeepsSettings ==
    [][\A t \in Tab, f \in Field :
          lock = Nobody /\ lock' = t /\ cfg'[f] # cfg[f] => f \in edited[t]]_vars
=============================================================================
