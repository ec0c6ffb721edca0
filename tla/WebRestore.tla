------------------------------ MODULE WebRestore ---------------------------
(***************************************************************************)
(* Restoring a backup from the settings page (src/web/src/pages/           *)
(* SettingsPage.tsx, utils/backup.ts): a file from disk or one of the      *)
(* server's nightly backups is chosen, checked, confirmed in a panel that  *)
(* says what it lacks, started, and watched until it is over.              *)
(***************************************************************************)
EXTENDS Naturals, FiniteSets

CONSTANTS Files,     \* backups on the reader's disk
          Nightly,   \* backups the server has taken
          NoBackup   \* none

ASSUME RestoreAssumption == Files \cap Nightly = {} /\ NoBackup \notin Files \cup Nightly

VARIABLES pendingFile, pendingAuto, \* what has been chosen, one variable per kind
          validation,  \* the backup the panel speaks of
          status,      \* what the page knows of the restore it started
          watching,    \* restoreId: the restore is being polled
          busy,
          job,         \* what the server is restoring, or restored last
          jobState

restoreVars == <<pendingFile, pendingAuto, validation, status, watching, busy, job, jobState>>

Backups == Files \cup Nightly

RestoreInit ==
    /\ pendingFile = NoBackup /\ pendingAuto = NoBackup /\ validation = NoBackup
    /\ status = "none" /\ watching = FALSE /\ busy = "no"
    /\ job = NoBackup /\ jobState = "idle"

RestoreForgotten == validation' = NoBackup /\ status' = "none" /\ watching' = FALSE

\* A file is chosen; a nightly backup chosen before stays chosen.
ChooseBackup(f) ==
    /\ busy = "no"
    /\ pendingFile' = f /\ busy' = "validating"
    /\ RestoreForgotten
    /\ UNCHANGED <<pendingAuto, job, jobState>>

ChooseAutomatedBackup(a) ==
    /\ busy = "no"
    /\ pendingAuto' = a /\ pendingFile' = NoBackup /\ busy' = "validatingAuto"
    /\ RestoreForgotten
    /\ UNCHANGED <<job, jobState>>

Validated ==
    /\ busy \in {"validating", "validatingAuto"}
    /\ validation' = IF busy = "validating" THEN pendingFile ELSE pendingAuto
    /\ busy' = "no"
    /\ UNCHANGED <<pendingFile, pendingAuto, status, watching, job, jobState>>

Unreadable ==
    /\ busy \in {"validating", "validatingAuto"}
    /\ pendingFile' = IF busy = "validating" THEN NoBackup ELSE pendingFile
    /\ pendingAuto' = IF busy = "validatingAuto" THEN NoBackup ELSE pendingAuto
    /\ busy' = "no"
    /\ UNCHANGED <<validation, status, watching, job, jobState>>

\* The panel with the two buttons.
PanelShown == validation # NoBackup /\ ~watching /\ status = "none"

ConfirmRestore ==
    /\ PanelShown /\ busy = "no"
    /\ pendingFile # NoBackup \/ pendingAuto # NoBackup
    /\ busy' = "restoring"
    /\ UNCHANGED <<pendingFile, pendingAuto, validation, status, watching, job, jobState>>

\* The nightly backup goes first when both are chosen.
RestoreStarted ==
    /\ busy = "restoring" /\ ~watching /\ jobState # "running"
    /\ job' = IF pendingAuto # NoBackup THEN pendingAuto ELSE pendingFile
    /\ jobState' = "running"
    /\ status' = "running" /\ watching' = TRUE
    /\ UNCHANGED <<pendingFile, pendingAuto, validation, busy>>

RestoreRefused ==
    /\ busy = "restoring" /\ ~watching
    /\ busy' = "no"
    /\ UNCHANGED <<pendingFile, pendingAuto, validation, status, watching, job, jobState>>

JobEnds ==
    /\ jobState = "running"
    /\ jobState' \in {"success", "failure"}
    /\ UNCHANGED <<pendingFile, pendingAuto, validation, status, watching, busy, job>>

PollAnswered ==
    /\ watching /\ busy = "restoring"
    /\ status' = jobState
    /\ IF jobState = "running" THEN UNCHANGED <<watching, busy>>
       ELSE watching' = FALSE /\ busy' = "no"
    /\ UNCHANGED <<pendingFile, pendingAuto, validation, job, jobState>>

PollLost ==
    /\ watching /\ busy = "restoring"
    /\ busy' = "no"
    /\ UNCHANGED <<pendingFile, pendingAuto, validation, status, watching, job, jobState>>

\* Cancel in the panel, or Done under a restore that succeeded.
ClearRestore ==
    /\ busy = "no" /\ (PanelShown \/ status = "success")
    /\ pendingFile' = NoBackup /\ pendingAuto' = NoBackup
    /\ RestoreForgotten
    /\ UNCHANGED <<busy, job, jobState>>

RestoreNext ==
    \/ \E f \in Files : ChooseBackup(f)
    \/ \E a \in Nightly : ChooseAutomatedBackup(a)
    \/ Validated \/ Unreadable \/ ConfirmRestore \/ RestoreStarted \/ RestoreRefused
    \/ JobEnds \/ PollAnswered \/ PollLost \/ ClearRestore

RestoreSpec == RestoreInit /\ [][RestoreNext]_restoreVars

-----------------------------------------------------------------------------

\* The page holds what its declarations say.
RestoreTypeOK ==
    /\ pendingFile \in Files \cup {NoBackup} /\ pendingAuto \in Nightly \cup {NoBackup}
    /\ {validation, job} \subseteq Backups \cup {NoBackup}
    /\ busy \in {"no", "validating", "validatingAuto", "restoring"}
    /\ status \in {"none", "running", "success", "failure"} /\ watching \in BOOLEAN

\* The page says a restore succeeded only of one that did, and the panel
\* never asks while it watches a restore (SettingsPage.tsx:681-721, :768).
PanelIsTrue ==
    /\ status = "success" => jobState = "success" \/ job = NoBackup
    /\ busy = "restoring" => validation # NoBackup
=============================================================================
