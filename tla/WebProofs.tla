------------------------------ MODULE WebProofs ------------------------------
(***************************************************************************)
(* What is proved of the pages of the web client that find, keep and move  *)
(* titles, for any number of preferences, titles, sources, filters and     *)
(* answers on their way.                                                   *)
(***************************************************************************)
EXTENDS MCWebPages, FiniteSetTheorems, SequenceTheorems, TLAPS

-----------------------------------------------------------------------------
(* The preferences of the account.                                         *)

(* What was chosen here is among what was changed here, which is why an    *)
(* answer leaves it alone.                                                 *)
SettingsSound ==
    /\ stored \in Copy /\ prefs \in Copy /\ mirror \in Copy /\ legacy \in Copy
    /\ mine \in Copy /\ told \in Copy /\ pushes \subseteq Copy
    /\ changedHere \subseteq Settings
    /\ timer \in BOOLEAN /\ querying \in BOOLEAN
    /\ painted \in [Settings -> Known \cup {Unset}]
    /\ \A s \in Settings : mine[s] # Unset => s \in changedHere
    /\ ChoicesHere

LEMMA DecodedTyped == \A raw : Decoded(raw) \in Known \cup {Unset}
BY DEF Decoded

LEMMA SettingsStart == SettingsInit => SettingsSound
<1> SUFFICES ASSUME SettingsInit PROVE SettingsSound
  OBVIOUS
<1>1. PICK m \in Copy, old \in Copy : PageLoaded(m, old)
  BY DEF SettingsInit
<1>2. stored \in Copy /\ pushes = {}
  BY DEF SettingsInit
<1> DEFINE moved == Migrated(m, old)
           new == [s \in Settings |-> IF s \in moved THEN old[s] ELSE m[s]]
<1>3. moved \subseteq Settings /\ new \in Copy
  BY DEF Migrated, Copy
<1>4. /\ prefs = new /\ mirror = new /\ legacy = NoCopy /\ changedHere = moved
      /\ timer = (moved # {}) /\ querying = TRUE
      /\ painted = [s \in Settings |-> Decoded(new[s])]
      /\ mine = [s \in Settings |-> IF s \in moved THEN new[s] ELSE Unset]
      /\ told = NoCopy
  BY <1>1 DEF PageLoaded
<1>5. NoCopy \in Copy
  BY DEF NoCopy, Copy
<1>6. mine \in Copy /\ painted \in [Settings -> Known \cup {Unset}]
  BY <1>3, <1>4, DecodedTyped DEF Copy
<1> HIDE DEF moved, new
<1>7. \A s \in Settings : mine[s] # Unset =>
          s \in moved /\ prefs[s] = mine[s] /\ mirror[s] = mine[s] /\ timer
  BY <1>4
<1>8. ChoicesHere
  BY <1>4, <1>7 DEF ChoicesHere
<1> QED  BY <1>2, <1>3, <1>4, <1>5, <1>6, <1>7, <1>8 DEF SettingsSound

LEMMA AdoptSound ==
  ASSUME SettingsSound, NEW server \in Copy, AdoptSettings(server)
  PROVE  SettingsSound'
<1> DEFINE merged == MergedSettings(server)
<1>1. merged \in Copy
  BY DEF SettingsSound, MergedSettings, Copy
<1>2. /\ prefs' = merged /\ mirror' = merged
      /\ painted' = Notified(Touched(prefs, merged), merged)
      /\ timer' = (timer \/ \E s \in Settings : merged[s] # Unset /\ server[s] # merged[s])
      /\ querying' = FALSE
      /\ UNCHANGED <<stored, legacy, changedHere, pushes, mine, told, changes, loads>>
  BY DEF AdoptSettings
<1>3. \A s \in Settings : mine[s] # Unset => merged[s] = mine[s]
  BY DEF SettingsSound, ChoicesHere, MergedSettings
<1> HIDE DEF merged
<1>4. painted' \in [Settings -> Known \cup {Unset}]
      /\ \A s \in Settings : painted'[s] = Decoded(merged[s])
  BY <1>2, DecodedTyped DEF SettingsSound, ChoicesHere, Notified, Touched
<1>5. ChoicesHere'
  BY <1>2, <1>3, <1>4 DEF SettingsSound, ChoicesHere, Decoded
<1> QED  BY <1>1, <1>2, <1>4, <1>5 DEF SettingsSound

LEMMA SettingsMove == SettingsSound /\ [SettingsNext]_settingsVars => SettingsSound'
<1> SUFFICES ASSUME SettingsSound, [SettingsNext]_settingsVars PROVE SettingsSound'
  OBVIOUS
<1>1. ASSUME NEW s \in Settings, NEW raw \in Raws, WriteRaw(s, raw) PROVE SettingsSound'
  <2>1. /\ prefs' = [prefs EXCEPT ![s] = raw] /\ mirror' = prefs'
        /\ changedHere' = changedHere \cup {s} /\ timer' = TRUE
        /\ painted' = Notified({s}, prefs') /\ mine' = [mine EXCEPT ![s] = raw]
        /\ UNCHANGED <<stored, legacy, querying, pushes, told, loads>>
    BY <1>1 DEF WriteRaw
  <2>2. prefs' \in Copy /\ mine' \in Copy
    BY <2>1 DEF SettingsSound, Copy
  <2>3. painted' \in [Settings -> Known \cup {Unset}]
        /\ \A t \in Settings : painted'[t] = Decoded(prefs'[t])
    BY <2>1, DecodedTyped DEF SettingsSound, ChoicesHere, Notified, Copy
  <2>4. \A t \in Settings : mine'[t] # Unset => t \in changedHere' /\ prefs'[t] = mine'[t]
    BY <2>1 DEF SettingsSound, ChoicesHere, Copy
  <2>5. ChoicesHere'
    BY <2>1, <2>3, <2>4 DEF ChoicesHere, Decoded
  <2> QED  BY <2>1, <2>2, <2>3, <2>4, <2>5 DEF SettingsSound
<1>2. ASSUME NEW s \in Settings, NEW raw \in Raws, OtherDevice(s, raw) PROVE SettingsSound'
  BY <1>2 DEF OtherDevice, SettingsSound, ChoicesHere, Decoded, settingsPageVars, Copy
<1>3. CASE FlushSettings
  BY <1>3 DEF FlushSettings, SettingsSound, ChoicesHere, Decoded, Copy
<1>4. ASSUME NEW copy \in pushes, PushArrives(copy) \/ PushIsLost(copy) PROVE SettingsSound'
  BY <1>4 DEF PushArrives, PushIsLost, SettingsSound, ChoicesHere, Decoded, settingsPageVars
<1>5. CASE QueryAnswered
  BY <1>5, AdoptSound DEF QueryAnswered, SettingsSound
<1>6. CASE QueryFailed
  <2>1. NoCopy \in Copy
    BY DEF NoCopy, Copy
  <2> QED  BY <1>6, <2>1, AdoptSound DEF QueryFailed
<1>7. CASE Reload
  BY <1>7, DecodedTyped DEF Reload, SettingsSound, ChoicesHere, NoCopy, Copy
<1>8. CASE UNCHANGED settingsVars
  BY <1>8 DEF settingsVars, settingsPageVars, SettingsSound, ChoicesHere, Decoded
<1> QED  BY <1>1, <1>2, <1>3, <1>4, <1>5, <1>6, <1>7, <1>8 DEF SettingsNext

-----------------------------------------------------------------------------
(* A restore and the panel that asks for it.                               *)

LEMMA PanelStart == RestoreInit => PanelIsTrue
BY DEF RestoreInit, PanelIsTrue

LEMMA PanelMove == PanelIsTrue /\ [RestoreNext]_restoreVars => PanelIsTrue'
<1> SUFFICES ASSUME PanelIsTrue, [RestoreNext]_restoreVars PROVE PanelIsTrue'
  OBVIOUS
<1>1. CASE \/ \E f \in Files : ChooseBackup(f)
           \/ \E a \in Nightly : ChooseAutomatedBackup(a)
           \/ ClearRestore
  BY <1>1 DEF ChooseBackup, ChooseAutomatedBackup, ClearRestore, RestoreForgotten, PanelIsTrue
<1>2. CASE Validated \/ Unreadable \/ RestoreRefused \/ PollLost \/ UNCHANGED restoreVars
  BY <1>2 DEF Validated, Unreadable, RestoreRefused, PollLost, PanelIsTrue, restoreVars
<1>3. CASE ConfirmRestore \/ RestoreStarted
  BY <1>3 DEF ConfirmRestore, RestoreStarted, PanelShown, PanelIsTrue
<1>4. CASE JobEnds \/ PollAnswered
  BY <1>4 DEF JobEnds, PollAnswered, PanelIsTrue
<1> QED  BY <1>1, <1>2, <1>3, <1>4 DEF RestoreNext

-----------------------------------------------------------------------------
(* The page of one title.                                                  *)

(* The note of the title it has been adopted for is that title's, and the  *)
(* server keeps each under its own.                                        *)
NoteSound ==
    /\ id \in Titles
    /\ notes = [t \in Titles |-> notes[t]]
    /\ \A t \in Titles : notes[t].title = t
    /\ noteAdoptedFor = id => note.title = id

(* A carry and its undo name only numbered chapters within the bound of    *)
(* the carry, and a binding is about to go only from a title that has      *)
(* chapters of its own.                                                    *)
RequestSound(lists, c) ==
    /\ c = Call(c.kind, c.title, c.row, c.upTo, c.ids)
    /\ c.title \in Titles
    /\ c.kind \in {"carry", "undo"} => \A n \in c.ids : 0 < n /\ n <= c.upTo
    /\ c.kind = "move" => lists[c.title] # {}

RequestsSound ==
    /\ chaptersOf = [r \in AllRows |-> chaptersOf[r]]
    /\ \A c \in calls : RequestSound(chaptersOf, c)
    /\ \A c \in carried : c.kind = "carry" /\ RequestSound(chaptersOf, c)

MarksTyped == readOf = [r \in AllRows |-> readOf[r]]

DetailSound == NoteSound /\ RequestsSound /\ MarksTyped

LEMMA DetailStart == DetailInit => DetailSound
<1> SUFFICES ASSUME DetailInit PROVE DetailSound
  OBVIOUS
<1>1. id \in Titles /\ chaptersOf \in [AllRows -> ChapterLists] /\ calls = {} /\ carried = {}
      /\ notes = [t \in Titles |-> NoteOf(t, 0)] /\ noteAdoptedFor = Unbound
  BY DEF DetailInit
<1>2. NoteSound
  BY <1>1, DetailAssumption DEF NoteSound, NoteOf
<1>3. MarksTyped
  BY DEF DetailInit, MarksTyped
<1> QED  BY <1>1, <1>2, <1>3 DEF DetailSound, RequestsSound

LEMMA NoteMove == NoteSound /\ [DetailNext]_detailVars => NoteSound'
<1> SUFFICES ASSUME NoteSound, [DetailNext]_detailVars PROVE NoteSound'
  OBVIOUS
<1> USE DEF NoteSound
<1>1. ASSUME NEW t \in Titles, Walk(t) PROVE NoteSound'
  BY <1>1, DetailAssumption DEF Walk, NoteDropped, rowVars
<1>2. CASE DetailAnswered
  BY <1>2 DEF DetailAnswered, noteVars, rowVars
<1>3. ASSUME NEW n \in 0..1, SaveNote(n) PROVE NoteSound'
  BY <1>3 DEF SaveNote, NoteOf, rowVars, shownVars, sourceVars
<1>4. ASSUME NEW c \in calls, NEW ok \in BOOLEAN, NoteSaved(c, ok) PROVE NoteSound'
  BY <1>4 DEF NoteSaved, NoteOf, shownVars, sourceVars, noteVars
<1>5. ASSUME UNCHANGED <<id, notes, note, noteAdoptedFor>> PROVE NoteSound'
  BY <1>5
<1>6. CASE OpenPicker \/ Unbind \/ RestorePreviousSource \/ CarryAsked
           \/ (\E n \in Reported : RecordCarried(n)) \/ (\E s \in Copies : BindTo(s))
           \/ (\E c \in carried : UndoCarry(c)) \/ UNCHANGED detailVars
  BY <1>5, <1>6 DEF OpenPicker, Unbind, RestorePreviousSource, CarryAsked, RecordCarried,
                    BindTo, UndoCarry, rowVars, shownVars, sourceVars, noteVars, detailVars
<1>7. CASE HonourMarker \/ \E list \in ChapterLists : ListAnswered(list)
  BY <1>5, <1>7 DEF HonourMarker, ListAnswered, rowVars, shownVars, sourceVars, noteVars
<1>8. ASSUME NEW c \in calls, NEW ok \in BOOLEAN,
             \/ Saved(c, ok) \/ BindingDropped(c, ok) \/ MovedOff(c, ok)
             \/ PreviousRestored(c, ok) \/ ProgressCarried(c, ok) \/ CarryUndone(c, ok)
             \/ \E list \in ChapterLists : Switched(c, list)
      PROVE  NoteSound'
  BY <1>5, <1>8 DEF Saved, BindingDropped, MovedOff, PreviousRestored, ProgressCarried,
                    CarryUndone, Switched, shownVars, noteVars
<1> QED  BY <1>1, <1>2, <1>3, <1>4, <1>6, <1>7, <1>8 DEF DetailNext

(* A request stays sound while the lists it looks at only fill.            *)
LEMMA RequestStays ==
  ASSUME NEW c, RequestSound(chaptersOf, c),
         \A t \in Titles : chaptersOf[t] # {} => chaptersOf'[t] # {}
  PROVE  RequestSound(chaptersOf', c)
BY DEF RequestSound, Call

LEMMA FreshRequest ==
  ASSUME NEW kind \in {"save", "note", "unbind", "switch", "restore"},
         NEW t \in Titles, NEW s, NEW upTo, NEW ids
  PROVE  RequestSound(chaptersOf', Call(kind, t, s, upTo, ids))
BY DEF RequestSound, Call

LEMMA HandedSound ==
  ASSUME NEW t \in Titles, NEW answered
  PROVE  \A c \in Handed(t, answered) : RequestSound(chaptersOf', c)
<1>1. RequestSound(chaptersOf', Written(t, remembered[t], 0))
  BY FreshRequest DEF Written
<1> QED  BY <1>1 DEF Handed

LEMMA RequestsMove == NoteSound /\ RequestsSound /\ [DetailNext]_detailVars => RequestsSound'
<1> SUFFICES ASSUME NoteSound, RequestsSound, [DetailNext]_detailVars PROVE RequestsSound'
  OBVIOUS
<1>0. id \in Titles
  BY DEF NoteSound
(* Lists fill, some requests are new and sound, and what can be undone was *)
(* carried before.                                                         *)
<1>1. ASSUME \A c \in calls' : c \in calls \/ RequestSound(chaptersOf', c),
             \A t \in Titles : chaptersOf[t] # {} => chaptersOf'[t] # {},
             chaptersOf' = [r \in AllRows |-> chaptersOf'[r]],
             \A c \in carried' : c.kind = "carry" /\ (c \in carried \/ c \in calls)
      PROVE  RequestsSound'
  <2>1. \A c \in calls' : RequestSound(chaptersOf', c)
    BY <1>1, RequestStays DEF RequestsSound
  <2>2. \A c \in carried' : c.kind = "carry" /\ RequestSound(chaptersOf', c)
    BY <1>1, RequestStays DEF RequestsSound
  <2> QED  BY <1>1, <2>1, <2>2 DEF RequestsSound
<1>2. ASSUME chaptersOf' = chaptersOf
      PROVE  /\ \A t \in Titles : chaptersOf[t] # {} => chaptersOf'[t] # {}
             /\ chaptersOf' = [r \in AllRows |-> chaptersOf'[r]]
  BY <1>2 DEF RequestsSound
<1>3. ASSUME NEW r, NEW list, chaptersOf' = [chaptersOf EXCEPT ![r] =
                 IF chaptersOf[r] = {} THEN list ELSE chaptersOf[r]]
      PROVE  /\ \A t \in Titles : chaptersOf[t] # {} => chaptersOf'[t] # {}
             /\ chaptersOf' = [q \in AllRows |-> chaptersOf'[q]]
  <2>1. chaptersOf = [q \in AllRows |-> chaptersOf[q]]
    BY DEF RequestsSound
  <2> QED  BY <1>3, <2>1 DEF AllRows
<1>4. \A c \in carried : c.kind = "carry" /\ RequestSound(chaptersOf, c)
  BY DEF RequestsSound
<1>5. ASSUME NEW t \in Titles, Walk(t) PROVE RequestsSound'
  <2>1. /\ chaptersOf' = chaptersOf /\ carried' = {}
        /\ calls' \subseteq calls \cup Handed(t, detail.bound)
    BY <1>5 DEF Walk, rowVars
  <2> QED  BY <1>1, <1>2, <2>1, HandedSound
<1>6. CASE DetailAnswered
  <2>1. /\ chaptersOf' = chaptersOf /\ carried' = carried
        /\ calls' = calls \cup Handed(id, bindings[id])
    BY <1>6 DEF DetailAnswered, rowVars
  <2> QED  BY <1>0, <1>1, <1>2, <1>4, <2>1, HandedSound
<1>7. ASSUME NEW list \in ChapterLists, ListAnswered(list) PROVE RequestsSound'
  <2>1. /\ chaptersOf' = [chaptersOf EXCEPT ![Active] =
                 IF chaptersOf[Active] = {} THEN list ELSE chaptersOf[Active]]
        /\ calls' = calls /\ carried' = carried
    BY <1>7 DEF ListAnswered
  <2> QED  BY <1>1, <1>3, <1>4, <2>1
<1>8. CASE \/ OpenPicker \/ (\E n \in Reported : RecordCarried(n)) \/ UNCHANGED detailVars
  <2>1. chaptersOf' = chaptersOf /\ calls' = calls /\ carried' = carried
    BY <1>8 DEF OpenPicker, RecordCarried, detailVars, rowVars, sourceVars
  <2> QED  BY <1>1, <1>2, <1>4, <2>1
<1>9. ASSUME NEW kind \in {"save", "note", "unbind", "switch", "restore"}, NEW s, NEW upTo,
             calls' = calls \cup {Call(kind, id, s, upTo, {})},
             chaptersOf' = chaptersOf, carried' \subseteq carried
      PROVE  RequestsSound'
  <2>1. RequestSound(chaptersOf', Call(kind, id, s, upTo, {}))
    BY <1>0, FreshRequest
  <2> QED  BY <1>1, <1>2, <1>4, <1>9, <2>1
<1>10. CASE Unbind
  BY <1>9, <1>10 DEF Unbind, rowVars, sourceVars
<1>11. ASSUME NEW n \in 0..1, SaveNote(n) PROVE RequestsSound'
  BY <1>9, <1>11 DEF SaveNote, rowVars, sourceVars
<1>12. CASE RestorePreviousSource
  BY <1>9, <1>12 DEF RestorePreviousSource, rowVars, sourceVars
<1>13. ASSUME NEW s \in Copies, BindTo(s) PROVE RequestsSound'
  BY <1>9, <1>13 DEF BindTo, Written
<1>14. CASE HonourMarker
  <2>1. CASE calls' = calls
    BY <1>1, <1>2, <1>4, <1>14, <2>1 DEF HonourMarker, rowVars, sourceVars
  <2>2. CASE calls' = calls \cup {Call("switch", id, Adopted(id, detail.bound), 0, {})}
    BY <1>9, <1>14, <2>2 DEF HonourMarker, rowVars, sourceVars
  <2> QED  BY <1>14, <2>1, <2>2 DEF HonourMarker
<1>15. CASE CarryAsked
  <2> DEFINE ids == Marks(boundId, pendingCarry.upTo)
             c == Call("carry", id, boundId, pendingCarry.upTo, ids)
  <2>1. /\ chaptersOf' = chaptersOf /\ carried' = carried
        /\ calls' \subseteq calls \cup {c}
    BY <1>15 DEF CarryAsked, rowVars
  <2>2. RequestSound(chaptersOf', c)
    BY <1>0 DEF RequestSound, Call, Marks
  <2> QED  BY <1>1, <1>2, <1>4, <2>1, <2>2
<1>16. ASSUME NEW c \in carried, UndoCarry(c) PROVE RequestsSound'
  <2>1. /\ chaptersOf' = chaptersOf /\ carried' = carried
        /\ calls' = calls \cup {[c EXCEPT !.kind = "undo"]}
    BY <1>16 DEF UndoCarry, rowVars, sourceVars
  <2>2. RequestSound(chaptersOf', [c EXCEPT !.kind = "undo"])
    <3>1. [c EXCEPT !.kind = "undo"] = Call("undo", c.title, c.row, c.upTo, c.ids)
      BY <1>4 DEF RequestSound, Call
    <3> QED  BY <1>4, <3>1 DEF RequestSound, Call
  <2> QED  BY <1>1, <1>2, <1>4, <2>1, <2>2
<1>17. ASSUME NEW c \in calls, NEW ok \in BOOLEAN,
              \/ Saved(c, ok) \/ NoteSaved(c, ok) \/ BindingDropped(c, ok) \/ MovedOff(c, ok)
              \/ PreviousRestored(c, ok) \/ ProgressCarried(c, ok) \/ CarryUndone(c, ok)
       PROVE  RequestsSound'
  <2>1. /\ chaptersOf' = chaptersOf /\ calls' = calls \ {c}
        /\ \/ carried' = carried \/ carried' = {}
           \/ carried' = {c} /\ c.kind = "carry"
    BY <1>17 DEF Saved, NoteSaved, BindingDropped, MovedOff, PreviousRestored,
                 ProgressCarried, CarryUndone, sourceVars
  <2> QED  BY <1>1, <1>2, <1>4, <2>1
<1>18. ASSUME NEW c \in calls, NEW list \in ChapterLists, Switched(c, list)
       PROVE  RequestsSound'
  <2> DEFINE have == IF chaptersOf[c.title] = {} THEN list ELSE chaptersOf[c.title]
             move == [c EXCEPT !.kind = "move"]
  <2>1. /\ chaptersOf' = [chaptersOf EXCEPT ![c.title] = have] /\ carried' = carried
        /\ calls' = IF have # {} THEN (calls \ {c}) \cup {move} ELSE calls \ {c}
    BY <1>18 DEF Switched, CarriesChapters
  <2>2. have # {} => RequestSound(chaptersOf', move)
    <3>1. RequestSound(chaptersOf, c) /\ chaptersOf = [r \in AllRows |-> chaptersOf[r]]
      BY DEF RequestsSound
    <3>2. chaptersOf'[c.title] = have
      BY <2>1, <3>1 DEF RequestSound, AllRows
    <3>3. move = Call("move", c.title, c.row, c.upTo, c.ids)
      BY <3>1 DEF RequestSound, Call
    <3> QED  BY <3>1, <3>2, <3>3 DEF RequestSound, Call
  <2>3. \A k \in calls' : k \in calls \/ RequestSound(chaptersOf', k)
    BY <2>1, <2>2
  <2> HIDE DEF have, move
  <2> QED  BY <1>1, <1>3, <1>4, <2>1, <2>3 DEF have
<1> QED  BY <1>5, <1>6, <1>7, <1>8, <1>10, <1>11, <1>12, <1>13, <1>14, <1>15, <1>16, <1>17,
            <1>18 DEF DetailNext

LEMMA MarksMove == MarksTyped /\ [DetailNext]_detailVars => MarksTyped'
<1> SUFFICES ASSUME MarksTyped, [DetailNext]_detailVars PROVE MarksTyped'
  OBVIOUS
<1>1. readOf' = readOf \/ \E r, new : readOf' = [readOf EXCEPT ![r] = new]
  <2>1. ASSUME NEW c \in calls, NEW ok \in BOOLEAN, ProgressCarried(c, ok) \/ CarryUndone(c, ok)
        PROVE  \/ readOf' = readOf
               \/ readOf' = [readOf EXCEPT ![c.row] = readOf[c.row] \cup c.ids]
               \/ readOf' = [readOf EXCEPT ![c.row] = readOf[c.row] \ c.ids]
    BY <2>1 DEF ProgressCarried, CarryUndone
  <2>2. CASE \/ (\E t \in Titles : Walk(t)) \/ DetailAnswered \/ OpenPicker \/ Unbind
             \/ (\E n \in 0..1 : SaveNote(n)) \/ RestorePreviousSource \/ HonourMarker
             \/ (\E n \in Reported : RecordCarried(n)) \/ (\E s \in Copies : BindTo(s))
             \/ (\E c \in carried : UndoCarry(c)) \/ CarryAsked \/ UNCHANGED detailVars
    BY <2>2 DEF Walk, DetailAnswered, OpenPicker, Unbind, SaveNote, RestorePreviousSource,
                HonourMarker, RecordCarried, BindTo, UndoCarry, CarryAsked, rowVars, detailVars
  <2>3. ASSUME NEW c \in calls, NEW ok \in BOOLEAN,
               \/ Saved(c, ok) \/ NoteSaved(c, ok) \/ BindingDropped(c, ok) \/ MovedOff(c, ok)
               \/ PreviousRestored(c, ok) \/ \E list \in ChapterLists : Switched(c, list)
        PROVE  readOf' = readOf
    BY <2>3 DEF Saved, NoteSaved, BindingDropped, MovedOff, PreviousRestored, Switched
  <2>4. CASE \E list \in ChapterLists : ListAnswered(list)
    BY <2>4 DEF ListAnswered
  <2> QED  BY <2>1, <2>2, <2>3, <2>4 DEF DetailNext
<1> QED  BY <1>1 DEF MarksTyped

LEMMA DetailMove == DetailSound /\ [DetailNext]_detailVars => DetailSound'
BY NoteMove, RequestsMove, MarksMove DEF DetailSound

(* What a change of source marks or takes back, what Discover's marker     *)
(* takes away and what is written off.                                     *)
LEMMA PlaceKeptNext == DetailSound /\ [DetailNext]_detailVars => DetailKeepsPlace
<1> SUFFICES ASSUME DetailSound, [DetailNext]_detailVars PROVE DetailKeepsPlace
  OBVIOUS
<1>1. ASSUME UNCHANGED <<readOf, emptied>>,
             \A c \in calls \ calls' : c.kind = "move" => chaptersOf'[c.title] # {}
      PROVE  DetailKeepsPlace
  BY <1>1 DEF DetailKeepsPlace
<1>2. CASE \/ (\E t \in Titles : Walk(t)) \/ DetailAnswered \/ OpenPicker \/ Unbind
           \/ (\E n \in 0..1 : SaveNote(n)) \/ RestorePreviousSource
           \/ (\E n \in Reported : RecordCarried(n)) \/ (\E s \in Copies : BindTo(s))
           \/ (\E c \in carried : UndoCarry(c)) \/ UNCHANGED detailVars
  BY <1>1, <1>2 DEF Walk, DetailAnswered, OpenPicker, Unbind, SaveNote, RestorePreviousSource,
                    RecordCarried, BindTo, UndoCarry, rowVars, detailVars
<1>3. CASE HonourMarker \/ CarryAsked
  BY <1>1, <1>3 DEF HonourMarker, CarryAsked, rowVars
<1>4. ASSUME NEW c \in calls, NEW ok \in BOOLEAN,
             Saved(c, ok) \/ NoteSaved(c, ok) \/ BindingDropped(c, ok) \/ PreviousRestored(c, ok)
      PROVE  DetailKeepsPlace
  BY <1>1, <1>4 DEF Saved, NoteSaved, BindingDropped, PreviousRestored
<1>5. ASSUME NEW c \in calls, NEW list \in ChapterLists, Switched(c, list)
      PROVE  DetailKeepsPlace
  <2>1. /\ UNCHANGED <<readOf, emptied>> /\ c.kind = "switch"
        /\ calls \ calls' \subseteq {c}
    BY <1>5 DEF Switched
  <2> QED  BY <1>1, <2>1
<1>6. ASSUME NEW c \in calls, NEW ok \in BOOLEAN, MovedOff(c, ok) PROVE DetailKeepsPlace
  <2>1. /\ UNCHANGED <<readOf, emptied>> /\ calls \ calls' \subseteq {c}
        /\ c.kind = "move" /\ chaptersOf' = chaptersOf
    BY <1>6 DEF MovedOff
  <2>2. chaptersOf[c.title] # {}
    BY <2>1 DEF DetailSound, RequestsSound, RequestSound
  <2> QED  BY <1>1, <2>1, <2>2
<1>7. ASSUME NEW list \in ChapterLists, ListAnswered(list) PROVE DetailKeepsPlace
  <2> DEFINE have == IF chaptersOf[Active] = {} THEN list ELSE chaptersOf[Active]
  <2>1. /\ chaptersOf' = [chaptersOf EXCEPT ![Active] = have]
        /\ readOf' = readOf /\ calls' = calls
        /\ emptied' = IF boundId = Unbound /\ have = {} THEN emptied \cup {id} ELSE emptied
    BY <1>7 DEF ListAnswered
  <2>2. boundId = Unbound => chaptersOf'[id] = have
    BY <2>1 DEF DetailSound, NoteSound, RequestsSound, Active, AllRows
  <2>3. \A t \in emptied' \ emptied : chaptersOf'[t] = {}
    BY <2>1, <2>2
  <2> QED  BY <2>1, <2>3 DEF DetailKeepsPlace
<1>8. ASSUME NEW c \in calls, NEW ok \in BOOLEAN, ProgressCarried(c, ok) PROVE DetailKeepsPlace
  <2>1. /\ c.kind = "carry" /\ calls \ calls' = {c} /\ emptied' = emptied
        /\ readOf' = IF ok THEN [readOf EXCEPT ![c.row] = @ \cup c.ids] ELSE readOf
    BY <1>8 DEF ProgressCarried
  <2>2. \A n \in c.ids : 0 < n /\ n <= c.upTo
    BY <2>1 DEF DetailSound, RequestsSound, RequestSound
  <2>3. \A r \in AllRows : /\ \A n \in readOf'[r] \ readOf[r] : c.row = r /\ n \in c.ids
                           /\ readOf[r] \ readOf'[r] = {}
    BY <2>1 DEF DetailSound, MarksTyped
  <2> QED  BY <2>1, <2>2, <2>3 DEF DetailKeepsPlace
<1>9. ASSUME NEW c \in calls, NEW ok \in BOOLEAN, CarryUndone(c, ok) PROVE DetailKeepsPlace
  <2>1. /\ c.kind = "undo" /\ calls \ calls' = {c} /\ emptied' = emptied
        /\ readOf' = IF ok THEN [readOf EXCEPT ![c.row] = @ \ c.ids] ELSE readOf
    BY <1>9 DEF CarryUndone
  <2>2. \A r \in AllRows : /\ \A n \in readOf[r] \ readOf'[r] : c.row = r /\ n \in c.ids
                           /\ readOf'[r] \ readOf[r] = {}
    BY <2>1 DEF DetailSound, MarksTyped
  <2> QED  BY <2>1, <2>2 DEF DetailKeepsPlace
<1> QED  BY <1>2, <1>3, <1>4, <1>5, <1>6, <1>7, <1>8, <1>9 DEF DetailNext

-----------------------------------------------------------------------------
(* The jobs of the library page.                                           *)

(* Chapters are numbers, whoever remembers them.                           *)
ViewSound(v) ==
    /\ v = [bound |-> v.bound, listed |-> v.listed, read |-> v.read, record |-> v.record,
            library |-> v.library]
    /\ \A s \in Sources : v.read[s] \subseteq Chapters
    /\ \A m \in Mangas : v.record[m] \in Nat

ListsTyped ==
    /\ listed \in [Sources -> SUBSET Chapters] /\ read \in [Sources -> SUBSET Chapters]
    /\ record \in [Mangas -> Nat]
    /\ ViewSound(seen)

SyncSound ==
    /\ sync = [on |-> sync.on, snap |-> sync.snap, left |-> sync.left, got |-> sync.got,
               clearing |-> sync.clearing]
    /\ sync.on => ViewSound(sync.snap)
    /\ sync.got \in [Mangas -> Nat]
    /\ sync.clearing \subseteq Sources

(* A move is about one title at a time.                                    *)
BatchSound ==
    /\ batch = [kind |-> batch.kind, snap |-> batch.snap, left |-> batch.left, at |-> batch.at,
                chapters |-> batch.chapters, found |-> batch.found]
    /\ batch.chapters \subseteq Chapters
    /\ batch.kind = "migrate" => batch.at = "next" \/ \E r : batch.found = {r}

SweepTyped ==
    sweep = [on |-> sweep.on, known |-> sweep.known, left |-> sweep.left, found |-> sweep.found]

JobsSound == ListsTyped /\ SyncSound /\ BatchSound /\ SweepTyped

LEMMA ViewTyped ==
  ASSUME listed \in [Sources -> SUBSET Chapters], read \in [Sources -> SUBSET Chapters],
         record \in [Mangas -> Nat]
  PROVE  ViewSound(View)
BY DEF ViewSound, View

LEMMA NumbersTyped == LastChapter \in Nat /\ Unpulled \in Nat /\ Numbers \subseteq Nat /\ Lists \subseteq SUBSET Chapters
BY ShelvesAssumption DEF Unpulled, Chapters

LEMMA JobsStart == LibraryInit => JobsSound
<1> SUFFICES ASSUME LibraryInit PROVE JobsSound
  OBVIOUS
<1>1. PICK list \in Lists : listed = [s \in Sources |-> list]
  BY DEF LibraryInit
<1>2. listed \in [Sources -> SUBSET Chapters]
  BY <1>1, NumbersTyped
<1>3. read = [s \in Sources |-> listed[s] \ {0}] /\ record \in [Mangas -> Nat] /\ seen = View
  BY DEF LibraryInit
<1>4. read \in [Sources -> SUBSET Chapters]
  BY <1>2, <1>3
<1>5. ListsTyped
  BY <1>2, <1>3, <1>4, ViewTyped DEF ListsTyped
<1>6. SyncSound /\ BatchSound /\ SweepTyped
  BY NumbersTyped DEF LibraryInit, IdleSync, IdleBatch, IdleSweep, SyncSound, BatchSound, SweepTyped
<1> QED  BY <1>5, <1>6 DEF JobsSound

(* What a step may do to the lists and to what the page has of them.       *)
LEMMA ListsMove == JobsSound /\ [LibraryNext]_libraryVars => ListsTyped'
<1> SUFFICES ASSUME JobsSound, [LibraryNext]_libraryVars PROVE ListsTyped'
  OBVIOUS
<1>0. ListsTyped
  BY DEF JobsSound
<1>1. ASSUME UNCHANGED <<listed, read, record>>, seen' = seen \/ seen' = View
      PROVE  ListsTyped'
  BY <1>0, <1>1, ViewTyped DEF ListsTyped
<1>2. ASSUME listed' \in [Sources -> SUBSET Chapters], read' \in [Sources -> SUBSET Chapters],
             record' \in [Mangas -> Nat], seen' = seen
      PROVE  ListsTyped'
  BY <1>0, <1>2 DEF ListsTyped
<1>3. CASE Elsewhere
  <2>1. /\ listed' = listed /\ record' = record /\ seen' = seen
        /\ \/ read' = read
           \/ \E s \in Sources : \E n \in listed[s] :
                 read' = [read EXCEPT ![s] = IF n \in read[s] THEN read[s] \ {n}
                                             ELSE read[s] \cup {n}]
    BY <1>3 DEF Elsewhere
  <2>2. read' \in [Sources -> SUBSET Chapters]
    BY <1>0, <2>1 DEF ListsTyped
  <2> QED  BY <1>0, <1>2, <2>1, <2>2 DEF ListsTyped
<1>4. CASE LibraryAnswers \/ UnreadAnswers \/ SweepDone
  <2>0. ViewSound(seen)
    BY <1>0 DEF ListsTyped
  <2>1. UNCHANGED <<listed, read, record>> /\ ViewSound(seen')
    <3>1. CASE LibraryAnswers
      <4>1. UNCHANGED <<listed, read, record>>
        BY <3>1 DEF LibraryAnswers, quietVars, serverVars
      <4> DEFINE records == [m \in Mangas |-> IF m \in Entries THEN record[m]
                                              ELSE seen.record[m]]
      <4>2. seen' = [bound |-> bound, listed |-> seen.listed, read |-> seen.read,
                     record |-> records, library |-> library]
        BY <2>0, <3>1 DEF LibraryAnswers, ViewSound
      <4>3. \A m \in Mangas : records[m] \in Nat
        BY <1>0, <2>0 DEF ListsTyped, ViewSound
      <4> HIDE DEF records
      <4> QED  BY <2>0, <4>1, <4>2, <4>3 DEF ViewSound
    <3>2. CASE UnreadAnswers
      <4>1. UNCHANGED <<listed, read, record>>
        BY <3>2 DEF UnreadAnswers, quietVars, serverVars
      <4> DEFINE records == [m \in Mangas |-> IF m \in Sources THEN record[m]
                                              ELSE seen.record[m]]
      <4>2. seen' = [bound |-> seen.bound, listed |-> listed, read |-> read,
                     record |-> records, library |-> seen.library]
        BY <2>0, <3>2 DEF UnreadAnswers, ViewSound
      <4>3. \A m \in Mangas : records[m] \in Nat
        BY <1>0, <2>0 DEF ListsTyped, ViewSound
      <4> HIDE DEF records
      <4> QED  BY <1>0, <4>1, <4>2, <4>3 DEF ViewSound, ListsTyped
    <3>3. CASE SweepDone
      <4>1. UNCHANGED <<listed, read, record>>
        BY <3>3 DEF SweepDone, quietVars, serverVars
      <4>2. seen' = [bound |-> seen.bound, listed |-> listed, read |-> read,
                     record |-> seen.record, library |-> seen.library]
        BY <2>0, <3>3 DEF SweepDone, ViewSound
      <4> QED  BY <1>0, <2>0, <4>1, <4>2 DEF ViewSound, ListsTyped
    <3> QED  BY <1>4, <3>1, <3>2, <3>3
  <2> QED  BY <1>0, <2>1 DEF ListsTyped, ViewSound
<1>6. ASSUME NEW m \in Mangas, NEW n \in Numbers \cup {Unpulled}, RecordPulled(m, n)
      PROVE  ListsTyped'
  <2>1. record' \in [Mangas -> Nat]
    BY <1>0, <1>6, NumbersTyped DEF RecordPulled, ListsTyped
  <2> QED  BY <1>0, <1>2, <1>6, <2>1 DEF RecordPulled, ListsTyped
<1>7. ASSUME NEW s \in Sources, RollBackToTracker(s) PROVE ListsTyped'
  <2>1. read' \in [Sources -> SUBSET Chapters]
    BY <1>0, <1>7 DEF RollBackToTracker, ListsTyped
  <2> QED  BY <1>0, <1>2, <1>7, <2>1 DEF RollBackToTracker, ListsTyped
<1>8. ASSUME NEW s \in Sources, NEW list \in Lists, SourceSwept(s, list) PROVE ListsTyped'
  <2>1. listed' \in [Sources -> SUBSET Chapters] /\ read' \in [Sources -> SUBSET Chapters]
    BY <1>0, <1>8, NumbersTyped DEF SourceSwept, ListsTyped
  <2> QED  BY <1>0, <1>2, <1>8, <2>1 DEF SourceSwept, ListsTyped
<1>9. CASE \/ RefreshTracking \/ CheckForNewChapters \/ LeaveSelection
           \/ (\E e \in Entries : ToggleSelected(e)) \/ (\E s \in Sources : SweepFailed(s))
           \/ BatchRefused \/ MatchesShown \/ (\E r \in matches : ToggleMigrateRow(r))
           \/ UNCHANGED libraryVars
  BY <1>1, <1>9 DEF RefreshTracking, CheckForNewChapters, LeaveSelection, ToggleSelected,
                    SweepFailed, BatchRefused, MatchesShown, ToggleMigrateRow, quietVars,
                    serverVars, libraryVars
<1>10. CASE SyncDone \/ RemoveSelected \/ FileSelected \/ BatchDone
  BY <1>1, <1>10 DEF SyncDone, RemoveSelected, FileSelected, BatchDone, BatchOver, quietVars,
                     serverVars
<1>11. CASE \E kind \in {"remove", "file", "catchup", "find", "migrate"} : StartBatch(kind)
  BY <1>1, <1>11 DEF StartBatch, serverVars
<1>12. ASSUME NEW r \in batch.left, NEW ok \in BOOLEAN, CaughtUp(r, ok) PROVE ListsTyped'
  <2>1. /\ UNCHANGED <<listed, record, seen>>
        /\ read' = read \/ \E s \in Sources : \E new : read' = [read EXCEPT ![s] = @ \cup (new \cap listed[s])]
    BY <1>12 DEF CaughtUp
  <2>2. read' \in [Sources -> SUBSET Chapters]
    BY <1>0, <2>1 DEF ListsTyped
  <2> QED  BY <1>0, <1>2, <2>1, <2>2 DEF ListsTyped
<1>13. ASSUME NEW r \in batch.left, NEW ok \in BOOLEAN, BindingMoved(r, ok) PROVE ListsTyped'
  BY <1>1, <1>13 DEF BindingMoved
<1>14. ASSUME NEW r \in batch.left,
              NoMatchFound(r) \/ \E m \in Sources \cup {r.entry}, sure \in BOOLEAN : MatchFound(r, m, sure)
       PROVE  ListsTyped'
  BY <1>1, <1>14 DEF MatchFound, NoMatchFound, quietVars, serverVars
<1>15. ASSUME NEW r \in batch.found, NEW list \in Lists, MovedListed(r, list) PROVE ListsTyped'
  <2>1. /\ UNCHANGED <<record, seen>>
        /\ listed' \in [Sources -> SUBSET Chapters] /\ read' \in [Sources -> SUBSET Chapters]
    BY <1>0, <1>15, NumbersTyped DEF MovedListed, ListsTyped
  <2> QED  BY <1>0, <1>2, <2>1 DEF ListsTyped
<1>16. ASSUME NEW r \in batch.found, MovedUnlisted(r) PROVE ListsTyped'
  BY <1>1, <1>16 DEF MovedUnlisted, quietVars, serverVars
<1>17. ASSUME NEW r \in batch.found, NEW ok \in BOOLEAN, MovedMarked(r, ok) PROVE ListsTyped'
  <2>1. /\ UNCHANGED <<listed, record, seen>>
        /\ read' \in [Sources -> SUBSET Chapters]
    BY <1>0, <1>17 DEF MovedMarked, ListsTyped
  <2> QED  BY <1>0, <1>2, <2>1 DEF ListsTyped
<1> QED  BY <1>3, <1>4, <1>6, <1>7, <1>8, <1>9, <1>10, <1>11, <1>12, <1>13, <1>14, <1>15,
            <1>16, <1>17 DEF LibraryNext


(* Which steps move which of the three jobs.                               *)
SyncStep == \/ RefreshTracking \/ SyncDone
            \/ \E m \in Mangas, n \in Numbers \cup {Unpulled} : RecordPulled(m, n)
            \/ \E s \in Sources : RollBackToTracker(s)

SweepStep == \/ CheckForNewChapters \/ SweepDone
             \/ \E s \in Sources : SweepFailed(s)
             \/ \E s \in Sources, list \in Lists : SourceSwept(s, list)

BatchStep ==
    \/ \E kind \in {"remove", "file", "catchup", "find", "migrate"} : StartBatch(kind)
    \/ RemoveSelected \/ FileSelected \/ BatchRefused \/ BatchDone \/ MatchesShown
    \/ \E r \in batch.left :
          \/ \E ok \in BOOLEAN : CaughtUp(r, ok) \/ BindingMoved(r, ok)
          \/ \E m \in Sources \cup {r.entry}, sure \in BOOLEAN : MatchFound(r, m, sure)
          \/ NoMatchFound(r)
    \/ \E r \in batch.found :
          \/ \E list \in Lists : MovedListed(r, list)
          \/ MovedUnlisted(r)
          \/ \E ok \in BOOLEAN : MovedMarked(r, ok)

LEMMA JobsApart ==
  ASSUME [LibraryNext]_libraryVars
  PROVE  \/ SyncStep /\ UNCHANGED <<batch, sweep, listed>>
         \/ SweepStep /\ UNCHANGED <<batch, sync>>
         \/ BatchStep /\ UNCHANGED <<sync, sweep>>
         \/ UNCHANGED <<sync, sweep, batch>>
<1>1. CASE SyncStep
  BY <1>1 DEF SyncStep, RefreshTracking, SyncDone, RecordPulled, RollBackToTracker, quietVars,
              serverVars
<1>2. CASE SweepStep
  BY <1>2 DEF SweepStep, CheckForNewChapters, SweepDone, SweepFailed, SourceSwept
<1>3. CASE BatchStep
  <2>1. CASE \/ \E kind \in {"remove", "file", "catchup", "find", "migrate"} : StartBatch(kind)
             \/ RemoveSelected \/ FileSelected \/ BatchRefused \/ BatchDone \/ MatchesShown
    BY <2>1, <1>3 DEF StartBatch, RemoveSelected, FileSelected, BatchRefused, BatchDone, MatchesShown
  <2>2. CASE \E r \in batch.left :
                \/ \E ok \in BOOLEAN : CaughtUp(r, ok) \/ BindingMoved(r, ok)
                \/ \E m \in Sources \cup {r.entry}, sure \in BOOLEAN : MatchFound(r, m, sure)
                \/ NoMatchFound(r)
    BY <2>2, <1>3 DEF CaughtUp, BindingMoved, MatchFound, NoMatchFound
  <2>3. CASE \E r \in batch.found :
                \/ \E list \in Lists : MovedListed(r, list)
                \/ MovedUnlisted(r)
                \/ \E ok \in BOOLEAN : MovedMarked(r, ok)
    BY <2>3, <1>3 DEF MovedListed, MovedUnlisted, MovedMarked
  <2> QED  BY <1>3, <2>1, <2>2, <2>3 DEF BatchStep
<1>4. CASE \/ Elsewhere \/ LibraryAnswers \/ UnreadAnswers \/ LeaveSelection
           \/ (\E e \in Entries : ToggleSelected(e)) \/ (\E r \in matches : ToggleMigrateRow(r))
           \/ UNCHANGED libraryVars
  BY <1>4 DEF Elsewhere, LibraryAnswers, UnreadAnswers, LeaveSelection, ToggleSelected,
              ToggleMigrateRow, libraryVars
<1> QED  BY <1>1, <1>2, <1>3, <1>4 DEF LibraryNext, SyncStep, SweepStep, BatchStep

LEMMA SyncMove == JobsSound /\ [LibraryNext]_libraryVars => SyncSound'
<1> SUFFICES ASSUME JobsSound, [LibraryNext]_libraryVars PROVE SyncSound'
  OBVIOUS
<1>0. SyncSound /\ ListsTyped
  BY DEF JobsSound
<1>1. CASE sync' = sync
  BY <1>0, <1>1 DEF SyncSound, ViewSound
<1>2. CASE RefreshTracking
  <2>1. sync' = [on |-> TRUE, snap |-> seen, left |-> seen.library \cup ReadSourcesOf(seen),
                 got |-> [m \in Mangas |-> Unpulled], clearing |-> ReadSourcesOf(seen)]
    BY <1>2 DEF RefreshTracking
  <2>2. ReadSourcesOf(seen) \subseteq Sources
    BY DEF ReadSourcesOf
  <2> QED  BY <1>0, <2>1, <2>2, NumbersTyped DEF SyncSound, ListsTyped, ViewSound
<1>3. CASE SyncDone
  <2>1. sync' = IdleSync
    BY <1>3 DEF SyncDone
  <2> QED  BY <2>1, NumbersTyped DEF SyncSound, IdleSync
<1>4. ASSUME NEW m \in Mangas, NEW n \in Numbers \cup {Unpulled}, RecordPulled(m, n)
      PROVE  SyncSound'
  <2>1. sync' = [on |-> sync.on, snap |-> sync.snap, left |-> sync.left \ {m},
                 got |-> [sync.got EXCEPT ![m] = n], clearing |-> sync.clearing]
    BY <1>0, <1>4 DEF RecordPulled, SyncSound
  <2>2. n \in Nat
    BY NumbersTyped
  <2> QED  BY <1>0, <2>1, <2>2 DEF SyncSound, ViewSound
<1>5. ASSUME NEW s \in Sources, RollBackToTracker(s) PROVE SyncSound'
  <2>1. sync' = [on |-> sync.on, snap |-> sync.snap, left |-> sync.left,
                 got |-> sync.got, clearing |-> sync.clearing \ {s}]
    BY <1>0, <1>5 DEF RollBackToTracker, SyncSound
  <2> QED  BY <1>0, <2>1 DEF SyncSound, ViewSound
<1> QED  BY <1>1, <1>2, <1>3, <1>4, <1>5, JobsApart DEF SyncStep

LEMMA SweepMove == JobsSound /\ [LibraryNext]_libraryVars => SweepTyped'
<1> SUFFICES ASSUME JobsSound, [LibraryNext]_libraryVars PROVE SweepTyped'
  OBVIOUS
<1>1. SweepTyped
  BY DEF JobsSound
<1>2. SweepStep => SweepTyped'
  BY <1>1 DEF SweepStep, CheckForNewChapters, SweepDone, SweepFailed, SourceSwept, SweepTyped,
              IdleSweep
<1> QED  BY <1>1, <1>2, JobsApart DEF SweepTyped

LEMMA BatchMove == JobsSound /\ [LibraryNext]_libraryVars => BatchSound'
<1> SUFFICES ASSUME JobsSound, [LibraryNext]_libraryVars PROVE BatchSound'
  OBVIOUS
<1>0. BatchSound /\ ListsTyped
  BY DEF JobsSound
<1>1. CASE batch' = batch
  BY <1>0, <1>1 DEF BatchSound
<1>2. CASE batch' = IdleBatch
  BY <1>2 DEF BatchSound, IdleBatch
<1>3. CASE RemoveSelected \/ FileSelected \/ BatchRefused \/ BatchDone \/ MatchesShown
  BY <1>2, <1>3 DEF RemoveSelected, FileSelected, BatchRefused, BatchDone, MatchesShown, BatchOver
<1>4. CASE \E kind \in {"remove", "file", "catchup", "find", "migrate"} : StartBatch(kind)
  BY <1>4 DEF StartBatch, IdleBatch, BatchSound
<1>5. ASSUME NEW r \in batch.left, NEW ok \in BOOLEAN, CaughtUp(r, ok) PROVE BatchSound'
  BY <1>0, <1>5 DEF CaughtUp, BatchSound
<1>6. ASSUME NEW r \in batch.left, NEW ok \in BOOLEAN, BindingMoved(r, ok) PROVE BatchSound'
  BY <1>0, <1>6 DEF BindingMoved, BatchSound
<1>7. ASSUME NEW r \in batch.left,
             NoMatchFound(r) \/ \E m \in Sources \cup {r.entry}, sure \in BOOLEAN : MatchFound(r, m, sure)
      PROVE  BatchSound'
  BY <1>0, <1>7 DEF NoMatchFound, MatchFound, BatchSound
<1>8. ASSUME NEW r \in batch.found, NEW list \in Lists, MovedListed(r, list) PROVE BatchSound'
  BY <1>0, <1>8, NumbersTyped DEF MovedListed, BatchSound
<1>9. ASSUME NEW r \in batch.found, NEW ok \in BOOLEAN, MovedUnlisted(r) \/ MovedMarked(r, ok)
      PROVE  BatchSound'
  BY <1>0, <1>9 DEF MovedUnlisted, MovedMarked, BatchSound
<1> QED  BY <1>1, <1>3, <1>4, <1>5, <1>6, <1>7, <1>8, <1>9, JobsApart DEF BatchStep

LEMMA JobsMove == JobsSound /\ [LibraryNext]_libraryVars => JobsSound'
BY ListsMove, SyncMove, BatchMove, SweepMove DEF JobsSound

(* What refreshing takes back, what a move marks and what a sweep shows.   *)
LEMMA LibraryKeepsNext == JobsSound /\ [LibraryNext]_libraryVars => LibraryKeepsPlace
<1> SUFFICES ASSUME JobsSound, [LibraryNext]_libraryVars PROVE LibraryKeepsPlace
  OBVIOUS
<1>0. ListsTyped /\ SyncSound /\ BatchSound /\ SweepTyped
  BY DEF JobsSound
<1>1. ASSUME NEW s \in Sources, sync.on, sync'.clearing = sync.clearing \ {s},
             s \in sync.clearing, NEW n \in read[s] \ read'[s]
      PROVE  n \in sync.snap.read[s] /\ Synced(s) \in 1..(n - 1)
  <2>1. sync' # sync
    BY <1>1
  <2>2. ~RefreshTracking /\ ~SyncDone
    BY <1>1 DEF RefreshTracking, SyncDone, Idle
  <2>3. ASSUME NEW m \in Mangas, NEW k \in Numbers \cup {Unpulled}, RecordPulled(m, k)
        PROVE  sync'.clearing = sync.clearing
    BY <1>0, <2>3 DEF RecordPulled, SyncSound
  <2>4. PICK t \in Sources : RollBackToTracker(t)
    BY <1>1, <2>1, <2>2, <2>3, JobsApart DEF SyncStep
  <2>5. sync'.clearing = sync.clearing \ {t} /\ t \in sync.clearing
    BY <1>0, <2>4 DEF RollBackToTracker, SyncSound
  <2>6. t = s
    BY <1>1, <2>5
  <2>7. read' = [read EXCEPT ![s] = read[s] \ Stale(s)]
    BY <2>4, <2>6 DEF RollBackToTracker
  <2>8. n \in Stale(s)
    BY <1>0, <1>1, <2>7 DEF ListsTyped
  <2>9. n \in sync.snap.read[s] /\ n > Synced(s) /\ Synced(s) # 0
    BY <2>8 DEF Stale
  <2>10. s \in Mangas /\ n \in Nat
    BY <1>0, <1>1 DEF Mangas, ListsTyped, Chapters
  <2>11. Synced(s) \in Nat
    BY <1>0, <1>1, <2>10 DEF Synced, SyncSound, ViewSound
  <2> QED  BY <2>9, <2>10, <2>11
<1>2. ASSUME batch.kind = "migrate", batch.at = "mark", batch' # batch, read' # read,
             NEW r \in batch.found, NEW s \in Sources, NEW n \in batch.chapters \cap listed[s]
      PROVE  IF s = r.match /\ 0 < n /\ n <= ReadThrough(batch.snap, r.entry)
             THEN n \in read'[s] ELSE n \in read[s] \/ n \notin read'[s]
  <2>1. BatchStep
    BY <1>2, JobsApart
  <2>2. ~(\/ \E kind \in {"remove", "file", "catchup", "find", "migrate"} : StartBatch(kind)
          \/ RemoveSelected \/ FileSelected \/ BatchRefused \/ BatchDone \/ MatchesShown)
    BY <1>2 DEF StartBatch, Idle, RemoveSelected, FileSelected, BatchRefused, BatchDone,
                MatchesShown, quietVars, serverVars
  <2>3. ASSUME NEW q \in batch.left
        PROVE  ~(\/ \E ok \in BOOLEAN : CaughtUp(q, ok) \/ BindingMoved(q, ok)
                 \/ \E m \in Sources \cup {q.entry}, sure \in BOOLEAN : MatchFound(q, m, sure)
                 \/ NoMatchFound(q))
    BY <1>2 DEF CaughtUp, BindingMoved, MatchFound, NoMatchFound
  <2>4. PICK q \in batch.found, ok \in BOOLEAN : MovedMarked(q, ok)
    BY <1>2, <2>1, <2>2, <2>3 DEF BatchStep, MovedListed, MovedUnlisted
  <2>5. q = r
    BY <1>0, <1>2 DEF BatchSound
  <2>6. r.match \in Sources /\ read' = [read EXCEPT ![r.match] = read[r.match] \cup
                                                              (Carried(r) \cap listed[r.match])]
    BY <1>2, <2>4, <2>5 DEF MovedMarked
  <2>7. n \in Nat
    BY <1>0, <1>2 DEF BatchSound, Chapters
  <2>8. n \in Carried(r) <=> 0 < n /\ n <= ReadThrough(batch.snap, r.entry)
    BY <1>2, <2>7 DEF Carried
  <2>9. read'[s] = IF s = r.match THEN read[s] \cup (Carried(r) \cap listed[s]) ELSE read[s]
    BY <1>0, <2>6 DEF ListsTyped
  <2> QED  BY <1>2, <2>8, <2>9
<1>3. CASE UNCHANGED sweep
  <2>1. /\ \A f \in sweep'.found \ sweep.found : f[2] \in listed'[f[1]] \ sweep.known[f[1]]
        /\ sweep.left \ sweep'.left = {}
    BY <1>3
  <2> QED  BY <1>1, <1>2, <2>1 DEF LibraryKeepsPlace
<1>4. CASE CheckForNewChapters \/ SweepDone \/ \E s \in Sources : SweepFailed(s)
  <2>1. listed' = listed /\ sweep'.found \subseteq sweep.found
    BY <1>0, <1>4 DEF CheckForNewChapters, SweepDone, SweepFailed, IdleSweep, SweepTyped,
                      quietVars, serverVars
  <2> QED  BY <1>1, <1>2, <2>1 DEF LibraryKeepsPlace
<1>5. ASSUME NEW s \in Sources, NEW list \in Lists, SourceSwept(s, list)
      PROVE  LibraryKeepsPlace
  <2>1. sweep'.left = sweep.left \ {s} /\ sweep'.found = sweep.found \cup ({s} \X Fresh(s))
    BY <1>0, <1>5 DEF SourceSwept, SweepTyped
  <2>2. Fresh(s) = listed'[s] \ sweep.known[s]
    BY DEF Fresh
  <2>3. \A f \in sweep'.found \ sweep.found : f[2] \in listed'[f[1]] \ sweep.known[f[1]]
    BY <2>1, <2>2
  <2>4. \A t \in sweep.left \ sweep'.left :
           \A n \in listed'[t] \ sweep.known[t] : <<t, n>> \in sweep'.found
    BY <2>1, <2>2
  <2> QED  BY <1>1, <1>2, <2>3, <2>4 DEF LibraryKeepsPlace
<1> QED  BY <1>3, <1>4, <1>5, JobsApart DEF SweepStep

-----------------------------------------------------------------------------
(* Asking every catalogue at once.                                         *)

(* The run that counts is of the query swept for; nothing else is drawn,   *)
(* and unless a query was gone back to, what is drawn is one answer of     *)
(* each catalogue that has been asked and waits no longer.                 *)
RunShape(r) == r = [id |-> r.id, search |-> r.search, left |-> r.left, scope |-> r.scope,
                    good |-> r.good, bad |-> r.bad]

RunsSound ==
    /\ runId \in Nat /\ outcomes \in [Searches -> [Catalogues -> Nat]]
    /\ \A r \in runs :
          /\ RunShape(r)
          /\ r.id \in Nat /\ r.id <= runId /\ r.search \in Searches
          /\ r.id = runId => r.search = sweptFor
          /\ r.left \subseteq Catalogues /\ (r.scope = "top" => r.left \subseteq Top)
    /\ \A r1, r2 \in runs : r1.id = r2.id => r1 = r2

DrawnSound ==
    /\ \A q \in Searches \ {sweptFor}, c \in Catalogues : outcomes[q][c] = 0
    /\ everyone /\ search # NoSearch => sweptFor = search
    /\ finding => \E r \in runs : r.id = runId
    /\ search \in Searches \cup {NoSearch} /\ everyone \in BOOLEAN

SavedSound ==
    /\ saved = [search |-> saved.search, scope |-> saved.scope, outcomes |-> saved.outcomes,
                hits |-> saved.hits]
    /\ saved.outcomes \in [Searches -> [Catalogues -> Nat]]
    /\ \A q \in Searches \ {saved.search}, c \in Catalogues : saved.outcomes[q][c] = 0
    /\ saved.scope = "all" /\ ~returned =>
          \A c \in Catalogues : saved.outcomes[saved.search][c] = 1

OnceEach ==
    ~returned => \A r \in runs :
        r.search = sweptFor =>
           /\ r.id = runId
           /\ \A c \in Catalogues : outcomes[r.search][c] =
                 IF c \in r.left \/ (r.scope = "top" /\ c \in Rest) THEN 0 ELSE 1

SweepSound == RunsSound /\ DrawnSound /\ SavedSound /\ OnceEach

LEMMA SweepStart == SweepInit => SweepSound
BY SweepAssumption DEF SweepInit, SweepSound, RunsSound, DrawnSound, SavedSound, OnceEach, NoOutcomes, Unsaved

(* A run that is begun on a clean page.                                    *)
LEMMA SweptSound ==
  ASSUME SweepSound, NEW q \in Searches \cup {NoSearch}, NEW all \in BOOLEAN, Swept(q, all),
         search' = q, everyone' = all, saved' = saved
  PROVE  SweepSound'
<1> USE DEF SweepSound
<1>1. CASE ~all \/ q = NoSearch \/ sweptFor = q
  <2>1. UNCHANGED <<sweptFor, runId, runs, outcomes, hits, finding, returned>>
    BY <1>1 DEF Swept
  <2>2. RunsSound' /\ OnceEach'
    BY <2>1 DEF RunsSound, OnceEach
  <2>3. SavedSound'
    BY <2>1 DEF SavedSound
  <2>4. DrawnSound'
    BY <1>1, <2>1 DEF DrawnSound
  <2> QED  BY <2>2, <2>3, <2>4
<1>2. CASE ~(~all \/ q = NoSearch \/ sweptFor = q)
  <2>1. sweptFor' = q /\ returned' = (returned \/ \E r \in runs : r.search = q)
    BY <1>2 DEF Swept
  <2>2. SavedSound'
    BY <2>1 DEF SavedSound
  <2>3. CASE IsSaved(q)
    <3>1. runId' = runId + 1 /\ runs' = runs /\ outcomes' = saved.outcomes /\ finding' = FALSE
      BY <1>2, <2>3 DEF Swept
    <3>2. RunsSound'
      BY <3>1 DEF RunsSound, SavedSound
    <3>3. DrawnSound'
      BY <1>2, <2>1, <2>3, <3>1 DEF DrawnSound, SavedSound, IsSaved
    <3>4. OnceEach'
      BY <2>1, <3>1 DEF OnceEach
    <3> QED  BY <2>2, <3>2, <3>3, <3>4
  <2>4. CASE ~IsSaved(q)
    <3> DEFINE new == Run(runId + 1, q, Top, IF Rest = {} THEN "all" ELSE "top")
    <3>1. runId' = runId + 1 /\ runs' = runs \cup {new} /\ outcomes' = NoOutcomes
          /\ finding' = TRUE
      BY <1>2, <2>4 DEF Swept, Starting
    <3>2. /\ new = [id |-> runId + 1, search |-> q, left |-> Top,
                    scope |-> IF Rest = {} THEN "all" ELSE "top", good |-> FALSE, bad |-> FALSE]
      BY DEF Run
    <3> HIDE DEF new
    <3>3. NoOutcomes \in [Searches -> [Catalogues -> Nat]]
          /\ \A p \in Searches, c \in Catalogues : NoOutcomes[p][c] = 0
      BY DEF NoOutcomes
    <3>4. RunsSound'
      <4>1. q \in Searches /\ Top \subseteq Catalogues /\ runId \in Nat
        BY <1>2 DEF Catalogues, RunsSound
      <4>2. \A r \in runs : r.id \in Nat /\ r.id <= runId
        BY DEF RunsSound
      <4>3. \A r1, r2 \in runs' : r1.id = r2.id => r1 = r2
        <5>1. new.id = runId + 1
          BY <3>2
        <5>2. \A r1, r2 \in runs : r1.id = r2.id => r1 = r2
          BY DEF RunsSound
        <5> QED  BY <3>1, <4>1, <4>2, <5>1, <5>2
      <4>4. \A r \in runs : r.id \in Nat /\ r.id <= runId' /\ r.id # runId'
        BY <3>1, <4>1, <4>2
      <4>5. \A r \in runs :
              /\ RunShape(r)
              /\ r.search \in Searches
              /\ r.left \subseteq Catalogues /\ (r.scope = "top" => r.left \subseteq Top)
        BY DEF RunsSound
      <4>6. /\ RunShape(new)
            /\ new.id \in Nat /\ new.id <= runId' /\ new.search \in Searches
            /\ new.search = sweptFor' /\ new.left \subseteq Catalogues /\ new.left \subseteq Top
        BY <2>1, <3>1, <3>2, <4>1 DEF RunShape
      <4>7. runId' \in Nat /\ outcomes' \in [Searches -> [Catalogues -> Nat]]
        BY <3>1, <3>3, <4>1
      <4> QED  BY <3>1, <4>3, <4>4, <4>5, <4>6, <4>7 DEF RunsSound
    <3>5. DrawnSound'
      BY <1>2, <2>1, <3>1, <3>2, <3>3 DEF DrawnSound
    <3>6. OnceEach'
      BY <1>2, <2>1, <3>1, <3>2, <3>3 DEF OnceEach, Catalogues
    <3> QED  BY <2>2, <3>4, <3>5, <3>6
  <2> QED  BY <2>3, <2>4
<1> QED  BY <1>1, <1>2

LEMMA AnswerSound ==
  ASSUME SweepSound, NEW r \in runs, NEW c \in r.left, NEW good \in BOOLEAN,
         CatalogueAnswered(r, c, good)
  PROVE  SweepSound'
<1> DEFINE g == r.good \/ good
           b == r.bad \/ ~good
           new == [r EXCEPT !.left = @ \ {c}, !.good = g, !.bad = b]
<1>0. RunsSound /\ DrawnSound /\ SavedSound /\ OnceEach
  BY DEF SweepSound
<1>1. /\ runs' = (runs \ {r}) \cup {new}
      /\ UNCHANGED <<search, everyone, sweptFor, runId, finding, saved, returned>>
      /\ Drawn(r, c, good)
  BY DEF CatalogueAnswered
<1>2. new = [id |-> r.id, search |-> r.search, left |-> r.left \ {c}, scope |-> r.scope,
             good |-> g, bad |-> b]
  <2>1. r = [id |-> r.id, search |-> r.search, left |-> r.left, scope |-> r.scope,
             good |-> r.good, bad |-> r.bad]
    BY <1>0 DEF RunsSound, RunShape
  <2> HIDE DEF g, b
  <2> DEFINE waits == [r EXCEPT !.left = @ \ {c}]
  <2>2. waits = [id |-> r.id, search |-> r.search, left |-> r.left \ {c}, scope |-> r.scope,
                 good |-> r.good, bad |-> r.bad]
    BY <2>1
  <2>3. new = [waits EXCEPT !.good = g, !.bad = b]
    OBVIOUS
  <2> HIDE DEF waits, new
  <2> QED  BY <2>2, <2>3
<1> HIDE DEF new, g, b
<1>4. r.search \in Searches /\ c \in Catalogues /\ (r.id = runId => r.search = sweptFor)
  BY <1>0 DEF RunsSound
<1>5. /\ outcomes' \in [Searches -> [Catalogues -> Nat]]
      /\ \A q \in Searches, k \in Catalogues :
            q # r.search \/ k # c \/ r.id # runId => outcomes'[q][k] = outcomes[q][k]
      /\ r.id = runId => outcomes'[r.search][c] = outcomes[r.search][c] + 1
  <2>1. CASE r.id # runId
    BY <1>0, <1>1, <2>1 DEF RunsSound, Drawn
  <2>2. CASE r.id = runId
    <3>1. outcomes' = [outcomes EXCEPT ![r.search][c] = @ + 1]
      BY <1>1, <2>2 DEF Drawn
    <3> QED  BY <1>0, <1>4, <2>2, <3>1 DEF RunsSound
  <2> QED  BY <2>1, <2>2
<1>6. RunsSound'
  <2>1. \A r1, r2 \in runs' : r1.id = r2.id => r1 = r2
    <3>1. new.id = r.id
      BY <1>2
    <3>2. \A r1, r2 \in runs : r1.id = r2.id => r1 = r2
      BY <1>0 DEF RunsSound
    <3> QED  BY <1>1, <3>1, <3>2
  <2>2. /\ RunShape(new)
        /\ new.id = r.id /\ new.search = r.search /\ new.scope = r.scope
        /\ new.left \subseteq r.left
    BY <1>2 DEF RunShape
  <2>3. \A p \in runs :
          /\ RunShape(p)
          /\ p.id \in Nat /\ p.id <= runId /\ p.search \in Searches
          /\ p.id = runId => p.search = sweptFor
          /\ p.left \subseteq Catalogues /\ (p.scope = "top" => p.left \subseteq Top)
    BY <1>0 DEF RunsSound
  <2>4. runId \in Nat
    BY <1>0 DEF RunsSound
  <2> QED  BY <1>1, <1>5, <2>1, <2>2, <2>3, <2>4 DEF RunsSound
<1>7. DrawnSound'
  <2>1. \A q \in Searches \ {sweptFor}, k \in Catalogues : outcomes'[q][k] = 0
    BY <1>0, <1>4, <1>5 DEF DrawnSound
  <2>2. finding => \E p \in runs' : p.id = runId
    BY <1>0, <1>1, <1>2 DEF DrawnSound
  <2> QED  BY <1>0, <1>1, <2>1, <2>2 DEF DrawnSound
<1>8. SavedSound'
  BY <1>0, <1>1 DEF SavedSound
<1>9. OnceEach'
  <2> SUFFICES ASSUME ~returned, NEW p \in runs', p.search = sweptFor
               PROVE  /\ p.id = runId
                      /\ \A k \in Catalogues : outcomes'[p.search][k] =
                            IF k \in p.left \/ (p.scope = "top" /\ k \in Rest) THEN 0 ELSE 1
    BY <1>1 DEF OnceEach
  <2>1. CASE p = new
    <3>1. r.search = sweptFor /\ r.id = runId /\ p.id = runId /\ p.search = r.search
      BY <1>0, <1>2, <2>1 DEF OnceEach
    <3>2. \A k \in Catalogues : outcomes[r.search][k] =
             IF k \in r.left \/ (r.scope = "top" /\ k \in Rest) THEN 0 ELSE 1
      BY <1>0, <3>1 DEF OnceEach
    <3>3. r.scope = "top" => c \notin Rest
      BY <1>0, SweepAssumption DEF RunsSound
    <3>4. p.left = r.left \ {c} /\ p.scope = r.scope
      BY <1>2, <2>1
    <3>5. outcomes'[r.search][c] = 1
      BY <1>4, <1>5, <3>1, <3>2
    <3>6. \A k \in Catalogues \ {c} : outcomes'[r.search][k] = outcomes[r.search][k]
      BY <1>4, <1>5
    <3> QED  BY <3>1, <3>2, <3>3, <3>4, <3>5, <3>6
  <2>2. CASE p # new
    <3>1. p \in runs /\ p # r
      BY <1>1, <2>2
    <3>2. p.id = runId
      BY <1>0, <3>1 DEF OnceEach
    <3>3. r.id # runId
      BY <1>0, <3>1, <3>2 DEF RunsSound
    <3>4. p.search \in Searches
      BY <1>0, <3>1 DEF RunsSound
    <3> QED  BY <1>0, <1>5, <3>1, <3>2, <3>3, <3>4 DEF OnceEach
  <2> QED  BY <2>1, <2>2
<1> QED  BY <1>6, <1>7, <1>8, <1>9 DEF SweepSound

LEMMA FinishSound ==
  ASSUME SweepSound, NEW r \in runs, Finished(r)
  PROVE  SweepSound'
<1>0. RunsSound /\ DrawnSound /\ SavedSound /\ OnceEach
  BY DEF SweepSound
<1>1. /\ r.left = {} /\ UNCHANGED <<search, everyone, sweptFor, outcomes, returned>>
      /\ \/ saved' = saved
         \/ r.id = runId /\ saved' = [search |-> r.search, scope |-> r.scope,
                                      outcomes |-> outcomes, hits |-> hits]
  BY DEF Finished
<1>2. SavedSound'
  <2>1. CASE saved' = saved
    BY <1>0, <1>1, <2>1 DEF SavedSound
  <2>2. CASE r.id = runId /\ saved' = [search |-> r.search, scope |-> r.scope,
                                       outcomes |-> outcomes, hits |-> hits]
    <3>1. r.search = sweptFor
      BY <1>0, <2>2 DEF RunsSound
    <3>2. r.scope = "all" /\ ~returned => \A c \in Catalogues : outcomes[r.search][c] = 1
      BY <1>0, <1>1, <3>1 DEF OnceEach
    <3> QED  BY <1>0, <1>1, <2>2, <3>1, <3>2 DEF SavedSound, RunsSound, DrawnSound
  <2> QED  BY <1>1, <2>1, <2>2
<1>3. CASE r.scope = "top" /\ sweptFor = r.search /\ Rest # {}
  <2> DEFINE new == Run(runId + 1, r.search, Rest, "all")
  <2>1. runId' = runId + 1 /\ runs' = (runs \ {r}) \cup {new} /\ finding' = TRUE
    BY <1>3 DEF Finished
  <2>2. new = [id |-> runId + 1, search |-> r.search, left |-> Rest, scope |-> "all",
               good |-> FALSE, bad |-> FALSE]
    BY DEF Run
  <2> HIDE DEF new
  <2>3. RunsSound'
    <3>1. r.search \in Searches /\ Rest \subseteq Catalogues /\ runId \in Nat
      BY <1>0 DEF Catalogues, RunsSound
    <3>2. \A p \in runs :
            /\ RunShape(p)
            /\ p.id \in Nat /\ p.id <= runId /\ p.id # runId + 1 /\ p.search \in Searches
            /\ p.left \subseteq Catalogues /\ (p.scope = "top" => p.left \subseteq Top)
      BY <1>0 DEF RunsSound
    <3>3. \A r1, r2 \in runs' : r1.id = r2.id => r1 = r2
      <4>1. new.id = runId + 1
        BY <2>2
      <4>2. \A r1, r2 \in runs : r1.id = r2.id => r1 = r2
        BY <1>0 DEF RunsSound
      <4>3. \A p \in runs : p.id # runId + 1
        BY <3>2
      <4> QED  BY <2>1, <4>1, <4>2, <4>3
    <3>4. /\ RunShape(new)
          /\ new.id = runId + 1 /\ new.search = r.search /\ new.scope = "all"
          /\ new.left \subseteq Catalogues
      BY <2>2, <3>1 DEF RunShape
    <3>5. runId' \in Nat /\ outcomes' \in [Searches -> [Catalogues -> Nat]]
      BY <1>0, <1>1, <2>1, <3>1 DEF RunsSound
    <3> QED  BY <1>1, <1>3, <2>1, <3>1, <3>2, <3>3, <3>4, <3>5 DEF RunsSound
  <2>4. DrawnSound'
    BY <1>0, <1>1, <2>1, <2>2 DEF DrawnSound
  <2>5. OnceEach'
    <3> SUFFICES ASSUME ~returned, NEW p \in runs', p.search = sweptFor
                 PROVE  /\ p.id = runId'
                        /\ \A k \in Catalogues : outcomes[p.search][k] =
                              IF k \in p.left \/ (p.scope = "top" /\ k \in Rest) THEN 0 ELSE 1
      BY <1>1 DEF OnceEach
    <3>1. \A k \in Catalogues : outcomes[r.search][k] = IF k \in Rest THEN 0 ELSE 1
      BY <1>0, <1>1, <1>3 DEF OnceEach
    <3>2. p = new
      BY <1>0, <1>3, <2>1 DEF OnceEach, RunsSound
    <3> QED  BY <2>1, <2>2, <3>1, <3>2
  <2> QED  BY <1>2, <2>3, <2>4, <2>5 DEF SweepSound
<1>4. CASE ~(r.scope = "top" /\ sweptFor = r.search /\ Rest # {})
  <2>1. runId' = runId /\ runs' = runs \ {r} /\ finding' = (finding /\ r.id # runId)
    BY <1>4 DEF Finished
  <2>2. RunsSound' /\ OnceEach'
    BY <1>0, <1>1, <2>1 DEF RunsSound, OnceEach
  <2>3. DrawnSound'
    BY <1>0, <1>1, <2>1 DEF DrawnSound
  <2> QED  BY <1>2, <2>2, <2>3 DEF SweepSound
<1> QED  BY <1>3, <1>4

LEMMA CataloguesMove == SweepSound /\ [SweepNext]_sweepVars => SweepSound'
<1> SUFFICES ASSUME SweepSound, [SweepNext]_sweepVars PROVE SweepSound'
  OBVIOUS
<1>1. ASSUME NEW q \in Searches \cup {NoSearch}, Submit(q) PROVE SweepSound'
  <2>1. everyone \in BOOLEAN
    BY DEF SweepSound, DrawnSound
  <2>2. Swept(q, everyone) /\ search' = q /\ everyone' = everyone /\ saved' = saved
    BY <1>1 DEF Submit
  <2> QED  BY <2>1, <2>2, SweptSound
<1>2. CASE ToggleEveryone
  <2>1. search \in Searches \cup {NoSearch} /\ everyone \in BOOLEAN
    BY DEF SweepSound, DrawnSound
  <2>2. Swept(search, everyone') /\ search' = search /\ everyone' = ~everyone /\ saved' = saved
    BY <1>2 DEF ToggleEveryone
  <2> DEFINE all == ~everyone
  <2>3. all \in BOOLEAN /\ Swept(search, all) /\ everyone' = all
    BY <2>2
  <2> HIDE DEF all
  <2> QED  BY <2>1, <2>2, <2>3, SweptSound
<1>3. ASSUME NEW r \in runs, Finished(r) PROVE SweepSound'
  BY <1>3, FinishSound
<1>4. ASSUME NEW r \in runs, NEW c \in r.left, NEW good \in BOOLEAN, CatalogueAnswered(r, c, good)
      PROVE  SweepSound'
  BY <1>4, AnswerSound
<1>5. CASE UNCHANGED sweepVars
  BY <1>5 DEF sweepVars, SweepSound, RunsSound, DrawnSound, SavedSound, OnceEach
<1> QED  BY <1>1, <1>2, <1>3, <1>4, <1>5 DEF SweepNext

LEMMA SweepHolds == SweepSound => SweepIsSound
BY DEF SweepSound, DrawnSound, SavedSound, SweepIsSound

-----------------------------------------------------------------------------
(* The Sources page.                                                       *)

(* Unless an answer was lost, a switch has been carried out that the page  *)
(* will hear of, or every list on its way back is the account's, and the   *)
(* one on screen too unless another is out.                                *)
AnswerDue == \E r \in sends : r.served /\ r.kind \in {"install", "uninstall"}

ListsFresh ==
    /\ \A q \in queries : q.state = "back" => q.rows = switchedOn
    /\ tab.heard /\ queries = {} => tab.rows = switchedOn

RequestForms ==
    [kind : {"install", "uninstall"}, extension : Extensions, number : Nat, served : BOOLEAN]
    \cup [kind : {"fetch", "connect"}, extension : {"none"}, number : Nat, served : BOOLEAN]
AskingForms == [state : {"sent", "back"}, rows : SUBSET Extensions, number : Nat]
TabForms == [heard : BOOLEAN, rows : SUBSET Extensions, browsing : BOOLEAN,
             busyId : Extensions \cup {"none"}, catalogueBusy : BOOLEAN]

RowsTyped == /\ sends \subseteq RequestForms /\ queries \subseteq AskingForms
             /\ tab \in TabForms /\ switchedOn \subseteq Extensions
             /\ presses \in Nat /\ unheard \in BOOLEAN

RowsSound == RowsTyped /\ (~unheard => AnswerDue \/ ListsFresh)

LEMMA RowsStart == SourcesInit => RowsSound
<1> SUFFICES ASSUME SourcesInit PROVE RowsSound
  OBVIOUS
<1>1. /\ switchedOn \subseteq Extensions /\ presses = 0 /\ sends = {} /\ unheard = FALSE
      /\ tab = [heard |-> FALSE, rows |-> {}, browsing |-> FALSE, busyId |-> "none",
                catalogueBusy |-> FALSE]
      /\ queries = {} \/ queries = {[state |-> "sent", rows |-> {}, number |-> 0]}
  BY DEF SourcesInit, Asking
<1>2. RowsTyped
  <2>1. tab \in TabForms
    BY <1>1 DEF TabForms
  <2>2. [state |-> "sent", rows |-> {}, number |-> 0] \in AskingForms
    BY DEF AskingForms
  <2>3. queries \subseteq AskingForms
    BY <1>1, <2>2
  <2> QED  BY <1>1, <2>1, <2>3 DEF RowsTyped
<1>3. ListsFresh
  BY <1>1 DEF ListsFresh
<1> QED  BY <1>2, <1>3 DEF RowsSound

LEMMA RowsTypedMove == RowsTyped /\ [SourcesNext]_sourcesVars => RowsTyped'
<1> SUFFICES ASSUME RowsTyped, [SourcesNext]_sourcesVars PROVE RowsTyped'
  OBVIOUS
<1>0. presses' = presses \/ presses' = presses + 1 => presses' \in Nat
  BY DEF RowsTyped
<1>1. ASSUME NEW e \in Extensions, NEW action \in {"install", "uninstall"}, Act(e, action)
      PROVE  RowsTyped'
  <2>1. /\ sends' = sends \cup {Request(action, e)} /\ tab' = [tab EXCEPT !.busyId = e]
        /\ presses' = presses + 1 /\ UNCHANGED <<switchedOn, queries, unheard>>
    BY <1>1 DEF Act, Pressed
  <2>2. Request(action, e) \in RequestForms
    BY DEF Request, RequestForms, RowsTyped
  <2>3. tab' \in TabForms
    BY <2>1 DEF RowsTyped, TabForms
  <2> QED  BY <1>0, <2>1, <2>2, <2>3 DEF RowsTyped
<1>2. CASE RefreshCatalogue
  <2>1. /\ sends' = sends \cup {Request("fetch", "none")} \/ sends' = sends \cup {Request("connect", "none")}
        /\ tab' = [tab EXCEPT !.catalogueBusy = TRUE]
        /\ presses' = presses + 1 /\ UNCHANGED <<switchedOn, queries, unheard>>
    BY <1>2 DEF RefreshCatalogue, Pressed
  <2>2. Request("fetch", "none") \in RequestForms /\ Request("connect", "none") \in RequestForms
    BY DEF Request, RequestForms, RowsTyped
  <2>3. tab' \in TabForms
    BY <2>1 DEF RowsTyped, TabForms
  <2> QED  BY <1>0, <2>1, <2>2, <2>3 DEF RowsTyped
<1>3. CASE Browse
  BY <1>3 DEF Browse, RowsTyped, TabForms
<1>4. ASSUME NEW r \in sends, Served(r) PROVE RowsTyped'
  <2>1. /\ sends' = (sends \ {r}) \cup {[r EXCEPT !.served = TRUE]}
        /\ switchedOn' \in {switchedOn \cup {r.extension}, switchedOn \ {r.extension}, switchedOn}
        /\ r.kind \notin {"install", "uninstall"} => switchedOn' = switchedOn
        /\ UNCHANGED <<tab, queries, unheard, presses>>
    BY <1>4 DEF Served
  <2>2. [r EXCEPT !.served = TRUE] \in RequestForms
    BY DEF RowsTyped, RequestForms
  <2>3. switchedOn' \subseteq Extensions
    <3>1. r.extension \in Extensions \/ r.kind \notin {"install", "uninstall"}
      BY DEF RowsTyped, RequestForms
    <3> QED  BY <2>1, <3>1 DEF RowsTyped
  <2> QED  BY <2>1, <2>2, <2>3 DEF RowsTyped
<1>5. ASSUME NEW r PROVE RowsAfter(r) \in TabForms
  BY DEF RowsAfter, RowsTyped, TabForms
<1>6. Asking("sent", {}) \in AskingForms
  BY DEF Asking, AskingForms, RowsTyped
<1>7. ASSUME NEW r \in sends, Answered(r) \/ Refused(r) PROVE RowsTyped'
  <2>1. /\ sends' \subseteq sends /\ tab' = RowsAfter(r)
        /\ queries' = queries \/ queries' = {Asking("sent", {})}
        /\ unheard' \in BOOLEAN /\ UNCHANGED <<switchedOn, presses>>
    BY <1>7 DEF Answered, Refused, RowsTyped
  <2> QED  BY <1>5, <1>6, <2>1 DEF RowsTyped
<1>8. ASSUME NEW r \in sends, Connected(r) PROVE RowsTyped'
  <2>1. /\ sends' = (sends \ {r}) \cup {[r EXCEPT !.kind = "fetch", !.served = FALSE]}
        /\ queries' = queries \cup {Asking("sent", {})}
        /\ UNCHANGED <<tab, switchedOn, unheard, presses>>
    BY <1>8 DEF Connected
  <2>2. [r EXCEPT !.kind = "fetch", !.served = FALSE] \in RequestForms
    BY <1>8 DEF Connected, RowsTyped, RequestForms
  <2> QED  BY <1>6, <2>1, <2>2 DEF RowsTyped
<1>9. ASSUME NEW q \in queries, QueryServed(q) PROVE RowsTyped'
  <2>1. [q EXCEPT !.state = "back", !.rows = switchedOn] \in AskingForms
    BY DEF RowsTyped, AskingForms
  <2> QED  BY <1>9, <2>1 DEF QueryServed, RowsTyped
<1>10. ASSUME NEW q \in queries, QuerySettles(q) PROVE RowsTyped'
  <2>1. /\ queries' \subseteq queries /\ UNCHANGED <<switchedOn, sends, unheard, presses>>
        /\ \/ tab' = [tab EXCEPT !.heard = TRUE, !.rows = q.rows]
           \/ tab' = [tab EXCEPT !.heard = FALSE, !.rows = {}]
    BY <1>10 DEF QuerySettles
  <2>2. q.rows \subseteq Extensions
    BY DEF RowsTyped, AskingForms
  <2>3. tab' \in TabForms
    BY <2>1, <2>2 DEF RowsTyped, TabForms
  <2> QED  BY <2>1, <2>3 DEF RowsTyped
<1>11. CASE \/ \E s \in DOMAIN FilterLists : SelectSource(s) \/ OpenSaved(s) \/ NewBuild(s)
            \/ BrowseSource \/ SearchEverywhere \/ FiltersAnswered
            \/ ToggleFilters \/ ClearFilters
            \/ \E worded \in BOOLEAN : SubmitSearch(worded) \/ ApplyFilters(worded)
            \/ \E path \in SettablePaths(SourceFilters) : SetFilterAt(path)
            \/ UNCHANGED sourcesVars
  <2>1. UNCHANGED extensionVars /\ (presses' = presses \/ presses' = presses + 1)
    BY <1>11 DEF SelectSource, OpenSaved, NewBuild, BrowseSource, SearchEverywhere,
                 FiltersAnswered, ToggleFilters, ClearFilters, SubmitSearch, ApplyFilters,
                 SetFilterAt, Choose, Pressed, sourcesVars
  <2> QED  BY <1>0, <2>1 DEF RowsTyped, extensionVars
<1> QED  BY <1>1, <1>2, <1>3, <1>4, <1>7, <1>8, <1>9, <1>10, <1>11 DEF SourcesNext

LEMMA RowsMove == RowsSound /\ [SourcesNext]_sourcesVars => RowsSound'
<1> SUFFICES ASSUME RowsSound, [SourcesNext]_sourcesVars PROVE (~unheard => AnswerDue \/ ListsFresh)'
  BY RowsTypedMove DEF RowsSound
<1>0. RowsTyped /\ (~unheard => AnswerDue \/ ListsFresh)
  BY DEF RowsSound
<1>1. ASSUME sends \subseteq sends', ListsFresh => ListsFresh', unheard' = unheard
      PROVE  (~unheard => AnswerDue \/ ListsFresh)'
  BY <1>0, <1>1 DEF AnswerDue
<1>2. CASE UNCHANGED extensionVars
  BY <1>1, <1>2 DEF extensionVars, ListsFresh
<1>3. CASE \/ (\E e \in Extensions, action \in {"install", "uninstall"} : Act(e, action))
           \/ RefreshCatalogue \/ Browse
  <2>1. /\ sends \subseteq sends' /\ UNCHANGED <<switchedOn, queries, unheard>>
        /\ tab'.heard = tab.heard /\ tab'.rows = tab.rows
    BY <1>0, <1>3 DEF Act, RefreshCatalogue, Browse, RowsTyped, TabForms
  <2> QED  BY <1>1, <2>1 DEF ListsFresh
<1>4. ASSUME NEW r \in sends, Served(r) PROVE (~unheard => AnswerDue \/ ListsFresh)'
  <2>1. /\ sends' = (sends \ {r}) \cup {[r EXCEPT !.served = TRUE]} /\ ~r.served
        /\ r.kind \notin {"install", "uninstall"} => switchedOn' = switchedOn
        /\ UNCHANGED <<tab, queries, unheard>>
    BY <1>4 DEF Served
  <2>2. r \in RequestForms
    BY <1>0 DEF RowsTyped
  <2>3. /\ [r EXCEPT !.served = TRUE].served = TRUE /\ [r EXCEPT !.served = TRUE].kind = r.kind
    BY <2>2 DEF RequestForms
  <2>4. CASE r.kind \in {"install", "uninstall"}
    BY <2>1, <2>3, <2>4 DEF AnswerDue
  <2>5. CASE r.kind \notin {"install", "uninstall"}
    <3>1. AnswerDue => AnswerDue'
      BY <2>1, <2>5 DEF AnswerDue
    <3>2. ListsFresh => ListsFresh'
      BY <2>1, <2>5 DEF ListsFresh
    <3>3. unheard' = unheard
      BY <2>1
    <3> QED  BY <1>0, <3>1, <3>2, <3>3
  <2> QED  BY <2>4, <2>5
<1>5. ASSUME NEW r \in sends, Answered(r) PROVE (~unheard => AnswerDue \/ ListsFresh)'
  <2>1. queries' = {Asking("sent", {})}
    BY <1>5 DEF Answered
  <2>2. Asking("sent", {}).state # "back"
    BY DEF Asking
  <2>3. ListsFresh'
    BY <2>1, <2>2 DEF ListsFresh
  <2> QED  BY <2>3
<1>6. ASSUME NEW r \in sends, Connected(r) PROVE (~unheard => AnswerDue \/ ListsFresh)'
  <2>1. /\ sends' = (sends \ {r}) \cup {[r EXCEPT !.kind = "fetch", !.served = FALSE]}
        /\ queries' = queries \cup {Asking("sent", {})} /\ r.kind = "connect"
        /\ UNCHANGED <<tab, switchedOn, unheard>>
    BY <1>6 DEF Connected
  <2>2. AnswerDue => AnswerDue'
    BY <2>1 DEF AnswerDue
  <2>3. ListsFresh => ListsFresh'
    BY <2>1 DEF ListsFresh, Asking
  <2> QED  BY <1>0, <2>1, <2>2, <2>3
<1>7. ASSUME NEW r \in sends, Refused(r) PROVE (~unheard => AnswerDue \/ ListsFresh)'
  <2>1. /\ sends' = sends \ {r} /\ UNCHANGED <<switchedOn, queries>>
        /\ tab' = RowsAfter(r) /\ unheard' = (unheard \/ r.served)
    BY <1>7 DEF Refused
  <2>2. tab'.heard = tab.heard /\ tab'.rows = tab.rows
    BY <1>0, <2>1 DEF RowsAfter, RowsTyped, TabForms
  <2>3. CASE r.served
    BY <2>1, <2>3
  <2>4. CASE ~r.served
    <3>1. AnswerDue => AnswerDue'
      BY <2>1, <2>4 DEF AnswerDue
    <3>2. ListsFresh => ListsFresh'
      BY <2>1, <2>2 DEF ListsFresh
    <3> QED  BY <1>0, <2>1, <2>4, <3>1, <3>2
  <2> QED  BY <2>3, <2>4
<1>8. ASSUME NEW q \in queries, QueryServed(q) PROVE (~unheard => AnswerDue \/ ListsFresh)'
  <2> DEFINE new == [q EXCEPT !.state = "back", !.rows = switchedOn]
  <2>1. queries' = (queries \ {q}) \cup {new} /\ UNCHANGED <<switchedOn, tab, sends, unheard>>
    BY <1>8 DEF QueryServed
  <2>2. new.rows = switchedOn
    BY <1>0 DEF RowsTyped, AskingForms
  <2> HIDE DEF new
  <2> QED  BY <1>1, <2>1, <2>2 DEF ListsFresh
<1>9. ASSUME NEW q \in queries, QuerySettles(q) PROVE (~unheard => AnswerDue \/ ListsFresh)'
  <2>1. /\ queries' = queries \ {q} /\ UNCHANGED <<switchedOn, sends, unheard>>
        /\ \/ q.state = "back" /\ tab'.rows = q.rows
           \/ ~tab'.heard
    BY <1>0, <1>9 DEF QuerySettles, RowsTyped, TabForms
  <2>2. ASSUME ListsFresh PROVE ListsFresh'
    <3>1. \A p \in queries' : p.state = "back" => p.rows = switchedOn'
      BY <2>1, <2>2 DEF ListsFresh
    <3>2. CASE q.state = "back" /\ tab'.rows = q.rows
      <4>1. tab'.rows = switchedOn'
        BY <2>1, <2>2, <3>2 DEF ListsFresh
      <4> QED  BY <3>1, <4>1 DEF ListsFresh
    <3>3. CASE ~tab'.heard
      BY <3>1, <3>3 DEF ListsFresh
    <3> QED  BY <2>1, <3>2, <3>3
  <2> QED  BY <1>1, <2>1, <2>2
<1>10. CASE \/ \E s \in DOMAIN FilterLists : SelectSource(s) \/ OpenSaved(s) \/ NewBuild(s)
            \/ BrowseSource \/ SearchEverywhere \/ FiltersAnswered
            \/ ToggleFilters \/ ClearFilters
            \/ \E worded \in BOOLEAN : SubmitSearch(worded) \/ ApplyFilters(worded)
            \/ \E path \in SettablePaths(SourceFilters) : SetFilterAt(path)
            \/ UNCHANGED sourcesVars
  BY <1>2, <1>10 DEF SelectSource, OpenSaved, NewBuild, BrowseSource, SearchEverywhere,
                 FiltersAnswered, ToggleFilters, ClearFilters, SubmitSearch, ApplyFilters,
                 SetFilterAt, Choose, sourcesVars
<1> QED  BY <1>3, <1>4, <1>5, <1>6, <1>7, <1>8, <1>9, <1>10 DEF SourcesNext

LEMMA RowsHold == RowsSound => SourcesAreListed
BY DEF RowsSound, AnswerDue, ListsFresh, SourcesAreListed

-----------------------------------------------------------------------------
(* What is kept per title.                                                 *)

TitleOrNone == Shelf \cup {NoTitle}
OverPushes == [part : {"over"}, manga : Shelf, values : Overrides, base : Overrides,
               names : SUBSET Names]
ZoomPushes == [part : {"zoom"}, manga : Shelf, values : Zooms, base : Zooms,
               names : SUBSET Layouts]
HeldForms == [manga : TitleOrNone, values : Overrides]
StoreForms == [held : HeldForms, adopted : TitleOrNone, named : SUBSET Names,
               owed : {Nothing} \cup OverPushes, mirror : HeldForms,
               answer : [manga : TitleOrNone, over : Overrides],
               picked : Overrides, told : Overrides]
ZoomForms == [adopted : TitleOrNone, levels : Zooms, owed : {Nothing} \cup ZoomPushes,
              base : Zooms, names : SUBSET Layouts]

(* What a push changes of the answer it was made from was chosen here.     *)
PushSound(p) == \A n \in DOMAIN p.values : p.values[n] # p.base[n] => n \in p.names

(* A title held as adopted is held as it was answered but for the names    *)
(* chosen here, and what was picked is held, and told or owed once the     *)
(* title has been adopted.                                                 *)
AnswerKept(s) ==
    s.adopted # NoTitle =>
       /\ s.adopted = s.held.manga /\ s.answer.manga = s.adopted
       /\ \A n \in Names : s.held.values[n] # s.answer.over[n] => n \in s.named

PicksHeld(s) ==
    \A n \in Names : s.picked[n] # Unpicked =>
       n \in s.named /\ s.held.values[n] = s.picked[n] /\ s.held.manga # NoTitle

PicksTold(s) ==
    s.adopted # NoTitle =>
       \A n \in Names : s.picked[n] # Unpicked =>
          \/ s.picked[n] \in {s.told[n], s.answer.over[n]}
          \/ s.owed # Nothing /\ s.owed.manga = s.held.manga /\ s.owed.values[n] = s.picked[n]

(* Nothing is owed of a title that has not been adopted, and what is owed  *)
(* of the title held is what was last picked.                              *)
OwedLast(s) ==
    /\ s.adopted = NoTitle => s.owed = Nothing
    /\ s.owed # Nothing /\ s.owed.manga = s.held.manga =>
          \A n \in Names : s.picked[n] # Unpicked => s.owed.values[n] = s.picked[n]

StoreSound(s) ==
    /\ s \in StoreForms
    /\ s.owed # Nothing => PushSound(s.owed)
    /\ AnswerKept(s) /\ PicksHeld(s) /\ PicksTold(s) /\ OwedLast(s)

ZoomSound ==
    /\ zooming \in ZoomForms
    /\ zooming.owed # Nothing => PushSound(zooming.owed)
    /\ zooming.adopted = showing =>
          \A l \in Layouts : zooming.levels[l] # zooming.base[l] => l \in zooming.names

RowsKept ==
    /\ row \in [Shelf -> Rows]
    /\ cached \in [Shelf -> [fresh : BOOLEAN, data : Rows]]
    /\ showing \in TitleOrNone
    /\ sending \subseteq OverPushes \cup ZoomPushes
    /\ \A p \in sending : PushSound(p)

OverridesSound ==
    /\ RowsKept /\ StoreSound(store) /\ ZoomSound
    /\ showing # NoTitle => store.adopted \in {NoTitle, showing}

LEMMA NothingIsNothing == NoneOver \in Overrides /\ AllFit \in Zooms /\ Nothing.manga = NoTitle
BY OverridesAssumption DEF NoneOver, Overrides, AllFit, Zooms, Nothing

LEMMA OverridesStart == OverridesInit => OverridesSound
<1> SUFFICES ASSUME OverridesInit PROVE OverridesSound
  OBVIOUS
<1>1. PICK m \in Shelf, values \in Overrides : store = EmptyStore([manga |-> m, values |-> values])
  BY DEF OverridesInit
<1>2. store = [held |-> [manga |-> m, values |-> values], adopted |-> NoTitle, named |-> {},
               owed |-> Nothing, mirror |-> [manga |-> m, values |-> values],
               answer |-> [manga |-> NoTitle, over |-> NoneOver], picked |-> NoneOver,
               told |-> NoneOver]
  BY <1>1 DEF EmptyStore
<1>3. [manga |-> m, values |-> values] \in HeldForms
  BY DEF HeldForms, TitleOrNone
<1>4. [manga |-> NoTitle, over |-> NoneOver] \in [manga : TitleOrNone, over : Overrides]
  BY NothingIsNothing DEF TitleOrNone
<1>5. store \in StoreForms
  BY <1>2, <1>3, <1>4, NothingIsNothing DEF StoreForms, TitleOrNone
<1>6. StoreSound(store)
  BY <1>2, <1>5 DEF StoreSound, AnswerKept, PicksHeld, PicksTold, OwedLast, NoneOver
<1>7. zooming = [adopted |-> NoTitle, levels |-> AllFit, owed |-> Nothing, base |-> AllFit,
                 names |-> {}]
  BY DEF OverridesInit
<1>8. ZoomSound
  BY <1>7, NothingIsNothing DEF ZoomSound, ZoomForms, TitleOrNone
<1>9. RowsKept
  <2>1. row \in [Shelf -> Rows]
    BY DEF OverridesInit, Rows, Zooms
  <2>2. NotCached \in [fresh : BOOLEAN, data : Rows]
    BY NothingIsNothing DEF NotCached, Rows
  <2> QED  BY <2>1, <2>2 DEF OverridesInit, RowsKept, TitleOrNone
<1>10. showing = NoTitle
  BY DEF OverridesInit
<1> QED  BY <1>6, <1>8, <1>9, <1>10 DEF OverridesSound

(* What is owed for a title that is held as adopted.                       *)
LEMMA OwedSound ==
  ASSUME NEW s \in StoreForms, s.adopted \in Shelf, AnswerKept(s)
  PROVE  /\ Schedule(s) \in StoreForms
         /\ \A f \in {"held", "adopted", "named", "mirror", "answer", "picked", "told"} :
               Schedule(s)[f] = s[f]
         /\ Schedule(s).owed \in OverPushes /\ Schedule(s).owed # Nothing
         /\ Schedule(s).owed.manga = s.held.manga /\ Schedule(s).owed.values = s.held.values
         /\ PushSound(Schedule(s).owed)
<1>1. s.adopted # NoTitle /\ s.held.manga = s.adopted /\ s.answer.manga = s.held.manga
  BY OverridesAssumption DEF AnswerKept
<1>2. Owed(s) = [part |-> "over", manga |-> s.held.manga, values |-> s.held.values,
                 base |-> s.answer.over, names |-> s.named]
  BY <1>1 DEF Owed, Push
<1>3. s.held.values \in Overrides /\ s.answer.over \in Overrides /\ s.named \in SUBSET Names
  BY DEF StoreForms, HeldForms
<1>4. Owed(s) \in OverPushes
  BY <1>1, <1>2, <1>3 DEF OverPushes
<1>5. Owed(s) # Nothing
  BY <1>1, <1>2, NothingIsNothing
<1>6. PushSound(Owed(s))
  BY <1>1, <1>2, <1>3 DEF PushSound, AnswerKept, Overrides
<1>7. Schedule(s) = [s EXCEPT !.owed = Owed(s)]
  BY DEF Schedule
<1>8. /\ Schedule(s) \in StoreForms /\ Schedule(s).owed = Owed(s)
      /\ \A f \in {"held", "adopted", "named", "mirror", "answer", "picked", "told"} :
               Schedule(s)[f] = s[f]
  BY <1>4, <1>7 DEF StoreForms
<1> QED  BY <1>2, <1>4, <1>5, <1>6, <1>8

LEMMA FlushedSound ==
  ASSUME NEW s, StoreSound(s)
  PROVE  /\ StoreSound(FlushedStore(s)) /\ FlushedStore(s).adopted = s.adopted
         /\ FlushedStore(s).held = s.held /\ FlushedStore(s).owed = Nothing
<1> DEFINE said == IF s.owed # Nothing /\ s.owed.manga = s.held.manga
                   THEN [n \in Names |-> IF s.picked[n] = Unpicked THEN Unpicked
                                         ELSE s.owed.values[n]]
                   ELSE s.told
           t == FlushedStore(s)
<1>0. s \in StoreForms
  BY DEF StoreSound
<1>1. said \in Overrides
  <2>1. s.owed # Nothing => s.owed.values \in Overrides
    BY <1>0 DEF StoreForms, OverPushes
  <2> QED  BY <1>0, <2>1 DEF StoreForms, Overrides
<1>2. t = [s EXCEPT !.owed = Nothing, !.told = said]
  BY DEF FlushedStore
<1> HIDE DEF said, t
<1>3. /\ t \in StoreForms /\ t.owed = Nothing /\ t.told = said
      /\ t.held = s.held /\ t.adopted = s.adopted /\ t.named = s.named
      /\ t.answer = s.answer /\ t.picked = s.picked
  BY <1>0, <1>1, <1>2 DEF StoreForms
<1>4. AnswerKept(t) /\ PicksHeld(t)
  BY <1>3 DEF StoreSound, AnswerKept, PicksHeld
<1>5. PicksTold(t)
  <2> SUFFICES ASSUME s.adopted # NoTitle, NEW n \in Names, s.picked[n] # Unpicked
               PROVE  s.picked[n] \in {said[n], s.answer.over[n]}
    BY <1>3 DEF PicksTold
  <2>1. \/ s.picked[n] \in {s.told[n], s.answer.over[n]}
        \/ s.owed # Nothing /\ s.owed.manga = s.held.manga /\ s.owed.values[n] = s.picked[n]
    BY DEF StoreSound, PicksTold
  <2>2. CASE s.owed # Nothing /\ s.owed.manga = s.held.manga
    <3>1. s.owed.values[n] = s.picked[n]
      BY <2>2 DEF StoreSound, OwedLast
    <3> QED  BY <2>2, <3>1 DEF said
  <2>3. CASE ~(s.owed # Nothing /\ s.owed.manga = s.held.manga)
    BY <2>1, <2>3 DEF said
  <2> QED  BY <2>2, <2>3
<1>6. OwedLast(t)
  BY <1>3 DEF OwedLast
<1> QED  BY <1>3, <1>4, <1>5, <1>6 DEF StoreSound, t

LEMMA AdoptedSound ==
  ASSUME NEW s, StoreSound(s), NEW m \in Shelf, NEW over \in Overrides
  PROVE  /\ StoreSound(Adopt(s, m, over).store) /\ Adopt(s, m, over).store.adopted = m
         /\ Adopt(s, m, over).out \subseteq OverPushes
         /\ \A p \in Adopt(s, m, over).out : PushSound(p)
<1> DEFINE merged == MergedOver(s, m, over)
           same == s.held.manga = m
           kept == IF same THEN s.picked ELSE NoneOver
           said == IF same THEN s.told ELSE NoneOver
           h == [s EXCEPT !.held = [manga |-> m, values |-> merged],
                          !.mirror = [manga |-> m, values |-> merged],
                          !.adopted = m,
                          !.answer = [manga |-> m, over |-> over],
                          !.picked = kept,
                          !.told = said]
<1>0. s \in StoreForms /\ m \in TitleOrNone /\ m # NoTitle
  BY OverridesAssumption DEF StoreSound, TitleOrNone
<1>1. ValuesFor(s, m) \in Overrides
  BY <1>0, NothingIsNothing DEF ValuesFor, StoreForms, HeldForms
<1>2. /\ merged \in Overrides
      /\ \A n \in Names : merged[n] # over[n] => n \in s.named
      /\ \A n \in Names : same /\ n \in s.named /\ s.held.values[n] # Unpicked
                            => merged[n] = s.held.values[n]
  BY <1>1 DEF MergedOver, Overrides, ValuesFor
<1>3. kept \in Overrides /\ said \in Overrides
  BY <1>0, NothingIsNothing DEF StoreForms
<1>4. Adopt(s, m, over) = IF merged = over THEN [store |-> h, out |-> {}]
                          ELSE [store |-> Schedule(h), out |-> PaidOff(h)]
  BY DEF Adopt
<1>5. \A n \in Names : kept[n] # Unpicked =>
          same /\ n \in s.named /\ s.held.values[n] = kept[n]
  BY DEF StoreSound, PicksHeld, NoneOver
<1>6. [manga |-> m, values |-> merged] \in HeldForms
      /\ [manga |-> m, over |-> over] \in [manga : TitleOrNone, over : Overrides]
  BY <1>0, <1>2 DEF HeldForms
<1> HIDE DEF merged, same, kept, said
<1>7. /\ h \in StoreForms /\ h.held = [manga |-> m, values |-> merged] /\ h.adopted = m
      /\ h.named = s.named /\ h.owed = s.owed /\ h.answer = [manga |-> m, over |-> over]
      /\ h.picked = kept /\ h.told = said
  BY <1>0, <1>3, <1>6 DEF StoreForms
<1> HIDE DEF h
<1>8. AnswerKept(h)
  BY <1>2, <1>7 DEF AnswerKept
<1>9. PicksHeld(h)
  BY <1>0, <1>2, <1>5, <1>7 DEF PicksHeld
<1>10. \A p \in PaidOff(h) : p \in OverPushes /\ PushSound(p)
  <2>1. s.owed # Nothing => s.owed \in OverPushes /\ PushSound(s.owed)
    BY <1>0 DEF StoreSound, StoreForms
  <2> QED  BY <1>7, <2>1 DEF PaidOff, Only
<1>11. CASE merged = over
  <2>1. PicksTold(h)
    BY <1>2, <1>5, <1>7, <1>11 DEF PicksTold
  <2>2. h.owed # Nothing => PushSound(h.owed)
    BY <1>7 DEF StoreSound
  <2>3. OwedLast(h)
    <3>1. (kept = s.picked /\ s.held.manga = m) \/ \A n \in Names : kept[n] = Unpicked
      BY DEF kept, same, NoneOver
    <3> QED  BY <1>0, <1>7, <3>1 DEF OwedLast, StoreSound
  <2> QED  BY <1>4, <1>7, <1>8, <1>9, <1>11, <2>1, <2>2, <2>3 DEF StoreSound
<1>12. CASE merged # over
  <2> DEFINE t == Schedule(h)
  <2>1. /\ t \in StoreForms /\ t.held = h.held /\ t.adopted = h.adopted /\ t.named = h.named
        /\ t.answer = h.answer /\ t.picked = h.picked /\ t.told = h.told
        /\ t.owed # Nothing /\ t.owed.manga = h.held.manga /\ t.owed.values = h.held.values
        /\ PushSound(t.owed)
    BY <1>7, <1>8, OwedSound
  <2> HIDE DEF t
  <2>2. AnswerKept(t) /\ PicksHeld(t)
    BY <1>8, <1>9, <2>1 DEF AnswerKept, PicksHeld
  <2>3. PicksTold(t)
    BY <1>9, <2>1 DEF PicksTold, PicksHeld
  <2>4. OwedLast(t)
    BY <1>0, <1>7, <1>9, <2>1 DEF OwedLast, PicksHeld
  <2> QED  BY <1>4, <1>7, <1>10, <1>12, <2>1, <2>2, <2>3, <2>4 DEF StoreSound, t
<1> QED  BY <1>11, <1>12

LEMMA OpenedSound ==
  ASSUME NEW s, StoreSound(s), NEW m \in Shelf
  PROVE  /\ StoreSound(Opened(s, m).store) /\ Opened(s, m).store.adopted \in {NoTitle, m}
         /\ Opened(s, m).out \subseteq OverPushes
         /\ \A p \in Opened(s, m).out : PushSound(p)
<1>0. s \in StoreForms /\ m \in TitleOrNone
  BY DEF StoreSound, TitleOrNone
<1>1. CASE s.held.manga = m /\ s.adopted = m
  <2>1. Opened(s, m).store = s /\ Opened(s, m).out = {}
    BY <1>1 DEF Opened
  <2> QED  BY <1>1, <2>1
<1>2. CASE ~(s.held.manga = m /\ s.adopted = m)
  <2> DEFINE f == FlushedStore(s)
             h == IF f.held.manga = m THEN f.held ELSE [manga |-> NoTitle, values |-> NoneOver]
             t == [f EXCEPT !.named = {}, !.adopted = NoTitle, !.held = h,
                            !.picked = NoneOver, !.told = NoneOver]
  <2>1. Opened(s, m).store = t /\ Opened(s, m).out = Only(s.owed)
    BY <1>2 DEF Opened
  <2>2. f \in StoreForms /\ f.owed = Nothing
    BY FlushedSound DEF StoreSound
  <2> HIDE DEF f
  <2>3. h \in HeldForms
    BY <2>2, NothingIsNothing DEF HeldForms, StoreForms, TitleOrNone
  <2> HIDE DEF h
  <2>4. /\ t \in StoreForms /\ t.owed = Nothing /\ t.adopted = NoTitle /\ t.picked = NoneOver
        /\ t.named = {} /\ t.held = h
    BY <2>2, <2>3, NothingIsNothing DEF StoreForms, TitleOrNone
  <2> HIDE DEF t
  <2>5. StoreSound(t)
    BY <2>4 DEF StoreSound, AnswerKept, PicksHeld, PicksTold, OwedLast, NoneOver
  <2>6. \A p \in Only(s.owed) : p \in OverPushes /\ PushSound(p)
    BY <1>0 DEF Only, StoreSound, StoreForms
  <2> QED  BY <2>1, <2>4, <2>5, <2>6
<1> QED  BY <1>1, <1>2

LEMMA PickedSound ==
  ASSUME OverridesSound, showing \in Shelf, NEW n \in Names, NEW value \in Picks
  PROVE  /\ StoreSound(PickedStore(n, value).store)
         /\ PickedStore(n, value).store.adopted = store.adopted
         /\ PickedStore(n, value).out \subseteq OverPushes
         /\ \A p \in PickedStore(n, value).out : PushSound(p)
<1> DEFINE m == showing
           same == store.held.manga = m
           values == [ValuesFor(store, m) EXCEPT ![n] = value]
           kept == IF same THEN store.picked ELSE NoneOver
           said == IF same THEN store.told ELSE NoneOver
           pick == [kept EXCEPT ![n] = value]
           h == [store EXCEPT !.held = [manga |-> m, values |-> values],
                              !.mirror = [manga |-> m, values |-> values],
                              !.named = @ \cup {n}, !.picked = pick, !.told = said]
<1>0. /\ store \in StoreForms /\ m \in TitleOrNone /\ m # NoTitle
      /\ store.adopted \in {NoTitle, m} /\ value # Unpicked
  BY OverridesAssumption DEF OverridesSound, StoreSound, TitleOrNone
<1>1. ValuesFor(store, m) = IF same THEN store.held.values ELSE NoneOver
  BY DEF ValuesFor
<1>2. kept \in Overrides /\ said \in Overrides /\ ValuesFor(store, m) \in Overrides
  BY <1>0, <1>1, NothingIsNothing DEF StoreForms, HeldForms
<1>3. PickedStore(n, value) = IF store.adopted = m THEN [store |-> Schedule(h), out |-> PaidOff(h)]
                              ELSE [store |-> h, out |-> {}]
  BY DEF PickedStore
<1>4. \A k \in Names : kept[k] # Unpicked =>
          k \in store.named /\ ValuesFor(store, m)[k] = kept[k]
  BY <1>1 DEF OverridesSound, StoreSound, PicksHeld, NoneOver
<1> HIDE DEF kept
<1>5. /\ values \in Overrides /\ pick \in Overrides
      /\ \A k \in Names : values[k] = IF k = n THEN value ELSE ValuesFor(store, m)[k]
      /\ \A k \in Names : pick[k] = IF k = n THEN value ELSE kept[k]
  BY <1>2 DEF Overrides
<1>6. [manga |-> m, values |-> values] \in HeldForms
  BY <1>0, <1>5 DEF HeldForms
<1> HIDE DEF m, same, values, said, pick
<1>7. /\ h \in StoreForms /\ h.held = [manga |-> m, values |-> values]
      /\ h.adopted = store.adopted /\ h.named = store.named \cup {n} /\ h.owed = store.owed
      /\ h.answer = store.answer /\ h.picked = pick /\ h.told = said
  BY <1>0, <1>2, <1>5, <1>6 DEF StoreForms
<1> HIDE DEF h
<1>8. PicksHeld(h)
  BY <1>0, <1>4, <1>5, <1>7 DEF PicksHeld
<1>9. AnswerKept(h)
  <2>1. store.adopted # NoTitle => same
    BY <1>0 DEF OverridesSound, StoreSound, AnswerKept, same
  <2>2. store.adopted # NoTitle =>
           /\ store.answer.manga = store.adopted
           /\ \A k \in Names : ValuesFor(store, m)[k] # store.answer.over[k] => k \in store.named
    BY <1>1, <2>1 DEF OverridesSound, StoreSound, AnswerKept
  <2> QED  BY <1>0, <1>5, <1>7, <2>2 DEF AnswerKept
<1>10. \A p \in PaidOff(h) : p \in OverPushes /\ PushSound(p)
  <2>1. store.owed # Nothing => store.owed \in OverPushes /\ PushSound(store.owed)
    BY <1>0 DEF OverridesSound, StoreSound, StoreForms
  <2> QED  BY <1>7, <2>1 DEF PaidOff, Only
<1>11. CASE store.adopted = m
  <2> DEFINE t == Schedule(h)
  <2>1. /\ t \in StoreForms /\ t.held = h.held /\ t.adopted = h.adopted /\ t.named = h.named
        /\ t.answer = h.answer /\ t.picked = h.picked /\ t.told = h.told
        /\ t.owed # Nothing /\ t.owed.manga = h.held.manga /\ t.owed.values = h.held.values
        /\ PushSound(t.owed)
    BY <1>7, <1>9, <1>11, OwedSound DEF m
  <2> HIDE DEF t
  <2>2. AnswerKept(t) /\ PicksHeld(t)
    BY <1>8, <1>9, <2>1 DEF AnswerKept, PicksHeld
  <2>3. PicksTold(t)
    BY <1>8, <2>1 DEF PicksTold, PicksHeld
  <2>4. OwedLast(t)
    BY <1>0, <1>7, <1>8, <1>11, <2>1 DEF OwedLast, PicksHeld
  <2> QED  BY <1>3, <1>7, <1>10, <1>11, <2>1, <2>2, <2>3, <2>4 DEF StoreSound, t
<1>12. CASE store.adopted # m
  <2>1. store.adopted = NoTitle
    BY <1>0, <1>12
  <2>2. PicksTold(h)
    BY <1>7, <2>1 DEF PicksTold
  <2>3. OwedLast(h) /\ (h.owed # Nothing => PushSound(h.owed))
    BY <1>7, <2>1 DEF OverridesSound, StoreSound, OwedLast
  <2> QED  BY <1>3, <1>7, <1>8, <1>9, <1>12, <2>2, <2>3 DEF StoreSound
<1> QED  BY <1>11, <1>12

LEMMA OverridesMove == OverridesSound /\ [OverridesNext]_overridesVars => OverridesSound'
<1> SUFFICES ASSUME OverridesSound, [OverridesNext]_overridesVars PROVE OverridesSound'
  OBVIOUS
<1>0. /\ RowsKept /\ StoreSound(store) /\ ZoomSound
      /\ showing # NoTitle => store.adopted \in {NoTitle, showing}
  BY DEF OverridesSound
<1>1. \A p \in Only(zooming.owed) : p \in ZoomPushes /\ PushSound(p)
  BY <1>0 DEF Only, ZoomSound, ZoomForms
<1>2. \A p \in Only(store.owed) : p \in OverPushes /\ PushSound(p)
  BY <1>0 DEF Only, StoreSound, StoreForms
<1>3. ASSUME zooming' = [adopted |-> NoTitle, levels |-> AllFit, owed |-> Nothing, base |-> AllFit,
                         names |-> {}]
      PROVE  ZoomSound'
  BY <1>3, NothingIsNothing DEF ZoomSound, ZoomForms, TitleOrNone
<1>4. ASSUME NEW out, \A p \in out : p \in OverPushes \cup ZoomPushes /\ PushSound(p),
             sending' = sending \cup out, row' = row, showing' \in TitleOrNone,
             cached' = cached
      PROVE  RowsKept'
  BY <1>0, <1>4 DEF RowsKept
<1>5. ASSUME NEW m \in Shelf, OpenReader(m) PROVE OverridesSound'
  <2> DEFINE first == IF cached[m].fresh THEN Adopt(store, m, cached[m].data.over)
                      ELSE [store |-> store, out |-> {}]
             second == Opened(first.store, m)
  <2>1. /\ showing' = m /\ store' = second.store
        /\ sending' = sending \cup (first.out \cup second.out \cup Only(zooming.owed))
        /\ zooming' = [adopted |-> NoTitle, levels |-> AllFit, owed |-> Nothing, base |-> AllFit,
                       names |-> {}]
        /\ UNCHANGED <<row, cached, picks>>
    BY <1>5 DEF OpenReader
  <2>2. cached[m].data.over \in Overrides
    BY <1>0 DEF RowsKept, Rows
  <2>3. /\ StoreSound(first.store) /\ first.out \subseteq OverPushes
        /\ \A p \in first.out : PushSound(p)
    BY <1>0, <2>2, AdoptedSound
  <2> HIDE DEF first
  <2>4. /\ StoreSound(second.store) /\ second.out \subseteq OverPushes
        /\ second.store.adopted \in {NoTitle, m}
        /\ \A p \in second.out : PushSound(p)
    BY <2>3, OpenedSound
  <2> HIDE DEF second
  <2>5. RowsKept'
    <3>1. showing' \in TitleOrNone
      BY <2>1 DEF TitleOrNone
    <3> DEFINE out == first.out \cup second.out \cup Only(zooming.owed)
    <3>2. \A p \in out : p \in OverPushes \cup ZoomPushes /\ PushSound(p)
      BY <1>1, <2>3, <2>4
    <3> HIDE DEF out
    <3> QED  BY <1>4, <2>1, <3>1, <3>2 DEF out
  <2> QED  BY <1>3, <2>1, <2>4, <2>5 DEF OverridesSound
<1>6. CASE ReaderAnswered
  <2> DEFINE result == Adopt(store, showing, row[showing].over)
  <2>1. /\ showing \in Shelf /\ row[showing] \in Rows
        /\ row[showing].over \in Overrides /\ row[showing].zoom \in Zooms
    BY <1>0, <1>6 DEF ReaderAnswered, RowsKept, TitleOrNone, Rows
  <2>2. /\ cached' = [cached EXCEPT ![showing] = [fresh |-> TRUE, data |-> row[showing]]]
        /\ UNCHANGED <<row, showing, picks>>
        /\ IF zooming.adopted = showing THEN UNCHANGED <<store, zooming, sending>>
           ELSE /\ store' = result.store /\ sending' = sending \cup result.out
                /\ zooming' = [zooming EXCEPT !.adopted = showing, !.levels = row[showing].zoom,
                                              !.base = row[showing].zoom, !.names = {}]
    BY <1>6 DEF ReaderAnswered
  <2>3. /\ StoreSound(result.store) /\ result.store.adopted = showing
        /\ result.out \subseteq OverPushes /\ \A p \in result.out : PushSound(p)
    BY <1>0, <2>1, AdoptedSound
  <2> HIDE DEF result
  <2>4. RowsKept'
    <3>1. cached' \in [Shelf -> [fresh : BOOLEAN, data : Rows]]
      BY <1>0, <2>1, <2>2 DEF RowsKept
    <3> QED  BY <1>0, <2>2, <2>3, <3>1 DEF RowsKept
  <2>5. ZoomSound'
    <3>1. CASE zooming.adopted = showing
      BY <1>0, <2>2, <3>1 DEF ZoomSound
    <3>2. CASE zooming.adopted # showing
      <4>1. /\ zooming' \in ZoomForms /\ zooming'.levels = row[showing].zoom
            /\ zooming'.base = row[showing].zoom /\ zooming'.owed = zooming.owed
        BY <1>0, <2>1, <2>2, <3>2 DEF ZoomSound, ZoomForms, TitleOrNone
      <4> QED  BY <1>0, <4>1 DEF ZoomSound
    <3> QED  BY <3>1, <3>2
  <2>6. StoreSound(store') /\ (showing' # NoTitle => store'.adopted \in {NoTitle, showing'})
    BY <1>0, <2>2, <2>3
  <2> QED  BY <2>4, <2>5, <2>6 DEF OverridesSound
<1>7. ASSUME NEW n \in Names, NEW value \in Picks, WriteOverride(n, value) PROVE OverridesSound'
  <2> DEFINE result == PickedStore(n, value)
  <2>1. /\ showing # NoTitle /\ store' = result.store /\ sending' = sending \cup result.out
        /\ UNCHANGED <<row, cached, showing, zooming>>
    BY <1>7 DEF WriteOverride
  <2>2. showing \in Shelf /\ showing' \in TitleOrNone
    BY <1>0, <2>1 DEF RowsKept, TitleOrNone
  <2>3. /\ StoreSound(result.store) /\ result.store.adopted = store.adopted
        /\ result.out \subseteq OverPushes /\ \A p \in result.out : PushSound(p)
    BY <2>2, PickedSound
  <2> HIDE DEF result
  <2>4. RowsKept'
    BY <1>4, <2>1, <2>2, <2>3
  <2>5. ZoomSound'
    BY <1>0, <2>1 DEF ZoomSound
  <2> QED  BY <1>0, <2>1, <2>3, <2>4, <2>5 DEF OverridesSound
<1>8. CASE FlushOverrides \/ CloseReader
  <2>1. /\ store' = FlushedStore(store) /\ UNCHANGED <<row, cached, picks>>
        /\ \/ showing' = showing /\ zooming' = zooming /\ sending' = sending \cup Only(store.owed)
           \/ /\ showing' = NoTitle /\ sending' = sending \cup (Only(zooming.owed) \cup Only(store.owed))
              /\ zooming' = [adopted |-> NoTitle, levels |-> AllFit, owed |-> Nothing,
                             base |-> AllFit, names |-> {}]
    BY <1>8 DEF FlushOverrides, CloseReader, Only
  <2>2. StoreSound(store') /\ store'.adopted = store.adopted
    BY <1>0, <2>1, FlushedSound
  <2>3. showing' \in TitleOrNone
    BY <1>0, <2>1 DEF RowsKept, TitleOrNone
  <2>4. RowsKept'
    BY <1>0, <1>1, <1>2, <2>1, <2>3 DEF RowsKept
  <2>5. ZoomSound'
    BY <1>0, <1>3, <2>1 DEF ZoomSound
  <2> QED  BY <1>0, <2>1, <2>2, <2>4, <2>5 DEF OverridesSound
<1>9. ASSUME NEW l \in Layouts, NEW level \in Levels, MoveZoom(l, level) PROVE OverridesSound'
  <2> DEFINE z == [zooming EXCEPT !.levels[l] = level]
             names == z.names \cup {l}
  <2>1. /\ zooming' = Remembered(z, l) /\ showing # NoTitle
        /\ UNCHANGED <<row, cached, showing, store, sending>>
    BY <1>9 DEF MoveZoom
  <2>2. /\ z \in ZoomForms /\ z.owed = zooming.owed /\ z.adopted = zooming.adopted
        /\ z.base = zooming.base /\ z.names = zooming.names
        /\ \A k \in Layouts : z.levels[k] = IF k = l THEN level ELSE zooming.levels[k]
    BY <1>0 DEF ZoomSound, ZoomForms, Zooms
  <2> HIDE DEF z
  <2>3. ZoomSound'
    <3>1. CASE z.adopted # showing
      <4>1. zooming' = z /\ showing' = showing
        BY <2>1, <3>1 DEF Remembered
      <4> QED  BY <1>0, <2>2, <3>1, <4>1 DEF ZoomSound
    <3>2. CASE z.adopted = showing
      <4> DEFINE push == Push("zoom", showing, z.levels, z.base, names)
      <4>1. zooming' = [z EXCEPT !.names = names, !.owed = push]
        BY <2>1, <3>2 DEF Remembered
      <4>2. push = [part |-> "zoom", manga |-> showing, values |-> z.levels, base |-> z.base,
                    names |-> names]
        BY DEF Push
      <4>3. names \subseteq Layouts /\ z.levels \in Zooms /\ z.base \in Zooms
        BY <2>2 DEF ZoomForms
      <4>4. \A k \in Layouts : z.levels[k] # z.base[k] => k \in names
        BY <1>0, <2>2, <3>2 DEF ZoomSound
      <4>5. push \in ZoomPushes
        <5>1. showing \in Shelf
          BY <1>0, <2>1 DEF RowsKept, TitleOrNone
        <5> HIDE DEF names, push
        <5> QED  BY <4>2, <4>3, <5>1 DEF ZoomPushes
      <4>6. PushSound(push)
        BY <4>2, <4>3, <4>4 DEF PushSound, Zooms
      <4> HIDE DEF names, push
      <4>7. /\ zooming' \in ZoomForms /\ zooming'.owed = push /\ zooming'.levels = z.levels
            /\ zooming'.base = z.base /\ zooming'.names = names
        BY <2>2, <4>1, <4>3, <4>5 DEF ZoomForms
      <4> QED  BY <4>4, <4>6, <4>7 DEF ZoomSound
    <3> QED  BY <3>1, <3>2
  <2> QED  BY <1>0, <2>1, <2>3 DEF OverridesSound, RowsKept
<1>10. CASE FlushZoom
  <2>1. /\ sending' = sending \cup Only(zooming.owed) /\ zooming' = [zooming EXCEPT !.owed = Nothing]
        /\ UNCHANGED <<row, cached, showing, store, picks>>
    BY <1>10 DEF FlushZoom, Only
  <2>2. ZoomSound'
    <3>1. /\ zooming' \in ZoomForms /\ zooming'.owed = Nothing /\ zooming'.levels = zooming.levels
          /\ zooming'.base = zooming.base /\ zooming'.names = zooming.names
          /\ zooming'.adopted = zooming.adopted
      BY <1>0, <2>1 DEF ZoomSound, ZoomForms
    <3> QED  BY <1>0, <2>1, <3>1 DEF ZoomSound
  <2>3. RowsKept'
    BY <1>0, <1>1, <2>1 DEF RowsKept
  <2> QED  BY <1>0, <2>1, <2>2, <2>3 DEF OverridesSound
<1>11. ASSUME NEW push \in sending, RowPushed(push) PROVE OverridesSound'
  <2>1. /\ row' = [row EXCEPT ![push.manga] =
                     IF push.part = "over" THEN [row[push.manga] EXCEPT !.over = push.values]
                     ELSE [row[push.manga] EXCEPT !.zoom = push.values]]
        /\ sending' = sending \ {push} /\ cached' = [m \in Shelf |-> NotCached]
        /\ UNCHANGED <<showing, store, zooming, picks>>
    BY <1>11 DEF RowPushed
  <2>2. push \in OverPushes \cup ZoomPushes
    BY <1>0 DEF RowsKept
  <2>3. NotCached \in [fresh : BOOLEAN, data : Rows]
    BY NothingIsNothing DEF NotCached, Rows
  <2>4. IF push.part = "over" THEN push.values \in Overrides ELSE push.values \in Zooms
    BY <2>2 DEF OverPushes, ZoomPushes
  <2>5. push.manga \in Shelf
    BY <2>2 DEF OverPushes, ZoomPushes
  <2>6. row' \in [Shelf -> Rows]
    BY <1>0, <2>1, <2>4, <2>5 DEF RowsKept, Rows
  <2>7. cached' \in [Shelf -> [fresh : BOOLEAN, data : Rows]]
    BY <2>1, <2>3
  <2>8. RowsKept'
    BY <1>0, <2>1, <2>6, <2>7 DEF RowsKept
  <2> QED  BY <1>0, <2>1, <2>8 DEF OverridesSound, ZoomSound
<1>12. ASSUME NEW push \in sending, RowLost(push) PROVE OverridesSound'
  BY <1>0, <1>12 DEF RowLost, OverridesSound, RowsKept, ZoomSound
<1>13. ASSUME NEW m \in Shelf, NEW n \in Names, NEW value \in Picks, OverriddenElsewhere(m, n, value)
       PROVE  OverridesSound'
  <2>1. row' = [row EXCEPT ![m].over[n] = value] /\ UNCHANGED <<cached, showing, store, zooming, sending>>
    BY <1>13 DEF OverriddenElsewhere
  <2>2. row' \in [Shelf -> Rows]
    BY <1>0, <2>1 DEF RowsKept, Rows, Overrides
  <2> QED  BY <1>0, <2>1, <2>2 DEF OverridesSound, ZoomSound, RowsKept
<1>14. CASE UNCHANGED overridesVars
  BY <1>0, <1>14 DEF overridesVars, OverridesSound, ZoomSound, RowsKept
<1> QED  BY <1>5, <1>6, <1>7, <1>8, <1>9, <1>10, <1>11, <1>12, <1>13, <1>14 DEF OverridesNext

LEMMA OverridesHold == OverridesSound => TitlesKeepTheirOwn
<1> SUFFICES ASSUME OverridesSound PROVE TitlesKeepTheirOwn
  OBVIOUS
<1>1. \A p \in OverridePushes : PushSound(p)
  BY DEF OverridesSound, RowsKept, StoreSound, ZoomSound, OverridePushes, Only
<1>2. ASSUME store.adopted = store.held.manga, NEW n \in Names, store.picked[n] # Unpicked
      PROVE  /\ store.held.values[n] = store.picked[n]
             /\ \/ store.picked[n] \in {store.told[n], store.answer.over[n]}
                \/ store.owed # Nothing /\ store.owed.manga = store.held.manga
                      /\ store.owed.values[n] = store.picked[n]
  <2>1. store.held.values[n] = store.picked[n] /\ store.held.manga # NoTitle
    BY <1>2 DEF OverridesSound, StoreSound, PicksHeld
  <2>2. store.adopted # NoTitle
    BY <1>2, <2>1
  <2> QED  BY <1>2, <2>1, <2>2 DEF OverridesSound, StoreSound, PicksTold
<1> QED  BY <1>1, <1>2 DEF TitlesKeepTheirOwn, PushSound

-----------------------------------------------------------------------------
(* The panel of a source's own filters.                                    *)

(* The page's own copy of a source's list.                                 *)
CopyOf(copies, s) == IF copies[s] = 0 THEN <<>> ELSE FilterLists[s][copies[s]]

(* What is set is set in the list the page has, and is not what the filter *)
(* starts from.                                                            *)
ValuesSet(values, list) ==
    /\ DOMAIN values \subseteq SettablePaths(list)
    /\ \A path \in DOMAIN values : /\ values[path].kind = FilterAt(list, path).kind
                                   /\ values[path].value # FilterAt(list, path).default

ChoiceShape(c) ==
    c \in [source : {c.source}, searching : BOOLEAN, worded : BOOLEAN, everywhere : BOOLEAN,
           values : {c.values}, draft : {c.draft}, open : BOOLEAN]

(* A choice whose values, applied and drafted, are set in a copy.          *)
ChoiceSet(c, copies) ==
    /\ ChoiceShape(c)
    /\ c.source \in DOMAIN FilterLists
    /\ ValuesSet(c.values, CopyOf(copies, c.source))
    /\ ValuesSet(c.draft, CopyOf(copies, c.source))

ChosenSound ==
    /\ ChoiceSet(chosen, builds.cached)
    /\ builds = [now |-> builds.now, cached |-> builds.cached]
    /\ builds.now \in [DOMAIN FilterLists -> {1, 2}]
    /\ builds.cached \in [DOMAIN FilterLists -> {0, 1, 2}]

(* What a request hands over, of what is shown when it is the last.        *)
Arrives(request, c) ==
    LET specs == FilterLists[request.source][request.read]
        Sent(path) ==
            {d.state : d \in {k \in request.kept : <<k.position>> \o k.inner = path}}
        Shown(path) ==
            IF c.searching THEN CurrentFilterValue(c.values, path, FilterAt(specs, path))
            ELSE FilterAt(specs, path).default
    IN  /\ request.source = c.source
        /\ \A k \in request.kept : k.field = FilterAt(specs, <<k.position>> \o k.inner).kind
        /\ request.drawn = request.read =>
              \A path \in SettablePaths(specs) :
                  Sent(path) = IF Shown(path) = FilterAt(specs, path).default THEN {}
                                  ELSE {Shown(path)}

FiltersSound == ChosenSound /\ (asked # <<>> => Arrives(Last(asked), chosen))

LEMMA FiltersHold == FiltersSound => FiltersArrive
BY DEF FiltersSound, Arrives, FiltersArrive

LEMMA PathSplits == \A list : \A path \in Places(list) : <<path[1]>> \o Tail(path) = path
<1> SUFFICES ASSUME NEW list, NEW path \in Places(list) PROVE <<path[1]>> \o Tail(path) = path
  OBVIOUS
<1>1. CASE \E k \in DOMAIN list : path = <<k>>
  BY <1>1
<1>2. CASE \E k \in DOMAIN list : \E n \in DOMAIN list[k].filters : path = <<k, n>>
  <2>1. PICK k \in DOMAIN list : \E n \in DOMAIN list[k].filters : path = <<k, n>>
    BY <1>2
  <2>2. PICK n : path = <<k, n>>
    BY <2>1
  <2>3. Tail(path) = <<n>>
    BY <2>2
  <2>4. <<k>> \o <<n>> = <<k, n>>
    <3> DEFINE S == {k, n}
    <3>1. <<k>> \in Seq(S) /\ <<n>> \in Seq(S) /\ <<k, n>> \in Seq(S)
          /\ Len(<<k>>) = 1 /\ Len(<<n>>) = 1 /\ Len(<<k, n>>) = 2
      OBVIOUS
    <3>2. /\ <<k>> \o <<n>> \in Seq(S) /\ Len(<<k>> \o <<n>>) = 2
          /\ \A i \in 1..2 : (<<k>> \o <<n>>)[i] = IF i <= 1 THEN <<k>>[i] ELSE <<n>>[i - 1]
      BY <3>1, ConcatProperties
    <3>3. \A i \in 1..2 : (<<k>> \o <<n>>)[i] = <<k, n>>[i]
      BY <3>2
    <3> HIDE DEF S
    <3> QED  BY <3>1, <3>2, <3>3, SeqEqual
  <2> QED  BY <2>2, <2>3, <2>4
<1> QED  BY <1>1, <1>2 DEF Places

LEMMA NothingSet == \A list : ValuesSet(NoValues, list)
BY DEF ValuesSet, NoValues

(* A choice whose values are set in the page's copy asks for what it shows. *)
LEMMA LoadArrives ==
  ASSUME NEW c, c.source \in DOMAIN FilterLists,
         builds.now \in [DOMAIN FilterLists -> {1, 2}],
         ValuesSet(c.values, CopyOf(builds.cached, c.source))
  PROVE  Load(c) = <<>> \/ \E r : Load(c) = <<r>> /\ Arrives(r, c)
<1> DEFINE sets == IF c.searching THEN FilterChanges(c.values) ELSE {}
           specs == FilterLists[c.source][builds.now[c.source]]
           kept == SanitizeFilterChanges(specs, sets)
           r == [source |-> c.source, drawn |-> builds.cached[c.source],
                 read |-> builds.now[c.source], kept |-> kept]
<1>1. Load(c) = <<>> \/ Load(c) = <<r>>
  BY DEF Load, FiltersFor
<1>2. \A k \in kept : k \in sets /\ Kept(specs, k)
  BY DEF SanitizeFilterChanges
<1>3. \A k \in kept : k.field = FilterAt(specs, <<k.position>> \o k.inner).kind
  BY <1>2 DEF Kept
<1>4. ASSUME builds.cached[c.source] = builds.now[c.source], NEW path \in SettablePaths(specs)
      PROVE  {d.state : d \in {k \in kept : <<k.position>> \o k.inner = path}} =
             IF ~c.searching \/ path \notin DOMAIN c.values THEN {} ELSE {c.values[path].value}
  <2> DEFINE Change(p) == [position |-> p[1], inner |-> Tail(p), field |-> c.values[p].kind,
                           state |-> c.values[p].value]
  <2>1. CopyOf(builds.cached, c.source) = specs
    BY <1>4 DEF CopyOf
  <2>2. /\ DOMAIN c.values \subseteq SettablePaths(specs)
        /\ \A p \in DOMAIN c.values : c.values[p].kind = FilterAt(specs, p).kind
    BY <2>1 DEF ValuesSet
  <2>3. \A p \in DOMAIN c.values : <<Change(p).position>> \o Change(p).inner = p
    BY <2>2, PathSplits DEF SettablePaths
  <2>4. FilterChanges(c.values) = {Change(p) : p \in DOMAIN c.values}
    BY DEF FilterChanges
  <2> HIDE DEF specs
  <2>5. \A p \in DOMAIN c.values : Kept(specs, Change(p))
    BY <2>2, <2>3 DEF Kept
  <2>6. \A k \in kept : c.searching /\ \E p \in DOMAIN c.values : k = Change(p)
    BY <1>2, <2>4
  <2>7. c.searching => \A p \in DOMAIN c.values : Change(p) \in kept
    BY <2>4, <2>5 DEF SanitizeFilterChanges
  <2>8. \A p \in DOMAIN c.values : Change(p).state = c.values[p].value
    OBVIOUS
  <2> HIDE DEF Change, kept
  <2>9. \A k \in kept : <<k.position>> \o k.inner = path =>
           path \in DOMAIN c.values /\ k = Change(path) /\ c.searching
    BY <2>3, <2>6
  <2>10. CASE ~c.searching \/ path \notin DOMAIN c.values
    BY <2>9, <2>10
  <2>11. CASE c.searching /\ path \in DOMAIN c.values
    <3>1. {k \in kept : <<k.position>> \o k.inner = path} = {Change(path)}
      BY <2>3, <2>7, <2>9, <2>11
    <3> QED  BY <2>8, <2>11, <3>1
  <2> QED  BY <2>10, <2>11
<1>5. ASSUME builds.cached[c.source] = builds.now[c.source], NEW path \in DOMAIN c.values
      PROVE  c.values[path].value # FilterAt(specs, path).default
  <2>1. CopyOf(builds.cached, c.source) = specs
    BY <1>5 DEF CopyOf
  <2> QED  BY <2>1, <1>5 DEF ValuesSet
<1>6. r.source = c.source /\ r.drawn = builds.cached[c.source] /\ r.read = builds.now[c.source]
      /\ r.kept = kept
  OBVIOUS
<1> HIDE DEF kept, r
<1>7. Arrives(r, c)
  BY <1>3, <1>4, <1>5, <1>6 DEF Arrives, CurrentFilterValue
<1> QED  BY <1>1, <1>7

LEMMA FiltersStart == SourcesInit => FiltersSound
<1> SUFFICES ASSUME SourcesInit PROVE FiltersSound
  OBVIOUS
<1>1. /\ builds = [now |-> [s \in DOMAIN FilterLists |-> 1],
                   cached |-> [s \in DOMAIN FilterLists |-> 0]]
      /\ chosen = [source |-> 1, searching |-> FALSE, worded |-> FALSE, everywhere |-> FALSE,
                   values |-> NoValues, draft |-> NoValues, open |-> FALSE]
      /\ asked = Load(chosen)
  BY DEF SourcesInit
<1>2. /\ builds = [now |-> builds.now, cached |-> builds.cached]
      /\ builds.now \in [DOMAIN FilterLists -> {1, 2}]
      /\ builds.cached \in [DOMAIN FilterLists -> {0, 1, 2}]
  BY <1>1
<1>3. /\ chosen.source = 1 /\ chosen.values = NoValues /\ chosen.draft = NoValues
  BY <1>1
<1>30. ChoiceShape(chosen)
  <2>1. \A a, b, c, o \in BOOLEAN : ChoiceShape([source |-> 1, searching |-> a, worded |-> b, everywhere |-> c,
                                     values |-> NoValues, draft |-> NoValues, open |-> o])
    BY DEF ChoiceShape
  <2> QED  BY <1>1, <2>1
<1>4. ChoiceSet(chosen, builds.cached)
  BY <1>3, <1>30, NothingSet, SourcesAssumption DEF ChoiceSet
<1>5. asked # <<>> => Arrives(Last(asked), chosen)
  <2>1. Load(chosen) = <<>> \/ \E r : Load(chosen) = <<r>> /\ Arrives(r, chosen)
    BY <1>2, <1>4, LoadArrives DEF ChoiceSet
  <2>2. asked = Load(chosen)
    BY <1>1
  <2> QED  BY <2>1, <2>2 DEF Last
<1> QED  BY <1>2, <1>4, <1>5 DEF FiltersSound, ChosenSound

(* What the grid is asked for a choice, or was for the same one.           *)
LEMMA ChooseSound ==
  ASSUME FiltersSound, NEW c, ChoiceSet(c, builds.cached), Choose(c)
  PROVE  FiltersSound'
<1>1. chosen' = c /\ builds' = builds
  BY DEF Choose
<1>2. ChosenSound'
  BY <1>1 DEF FiltersSound, ChosenSound
<1>3. CASE asked' = Load(c)
  <2>1. Load(c) = <<>> \/ \E r : Load(c) = <<r>> /\ Arrives(r, c)
    BY LoadArrives DEF FiltersSound, ChosenSound, ChoiceSet
  <2>2. asked' # <<>> => Arrives(Last(asked'), c)
    BY <1>3, <2>1 DEF Last
  <2> QED  BY <1>1, <1>2, <2>2 DEF FiltersSound
<1>4. CASE SameQuestion(c) /\ UNCHANGED asked
  <2>1. c.source = chosen.source /\ c.searching = chosen.searching /\ c.values = chosen.values
    BY <1>4 DEF SameQuestion, FiltersSound, ChosenSound, ChoiceSet, ChoiceShape
  <2>2. asked # <<>> => Arrives(Last(asked), c)
    BY <2>1 DEF FiltersSound, Arrives
  <2> QED  BY <1>1, <1>2, <1>4, <2>2 DEF FiltersSound
<1> QED  BY <1>3, <1>4 DEF Choose

(* What is set at a place of the copy is set in it.                        *)
LEMMA WithValueSet ==
  ASSUME NEW values, NEW list, NEW path \in SettablePaths(list), NEW value,
         ValuesSet(values, list)
  PROVE  ValuesSet(WithFilterValue(values, path, FilterAt(list, path), value), list)
BY DEF ValuesSet, WithFilterValue

LEMMA FiltersMove == FiltersSound /\ [SourcesNext]_sourcesVars => FiltersSound'
<1> SUFFICES ASSUME FiltersSound, [SourcesNext]_sourcesVars PROVE FiltersSound'
  OBVIOUS
<1>0. /\ ChosenSound /\ ChoiceSet(chosen, builds.cached)
      /\ asked # <<>> => Arrives(Last(asked), chosen)
  BY DEF FiltersSound, ChosenSound
<1>00. /\ ChoiceShape(chosen) /\ chosen.source \in DOMAIN FilterLists
       /\ ValuesSet(chosen.values, CopyOf(builds.cached, chosen.source))
       /\ ValuesSet(chosen.draft, CopyOf(builds.cached, chosen.source))
  BY <1>0 DEF ChoiceSet
<1>1. CASE UNCHANGED filterVars
  BY <1>0, <1>1 DEF filterVars, FiltersSound, ChosenSound
<1>2. CASE \/ \E e \in Extensions, action \in {"install", "uninstall"} : Act(e, action)
           \/ RefreshCatalogue \/ Browse
           \/ \E r \in sends : Served(r) \/ Answered(r) \/ Connected(r) \/ Refused(r)
           \/ \E q \in queries : QueryServed(q) \/ QuerySettles(q)
           \/ UNCHANGED sourcesVars
  <2>1. UNCHANGED filterVars
    BY <1>2 DEF Act, RefreshCatalogue, Browse, Served, Answered, Connected, Refused, QueryServed,
                QuerySettles, sourcesVars
  <2> QED  BY <1>1, <2>1
<1>3. ASSUME NEW s \in DOMAIN FilterLists, SelectSource(s) PROVE FiltersSound'
  <2> DEFINE Of(a, b) == [chosen EXCEPT !.source = s, !.searching = a, !.worded = b]
             Emptied(c, a) == [c EXCEPT !.values = NoValues, !.draft = NoValues, !.open = a]
             browsed == Of(FALSE, FALSE)
             cleared == Emptied(browsed, FALSE)
  <2>0. /\ \A a, b \in BOOLEAN : /\ ChoiceShape(Of(a, b)) /\ Of(a, b).source = s
                     /\ Of(a, b).values = chosen.values /\ Of(a, b).draft = chosen.draft
        /\ \A c : \A a \in BOOLEAN : ChoiceShape(c) =>
              /\ ChoiceShape(Emptied(c, a)) /\ Emptied(c, a).source = c.source
              /\ Emptied(c, a).values = NoValues /\ Emptied(c, a).draft = NoValues
    BY <1>00 DEF ChoiceShape
  <2>1. /\ ChoiceShape(browsed) /\ browsed.source = s /\ browsed.values = chosen.values
        /\ browsed.draft = chosen.draft
        /\ ChoiceShape(cleared) /\ cleared.source = s /\ cleared.values = NoValues
        /\ cleared.draft = NoValues
    <3> HIDE DEF Of, Emptied
    <3> QED  BY <2>0
  <2>2. Choose(IF s = chosen.source THEN browsed ELSE cleared)
    BY <1>3 DEF SelectSource
  <2> HIDE DEF browsed, cleared
  <2>3. CASE s = chosen.source
    BY <1>00, <2>1, <2>2, <2>3, ChooseSound DEF ChoiceSet
  <2>4. CASE s # chosen.source
    BY <2>1, <2>2, <2>4, NothingSet, ChooseSound DEF ChoiceSet
  <2> QED  BY <2>3, <2>4
<1>4. ASSUME NEW c, ChoiceShape(c), c.source = chosen.source, c.values = chosen.values,
             c.draft = chosen.draft, Choose(c)
      PROVE  FiltersSound'
  BY <1>00, <1>4, ChooseSound DEF ChoiceSet
<1>5. CASE BrowseSource
  <2> DEFINE Of(a, b) == [chosen EXCEPT !.searching = a, !.worded = b]
             c == Of(FALSE, FALSE)
  <2>0. \A a, b \in BOOLEAN : /\ ChoiceShape(Of(a, b)) /\ Of(a, b).source = chosen.source
                  /\ Of(a, b).values = chosen.values /\ Of(a, b).draft = chosen.draft
    BY <1>00 DEF ChoiceShape
  <2>1. ChoiceShape(c) /\ c.source = chosen.source /\ c.values = chosen.values
        /\ c.draft = chosen.draft
    <3> HIDE DEF Of
    <3> QED  BY <2>0
  <2>2. Choose(c)
    BY <1>5 DEF BrowseSource
  <2> HIDE DEF c
  <2> QED  BY <1>4, <2>1, <2>2
<1>6. ASSUME NEW worded \in BOOLEAN, SubmitSearch(worded) PROVE FiltersSound'
  <2> DEFINE Of(a, b) == [chosen EXCEPT !.searching = a, !.worded = b]
             c == Of(TRUE, worded)
  <2>0. \A a, b \in BOOLEAN : /\ ChoiceShape(Of(a, b)) /\ Of(a, b).source = chosen.source
                  /\ Of(a, b).values = chosen.values /\ Of(a, b).draft = chosen.draft
    BY <1>00 DEF ChoiceShape
  <2>1. ChoiceShape(c) /\ c.source = chosen.source /\ c.values = chosen.values
        /\ c.draft = chosen.draft
    <3> HIDE DEF Of
    <3> QED  BY <2>0
  <2>2. Choose(c)
    BY <1>6 DEF SubmitSearch
  <2> HIDE DEF c
  <2> QED  BY <1>4, <2>1, <2>2
<1>7. CASE SearchEverywhere
  <2> DEFINE Of(a) == [chosen EXCEPT !.everywhere = a]
             c == Of(~chosen.everywhere)
  <2>0. \A a \in BOOLEAN : /\ ChoiceShape(Of(a)) /\ Of(a).source = chosen.source
               /\ Of(a).values = chosen.values /\ Of(a).draft = chosen.draft
    BY <1>00 DEF ChoiceShape
  <2>1. ChoiceShape(c) /\ c.source = chosen.source /\ c.values = chosen.values
        /\ c.draft = chosen.draft
    <3> HIDE DEF Of
    <3> QED  BY <2>0
  <2>2. Choose(c)
    BY <1>7 DEF SearchEverywhere
  <2> HIDE DEF c
  <2> QED  BY <1>4, <2>1, <2>2
<1>8. ASSUME NEW worded \in BOOLEAN, ApplyFilters(worded) PROVE FiltersSound'
  <2> DEFINE Of(a, b, o) == [chosen EXCEPT !.values = chosen.draft, !.open = o,
                                           !.searching = a, !.worded = b]
             c == Of(TRUE, worded, FALSE)
  <2>0. ASSUME NEW a \in BOOLEAN, NEW b \in BOOLEAN, NEW o \in BOOLEAN
        PROVE  /\ ChoiceShape(Of(a, b, o)) /\ Of(a, b, o).source = chosen.source
               /\ Of(a, b, o).values = chosen.draft /\ Of(a, b, o).draft = chosen.draft
    <3>1. /\ Of(a, b, o) \in [source : {chosen.source}, searching : BOOLEAN, worded : BOOLEAN,
                              everywhere : BOOLEAN, values : {chosen.draft},
                              draft : {chosen.draft}, open : BOOLEAN]
      BY <1>00 DEF ChoiceShape
    <3> HIDE DEF Of
    <3>2. /\ Of(a, b, o).source = chosen.source /\ Of(a, b, o).values = chosen.draft
          /\ Of(a, b, o).draft = chosen.draft
      BY <3>1
    <3> QED  BY <3>1, <3>2 DEF ChoiceShape
  <2>1. ChoiceShape(c) /\ c.source = chosen.source /\ c.values = chosen.draft
        /\ c.draft = chosen.draft
    <3> HIDE DEF Of
    <3> QED  BY <2>0
  <2>2. Choose(c)
    BY <1>8 DEF ApplyFilters
  <2> HIDE DEF c
  <2>3. ChoiceSet(c, builds.cached)
    BY <1>00, <2>1 DEF ChoiceSet
  <2> QED  BY <2>2, <2>3, ChooseSound
<1>9. ASSUME NEW s \in DOMAIN FilterLists, OpenSaved(s) PROVE FiltersSound'
  <2> DEFINE Of(a, b) == [chosen EXCEPT !.source = s, !.searching = a, !.worded = b]
             Emptied(c, a) == [c EXCEPT !.values = NoValues, !.draft = NoValues, !.open = a]
             stale == Of(TRUE, TRUE)
             cleared == Emptied(stale, FALSE)
  <2>0. /\ \A a, b \in BOOLEAN : /\ ChoiceShape(Of(a, b)) /\ Of(a, b).source = s
                     /\ Of(a, b).searching = a /\ Of(a, b).worded = b
                     /\ Of(a, b).everywhere = chosen.everywhere
        /\ \A c : \A a \in BOOLEAN : ChoiceShape(c) =>
              /\ ChoiceShape(Emptied(c, a)) /\ Emptied(c, a).source = c.source
              /\ Emptied(c, a).values = NoValues /\ Emptied(c, a).draft = NoValues
              /\ Emptied(c, a).searching = c.searching /\ Emptied(c, a).worded = c.worded
              /\ Emptied(c, a).everywhere = c.everywhere
    BY <1>00 DEF ChoiceShape
  <2>1. /\ ChoiceShape(cleared) /\ cleared.source = s /\ cleared.values = NoValues
        /\ cleared.draft = NoValues /\ cleared.searching = TRUE /\ cleared.worded = TRUE
        /\ cleared.everywhere = chosen.everywhere
        /\ stale.searching = TRUE /\ stale.everywhere = chosen.everywhere
    <3> HIDE DEF Of, Emptied
    <3> QED  BY <2>0
  <2>2. chosen' = cleared /\ asked' = Load(stale) \o Load(cleared) /\ builds' = builds
    BY <1>9 DEF OpenSaved
  <2> HIDE DEF stale, cleared
  <2>3. ChoiceSet(cleared, builds.cached)
    BY <2>1, NothingSet DEF ChoiceSet
  <2>4. ChosenSound'
    BY <1>0, <2>2, <2>3 DEF ChosenSound
  <2>5. Load(cleared) = <<>> \/ \E r : Load(cleared) = <<r>> /\ Arrives(r, cleared)
    BY <1>0, <2>3, LoadArrives DEF ChosenSound, ChoiceSet
  <2>6. CASE chosen.everywhere
    <3>1. Load(stale) = <<>> /\ Load(cleared) = <<>>
      BY <2>1, <2>6 DEF Load
    <3>2. asked' = <<>>
      BY <2>2, <3>1
    <3> QED  BY <2>4, <3>2 DEF FiltersSound
  <2>7. CASE ~chosen.everywhere
    <3>1. Load(cleared) # <<>>
      BY <2>1, <2>7 DEF Load
    <3>2. PICK r : Load(cleared) = <<r>> /\ Arrives(r, cleared)
      BY <2>5, <3>1
    <3>3. Load(stale) = <<>> \/ \E q : Load(stale) = <<q>>
      BY DEF Load
    <3>4. Last(asked') = r
      <4>1. CASE Load(stale) = <<>>
        BY <2>2, <3>2, <4>1 DEF Last
      <4>2. CASE \E q : Load(stale) = <<q>>
        BY <2>2, <3>2, <4>2 DEF Last
      <4> QED  BY <3>3, <4>1, <4>2
    <3> QED  BY <2>2, <2>4, <3>2, <3>4 DEF FiltersSound
  <2> QED  BY <2>6, <2>7
<1>10. CASE FiltersAnswered
  <2>1. /\ builds.cached[chosen.source] = 0 /\ UNCHANGED <<chosen, asked>>
        /\ builds' = [builds EXCEPT !.cached[chosen.source] = builds.now[chosen.source]]
    BY <1>10 DEF FiltersAnswered
  <2>2. SettablePaths(<<>>) = {}
    BY DEF SettablePaths, Places
  <2>3. \A list : ValuesSet(chosen.values, list) /\ ValuesSet(chosen.draft, list)
    BY <1>00, <2>1, <2>2 DEF CopyOf, ValuesSet
  <2>4. /\ builds' = [now |-> builds'.now, cached |-> builds'.cached]
        /\ builds'.now = builds.now
        /\ builds'.cached = [builds.cached EXCEPT ![chosen.source] = builds.now[chosen.source]]
    BY <1>0, <2>1 DEF ChosenSound
  <2>5. builds'.cached \in [DOMAIN FilterLists -> {0, 1, 2}]
    BY <1>0, <1>00, <2>4 DEF ChosenSound
  <2> QED  BY <1>0, <1>00, <2>1, <2>3, <2>4, <2>5 DEF FiltersSound, ChosenSound, ChoiceSet
<1>11. ASSUME NEW s \in DOMAIN FilterLists, NewBuild(s) PROVE FiltersSound'
  <2>1. UNCHANGED <<chosen, asked>> /\ builds' = [builds EXCEPT !.now[s] = 2]
    BY <1>11 DEF NewBuild
  <2>2. /\ builds' = [now |-> builds'.now, cached |-> builds'.cached]
        /\ builds'.cached = builds.cached
        /\ builds'.now = [builds.now EXCEPT ![s] = 2]
    BY <1>0, <2>1 DEF ChosenSound
  <2>3. builds'.now \in [DOMAIN FilterLists -> {1, 2}]
    BY <1>0, <2>2 DEF ChosenSound
  <2> QED  BY <1>0, <2>1, <2>2, <2>3 DEF FiltersSound, ChosenSound
<1>12. ASSUME NEW values, NEW opened \in BOOLEAN, ValuesSet(values, CopyOf(builds.cached, chosen.source)),
              chosen' = [chosen EXCEPT !.draft = values, !.open = opened],
              UNCHANGED <<builds, asked>>
       PROVE  FiltersSound'
  <2>1. /\ ChoiceShape(chosen') /\ chosen'.source = chosen.source /\ chosen'.values = chosen.values
        /\ chosen'.draft = values /\ chosen'.searching = chosen.searching
    BY <1>00, <1>12 DEF ChoiceShape
  <2>2. ChosenSound'
    BY <1>0, <1>00, <1>12, <2>1 DEF ChosenSound, ChoiceSet
  <2>3. asked # <<>> => Arrives(Last(asked), chosen')
    BY <1>0, <2>1 DEF Arrives
  <2> QED  BY <1>12, <2>2, <2>3 DEF FiltersSound
<1>13. CASE ToggleFilters
  <2>1. CASE chosen.open
    <3>1. chosen' = [chosen EXCEPT !.draft = chosen.draft, !.open = FALSE]
      BY <1>00, <1>13, <2>1 DEF ToggleFilters, ChoiceShape
    <3> QED  BY <1>00, <1>12, <1>13, <3>1 DEF ToggleFilters
  <2>2. CASE ~chosen.open
    BY <1>00, <1>12, <1>13, <2>2 DEF ToggleFilters
  <2> QED  BY <2>1, <2>2
<1>14. CASE ClearFilters
  <2>1. chosen' = [chosen EXCEPT !.draft = NoValues, !.open = chosen.open]
    BY <1>00, <1>14 DEF ClearFilters, ChoiceShape
  <2>2. chosen.open \in BOOLEAN
    BY <1>00 DEF ChoiceShape
  <2> QED  BY <1>12, <1>14, <2>1, <2>2, NothingSet DEF ClearFilters
<1>15. ASSUME NEW path \in SettablePaths(SourceFilters), SetFilterAt(path) PROVE FiltersSound'
  <2>1. SourceFilters = CopyOf(builds.cached, chosen.source)
    BY DEF SourceFilters, CopyOf
  <2>2. PICK value : chosen' = [chosen EXCEPT !.draft =
                        WithFilterValue(@, path, FilterAt(SourceFilters, path), value)]
    BY <1>15 DEF SetFilterAt
  <2> DEFINE drafted == WithFilterValue(chosen.draft, path, FilterAt(SourceFilters, path), value)
  <2>3. ValuesSet(drafted, CopyOf(builds.cached, chosen.source))
    BY <1>00, <2>1, WithValueSet
  <2>4. chosen' = [chosen EXCEPT !.draft = drafted, !.open = chosen.open]
    BY <1>00, <2>2 DEF ChoiceShape
  <2>5. UNCHANGED <<builds, asked>>
    BY <1>15 DEF SetFilterAt
  <2> HIDE DEF drafted
  <2>6. chosen.open \in BOOLEAN
    BY <1>00 DEF ChoiceShape
  <2> QED  BY <1>12, <2>3, <2>4, <2>5, <2>6
<1> QED  BY <1>2, <1>3, <1>5, <1>6, <1>7, <1>8, <1>9, <1>10, <1>11, <1>13, <1>14, <1>15
         DEF SourcesNext

-----------------------------------------------------------------------------
(* Discover: the lanes its requests wait in, and the grid they are for.    *)

LEMMA OrderedSet ==
  ASSUME NEW S, IsFiniteSet(S)
  PROVE  /\ SetToSeq(S) \in Seq(S) /\ Len(SetToSeq(S)) = Cardinality(S)
         /\ Cardinality(S) \in Nat
         /\ \A x \in S : \E k \in 1..Cardinality(S) : SetToSeq(S)[k] = x
<1> DEFINE n == Cardinality(S)
           f == SetToSeq(S)
<1>1. n \in Nat /\ Bijection(1..n, S) # {}
  BY FS_CardinalityType DEF ExistsBijection
<1>2. \E g \in [1..n -> S] : IsInjective(g)
  BY <1>1 DEF Bijection, Injection
<1>3. f \in [1..n -> S] /\ IsInjective(f)
  BY <1>2 DEF SetToSeq
<1>4. f \in Injection(1..n, S)
  BY <1>3 DEF Injection
<1>5. IsFiniteSet(1..n) /\ Cardinality(1..n) = n
  BY <1>1, FS_Interval
<1> HIDE DEF f
<1>6. f \in Surjection(1..n, S)
  BY <1>4, <1>5, FS_Injection
<1>7. \A x \in S : \E k \in 1..n : f[k] = x
  BY <1>6 DEF Surjection
<1>8. f \in Seq(S) /\ Len(f) = n
  BY <1>1, <1>3
<1> QED  BY <1>1, <1>7, <1>8 DEF f

(* What a lane's requests are; the first title is any when there is none.  *)
AnyWork == CHOOSE w \in Works : TRUE
Phases == {"waiting", "asking", "done", "drained"}
Kinds == {"check", "shelfSearch", "shelfCheck"}
TaskForms ==
    [kind : Kinds, lane : LaneKeys, work : Works \cup {AnyWork}, asked : Nat,
     phase : Phases, after : Nat]

LEMMA QueueHolds ==
  ASSUME tasks \in Seq(TaskForms), lane \in [LaneKeys -> Nat], NEW kind \in Kinds,
         NEW key \in LaneKeys, NEW works, works \subseteq Works \cup {AnyWork},
         IsFiniteSet(works), NEW now \in Nat
  PROVE  LET q == Queue(kind, key, works, now)
         IN  /\ q \in Seq(TaskForms) /\ Len(q) = Cardinality(works) /\ Len(q) \in Nat
             /\ \A i \in 1..Len(q) :
                   /\ q[i].kind = kind /\ q[i].lane = key /\ q[i].asked = now
                   /\ q[i].phase = "waiting" /\ q[i].work \in works
                   /\ q[i].after = IF i = 1 THEN lane[key] ELSE Len(tasks) + i - 1
             /\ \A w \in works : \E i \in 1..Len(q) : q[i].work = w
<1> DEFINE q == Queue(kind, key, works, now)
           order == SetToSeq(works)
           n == Cardinality(works)
           E(i) == [kind |-> kind, lane |-> key, work |-> order[i], asked |-> now,
                    phase |-> "waiting",
                    after |-> IF i = 1 THEN lane[key] ELSE Len(tasks) + i - 1]
<1>1. order \in Seq(works) /\ Len(order) = n /\ n \in Nat
      /\ \A w \in works : \E k \in 1..n : order[k] = w
  BY OrderedSet
<1>2. q = [i \in 1..n |-> E(i)]
  BY <1>1 DEF Queue
<1>3. Len(tasks) \in Nat /\ lane[key] \in Nat
  OBVIOUS
<1>4. ASSUME NEW i \in 1..n
      PROVE  /\ E(i) \in TaskForms /\ E(i).kind = kind /\ E(i).lane = key /\ E(i).asked = now
             /\ E(i).phase = "waiting" /\ E(i).work = order[i] /\ order[i] \in works
             /\ E(i).after = IF i = 1 THEN lane[key] ELSE Len(tasks) + i - 1
  <2>1. order[i] \in works
    BY <1>1, ElementOfSeq
  <2>2. (IF i = 1 THEN lane[key] ELSE Len(tasks) + i - 1) \in Nat
    BY <1>3
  <2>3. E(i) \in TaskForms
    BY <2>1, <2>2 DEF TaskForms, Phases
  <2> QED  BY <2>1, <2>3
<1> HIDE DEF E, order, n
<1>5. q \in [1..n -> TaskForms] /\ \A i \in 1..n : q[i] = E(i)
  <2>1. \A i \in 1..n : E(i) \in TaskForms
    BY <1>4
  <2> QED  BY ONLY <1>2, <2>1
<1> HIDE DEF q
<1>6. q \in Seq(TaskForms) /\ Len(q) = n
  BY <1>1, <1>5
<1>7. \A w \in works : \E i \in 1..Len(q) : q[i].work = w
  <2>1. \A i \in 1..n : q[i].work = order[i]
    BY <1>4, <1>5
  <2> QED  BY ONLY <1>1, <1>6, <2>1
<1>8. \A i \in 1..Len(q) :
        /\ q[i].kind = kind /\ q[i].lane = key /\ q[i].asked = now
        /\ q[i].phase = "waiting" /\ q[i].work \in works
        /\ q[i].after = IF i = 1 THEN lane[key] ELSE Len(tasks) + i - 1
  BY <1>4, <1>5, <1>6
<1> QED  BY <1>1, <1>6, <1>7, <1>8 DEF q, n

LEMMA TaskHolds ==
  \A ts \in Seq(TaskForms) : \A i \in 1..Len(ts) :
      /\ ts[i] \in TaskForms /\ ts[i].lane \in LaneKeys /\ ts[i].kind \in Kinds
      /\ ts[i].asked \in Nat /\ ts[i].after \in Nat /\ ts[i].work \in Works \cup {AnyWork}
      /\ ts[i].phase \in Phases
<1> SUFFICES ASSUME NEW ts \in Seq(TaskForms), NEW i \in 1..Len(ts)
             PROVE  /\ ts[i] \in TaskForms /\ ts[i].lane \in LaneKeys /\ ts[i].kind \in Kinds
                    /\ ts[i].asked \in Nat /\ ts[i].after \in Nat
                    /\ ts[i].work \in Works \cup {AnyWork}
                    /\ ts[i].phase \in Phases
  OBVIOUS
<1>1. ts[i] \in TaskForms
  BY ElementOfSeq
<1>2. \A t \in TaskForms :
        /\ t.lane \in LaneKeys /\ t.kind \in Kinds /\ t.asked \in Nat /\ t.after \in Nat
        /\ t.work \in Works \cup {AnyWork} /\ t.phase \in Phases
  BY DEF TaskForms
<1> QED  BY <1>1, <1>2

(* A lane's unsettled requests stand one behind another, up to the one it  *)
(* holds: only the first of them can have begun.                           *)
Unsettled(t) == t.phase \in {"waiting", "asking"}

InLine(ts) ==
    \A i, j \in 1..Len(ts) :
        i < j /\ Unsettled(ts[i]) /\ Unsettled(ts[j]) /\ ts[i].lane = ts[j].lane
          => /\ ts[j].phase = "waiting"
             /\ ts[j].after \in i..(j - 1)
             /\ Unsettled(ts[ts[j].after]) /\ ts[ts[j].after].lane = ts[j].lane

HeldLast(ts, ln) ==
    \A i \in 1..Len(ts) :
        Unsettled(ts[i]) => /\ ln[ts[i].lane] \in i..Len(ts)
                            /\ Unsettled(ts[ln[ts[i].lane]])
                            /\ ts[ln[ts[i].lane]].lane = ts[i].lane

LEMMA QueuedInLine ==
  ASSUME NEW ts \in Seq(TaskForms), NEW ln \in [LaneKeys -> Nat], InLine(ts), HeldLast(ts, ln),
         NEW key \in LaneKeys, NEW q \in Seq(TaskForms),
         \A i \in 1..Len(q) : /\ q[i].lane = key /\ q[i].phase = "waiting"
                              /\ q[i].after = IF i = 1 THEN ln[key] ELSE Len(ts) + i - 1,
         NEW ln2, ln2 = IF Len(q) = 0 THEN ln ELSE [ln EXCEPT ![key] = Len(ts) + Len(q)]
  PROVE  /\ ts \o q \in Seq(TaskForms) /\ ln2 \in [LaneKeys -> Nat]
         /\ InLine(ts \o q) /\ HeldLast(ts \o q, ln2)
<1> DEFINE us == ts \o q
<1>1. /\ us \in Seq(TaskForms) /\ Len(us) = Len(ts) + Len(q) /\ Len(ts) \in Nat /\ Len(q) \in Nat
      /\ \A i \in 1..Len(ts) : us[i] = ts[i]
  BY ConcatProperties
<1>10. \A i \in (Len(ts) + 1)..Len(us) : us[i] = q[i - Len(ts)] /\ i - Len(ts) \in 1..Len(q)
  BY <1>1, ConcatProperties
<1>2. ln2 \in [LaneKeys -> Nat]
  BY <1>1
<1>3. \A i \in (Len(ts) + 1)..Len(us) :
        /\ us[i].lane = key /\ us[i].phase = "waiting" /\ Unsettled(us[i])
        /\ us[i].after = IF i = Len(ts) + 1 THEN ln[key] ELSE i - 1
  <2> HIDE DEF us
  <2> SUFFICES ASSUME NEW i \in (Len(ts) + 1)..Len(us)
               PROVE  /\ us[i].lane = key /\ us[i].phase = "waiting" /\ Unsettled(us[i])
                      /\ us[i].after = IF i = Len(ts) + 1 THEN ln[key] ELSE i - 1
    OBVIOUS
  <2> DEFINE k == i - Len(ts)
  <2>1. us[i] = q[k] /\ k \in 1..Len(q) /\ (k = 1 <=> i = Len(ts) + 1) /\ Len(ts) + k - 1 = i - 1
    BY <1>1, <1>10
  <2> HIDE DEF k
  <2>2. /\ q[k].lane = key /\ q[k].phase = "waiting"
        /\ q[k].after = IF k = 1 THEN ln[key] ELSE Len(ts) + k - 1
    BY <2>1
  <2>3. us[i].after = IF i = Len(ts) + 1 THEN ln[key] ELSE i - 1
    BY <2>1, <2>2
  <2> QED  BY <2>1, <2>2, <2>3 DEF Unsettled
<1>4. \A i \in 1..Len(ts) : ts[i].lane \in LaneKeys
  BY TaskHolds
<1> HIDE DEF us
<1>5. InLine(us)
  <2> SUFFICES ASSUME NEW i \in 1..Len(us), NEW j \in 1..Len(us), i < j, Unsettled(us[i]),
                      Unsettled(us[j]), us[i].lane = us[j].lane
               PROVE  /\ us[j].phase = "waiting" /\ us[j].after \in i..(j - 1)
                      /\ Unsettled(us[us[j].after]) /\ us[us[j].after].lane = us[j].lane
    BY DEF InLine
  <2>1. CASE j <= Len(ts)
    <3>1. i \in 1..Len(ts) /\ j \in 1..Len(ts)
      BY <1>1, <2>1
    <3>2. /\ ts[j].phase = "waiting" /\ ts[j].after \in i..(j - 1)
          /\ Unsettled(ts[ts[j].after]) /\ ts[ts[j].after].lane = ts[j].lane
      BY <1>1, <3>1 DEF InLine
    <3>3. us[j] = ts[j] /\ ts[j].after \in 1..Len(ts)
      BY <1>1, <3>1, <3>2
    <3> QED  BY <1>1, <3>2, <3>3
  <2>2. CASE j = Len(ts) + 1
    <3>1. i \in 1..Len(ts) /\ j \in (Len(ts) + 1)..Len(us)
      BY <1>1, <2>2
    <3>2. us[j].lane = key /\ us[j].phase = "waiting" /\ us[j].after = ln[key]
      BY <1>3, <2>2, <3>1
    <3>3. us[i] = ts[i] /\ ts[i].lane = key
      BY <1>1, <3>1, <3>2
    <3>4. ln[key] \in i..Len(ts) /\ Unsettled(ts[ln[key]]) /\ ts[ln[key]].lane = key
      BY <3>1, <3>3 DEF HeldLast
    <3>5. ln[key] \in 1..Len(ts)
      BY <3>1, <3>4
    <3>6. us[ln[key]] = ts[ln[key]] /\ Len(ts) = j - 1
      BY <1>1, <2>2, <3>5
    <3> QED  BY <3>2, <3>4, <3>6
  <2>3. CASE j > Len(ts) + 1
    <3>1. j \in (Len(ts) + 1)..Len(us) /\ j - 1 \in (Len(ts) + 1)..Len(us) /\ j # Len(ts) + 1
      BY <1>1, <2>3
    <3>2. us[j].lane = key /\ us[j].phase = "waiting" /\ us[j].after = j - 1
      BY <1>3, <3>1
    <3>3. us[j - 1].lane = key /\ Unsettled(us[j - 1])
      BY <1>3, <3>1
    <3>4. i \in Int /\ j \in Int /\ j - 1 \in i..(j - 1)
      <4>1. i \in 1..Len(us) /\ j \in 1..Len(us) /\ i < j
        OBVIOUS
      <4>2. Len(us) \in Nat
        BY <1>1
      <4> QED  BY ONLY <4>1, <4>2
    <3>5. us[j].after = j - 1 /\ us[us[j].after] = us[j - 1]
      BY <3>2
    <3> QED  BY <3>2, <3>3, <3>4, <3>5 DEF Unsettled
  <2>4. j <= Len(ts) \/ j = Len(ts) + 1 \/ j > Len(ts) + 1
    <3>1. j \in Int /\ Len(ts) \in Int
      BY <1>1
    <3> QED  BY ONLY <3>1
  <2> QED  BY <2>1, <2>2, <2>3, <2>4
<1>6. HeldLast(us, ln2)
  <2> SUFFICES ASSUME NEW i \in 1..Len(us), Unsettled(us[i])
               PROVE  /\ ln2[us[i].lane] \in i..Len(us) /\ Unsettled(us[ln2[us[i].lane]])
                      /\ us[ln2[us[i].lane]].lane = us[i].lane
    BY DEF HeldLast
  <2>1. CASE us[i].lane = key /\ Len(q) # 0
    <3>1. ln2[key] = Len(us) /\ Len(us) \in (Len(ts) + 1)..Len(us) /\ Len(us) \in i..Len(us)
      BY <1>1, <2>1
    <3> QED  BY <1>1, <1>3, <2>1, <3>1
  <2>2. CASE us[i].lane # key \/ Len(q) = 0
    <3>1. i \in 1..Len(ts)
      BY <1>1, <1>3, <2>2
    <3>2. us[i] = ts[i] /\ ts[i].lane \in LaneKeys
      BY <1>1, <1>4, <3>1
    <3>3. ln2[ts[i].lane] = ln[ts[i].lane]
      BY <2>2, <3>2
    <3>4. /\ ln[ts[i].lane] \in i..Len(ts) /\ Unsettled(ts[ln[ts[i].lane]])
          /\ ts[ln[ts[i].lane]].lane = ts[i].lane
      BY <3>1, <3>2 DEF HeldLast
    <3>5. ln[ts[i].lane] \in 1..Len(ts)
      BY <3>1, <3>4
    <3> QED  BY <1>1, <3>2, <3>3, <3>4, <3>5
  <2> QED  BY <2>1, <2>2
<1> QED  BY <1>1, <1>2, <1>5, <1>6 DEF us

WithPhase(ts, at, phase) == [ts EXCEPT ![at].phase = phase]

LEMMA PhaseSet ==
  ASSUME NEW ts \in Seq(TaskForms), NEW at \in 1..Len(ts),
         NEW phase \in Phases
  PROVE  LET us == WithPhase(ts, at, phase)
         IN  /\ us \in Seq(TaskForms) /\ Len(us) = Len(ts)
             /\ \A i \in 1..Len(ts) : i # at => us[i] = ts[i]
             /\ us[at].phase = phase /\ us[at].lane = ts[at].lane /\ us[at].after = ts[at].after
             /\ us[at].kind = ts[at].kind /\ us[at].asked = ts[at].asked
             /\ us[at].work = ts[at].work
<1> DEFINE e == [ts[at] EXCEPT !.phase = phase]
           us == [ts EXCEPT ![at] = e]
<1>1. WithPhase(ts, at, phase) = us
  BY DEF WithPhase
<1>2. ts[at] \in TaskForms
  BY TaskHolds
<1>3. /\ e \in TaskForms /\ e.phase = phase /\ e.lane = ts[at].lane /\ e.after = ts[at].after
      /\ e.kind = ts[at].kind /\ e.asked = ts[at].asked /\ e.work = ts[at].work
  BY <1>2 DEF TaskForms
<1> HIDE DEF e
<1>4. /\ us \in Seq(TaskForms) /\ Len(us) = Len(ts) /\ us[at] = e
      /\ \A i \in 1..Len(ts) : i # at => us[i] = ts[i]
  BY <1>3, ExceptSeq
<1> HIDE DEF us
<1> QED  BY <1>1, <1>3, <1>4

(* Only the first of a lane begins or settles.                             *)
LEMMA SettledInLine ==
  ASSUME NEW ts \in Seq(TaskForms), NEW ln \in [LaneKeys -> Nat], InLine(ts), HeldLast(ts, ln),
         NEW at \in 1..Len(ts),
         \/ ts[at].phase = "asking"
         \/ /\ ts[at].phase = "waiting"
            /\ \/ ts[at].after = 0
               \/ ts[at].after \in 1..Len(ts) /\ ~Unsettled(ts[ts[at].after]),
         NEW phase \in {"asking", "done"}
  PROVE  InLine(WithPhase(ts, at, phase)) /\ HeldLast(WithPhase(ts, at, phase), ln)
<1> DEFINE us == WithPhase(ts, at, phase)
<1>1. /\ us \in Seq(TaskForms) /\ Len(us) = Len(ts) /\ Len(ts) \in Nat
      /\ \A i \in 1..Len(ts) : i # at => us[i] = ts[i]
      /\ us[at].phase = phase /\ us[at].lane = ts[at].lane /\ us[at].after = ts[at].after
  <2>1. phase \in Phases
    BY DEF Phases
  <2>2. Len(ts) \in Nat
    OBVIOUS
  <2>3. /\ us \in Seq(TaskForms) /\ Len(us) = Len(ts)
        /\ \A i \in 1..Len(ts) : i # at => us[i] = ts[i]
        /\ us[at].phase = phase /\ us[at].lane = ts[at].lane /\ us[at].after = ts[at].after
    BY ONLY <2>1, PhaseSet, ts \in Seq(TaskForms), at \in 1..Len(ts)
  <2> QED  BY <2>2, <2>3
<1> HIDE DEF us
<1>2. ASSUME NEW i \in 1..Len(ts), i < at, Unsettled(ts[i]), ts[i].lane = ts[at].lane
      PROVE  FALSE
  <2>1. Unsettled(ts[at])
    BY DEF Unsettled
  <2>2. /\ ts[at].phase = "waiting" /\ ts[at].after \in i..(at - 1)
        /\ Unsettled(ts[ts[at].after])
    BY <1>2, <2>1 DEF InLine
  <2>3. ts[at].after # 0
    BY <2>2
  <2> QED  BY <2>2, <2>3
<1>3. \A i \in 1..Len(ts) :
        /\ us[i].lane = ts[i].lane /\ us[i].after = ts[i].after
        /\ Unsettled(us[i]) => Unsettled(ts[i])
  <2>1. Unsettled(ts[at])
    BY DEF Unsettled
  <2> QED  BY <1>1, <2>1
<1>4. InLine(us)
  <2> SUFFICES ASSUME NEW i \in 1..Len(ts), NEW j \in 1..Len(ts), i < j, Unsettled(us[i]),
                      Unsettled(us[j]), us[i].lane = us[j].lane
               PROVE  /\ us[j].phase = "waiting" /\ us[j].after \in i..(j - 1)
                      /\ Unsettled(us[us[j].after]) /\ us[us[j].after].lane = us[j].lane
    BY <1>1 DEF InLine
  <2>1. Unsettled(ts[i]) /\ Unsettled(ts[j]) /\ ts[i].lane = ts[j].lane
    BY <1>3
  <2>2. j # at
    BY <1>2, <2>1
  <2> DEFINE a == ts[j].after
  <2>3. /\ ts[j].phase = "waiting" /\ a \in i..(j - 1) /\ Unsettled(ts[a])
        /\ ts[a].lane = ts[j].lane
    BY <2>1 DEF InLine
  <2> HIDE DEF a
  <2>4. a \in 1..Len(ts)
    BY <1>1, <2>3
  <2>5. Unsettled(us[a])
    <3>1. CASE a # at
      BY <1>1, <2>3, <2>4, <3>1
    <3>2. CASE a = at
      <4>1. i = at
        BY <1>2, <2>1, <2>3, <3>2
      <4> QED  BY <3>2, <4>1
    <3> QED  BY <3>1, <3>2
  <2>6. us[j] = ts[j] /\ us[j].after = a /\ us[a].lane = ts[a].lane
    BY <1>1, <1>3, <2>2, <2>4 DEF a
  <2> QED  BY <2>3, <2>5, <2>6
<1>5. HeldLast(us, ln)
  <2> SUFFICES ASSUME NEW i \in 1..Len(ts), Unsettled(us[i])
               PROVE  /\ ln[us[i].lane] \in i..Len(ts) /\ Unsettled(us[ln[us[i].lane]])
                      /\ us[ln[us[i].lane]].lane = us[i].lane
    BY <1>1 DEF HeldLast
  <2> DEFINE h == ln[us[i].lane]
  <2>1. Unsettled(ts[i]) /\ us[i].lane = ts[i].lane
    BY <1>3
  <2>2. h \in i..Len(ts) /\ Unsettled(ts[h]) /\ ts[h].lane = ts[i].lane
    BY <2>1 DEF HeldLast
  <2> HIDE DEF h
  <2>3. h \in 1..Len(ts)
    BY <1>1, <2>2
  <2>4. Unsettled(us[h])
    <3>1. CASE h # at
      BY <1>1, <2>2, <2>3, <3>1
    <3>2. CASE h = at
      <4>1. i = at
        BY <1>2, <2>1, <2>2, <3>2
      <4> QED  BY <3>2, <4>1
    <3> QED  BY <3>1, <3>2
  <2>5. us[h].lane = us[i].lane
    BY <1>3, <2>1, <2>2, <2>3
  <2> QED  BY <2>2, <2>4, <2>5 DEF h
<1> QED  BY <1>4, <1>5 DEF us

(* A request that is over is let go of, by its lane too.                   *)
Replaced(ts, at, e) == [ts EXCEPT ![at] = e]

LEMMA DrainedInLine ==
  ASSUME NEW ts \in Seq(TaskForms), NEW ln \in [LaneKeys -> Nat], InLine(ts), HeldLast(ts, ln),
         NEW at \in 1..Len(ts), ~Unsettled(ts[at]), NEW e \in TaskForms, ~Unsettled(e),
         NEW ln2 \in [LaneKeys -> Nat],
         \A k \in LaneKeys : ln2[k] = ln[k] \/ ln[k] = at
  PROVE  /\ Replaced(ts, at, e) \in Seq(TaskForms) /\ Len(Replaced(ts, at, e)) = Len(ts)
         /\ InLine(Replaced(ts, at, e)) /\ HeldLast(Replaced(ts, at, e), ln2)
<1> DEFINE us == Replaced(ts, at, e)
<1>1. /\ us \in Seq(TaskForms) /\ Len(us) = Len(ts) /\ Len(ts) \in Nat /\ us[at] = e
      /\ \A i \in 1..Len(ts) : i # at => us[i] = ts[i]
  BY ExceptSeq DEF Replaced
<1> HIDE DEF us
<1>2. \A i \in 1..Len(ts) : /\ Unsettled(us[i]) <=> Unsettled(ts[i])
                            /\ Unsettled(us[i]) => i # at /\ us[i] = ts[i]
  BY <1>1
<1>3. InLine(us)
  <2> SUFFICES ASSUME NEW i \in 1..Len(ts), NEW j \in 1..Len(ts), i < j, Unsettled(us[i]),
                      Unsettled(us[j]), us[i].lane = us[j].lane
               PROVE  /\ us[j].phase = "waiting" /\ us[j].after \in i..(j - 1)
                      /\ Unsettled(us[us[j].after]) /\ us[us[j].after].lane = us[j].lane
    BY <1>1 DEF InLine
  <2>1. us[i] = ts[i] /\ us[j] = ts[j] /\ Unsettled(ts[i]) /\ Unsettled(ts[j])
    BY <1>2
  <2> DEFINE a == ts[j].after
  <2>2. /\ ts[j].phase = "waiting" /\ a \in i..(j - 1) /\ Unsettled(ts[a])
        /\ ts[a].lane = ts[j].lane
    BY <2>1 DEF InLine
  <2>3. a \in 1..Len(ts)
    BY <1>1, <2>2
  <2>4. us[a] = ts[a]
    BY <1>2, <2>2, <2>3
  <2> QED  BY <2>1, <2>2, <2>4
<1>4. HeldLast(us, ln2)
  <2> SUFFICES ASSUME NEW i \in 1..Len(ts), Unsettled(us[i])
               PROVE  /\ ln2[us[i].lane] \in i..Len(ts) /\ Unsettled(us[ln2[us[i].lane]])
                      /\ us[ln2[us[i].lane]].lane = us[i].lane
    BY <1>1 DEF HeldLast
  <2>1. us[i] = ts[i] /\ Unsettled(ts[i]) /\ ts[i].lane \in LaneKeys
    BY <1>2, TaskHolds
  <2> DEFINE h == ln[ts[i].lane]
  <2>2. h \in i..Len(ts) /\ Unsettled(ts[h]) /\ ts[h].lane = ts[i].lane
    BY <2>1 DEF HeldLast
  <2>3. h \in 1..Len(ts)
    BY <1>1, <2>2
  <2>4. us[h] = ts[h] /\ h # at
    BY <1>2, <2>2, <2>3
  <2>5. ln2[ts[i].lane] = h
    BY <2>1, <2>4
  <2> HIDE DEF h
  <2> QED  BY <2>1, <2>2, <2>4, <2>5
<1> QED  BY <1>1, <1>3, <1>4 DEF us

(* The checks somebody waits for, under a question.                        *)
Waited(ts, now) ==
    {i \in 1..Len(ts) : /\ ts[i].kind = "check" /\ ts[i].asked = now
                        /\ ts[i].phase \in {"waiting", "asking"}}

LEMMA WaitedFinite ==
  ASSUME NEW ts \in Seq(TaskForms), NEW now
  PROVE  IsFiniteSet(Waited(ts, now)) /\ Cardinality(Waited(ts, now)) \in Nat
<1>1. IsFiniteSet(1..Len(ts))
  BY FS_Interval
<1>2. Waited(ts, now) \in SUBSET (1..Len(ts))
  BY DEF Waited
<1>3. IsFiniteSet(Waited(ts, now))
  BY <1>1, <1>2, FS_Subset
<1> QED  BY <1>3, FS_CardinalityType

LEMMA WaitedAfter ==
  ASSUME NEW ts \in Seq(TaskForms), NEW at \in 1..Len(ts), NEW phase \in Phases, NEW now
  PROVE  Waited(WithPhase(ts, at, phase), now) =
             IF ts[at].kind = "check" /\ ts[at].asked = now
             THEN IF phase \in {"waiting", "asking"} THEN Waited(ts, now) \cup {at}
                  ELSE Waited(ts, now) \ {at}
             ELSE Waited(ts, now)
<1> DEFINE us == WithPhase(ts, at, phase)
<1>1. /\ Len(us) = Len(ts) /\ \A i \in 1..Len(ts) : i # at => us[i] = ts[i]
      /\ us[at].phase = phase /\ us[at].kind = ts[at].kind /\ us[at].asked = ts[at].asked
  BY PhaseSet
<1> HIDE DEF us
<1>2. \A i \in 1..Len(ts) : i # at => (i \in Waited(us, now) <=> i \in Waited(ts, now))
  BY <1>1 DEF Waited
<1>3. at \in Waited(us, now) <=> /\ ts[at].kind = "check" /\ ts[at].asked = now
                                 /\ phase \in {"waiting", "asking"}
  BY <1>1 DEF Waited
<1>4. Waited(us, now) \subseteq 1..Len(ts) /\ Waited(ts, now) \subseteq 1..Len(ts)
  BY <1>1 DEF Waited
<1>5. at \in Waited(ts, now) => ts[at].kind = "check" /\ ts[at].asked = now
  BY DEF Waited
<1> DEFINE V == IF ts[at].kind = "check" /\ ts[at].asked = now
                THEN IF phase \in {"waiting", "asking"} THEN Waited(ts, now) \cup {at}
                     ELSE Waited(ts, now) \ {at}
                ELSE Waited(ts, now)
<1>6. \A i : i \in Waited(us, now) <=> i \in V
  BY <1>2, <1>3, <1>4, <1>5
<1>7. Waited(us, now) = V
  BY <1>6
<1> QED  BY <1>7 DEF us

WaitedWith(ts, n, kind, given, now) ==
    IF kind = "check" /\ given = now THEN Waited(ts, now) \cup ((Len(ts) + 1)..(Len(ts) + n))
    ELSE Waited(ts, now)

LEMMA WaitedMore ==
  ASSUME NEW ts \in Seq(TaskForms), NEW q \in Seq(TaskForms), NEW kind, NEW given, NEW now,
         \A i \in 1..Len(q) : /\ q[i].kind = kind /\ q[i].asked = given
                              /\ q[i].phase = "waiting"
  PROVE  Waited(ts \o q, now) = WaitedWith(ts, Len(q), kind, given, now)
<1> DEFINE us == ts \o q
<1>1. /\ Len(us) = Len(ts) + Len(q) /\ Len(ts) \in Nat /\ Len(q) \in Nat
      /\ \A i \in 1..Len(ts) : us[i] = ts[i]
  BY ConcatProperties
<1>2. \A i \in (Len(ts) + 1)..Len(us) : us[i] = q[i - Len(ts)] /\ i - Len(ts) \in 1..Len(q)
  BY <1>1, ConcatProperties
<1> HIDE DEF us
<1>3. \A i \in 1..Len(ts) : i \in Waited(us, now) <=> i \in Waited(ts, now)
  BY <1>1 DEF Waited
<1>4. \A i \in (Len(ts) + 1)..Len(us) : i \in Waited(us, now) <=> kind = "check" /\ given = now
  <2> SUFFICES ASSUME NEW i \in (Len(ts) + 1)..Len(us)
               PROVE  i \in Waited(us, now) <=> kind = "check" /\ given = now
    OBVIOUS
  <2> DEFINE k == i - Len(ts)
  <2>1. us[i] = q[k] /\ k \in 1..Len(q)
    BY <1>2
  <2> HIDE DEF k
  <2>2. us[i].kind = kind /\ us[i].asked = given /\ us[i].phase = "waiting"
    BY <2>1
  <2>3. i \in 1..Len(us)
    BY <1>1
  <2> QED  BY <2>2, <2>3 DEF Waited
<1>5. Waited(us, now) \subseteq 1..Len(us) /\ Waited(ts, now) \subseteq 1..Len(ts)
  BY DEF Waited
<1>6. 1..Len(us) = (1..Len(ts)) \cup ((Len(ts) + 1)..Len(us))
  BY <1>1
<1>7. ASSUME NEW i
      PROVE  i \in Waited(us, now) <=>
                i \in IF kind = "check" /\ given = now
                      THEN Waited(ts, now) \cup ((Len(ts) + 1)..Len(us)) ELSE Waited(ts, now)
  BY <1>3, <1>4, <1>5, <1>6
<1> DEFINE V == IF kind = "check" /\ given = now
                THEN Waited(ts, now) \cup ((Len(ts) + 1)..Len(us)) ELSE Waited(ts, now)
<1>8. Waited(us, now) = V
  BY <1>7
<1> QED  BY <1>1, <1>8 DEF us, WaitedWith

(* What the page shows has chapters, or is being asked about for it.       *)
Verdicts == {"unknown", "has", "empty"}
ShownChecked ==
    \A w \in Visible : verdict[w] = "has" \/ \E i \in Waited(tasks, token) : tasks[i].work = w

DiscoverTyped ==
    /\ tasks \in Seq(TaskForms) /\ lane \in [LaneKeys -> Nat]
    /\ token \in Nat /\ live \in Nat /\ checking \in Int
    /\ gridListed \in Seq(Works) /\ verdict \in [Works -> Verdicts]
    /\ \A i \in 1..Len(tasks) : tasks[i].kind = "check" => tasks[i].asked <= token

DiscoverSound ==
    /\ DiscoverTyped /\ InLine(tasks) /\ HeldLast(tasks, lane)
    /\ ShownChecked /\ checking = Cardinality(Waited(tasks, token))

LEMMA DiscoverHolds == DiscoverSound => GridIsChecked /\ LanesAreSerial
<1> SUFFICES ASSUME DiscoverSound PROVE GridIsChecked /\ LanesAreSerial
  OBVIOUS
<1>1. GridIsChecked
  BY DEF DiscoverSound, ShownChecked, Waited, GridIsChecked
<1>2. ASSUME NEW i \in 1..Len(tasks), NEW j \in 1..Len(tasks), tasks[i].phase = "asking",
             tasks[j].phase = "asking", tasks[i].lane = tasks[j].lane, i < j
      PROVE  FALSE
  <2>1. Unsettled(tasks[i]) /\ Unsettled(tasks[j])
    BY <1>2 DEF Unsettled
  <2>2. tasks[j].phase = "waiting"
    BY <1>2, <2>1 DEF DiscoverSound, InLine
  <2> QED  BY <1>2, <2>2
<1>3. LanesAreSerial
  BY <1>2 DEF LanesAreSerial
<1> QED  BY <1>1, <1>3

LEMMA DiscoverStart == DiscoverInit => DiscoverSound
<1> SUFFICES ASSUME DiscoverInit PROVE DiscoverSound
  OBVIOUS
<1>1. /\ token = 1 /\ checking = 0 /\ gridListed = <<>> /\ live = 0 /\ tasks = <<>>
      /\ verdict \in [Works -> Verdicts] /\ lane = [k \in LaneKeys |-> 0]
  BY DEF DiscoverInit, Verdicts
<1>2. DiscoverTyped
  BY <1>1 DEF DiscoverTyped
<1>3. InLine(tasks) /\ HeldLast(tasks, lane)
  BY <1>1 DEF InLine, HeldLast
<1>4. ShownChecked
  BY <1>1 DEF ShownChecked, Visible, ToSet
<1>5. Waited(tasks, token) = {}
  BY <1>1 DEF Waited
<1> QED  BY <1>1, <1>2, <1>3, <1>4, <1>5, FS_EmptySet DEF DiscoverSound

(* Requests put behind what a lane holds, the checks of a question or not. *)
LanesWith(ts, us, ln2, kind, works, given) ==
    /\ us \in Seq(TaskForms) /\ ln2 \in [LaneKeys -> Nat]
    /\ InLine(us) /\ HeldLast(us, ln2)
    /\ Len(us) = Len(ts) + Cardinality(works) /\ Cardinality(works) \in Nat
    /\ \A i \in 1..Len(ts) : us[i] = ts[i]
    /\ \A i \in (Len(ts) + 1)..Len(us) : us[i].kind = kind /\ us[i].asked = given
    /\ \A w \in works : \E i \in (Len(ts) + 1)..Len(us) : us[i].work = w
    /\ \A now : Waited(us, now) = WaitedWith(ts, Cardinality(works), kind, given, now)

LEMMA QueuedSound ==
  ASSUME DiscoverTyped, NEW ts \in Seq(TaskForms), Len(ts) = Len(tasks),
         InLine(ts), HeldLast(ts, lane), NEW kind \in Kinds, NEW key \in LaneKeys,
         NEW works, works \subseteq Works \cup {AnyWork}, IsFiniteSet(works), NEW given \in Nat,
         NEW ln2, ln2 = IF works = {} THEN lane
                        ELSE [lane EXCEPT ![key] = Len(tasks) + Cardinality(works)]
  PROVE  LanesWith(ts, ts \o Queue(kind, key, works, given), ln2, kind, works, given)
<1> DEFINE q == Queue(kind, key, works, given)
           us == ts \o q
<1>0. tasks \in Seq(TaskForms) /\ lane \in [LaneKeys -> Nat]
  BY DEF DiscoverTyped
<1>1. /\ q \in Seq(TaskForms) /\ Len(q) = Cardinality(works) /\ Len(q) \in Nat
      /\ \A i \in 1..Len(q) :
            /\ q[i].kind = kind /\ q[i].lane = key /\ q[i].asked = given
            /\ q[i].phase = "waiting" /\ q[i].work \in works
            /\ q[i].after = IF i = 1 THEN lane[key] ELSE Len(ts) + i - 1
      /\ \A w \in works : \E i \in 1..Len(q) : q[i].work = w
  BY <1>0, QueueHolds
<1> HIDE DEF q
<1>2. ln2 = IF Len(q) = 0 THEN lane ELSE [lane EXCEPT ![key] = Len(ts) + Len(q)]
  BY <1>1, FS_EmptySet
<1>3. /\ us \in Seq(TaskForms) /\ ln2 \in [LaneKeys -> Nat]
      /\ InLine(us) /\ HeldLast(us, ln2)
  BY <1>0, <1>1, <1>2, QueuedInLine
<1>4. /\ Len(us) = Len(ts) + Len(q) /\ Len(ts) \in Nat
      /\ \A i \in 1..Len(ts) : us[i] = ts[i]
  BY <1>1, ConcatProperties
<1>13. q \in Seq(TaskForms)
  BY <1>1
<1>14. \A i \in 1..(Len(ts) + Len(q)) : us[i] = IF i <= Len(ts) THEN ts[i] ELSE q[i - Len(ts)]
  BY <1>13, ConcatProperties
<1>5. ASSUME NEW i \in 1..Len(q)
      PROVE  us[Len(ts) + i] = q[i] /\ Len(ts) + i \in (Len(ts) + 1)..Len(us)
  <2>1. /\ Len(ts) + i \in 1..(Len(ts) + Len(q)) /\ ~(Len(ts) + i <= Len(ts))
        /\ (Len(ts) + i) - Len(ts) = i /\ Len(ts) + i \in (Len(ts) + 1)..Len(us)
    BY <1>1, <1>4
  <2> HIDE DEF us
  <2> QED  BY <1>14, <2>1
<1>6. ASSUME NEW i \in (Len(ts) + 1)..Len(us)
      PROVE  us[i] = q[i - Len(ts)] /\ i - Len(ts) \in 1..Len(q)
  <2>1. i \in 1..(Len(ts) + Len(q)) /\ ~(i <= Len(ts)) /\ i - Len(ts) \in 1..Len(q)
    BY <1>1, <1>4
  <2> HIDE DEF us
  <2> QED  BY <1>14, <2>1
<1>7. \A now : Waited(us, now) = WaitedWith(ts, Len(q), kind, given, now)
  <2>1. \A i \in 1..Len(q) : q[i].kind = kind /\ q[i].asked = given /\ q[i].phase = "waiting"
    BY <1>1
  <2> QED  BY <1>13, <2>1, WaitedMore
<1> HIDE DEF us
<1>8. \A i \in (Len(ts) + 1)..Len(us) : us[i].kind = kind /\ us[i].asked = given
  <2> SUFFICES ASSUME NEW i \in (Len(ts) + 1)..Len(us) PROVE us[i].kind = kind /\ us[i].asked = given
    OBVIOUS
  <2> DEFINE k == i - Len(ts)
  <2>1. us[i] = q[k] /\ k \in 1..Len(q)
    BY <1>6
  <2> HIDE DEF k
  <2> QED  BY <1>1, <2>1
<1>9. \A w \in works : \E i \in (Len(ts) + 1)..Len(us) : us[i].work = w
  BY <1>1, <1>5
<1> QED  BY <1>1, <1>3, <1>4, <1>7, <1>8, <1>9 DEF us, q, LanesWith

(* A request that is answered, or given up before it was asked.            *)
LEMMA SettledSound ==
  ASSUME DiscoverSound, NEW at \in 1..Len(tasks), NEW phase \in {"asking", "done"},
         tasks[at].phase = "asking" \/ (tasks[at].phase = "waiting" /\ Behind(at))
  PROVE  LET us == WithPhase(tasks, at, phase)
         IN  /\ us \in Seq(TaskForms) /\ Len(us) = Len(tasks)
             /\ InLine(us) /\ HeldLast(us, lane)
             /\ \A i \in 1..Len(tasks) : /\ i # at => us[i] = tasks[i]
                                         /\ us[i].kind = tasks[i].kind
                                         /\ us[i].asked = tasks[i].asked
                                         /\ us[i].work = tasks[i].work
<1> DEFINE us == WithPhase(tasks, at, phase)
<1>0. /\ tasks \in Seq(TaskForms) /\ lane \in [LaneKeys -> Nat]
      /\ InLine(tasks) /\ HeldLast(tasks, lane)
  BY DEF DiscoverSound, DiscoverTyped
<1>1. phase \in Phases
  BY DEF Phases
<1>2. /\ us \in Seq(TaskForms) /\ Len(us) = Len(tasks)
      /\ \A i \in 1..Len(tasks) : i # at => us[i] = tasks[i]
      /\ us[at].kind = tasks[at].kind /\ us[at].asked = tasks[at].asked
      /\ us[at].work = tasks[at].work
  BY <1>0, <1>1, PhaseSet
<1>3. \/ tasks[at].phase = "asking"
      \/ /\ tasks[at].phase = "waiting"
         /\ \/ tasks[at].after = 0
            \/ tasks[at].after \in 1..Len(tasks) /\ ~Unsettled(tasks[tasks[at].after])
  BY DEF Behind, Settled, Unsettled
<1>4. InLine(us) /\ HeldLast(us, lane)
  BY <1>0, <1>3, SettledInLine
<1> HIDE DEF us
<1>5. \A i \in 1..Len(tasks) : /\ i # at => us[i] = tasks[i]
                              /\ us[i].kind = tasks[i].kind /\ us[i].asked = tasks[i].asked
                              /\ us[i].work = tasks[i].work
  BY <1>2
<1> QED  BY <1>2, <1>4, <1>5 DEF us

LEMMA PageSound ==
  ASSUME DiscoverSound, NEW r \in requests, NEW works \in SUBSET Works, NEW next \in BOOLEAN,
         PageListed(r, works, next)
  PROVE  DiscoverSound'
<1> DEFINE u == Unknown(works, r.replace)
           q == Queue("check", "grid", u, token)
           order == SetToSeq(works)
<1>0. /\ DiscoverTyped /\ InLine(tasks) /\ HeldLast(tasks, lane) /\ ShownChecked
      /\ checking = Cardinality(Waited(tasks, token))
      /\ tasks \in Seq(TaskForms) /\ Len(tasks) \in Nat
  BY DEF DiscoverSound, DiscoverTyped
<1>1. /\ tasks' = tasks \o q
      /\ lane' = IF u = {} THEN lane ELSE [lane EXCEPT !["grid"] = Len(tasks) + Cardinality(u)]
      /\ gridListed' = order \/ gridListed' = gridListed \o order
      /\ hidden' = hidden \cup {w \in works : verdict[w] = "empty"}
      /\ checking' = checking + Cardinality(u)
      /\ UNCHANGED <<token, verdict, live>>
  BY DEF PageListed, Enqueue, feedVars
<1>2. /\ u \subseteq works /\ IsFiniteSet(works) /\ IsFiniteSet(u)
      /\ \A w \in works : verdict[w] = "unknown" => w \in u
  BY DiscoverAssumption, FS_Subset DEF Unknown
<1>3. order \in Seq(Works) /\ \A k \in DOMAIN order : order[k] \in works
  <2>1. order \in Seq(works)
    BY <1>2, OrderedSet
  <2> QED  BY <2>1
<1> HIDE DEF u, order
<1>4. /\ tasks' \in Seq(TaskForms) /\ lane' \in [LaneKeys -> Nat]
      /\ InLine(tasks') /\ HeldLast(tasks', lane')
      /\ Len(tasks') = Len(tasks) + Cardinality(u) /\ Cardinality(u) \in Nat
      /\ \A i \in 1..Len(tasks) : tasks'[i] = tasks[i]
      /\ \A i \in (Len(tasks) + 1)..Len(tasks') : tasks'[i].kind = "check" /\ tasks'[i].asked = token
      /\ \A w \in u : \E i \in (Len(tasks) + 1)..Len(tasks') : tasks'[i].work = w
      /\ Waited(tasks', token) = WaitedWith(tasks, Cardinality(u), "check", token, token)
  <2>1. "check" \in Kinds /\ "grid" \in LaneKeys /\ token \in Nat
    BY <1>0 DEF Kinds, LaneKeys, DiscoverTyped
  <2>2. u \subseteq Works \cup {AnyWork}
    BY <1>2
  <2>3. ASSUME NEW kind \in Kinds, NEW key \in LaneKeys, tasks' = tasks \o Queue(kind, key, u, token),
               lane' = IF u = {} THEN lane ELSE [lane EXCEPT ![key] = Len(tasks) + Cardinality(u)]
        PROVE  LanesWith(tasks, tasks', lane', kind, u, token)
    BY <1>0, <1>2, <2>1, <2>2, <2>3, QueuedSound
  <2>4. LanesWith(tasks, tasks', lane', "check", u, token)
    BY <1>1, <2>1, <2>3
  <2> QED  BY <2>4 DEF LanesWith
<1>5. Waited(tasks', token) = Waited(tasks, token) \cup ((Len(tasks) + 1)..Len(tasks'))
  BY <1>4 DEF WaitedWith
<1>6. DiscoverTyped'
  <2>1. gridListed' \in Seq(Works)
    <3>1. gridListed \in Seq(Works) /\ order \in Seq(Works)
      BY <1>0, <1>3 DEF DiscoverTyped
    <3>2. gridListed \o order \in Seq(Works)
      BY <3>1, ConcatProperties
    <3>3. gridListed' = order \/ gridListed' = gridListed \o order
      BY <1>1
    <3> QED  BY <3>1, <3>2, <3>3
  <2>2. ASSUME NEW i \in 1..Len(tasks'), tasks'[i].kind = "check" PROVE tasks'[i].asked <= token
    <3>1. CASE i \in 1..Len(tasks)
      BY <1>0, <1>4, <2>2, <3>1 DEF DiscoverTyped
    <3>2. CASE i \in (Len(tasks) + 1)..Len(tasks')
      BY <1>0, <1>4, <3>2 DEF DiscoverTyped
    <3> QED  BY <1>0, <1>4, <3>1, <3>2
  <2>3. checking' \in Int
    BY <1>0, <1>1, <1>4 DEF DiscoverTyped
  <2> QED  BY <1>0, <1>1, <1>4, <2>1, <2>2, <2>3 DEF DiscoverTyped
<1>7. checking' = Cardinality(Waited(tasks', token'))
  <2> DEFINE W == Waited(tasks, token)
             N == (Len(tasks) + 1)..Len(tasks')
  <2>1. IsFiniteSet(W) /\ Cardinality(W) \in Nat
    BY <1>0, WaitedFinite
  <2>2. IsFiniteSet(N) /\ Cardinality(N) = Cardinality(u)
    <3>1. /\ Len(tasks) + 1 \in Int /\ Len(tasks') \in Int
          /\ Len(tasks') - (Len(tasks) + 1) + 1 = Cardinality(u)
          /\ Len(tasks) + 1 > Len(tasks') <=> Cardinality(u) = 0
      BY <1>0, <1>4
    <3> QED  BY <3>1, FS_Interval
  <2>3. W \cap N = {}
    BY <1>0 DEF Waited
  <2> HIDE DEF W, N
  <2>4. Cardinality(W \cup N) = Cardinality(W) + Cardinality(N) - Cardinality({})
    BY <2>1, <2>2, <2>3, FS_Union
  <2>5. Cardinality(W \cup N) = Cardinality(W) + Cardinality(u)
    BY <1>4, <2>1, <2>2, <2>4, FS_EmptySet
  <2> QED  BY <1>0, <1>1, <1>5, <2>5 DEF W, N
<1>8. ShownChecked'
  <2> SUFFICES ASSUME NEW w \in Visible', verdict[w] # "has"
               PROVE  \E i \in Waited(tasks', token) : tasks'[i].work = w
    BY <1>1 DEF ShownChecked
  <2>1. w \in Works /\ w \in ToSet(gridListed') /\ w \notin hidden'
    BY DEF Visible
  <2>2. CASE w \in works
    <3>1. verdict[w] = "unknown"
      BY <1>0, <1>1, <2>1, <2>2 DEF DiscoverTyped, Verdicts
    <3>2. w \in u
      BY <1>2, <2>2, <3>1
    <3> QED  BY <1>4, <1>5, <3>2
  <2>3. CASE w \notin works
    <3>1. w \in ToSet(gridListed)
      <4>1. PICK k \in DOMAIN gridListed' : gridListed'[k] = w
        BY <2>1 DEF ToSet
      <4>2. gridListed' = gridListed \o order
        BY <1>1, <1>3, <2>3, <4>1
      <4>3. gridListed \in Seq(Works)
        BY <1>0 DEF DiscoverTyped
      <4>4. k \in DOMAIN gridListed /\ gridListed[k] = w
        BY <1>3, <2>3, <4>1, <4>2, <4>3
      <4> QED  BY <4>4 DEF ToSet
    <3>2. w \in Visible
      BY <1>1, <2>1, <3>1 DEF Visible
    <3>3. PICK i \in Waited(tasks, token) : tasks[i].work = w
      BY <1>0, <3>2 DEF ShownChecked
    <3>4. i \in 1..Len(tasks)
      BY DEF Waited
    <3> QED  BY <1>4, <1>5, <3>3, <3>4
  <2> QED  BY <2>2, <2>3
<1> QED  BY <1>4, <1>6, <1>7, <1>8 DEF DiscoverSound

LEMMA BegunSound ==
  ASSUME DiscoverSound, NEW at \in 1..Len(tasks), Begin(at)
  PROVE  DiscoverSound'
<1> DEFINE phase == IF Abandoned(tasks[at]) THEN "done" ELSE "asking"
<1>0. DiscoverTyped /\ ShownChecked /\ tasks \in Seq(TaskForms)
  BY DEF DiscoverSound, DiscoverTyped
<1>1. /\ tasks[at].phase = "waiting" /\ Behind(at)
      /\ tasks' = WithPhase(tasks, at, phase)
      /\ UNCHANGED <<token, gridListed, hidden, checking, verdict, lane, live>>
  BY DEF Begin, WithPhase, gridVars, feedVars
<1>2. phase \in {"asking", "done"} /\ phase \in Phases
  BY DEF Phases
<1>3. /\ tasks[at].kind = "check" /\ tasks[at].asked = token => phase = "asking"
  BY DEF Abandoned
<1> HIDE DEF phase
<1>4. /\ tasks' \in Seq(TaskForms) /\ Len(tasks') = Len(tasks)
      /\ InLine(tasks') /\ HeldLast(tasks', lane)
      /\ \A i \in 1..Len(tasks) : /\ i # at => tasks'[i] = tasks[i]
                                  /\ tasks'[i].kind = tasks[i].kind
                                  /\ tasks'[i].asked = tasks[i].asked
                                  /\ tasks'[i].work = tasks[i].work
  BY <1>1, <1>2, SettledSound
<1>5. Waited(tasks', token) = Waited(tasks, token)
  <2>1. tasks[at].kind = "check" /\ tasks[at].asked = token => at \in Waited(tasks, token)
    BY <1>1 DEF Waited
  <2>2. CASE tasks[at].kind = "check" /\ tasks[at].asked = token
    <3>1. phase \in {"waiting", "asking"}
      BY <1>3, <2>2
    <3>2. Waited(WithPhase(tasks, at, phase), token) = Waited(tasks, token) \cup {at}
      BY <1>0, <1>2, <2>2, <3>1, WaitedAfter
    <3> QED  BY <1>1, <2>1, <2>2, <3>2
  <2>3. CASE ~(tasks[at].kind = "check" /\ tasks[at].asked = token)
    <3>1. Waited(WithPhase(tasks, at, phase), token) = Waited(tasks, token)
      BY <1>0, <1>2, <2>3, WaitedAfter
    <3> QED  BY <1>1, <3>1
  <2> QED  BY <2>2, <2>3
<1>6. DiscoverTyped'
  BY <1>0, <1>1, <1>4 DEF DiscoverTyped
<1>7. ShownChecked'
  <2>1. Visible' = Visible
    BY <1>1 DEF Visible
  <2>2. \A i \in Waited(tasks, token) : i \in 1..Len(tasks)
    BY DEF Waited
  <2> QED  BY <1>0, <1>1, <1>4, <1>5, <2>1, <2>2 DEF ShownChecked
<1> QED  BY <1>1, <1>4, <1>5, <1>6, <1>7 DEF DiscoverSound

LEMMA DrainedSound ==
  ASSUME DiscoverSound, NEW at \in 1..Len(tasks), Drain(at)
  PROVE  DiscoverSound'
<1>0. DiscoverTyped /\ ShownChecked /\ tasks \in Seq(TaskForms) /\ lane \in [LaneKeys -> Nat]
      /\ InLine(tasks) /\ HeldLast(tasks, lane)
  BY DEF DiscoverSound, DiscoverTyped
<1>1. /\ tasks[at].phase = "done" /\ tasks' = Replaced(tasks, at, Over)
      /\ lane' = Forgotten(at)
      /\ UNCHANGED <<token, gridListed, hidden, checking, verdict, live>>
  BY DEF Drain, Replaced, gridVars, feedVars
<1>2. Over \in TaskForms /\ ~Unsettled(Over) /\ Over.asked = 0 /\ Over.phase = "drained"
  BY DEF Over, TaskForms, Phases, Kinds, LaneKeys, AnyWork, Unsettled
<1>3. lane' \in [LaneKeys -> Nat] /\ \A k \in LaneKeys : lane'[k] = lane[k] \/ lane[k] = at
  <2>1. tasks[at].lane \in LaneKeys
    BY <1>0, TaskHolds
  <2> QED  BY <1>0, <1>1, <2>1 DEF Forgotten
<1>4. ~Unsettled(tasks[at])
  BY <1>1 DEF Unsettled
<1>5. /\ tasks' \in Seq(TaskForms) /\ Len(tasks') = Len(tasks)
      /\ InLine(tasks') /\ HeldLast(tasks', lane')
  BY <1>0, <1>1, <1>2, <1>3, <1>4, DrainedInLine
<1>6. tasks'[at] = Over /\ \A i \in 1..Len(tasks) : i # at => tasks'[i] = tasks[i]
  BY <1>0, <1>1, <1>2, ExceptSeq DEF Replaced
<1>7. Waited(tasks', token) = Waited(tasks, token)
  <2>1. at \notin Waited(tasks', token) /\ at \notin Waited(tasks, token)
    BY <1>1, <1>2, <1>6 DEF Waited
  <2>2. \A i \in 1..Len(tasks) : i # at => (i \in Waited(tasks', token) <=> i \in Waited(tasks, token))
    BY <1>5, <1>6 DEF Waited
  <2>3. Waited(tasks', token) \subseteq 1..Len(tasks) /\ Waited(tasks, token) \subseteq 1..Len(tasks)
    BY <1>5 DEF Waited
  <2> QED  BY <2>1, <2>2, <2>3
<1>8. DiscoverTyped'
  <2>1. \A i \in 1..Len(tasks') : tasks'[i].kind = "check" => tasks'[i].asked <= token
    BY <1>0, <1>2, <1>5, <1>6 DEF DiscoverTyped
  <2> QED  BY <1>0, <1>1, <1>3, <1>5, <2>1 DEF DiscoverTyped
<1>9. ShownChecked'
  <2>1. Visible' = Visible
    BY <1>1 DEF Visible
  <2>2. \A i \in Waited(tasks, token) : i \in 1..Len(tasks) /\ i # at
    BY <1>1 DEF Waited
  <2> QED  BY <1>0, <1>1, <1>6, <1>7, <2>1, <2>2 DEF ShownChecked
<1> QED  BY <1>1, <1>3, <1>5, <1>7, <1>8, <1>9 DEF DiscoverSound

(* What a verdict may become as an answer comes.                           *)
LEMMA RecordedSound ==
  ASSUME verdict \in [Works -> Verdicts], NEW v, NEW found \in BOOLEAN
  PROVE  /\ Recorded(v, found) \in [Works -> Verdicts]
         /\ \A w \in Works : verdict[w] = "has" \/ (w = v /\ found) => Recorded(v, found)[w] = "has"
BY DEF Recorded, Verdicts

LEMMA CheckedSound ==
  ASSUME DiscoverSound, NEW at \in 1..Len(tasks), NEW found \in BOOLEAN, Checked(at, found)
  PROVE  DiscoverSound'
<1> DEFINE v == tasks[at].work
           ours == tasks[at].asked = token
<1>0. DiscoverTyped /\ ShownChecked /\ tasks \in Seq(TaskForms) /\ verdict \in [Works -> Verdicts]
      /\ checking = Cardinality(Waited(tasks, token))
  BY DEF DiscoverSound, DiscoverTyped
<1>1. /\ tasks[at].phase = "asking" /\ tasks[at].kind = "check"
      /\ tasks' = WithPhase(tasks, at, "done") /\ verdict' = Recorded(v, found)
      /\ hidden' = IF ~ours \/ found THEN hidden ELSE hidden \cup {v}
      /\ checking' = IF ours THEN checking - 1 ELSE checking
      /\ UNCHANGED <<token, gridListed, lane, live>>
  BY DEF Checked, Counted, WithPhase, feedVars
<1>2. /\ tasks' \in Seq(TaskForms) /\ Len(tasks') = Len(tasks)
      /\ InLine(tasks') /\ HeldLast(tasks', lane)
      /\ \A i \in 1..Len(tasks) : /\ tasks'[i].kind = tasks[i].kind
                                  /\ tasks'[i].asked = tasks[i].asked
                                  /\ tasks'[i].work = tasks[i].work
  BY <1>1, SettledSound
<1>3. Waited(tasks', token) = IF ours THEN Waited(tasks, token) \ {at} ELSE Waited(tasks, token)
  <2>1. "done" \in Phases /\ "done" \notin {"waiting", "asking"}
    BY DEF Phases
  <2>2. CASE ours
    <3>1. Waited(WithPhase(tasks, at, "done"), token) = Waited(tasks, token) \ {at}
      BY <1>0, <1>1, <2>1, <2>2, WaitedAfter
    <3> QED  BY <1>1, <2>2, <3>1
  <2>3. CASE ~ours
    <3>1. Waited(WithPhase(tasks, at, "done"), token) = Waited(tasks, token)
      BY <1>0, <1>1, <2>1, <2>3, WaitedAfter
    <3> QED  BY <1>1, <2>3, <3>1
  <2> QED  BY <2>2, <2>3
<1>4. verdict' \in [Works -> Verdicts]
      /\ \A w \in Works : verdict[w] = "has" \/ (w = v /\ found) => verdict'[w] = "has"
  BY <1>0, <1>1, RecordedSound
<1>5. DiscoverTyped'
  <2>1. checking' \in Int
    BY <1>0, <1>1 DEF DiscoverTyped
  <2> QED  BY <1>0, <1>1, <1>2, <1>4, <2>1 DEF DiscoverTyped
<1>6. checking' = Cardinality(Waited(tasks', token'))
  <2>1. IsFiniteSet(Waited(tasks, token))
    BY <1>0, WaitedFinite
  <2>2. ours => at \in Waited(tasks, token)
    BY <1>1 DEF Waited
  <2>3. ours => Cardinality(Waited(tasks, token) \ {at}) = Cardinality(Waited(tasks, token)) - 1
    BY <2>1, <2>2, FS_RemoveElement
  <2>4. token' = token
    BY <1>1
  <2>5. CASE ours
    BY <1>0, <1>1, <1>3, <2>3, <2>4, <2>5
  <2>6. CASE ~ours
    BY <1>0, <1>1, <1>3, <2>4, <2>6
  <2> QED  BY <2>5, <2>6
<1>7. ShownChecked'
  <2> SUFFICES ASSUME NEW w \in Visible', verdict'[w] # "has"
               PROVE  \E i \in Waited(tasks', token) : tasks'[i].work = w
    BY <1>1 DEF ShownChecked
  <2>1. w \in Visible /\ w \in Works /\ w \notin hidden'
    BY <1>1 DEF Visible
  <2>2. PICK i \in Waited(tasks, token) : tasks[i].work = w
    BY <1>0, <1>4, <2>1 DEF ShownChecked
  <2>3. i \in 1..Len(tasks)
    BY DEF Waited
  <2>4. ~(ours /\ i = at)
    BY <1>1, <1>4, <2>1, <2>2
  <2> QED  BY <1>2, <1>3, <2>2, <2>3, <2>4
<1> QED  BY <1>1, <1>2, <1>5, <1>6, <1>7 DEF DiscoverSound

LEMMA ShelfCheckedSound ==
  ASSUME DiscoverSound, NEW at \in 1..Len(tasks), NEW found \in BOOLEAN, ShelfChecked(at, found)
  PROVE  DiscoverSound'
<1> DEFINE v == tasks[at].work
<1>0. DiscoverTyped /\ ShownChecked /\ tasks \in Seq(TaskForms) /\ verdict \in [Works -> Verdicts]
      /\ checking = Cardinality(Waited(tasks, token))
  BY DEF DiscoverSound, DiscoverTyped
<1>1. /\ tasks[at].phase = "asking" /\ tasks[at].kind = "shelfCheck"
      /\ tasks' = WithPhase(tasks, at, "done") /\ verdict' = Recorded(v, found)
      /\ UNCHANGED <<token, gridListed, hidden, checking, lane, live>>
  BY DEF ShelfChecked, WithPhase, gridVars
<1>2. /\ tasks' \in Seq(TaskForms) /\ Len(tasks') = Len(tasks)
      /\ InLine(tasks') /\ HeldLast(tasks', lane)
      /\ \A i \in 1..Len(tasks) : /\ tasks'[i].kind = tasks[i].kind
                                  /\ tasks'[i].asked = tasks[i].asked
                                  /\ tasks'[i].work = tasks[i].work
  BY <1>1, SettledSound
<1>3. Waited(tasks', token) = Waited(tasks, token)
  <2>1. "done" \in Phases /\ tasks[at].kind # "check"
    BY <1>1 DEF Phases
  <2>2. Waited(WithPhase(tasks, at, "done"), token) = Waited(tasks, token)
    BY <1>0, <2>1, WaitedAfter
  <2> QED  BY <1>1, <2>2
<1>4. verdict' \in [Works -> Verdicts]
      /\ \A w \in Works : verdict[w] = "has" => verdict'[w] = "has"
  BY <1>0, <1>1, RecordedSound
<1>5. DiscoverTyped'
  BY <1>0, <1>1, <1>2, <1>4 DEF DiscoverTyped
<1>6. ShownChecked'
  <2>1. Visible' = Visible /\ Visible \subseteq Works
    BY <1>1 DEF Visible
  <2>2. \A i \in Waited(tasks, token) : i \in 1..Len(tasks)
    BY DEF Waited
  <2> QED  BY <1>0, <1>1, <1>2, <1>3, <1>4, <2>1, <2>2 DEF ShownChecked
<1> QED  BY <1>0, <1>1, <1>2, <1>3, <1>5, <1>6 DEF DiscoverSound

(* The shelf's requests leave the grid alone.                              *)
LEMMA ShelfQueued ==
  ASSUME DiscoverSound, NEW ts \in Seq(TaskForms), Len(ts) = Len(tasks),
         InLine(ts), HeldLast(ts, lane), Waited(ts, token) = Waited(tasks, token),
         \A i \in 1..Len(tasks) : /\ ts[i].kind = tasks[i].kind /\ ts[i].asked = tasks[i].asked
                                 /\ ts[i].work = tasks[i].work,
         NEW kind \in Kinds, kind # "check", NEW key \in LaneKeys, NEW works, works \subseteq Works \cup {AnyWork},
         IsFiniteSet(works), NEW given \in Nat,
         tasks' = ts \o Queue(kind, key, works, given),
         lane' = IF works = {} THEN lane
                 ELSE [lane EXCEPT ![key] = Len(tasks) + Cardinality(works)],
         UNCHANGED <<token, gridListed, hidden, checking, verdict>>, live' \in Nat
  PROVE  DiscoverSound'
<1> DEFINE us == ts \o Queue(kind, key, works, given)
<1>0. DiscoverTyped /\ ShownChecked /\ tasks \in Seq(TaskForms) /\ Len(tasks) \in Nat
      /\ checking = Cardinality(Waited(tasks, token))
  BY DEF DiscoverSound, DiscoverTyped
<1>1. /\ ts \in Seq(TaskForms) /\ Len(ts) = Len(tasks) /\ InLine(ts) /\ HeldLast(ts, lane)
      /\ works \subseteq Works \cup {AnyWork} /\ IsFiniteSet(works) /\ given \in Nat
      /\ kind \in Kinds /\ key \in LaneKeys
  OBVIOUS
<1>11. lane' = IF works = {} THEN lane
               ELSE [lane EXCEPT ![key] = Len(tasks) + Cardinality(works)]
  OBVIOUS
<1>10. DiscoverTyped
  BY <1>0
<1>12. LanesWith(ts, us, lane', kind, works, given)
  BY ONLY <1>10, <1>1, <1>11, QueuedSound
<1> HIDE DEF us
<1>5. tasks' = us
  BY DEF us
<1>2. /\ us \in Seq(TaskForms) /\ lane' \in [LaneKeys -> Nat]
      /\ InLine(us) /\ HeldLast(us, lane')
  BY <1>12 DEF LanesWith
<1>3. /\ Len(us) = Len(ts) + Cardinality(works) /\ Cardinality(works) \in Nat
      /\ \A i \in 1..Len(ts) : us[i] = ts[i]
      /\ \A i \in (Len(ts) + 1)..Len(us) : us[i].kind = kind /\ us[i].asked = given
  BY <1>12 DEF LanesWith
<1>4. Waited(us, token) = WaitedWith(ts, Cardinality(works), kind, given, token)
  BY <1>12 DEF LanesWith
<1>6. Waited(tasks', token) = Waited(tasks, token)
  BY <1>4, <1>5 DEF WaitedWith
<1>7. DiscoverTyped'
  <2>1. ASSUME NEW i \in 1..Len(us), us[i].kind = "check" PROVE us[i].asked <= token
    <3>1. CASE i \in 1..Len(ts)
      BY <1>0, <1>3, <2>1, <3>1 DEF DiscoverTyped
    <3>2. CASE i \in (Len(ts) + 1)..Len(us)
      BY <1>3, <2>1, <3>2
    <3> QED  BY <1>0, <1>3, <3>1, <3>2
  <2> QED  BY <1>0, <1>2, <1>5, <2>1 DEF DiscoverTyped
<1>8. ShownChecked'
  <2>1. Visible' = Visible
    BY DEF Visible
  <2>2. \A i \in Waited(tasks, token) : i \in 1..Len(ts) /\ us[i].work = tasks[i].work
    BY <1>3 DEF Waited
  <2> QED  BY <1>0, <1>5, <1>6, <2>1, <2>2 DEF ShownChecked
<1> QED  BY <1>0, <1>2, <1>5, <1>6, <1>7, <1>8 DEF DiscoverSound

LEMMA ShelfAnsweredSound ==
  ASSUME DiscoverSound, NEW at \in 1..Len(tasks), NEW works \in SUBSET Works,
         ShelfAnswered(at, works)
  PROVE  DiscoverSound'
<1> DEFINE found == IF tasks[at].asked = live THEN {w \in works : verdict[w] # "empty"} ELSE {}
           asks == {w \in found : verdict[w] = "unknown"}
           ts == WithPhase(tasks, at, "done")
<1>0. DiscoverTyped /\ tasks \in Seq(TaskForms) /\ live \in Nat
  BY DEF DiscoverSound, DiscoverTyped
<1>1. /\ tasks[at].phase = "asking" /\ tasks[at].kind = "shelfSearch"
      /\ tasks' = ts \o Queue("shelfCheck", "shelf", asks, live)
      /\ lane' = IF asks = {} THEN lane
                 ELSE [lane EXCEPT !["shelf"] = Len(tasks) + Cardinality(asks)]
      /\ UNCHANGED <<token, gridListed, hidden, checking, verdict, live>>
  BY DEF ShelfAnswered, WithPhase, gridVars
<1>2. /\ ts \in Seq(TaskForms) /\ Len(ts) = Len(tasks) /\ InLine(ts) /\ HeldLast(ts, lane)
      /\ \A i \in 1..Len(tasks) : /\ ts[i].kind = tasks[i].kind /\ ts[i].asked = tasks[i].asked
                                  /\ ts[i].work = tasks[i].work
  BY <1>1, SettledSound
<1>3. Waited(ts, token) = Waited(tasks, token)
  <2>1. "done" \in Phases /\ tasks[at].kind # "check"
    BY <1>1 DEF Phases
  <2> QED  BY <1>0, <2>1, WaitedAfter
<1>4. asks \subseteq Works \cup {AnyWork} /\ IsFiniteSet(asks)
  <2>1. asks \in SUBSET Works
    OBVIOUS
  <2> HIDE DEF asks
  <2> QED  BY <2>1, DiscoverAssumption, FS_Subset
<1> HIDE DEF ts, asks
<1>5. "shelfCheck" \in Kinds /\ "shelfCheck" # "check" /\ "shelf" \in LaneKeys
  BY DEF Kinds, LaneKeys
<1>6. ASSUME NEW kind \in Kinds, kind # "check", NEW key \in LaneKeys,
             tasks' = ts \o Queue(kind, key, asks, live),
             lane' = IF asks = {} THEN lane
                     ELSE [lane EXCEPT ![key] = Len(tasks) + Cardinality(asks)]
      PROVE  DiscoverSound'
  <2>1. UNCHANGED <<token, gridListed, hidden, checking, verdict>> /\ live' \in Nat
    BY <1>0, <1>1
  <2> QED  BY <1>0, <1>2, <1>3, <1>4, <1>6, <2>1, ShelfQueued
<1> QED  BY <1>1, <1>5, <1>6

LEMMA OpenedShelfSound == DiscoverSound /\ OpenShelf => DiscoverSound'
<1> SUFFICES ASSUME DiscoverSound, OpenShelf PROVE DiscoverSound'
  OBVIOUS
<1> DEFINE given == Len(tasks) + 1
<1>0. /\ DiscoverTyped /\ tasks \in Seq(TaskForms) /\ given \in Nat
      /\ InLine(tasks) /\ HeldLast(tasks, lane)
  BY DEF DiscoverSound, DiscoverTyped
<1>1. /\ tasks' = tasks \o Queue("shelfSearch", "shelf", {AnyWork}, given)
      /\ lane' = IF {AnyWork} = {} THEN lane
                 ELSE [lane EXCEPT !["shelf"] = Len(tasks) + Cardinality({AnyWork})]
      /\ UNCHANGED <<token, gridListed, hidden, checking, verdict>> /\ live' = given
  BY DEF OpenShelf, Enqueue, AnyWork, gridVars
<1>2. {AnyWork} \subseteq Works \cup {AnyWork} /\ IsFiniteSet({AnyWork})
  BY FS_Singleton
<1> HIDE DEF given
<1>3. "shelfSearch" \in Kinds /\ "shelfSearch" # "check" /\ "shelf" \in LaneKeys
  BY DEF Kinds, LaneKeys
<1>4. ASSUME NEW kind \in Kinds, kind # "check", NEW key \in LaneKeys, NEW works, works = {AnyWork},
             tasks' = tasks \o Queue(kind, key, works, given),
             lane' = IF works = {} THEN lane
                     ELSE [lane EXCEPT ![key] = Len(tasks) + Cardinality(works)]
      PROVE  DiscoverSound'
  <2>1. UNCHANGED <<token, gridListed, hidden, checking, verdict>> /\ live' \in Nat
    BY <1>0, <1>1
  <2> QED  BY <1>0, <1>2, <1>4, <2>1, ShelfQueued
<1> QED  BY <1>1, <1>3, <1>4

LEMMA DiscoverMove == DiscoverSound /\ [DiscoverNext]_discoverVars => DiscoverSound'
<1> SUFFICES ASSUME DiscoverSound, [DiscoverNext]_discoverVars PROVE DiscoverSound'
  OBVIOUS
<1>0. /\ DiscoverTyped /\ InLine(tasks) /\ HeldLast(tasks, lane) /\ ShownChecked
      /\ checking = Cardinality(Waited(tasks, token))
  BY DEF DiscoverSound
<1>1. ASSUME UNCHANGED <<token, gridListed, hidden, checking, verdict, tasks, lane>>, live' \in Nat
      PROVE  DiscoverSound'
  <2>1. DiscoverTyped'
    BY <1>0, <1>1 DEF DiscoverTyped
  <2>2. Visible' = Visible
    BY <1>1 DEF Visible
  <2>3. ShownChecked'
    BY <1>0, <1>1, <2>2 DEF ShownChecked
  <2> QED  BY <1>0, <1>1, <2>1, <2>3 DEF DiscoverSound
<1>2. CASE Ask
  <2>1. /\ token' = token + 1 /\ gridListed' = <<>> /\ checking' = 0
        /\ UNCHANGED <<verdict, tasks, lane, live>>
    BY <1>2 DEF Ask, laneVars, feedVars
  <2>2. Waited(tasks', token') = {}
    BY <1>0, <2>1 DEF DiscoverTyped, Waited
  <2>3. DiscoverTyped'
    <3>1. \A i \in 1..Len(tasks) : tasks[i].kind = "check" => tasks[i].asked <= token + 1
      <4>1. \A i \in 1..Len(tasks) : tasks[i].asked \in Nat
        BY <1>0, TaskHolds DEF DiscoverTyped
      <4> QED  BY <1>0, <4>1 DEF DiscoverTyped
    <3> QED  BY <1>0, <2>1, <3>1 DEF DiscoverTyped
  <2>4. ShownChecked'
    BY <2>1 DEF ShownChecked, Visible, ToSet
  <2> QED  BY <1>0, <2>1, <2>2, <2>3, <2>4, FS_EmptySet DEF DiscoverSound
<1>3. CASE \/ \E r \in requests : PageFailed(r)
           \/ LoadMore \/ TopUp \/ CloseShelf \/ UNCHANGED discoverVars
  <2>1. /\ UNCHANGED <<token, gridListed, hidden, checking, verdict, tasks, lane>>
        /\ live' = live \/ live' = 0
    BY <1>3 DEF PageFailed, LoadMore, TopUp, NextPage, CloseShelf, discoverVars, gridVars,
                laneVars, feedVars
  <2> QED  BY <1>0, <1>1, <2>1 DEF DiscoverTyped
<1>4. ASSUME NEW w \in Works, VerdictExpires(w) PROVE DiscoverSound'
  <2>1. /\ verdict[w] = "empty" /\ verdict' = [verdict EXCEPT ![w] = "unknown"]
        /\ UNCHANGED <<token, gridListed, hidden, checking, tasks, lane, live>>
    BY <1>4 DEF VerdictExpires, gridVars, laneVars, feedVars
  <2>2. DiscoverTyped'
    BY <1>0, <2>1 DEF DiscoverTyped, Verdicts
  <2>3. Visible' = Visible /\ Visible \subseteq Works
    BY <2>1 DEF Visible
  <2>4. \A v \in Works : verdict[v] = "has" => verdict'[v] = "has"
    BY <1>0, <2>1 DEF DiscoverTyped
  <2>5. ShownChecked'
    BY <1>0, <2>1, <2>3, <2>4 DEF ShownChecked
  <2> QED  BY <1>0, <2>1, <2>2, <2>5 DEF DiscoverSound
<1> QED  BY <1>2, <1>3, <1>4, PageSound, BegunSound, DrainedSound, CheckedSound,
            ShelfCheckedSound, ShelfAnsweredSound, OpenedShelfSound DEF DiscoverNext

-----------------------------------------------------------------------------
(* The pages, whichever of them moves.                                     *)

PagesSound ==
    /\ focus = "settings" => SettingsSound
    /\ focus = "overrides" => OverridesSound
    /\ focus = "discover" => DiscoverSound
    /\ focus = "sweep" => SweepSound
    /\ focus = "library" => JobsSound
    /\ focus = "detail" => DetailSound
    /\ focus = "restore" => PanelIsTrue
    /\ focus = "sources" => RowsSound /\ FiltersSound

LEMMA PagesStart == PagesInit => PagesSound
BY SettingsStart, OverridesStart, DiscoverStart, SweepStart, JobsStart, DetailStart, PanelStart,
   RowsStart, FiltersStart DEF PagesInit, PagesSound

LEMMA PagesMove == PagesSound /\ [PagesNext]_pagesVars => PagesSound'
<1> SUFFICES ASSUME PagesSound, [PagesNext]_pagesVars PROVE PagesSound'
  OBVIOUS
<1>0. focus' = focus
  BY DEF PagesNext, pagesVars
<1>1. CASE focus = "settings"
  <2>1. [SettingsNext]_settingsVars
    BY <1>1 DEF PagesNext, pagesVars
  <2> QED  BY <1>0, <1>1, <2>1, SettingsMove DEF PagesSound
<1>2. CASE focus = "overrides"
  <2>1. [OverridesNext]_overridesVars
    BY <1>2 DEF PagesNext, pagesVars
  <2> QED  BY <1>0, <1>2, <2>1, OverridesMove DEF PagesSound
<1>3. CASE focus = "discover"
  <2>1. [DiscoverNext]_discoverVars
    BY <1>3 DEF PagesNext, pagesVars
  <2> QED  BY <1>0, <1>3, <2>1, DiscoverMove DEF PagesSound
<1>4. CASE focus = "sweep"
  <2>1. [SweepNext]_sweepVars
    BY <1>4 DEF PagesNext, pagesVars
  <2> QED  BY <1>0, <1>4, <2>1, CataloguesMove DEF PagesSound
<1>5. CASE focus = "library"
  <2>1. [LibraryNext]_libraryVars
    BY <1>5 DEF PagesNext, pagesVars
  <2> QED  BY <1>0, <1>5, <2>1, JobsMove DEF PagesSound
<1>6. CASE focus = "detail"
  <2>1. [DetailNext]_detailVars
    BY <1>6 DEF PagesNext, pagesVars
  <2> QED  BY <1>0, <1>6, <2>1, DetailMove DEF PagesSound
<1>7. CASE focus = "restore"
  <2>1. [RestoreNext]_restoreVars
    BY <1>7 DEF PagesNext, pagesVars
  <2> QED  BY <1>0, <1>7, <2>1, PanelMove DEF PagesSound
<1>8. CASE focus = "sources"
  <2>1. [SourcesNext]_sourcesVars
    BY <1>8 DEF PagesNext, pagesVars
  <2> QED  BY <1>0, <1>8, <2>1, RowsMove, FiltersMove DEF PagesSound
<1> QED  BY <1>0, <1>1, <1>2, <1>3, <1>4, <1>5, <1>6, <1>7, <1>8 DEF PagesSound

(* Whatever was done on a page and however its answers came, what the page *)
(* relies on holds: it is the page's own invariant.                        *)
THEOREM PagesAreSound == PagesSpec => []PagesSound
<1> QED  BY PagesStart, PagesMove, PTL DEF PagesSpec

(* Discover draws titles that have chapters or are being asked about for   *)
(* the question on screen, a lane has one request out, what a sweep draws  *)
(* answers the query on screen and what it saves as everyone's answer has  *)
(* each catalogue once, and a source is handed the filters the panel shows *)
(* (SearchPage.tsx, availability.ts, sourceSearch.ts, sourceFilters.ts).   *)
THEOREM SearchStaysSound == PagesSpec => []SearchIsSound
<1>1. PagesSound => SearchIsSound
  BY DiscoverHolds, SweepHolds, FiltersHold DEF PagesSound, SearchIsSound
<1> QED  BY <1>1, PagesAreSound, PTL

(* What was chosen here is what is kept, shown and sent, for the account,  *)
(* for one title and its note, for a restore and for the sources switched  *)
(* on, whatever answers come between (settings.ts, mangaSettings.ts,       *)
(* MangaDetailPage.tsx, SettingsPage.tsx, SourcesPage.tsx).                *)
THEOREM PagesStayTheirOwn == PagesSpec => []PagesKeepTheirOwn
<1>1. PagesSound => PagesKeepTheirOwn
  BY OverridesHold, RowsHold DEF PagesSound, PagesKeepTheirOwn, SettingsSound, DetailSound, NoteSound,
                                 NoteIsTheirs
<1> QED  BY <1>1, PagesAreSound, PTL

(* A refresh takes back only what lay above the tracker's number before it *)
(* was asked for, a move to another source marks what the old one had been *)
(* read through and no more, and its undo takes back those alone           *)
(* (LibraryPage.tsx, MangaDetailPage.tsx).                                 *)
THEOREM PlaceStaysKept == PagesSpec => PlaceIsKept
<1>1. PagesSound /\ [PagesNext]_pagesVars =>
         [/\ focus = "library" => LibraryKeepsPlace
          /\ focus = "detail" => DetailKeepsPlace]_pagesVars
  <2> SUFFICES ASSUME PagesSound, PagesNext
               PROVE  /\ focus = "library" => LibraryKeepsPlace
                      /\ focus = "detail" => DetailKeepsPlace
    OBVIOUS
  <2>1. CASE focus = "library"
    <3>1. [LibraryNext]_libraryVars
      BY <2>1 DEF PagesNext
    <3> QED  BY <2>1, <3>1, LibraryKeepsNext DEF PagesSound
  <2>2. CASE focus = "detail"
    <3>1. [DetailNext]_detailVars
      BY <2>2 DEF PagesNext
    <3> QED  BY <2>2, <3>1, PlaceKeptNext DEF PagesSound
  <2> QED  BY <2>1, <2>2
<1> QED  BY <1>1, PagesAreSound, PTL DEF PagesSpec, PlaceIsKept

-----------------------------------------------------------------------------
(* What the pages hold.                                                    *)

(* A restore is watched only when there is one.                            *)
PanelTyped ==
    /\ RestoreTypeOK
    /\ jobState \in {"idle", "running", "success", "failure"}
    /\ watching => jobState # "idle"

LEMMA PanelTypedStart == RestoreInit => PanelTyped
BY DEF RestoreInit, PanelTyped, RestoreTypeOK

LEMMA PanelTypedMove == PanelTyped /\ [RestoreNext]_restoreVars => PanelTyped'
<1> SUFFICES ASSUME PanelTyped, [RestoreNext]_restoreVars PROVE PanelTyped'
  OBVIOUS
<1> USE DEF PanelTyped, RestoreTypeOK, Backups
<1>1. ASSUME NEW f \in Files, ChooseBackup(f) PROVE PanelTyped'
  BY <1>1 DEF ChooseBackup, RestoreForgotten
<1>2. ASSUME NEW a \in Nightly, ChooseAutomatedBackup(a) PROVE PanelTyped'
  BY <1>2 DEF ChooseAutomatedBackup, RestoreForgotten
<1>3. CASE Validated
  BY <1>3 DEF Validated
<1>4. CASE Unreadable
  BY <1>4 DEF Unreadable
<1>5. CASE ConfirmRestore \/ RestoreRefused \/ PollLost
  BY <1>5 DEF ConfirmRestore, RestoreRefused, PollLost
<1>6. CASE RestoreStarted
  BY <1>6 DEF RestoreStarted
<1>7. CASE JobEnds
  BY <1>7 DEF JobEnds
<1>8. CASE PollAnswered
  BY <1>8 DEF PollAnswered
<1>9. CASE ClearRestore
  BY <1>9 DEF ClearRestore, RestoreForgotten
<1>10. CASE UNCHANGED restoreVars
  BY <1>10 DEF restoreVars
<1> QED  BY <1>1, <1>2, <1>3, <1>4, <1>5, <1>6, <1>7, <1>8, <1>9, <1>10 DEF RestoreNext

(* A sweep draws and keeps what it heard as it is.                         *)
SearchTyped ==
    /\ {search, sweptFor} \subseteq Searches \cup {NoSearch}
    /\ everyone \in BOOLEAN /\ finding \in BOOLEAN /\ hits \in BOOLEAN /\ saved.hits \in BOOLEAN
    /\ \A r \in runs : r.id >= 1

LEMMA SearchTypedStart == SweepInit => SearchTyped
<1> SUFFICES ASSUME SweepInit PROVE SearchTyped
  OBVIOUS
<1>1. saved.hits = FALSE
  BY DEF SweepInit, Unsaved
<1> QED  BY <1>1 DEF SweepInit, SearchTyped

LEMMA SweptTyped ==
  ASSUME SweepSound, SearchTyped, NEW q \in Searches \cup {NoSearch}, NEW all \in BOOLEAN, Swept(q, all),
         search' = q, everyone' = all, saved' = saved
  PROVE  SearchTyped'
<1>1. CASE ~all \/ q = NoSearch \/ sweptFor = q
  BY <1>1 DEF Swept, SearchTyped
<1>2. CASE all /\ q # NoSearch /\ sweptFor # q /\ IsSaved(q)
  BY <1>2 DEF Swept, SearchTyped
<1>3. CASE all /\ q # NoSearch /\ sweptFor # q /\ ~IsSaved(q)
  <2>1. sweptFor' = q /\ finding' = TRUE /\ hits' = FALSE
    BY <1>3 DEF Swept, Starting
  <2>2. \E scope : runs' = runs \cup {Run(runId + 1, q, Top, scope)}
    BY <1>3 DEF Swept, Starting
  <2>3. runId \in Nat
    BY DEF SweepSound, RunsSound
  <2>4. \A r \in runs' : r.id >= 1
    BY <2>2, <2>3 DEF SearchTyped, Run
  <2> QED  BY <2>1, <2>4 DEF SearchTyped
<1> QED  BY <1>1, <1>2, <1>3

LEMMA SearchTypedMove == SweepSound /\ SearchTyped /\ [SweepNext]_sweepVars => SearchTyped'
<1> SUFFICES ASSUME SweepSound, SearchTyped, [SweepNext]_sweepVars PROVE SearchTyped'
  OBVIOUS
<1>1. ASSUME NEW q \in Searches \cup {NoSearch}, Submit(q) PROVE SearchTyped'
  BY <1>1, SweptTyped DEF Submit, SearchTyped
<1>2. CASE ToggleEveryone
  <2> DEFINE all == ~everyone
  <2>1. all \in BOOLEAN /\ Swept(search, all) /\ everyone' = all /\ search' = search /\ saved' = saved
    BY <1>2 DEF ToggleEveryone, SearchTyped
  <2>2. search \in Searches \cup {NoSearch}
    BY DEF SearchTyped
  <2> HIDE DEF all
  <2> QED  BY <2>1, <2>2, SweptTyped
<1>3. ASSUME NEW r \in runs, Finished(r) PROVE SearchTyped'
  <2>1. UNCHANGED <<search, everyone, sweptFor, hits>> /\ saved'.hits \in BOOLEAN
    BY <1>3 DEF Finished, SearchTyped
  <2>2. CASE r.scope = "top" /\ sweptFor = r.search /\ Rest # {}
    <3>1. runs' = (runs \ {r}) \cup {Run(runId + 1, r.search, Rest, "all")} /\ finding' = TRUE
      BY <1>3, <2>2 DEF Finished
    <3>2. runId \in Nat
      BY DEF SweepSound, RunsSound
    <3> QED  BY <2>1, <3>1, <3>2 DEF SearchTyped, Run
  <2>3. CASE ~(r.scope = "top" /\ sweptFor = r.search /\ Rest # {})
    <3>1. runs' = runs \ {r} /\ finding' = (finding /\ r.id # runId)
      BY <1>3, <2>3 DEF Finished
    <3>2. finding' \in BOOLEAN
      BY <3>1
    <3> QED  BY <2>1, <3>1, <3>2 DEF SearchTyped
  <2> QED  BY <2>2, <2>3
<1>4. ASSUME NEW r \in runs, NEW c \in r.left, NEW good \in BOOLEAN, CatalogueAnswered(r, c, good)
      PROVE  SearchTyped'
  <2>1. /\ UNCHANGED <<search, everyone, sweptFor, finding, saved>>
        /\ hits' \in {hits, hits \/ good}
    BY <1>4 DEF CatalogueAnswered, Drawn
  <2>2. (hits \/ good) \in BOOLEAN
    OBVIOUS
  <2>3. \A s \in runs' : s.id >= 1
    <3> DEFINE t == [r EXCEPT !.left = @ \ {c}, !.good = @ \/ good, !.bad = @ \/ ~good]
    <3>1. RunShape(r)
      BY DEF SweepSound, RunsSound
    <3>2. t.id = r.id
      BY <3>1 DEF RunShape
    <3>3. runs' = (runs \ {r}) \cup {t}
      BY <1>4 DEF CatalogueAnswered
    <3> HIDE DEF t
    <3> QED  BY <3>2, <3>3 DEF SearchTyped
  <2> QED  BY <2>1, <2>2, <2>3 DEF SearchTyped
<1>5. CASE UNCHANGED sweepVars
  BY <1>5 DEF sweepVars, SearchTyped
<1> QED  BY <1>1, <1>2, <1>3, <1>4, <1>5 DEF SweepNext

LEMMA SearchTypes == SweepSound /\ SearchTyped => SweepTypeOK
BY DEF SweepSound, RunsSound, SearchTyped, SweepTypeOK

(* What is pressed on the panels of the sources is within the bound.       *)
PressesTyped == presses \in 0..MaxPresses

LEMMA PressesStart == SourcesInit => PressesTyped
BY SourcesAssumption DEF SourcesInit, PressesTyped

LEMMA PressesMove == PressesTyped /\ [SourcesNext]_sourcesVars => PressesTyped'
<1> SUFFICES ASSUME PressesTyped, [SourcesNext]_sourcesVars PROVE PressesTyped'
  OBVIOUS
<1>1. Pressed \/ UNCHANGED presses
  BY DEF SourcesNext, sourcesVars, Act, RefreshCatalogue, Browse, Served, Answered, Connected, Refused,
         QueryServed, QuerySettles, SelectSource, OpenSaved, NewBuild, BrowseSource,
         SearchEverywhere, FiltersAnswered, ToggleFilters, ClearFilters, SubmitSearch,
         ApplyFilters, SetFilterAt
<1> QED  BY <1>1, SourcesAssumption DEF Pressed, PressesTyped

LEMMA SourcesTypes == RowsSound /\ FiltersSound /\ PressesTyped => SourcesTypeOK
<1> SUFFICES ASSUME RowsSound, FiltersSound, PressesTyped PROVE SourcesTypeOK
  OBVIOUS
<1>1. {DOMAIN chosen.values, DOMAIN chosen.draft} \subseteq SUBSET SettablePaths(SourceFilters)
  BY DEF FiltersSound, ChosenSound, ChoiceSet, ValuesSet, CopyOf, SourceFilters
<1>2. switchedOn \subseteq Extensions /\ tab.rows \subseteq Extensions
      /\ tab.busyId \in Extensions \cup {"none"}
  BY DEF RowsSound, RowsTyped, TabForms
<1>3. \A q \in queries : q.state \in {"sent", "back"} /\ q.rows \subseteq Extensions
  BY DEF RowsSound, RowsTyped, AskingForms
<1> QED  BY <1>1, <1>2, <1>3 DEF PressesTyped, SourcesTypeOK

LEMMA SettingsTypes == SettingsSound => SettingsTypeOK
BY DEF SettingsSound, SettingsTypeOK

LEMMA OverridesTypes == OverridesSound => OverridesTypeOK
<1> SUFFICES ASSUME OverridesSound PROVE OverridesTypeOK
  OBVIOUS
<1>1. store \in StoreForms /\ zooming \in ZoomForms
  BY DEF OverridesSound, StoreSound, ZoomSound
<1> QED  BY <1>1 DEF OverridesSound, RowsKept, StoreForms, HeldForms, ZoomForms, TitleOrNone,
                     OverridesTypeOK

(* Discover's counters stay within what bounds them.                       *)
GridTyped ==
    /\ token \in 1..MaxAsked /\ loading \in BOOLEAN /\ more \in BOOLEAN
    /\ live \in 0..MaxTasks /\ Len(tasks) <= MaxTasks
    /\ gridPage \in 1..MaxPages /\ \A r \in requests : r.page \in 1..MaxPages
    /\ toppedUp \in 0..TopUps /\ hidden \subseteq Works /\ feed \subseteq Works

LEMMA GridBounds ==
  /\ MaxAsked \in Nat /\ MaxPages \in Nat /\ MaxTasks \in Nat /\ TopUps \in Nat
  /\ 1 \in 1..MaxAsked /\ 1 \in 1..MaxPages /\ 0 \in 0..MaxTasks /\ 0 \in 0..TopUps
  /\ 0 <= MaxTasks
BY DiscoverAssumption

LEMMA GridTypedStart == DiscoverInit => GridTyped
<1> SUFFICES ASSUME DiscoverInit PROVE GridTyped
  OBVIOUS
<1>1. Len(tasks) = 0
  BY DEF DiscoverInit
<1>2. \A r \in requests : r.page = 1
  BY DEF DiscoverInit
<1>3. /\ token = 1 /\ loading = TRUE /\ gridPage = 1 /\ more = FALSE /\ toppedUp = 0
      /\ hidden = {} /\ feed = {} /\ live = 0
  BY DEF DiscoverInit
<1> QED  BY <1>1, <1>2, <1>3, GridBounds DEF GridTyped

LEMMA QueueLength ==
  ASSUME DiscoverTyped, NEW ts \in Seq(TaskForms), NEW kind \in Kinds, NEW key \in LaneKeys,
         NEW works, works \subseteq Works, NEW now \in Nat
  PROVE  Len(ts \o Queue(kind, key, works, now)) = Len(ts) + Cardinality(works)
<1> DEFINE q == Queue(kind, key, works, now)
<1>1. tasks \in Seq(TaskForms) /\ lane \in [LaneKeys -> Nat]
  BY DEF DiscoverTyped
<1>2. IsFiniteSet(works) /\ works \subseteq Works \cup {AnyWork}
  BY DiscoverAssumption, FS_Subset
<1>3. q \in Seq(TaskForms) /\ Len(q) = Cardinality(works)
  BY <1>1, <1>2, QueueHolds
<1> HIDE DEF q
<1>4. Len(ts \o q) = Len(ts) + Cardinality(works)
  BY <1>3
<1> QED  BY <1>4 DEF q

(* A title asked about is one that is listed.                              *)
LEMMA WorkListed ==
  ASSUME DiscoverTyped, NEW i \in 1..Len(tasks) PROVE tasks[i].work \in Works
<1>1. AnyWork \in Works
  BY DiscoverAssumption DEF AnyWork
<1>2. tasks[i].work \in Works \cup {AnyWork}
  BY TaskHolds DEF DiscoverTyped
<1> QED  BY <1>1, <1>2

LEMMA GridTypedMove == DiscoverSound /\ GridTyped /\ [DiscoverNext]_discoverVars => GridTyped'
<1> SUFFICES ASSUME DiscoverSound, GridTyped, [DiscoverNext]_discoverVars PROVE GridTyped'
  OBVIOUS
<1>0. DiscoverTyped /\ tasks \in Seq(TaskForms) /\ token \in Nat /\ live \in Nat
  BY DEF DiscoverSound, DiscoverTyped
<1>1. CASE Ask
  <2>1. /\ token < MaxAsked /\ token' = token + 1 /\ loading' = TRUE /\ more' = FALSE
        /\ toppedUp' = 0 /\ hidden' = {} /\ UNCHANGED <<gridPage, tasks, feed, live>>
        /\ \A r \in requests' : r \in requests \/ r.page = 1
    BY <1>1 DEF Ask, laneVars, feedVars
  <2>2. token' \in 1..MaxAsked
    BY <1>0, <2>1, GridBounds
  <2>3. \A r \in requests' : r.page \in 1..MaxPages
    BY <2>1, GridBounds DEF GridTyped
  <2> QED  BY <2>1, <2>2, <2>3, GridBounds DEF GridTyped
<1>2. ASSUME NEW r \in requests, PageFailed(r) PROVE GridTyped'
  BY <1>2 DEF PageFailed, laneVars, feedVars, GridTyped
<1>3. ASSUME NEW r \in requests, NEW works \in SUBSET Works, NEW next \in BOOLEAN,
             PageListed(r, works, next)
      PROVE  GridTyped'
  <2> DEFINE u == Unknown(works, r.replace)
  <2>1. u \subseteq Works
    BY DEF Unknown
  <2>2. Len(tasks) + Cardinality(u) <= MaxTasks
        /\ tasks' = tasks \o Queue("check", "grid", u, token)
    BY <1>3 DEF PageListed, Enqueue
  <2>3. ASSUME NEW kind \in Kinds, NEW key \in LaneKeys, tasks' = tasks \o Queue(kind, key, u, token)
        PROVE  Len(tasks') = Len(tasks) + Cardinality(u)
    BY <1>0, <2>1, <2>3, QueueLength
  <2>4. "check" \in Kinds /\ "grid" \in LaneKeys
    BY DEF Kinds, LaneKeys
  <2>5. Len(tasks') <= MaxTasks
    BY <2>2, <2>3, <2>4
  <2>6. /\ requests' = requests \ {r} /\ loading' = FALSE /\ more' = next /\ gridPage' = r.page
        /\ hidden' = hidden \cup {w \in works : verdict[w] = "empty"}
        /\ UNCHANGED <<token, toppedUp, feed, live>>
    BY <1>3 DEF PageListed, feedVars
  <2> QED  BY <2>5, <2>6 DEF GridTyped
<1>4. CASE LoadMore \/ TopUp
  <2>1. /\ ~loading /\ gridPage < MaxPages /\ loading' = TRUE
        /\ requests' = requests \cup {[asked |-> token, page |-> gridPage + 1, replace |-> FALSE]}
        /\ UNCHANGED <<token, gridPage, more, hidden, tasks, feed, live>>
        /\ toppedUp' = toppedUp \/ (toppedUp < TopUps /\ toppedUp' = toppedUp + 1)
    BY <1>4 DEF LoadMore, TopUp, NextPage, laneVars, feedVars
  <2>2. gridPage + 1 \in 1..MaxPages
    BY <2>1, DiscoverAssumption DEF GridTyped
  <2> QED  BY <2>1, <2>2, DiscoverAssumption DEF GridTyped
<1>5. ASSUME NEW i \in 1..Len(tasks), Begin(i) \/ Drain(i) PROVE GridTyped'
  <2>1. Len(tasks') = Len(tasks) /\ UNCHANGED <<gridVars, feedVars>>
    BY <1>0, <1>5 DEF Begin, Drain
  <2> QED  BY <2>1 DEF GridTyped, gridVars, feedVars
<1>6. ASSUME NEW i \in 1..Len(tasks), NEW found \in BOOLEAN, Checked(i, found) PROVE GridTyped'
  <2>1. Len(tasks') = Len(tasks)
    BY <1>0, <1>6 DEF Checked
  <2>2. tasks[i].work \in Works
    BY <1>0, WorkListed
  <2>3. hidden' \in {hidden, hidden \cup {tasks[i].work}}
    BY <1>6 DEF Checked, Counted
  <2>4. UNCHANGED <<token, requests, loading, gridPage, more, toppedUp, feed, live>>
    BY <1>6 DEF Checked, feedVars
  <2> QED  BY <2>1, <2>2, <2>3, <2>4 DEF GridTyped
<1>7. ASSUME NEW i \in 1..Len(tasks), NEW found \in BOOLEAN, ShelfChecked(i, found)
      PROVE  GridTyped'
  <2>1. Len(tasks') = Len(tasks)
    BY <1>0, <1>7 DEF ShelfChecked
  <2>2. feed' \subseteq feed /\ live' = live /\ UNCHANGED gridVars
    BY <1>7 DEF ShelfChecked
  <2> QED  BY <2>1, <2>2 DEF GridTyped, gridVars
<1>8. ASSUME NEW i \in 1..Len(tasks), NEW works \in SUBSET Works, ShelfAnswered(i, works)
      PROVE  GridTyped'
  <2> DEFINE found == IF tasks[i].asked = live THEN {w \in works : verdict[w] # "empty"} ELSE {}
             asks == {w \in found : verdict[w] = "unknown"}
             ts == [tasks EXCEPT ![i].phase = "done"]
  <2>1. /\ feed' \in {found, feed} /\ UNCHANGED <<gridVars, live>>
        /\ Len(tasks) + Cardinality(asks) <= MaxTasks
        /\ tasks' = ts \o Queue("shelfCheck", "shelf", asks, live)
    BY <1>8 DEF ShelfAnswered
  <2>2. found \subseteq Works /\ asks \subseteq Works
    OBVIOUS
  <2>3. ts \in Seq(TaskForms) /\ Len(ts) = Len(tasks)
    <3>1. ASSUME NEW phase \in Phases
          PROVE  LET us == WithPhase(tasks, i, phase)
                 IN  us \in Seq(TaskForms) /\ Len(us) = Len(tasks)
      BY <1>0, PhaseSet
    <3>2. "done" \in Phases
      BY DEF Phases
    <3> QED  BY <3>1, <3>2 DEF WithPhase
  <2> HIDE DEF found, asks, ts
  <2>4. ASSUME NEW kind \in Kinds, NEW key \in LaneKeys, tasks' = ts \o Queue(kind, key, asks, live)
        PROVE  Len(tasks') = Len(ts) + Cardinality(asks)
    BY <1>0, <2>2, <2>3, <2>4, QueueLength
  <2>5. "shelfCheck" \in Kinds /\ "shelf" \in LaneKeys
    BY DEF Kinds, LaneKeys
  <2>6. Len(tasks') <= MaxTasks
    BY <2>1, <2>3, <2>4, <2>5
  <2> QED  BY <2>1, <2>2, <2>6 DEF GridTyped, gridVars
<1>9. CASE OpenShelf
  <2>1. /\ Len(tasks) + Cardinality({AnyWork}) <= MaxTasks /\ live' = Len(tasks) + 1
        /\ tasks' = tasks \o Queue("shelfSearch", "shelf", {AnyWork}, live')
        /\ UNCHANGED <<gridVars, feed>>
    BY <1>9 DEF OpenShelf, Enqueue, AnyWork
  <2>2. Cardinality({AnyWork}) = 1 /\ {AnyWork} \subseteq Works /\ live' \in Nat
    <3>1. Cardinality({AnyWork}) = 1
      BY FS_Singleton
    <3>2. AnyWork \in Works
      BY DiscoverAssumption DEF AnyWork
    <3> QED  BY <1>0, <2>1, <3>1, <3>2
  <2>3. ASSUME NEW kind \in Kinds, NEW key \in LaneKeys, NEW now \in Nat,
               tasks' = tasks \o Queue(kind, key, {AnyWork}, now)
        PROVE  Len(tasks') = Len(tasks) + Cardinality({AnyWork})
    BY <1>0, <2>2, <2>3, QueueLength
  <2>4. "shelfSearch" \in Kinds /\ "shelf" \in LaneKeys
    BY DEF Kinds, LaneKeys
  <2>5. Len(tasks') <= MaxTasks /\ live' <= MaxTasks
    BY <1>0, <2>1, <2>2, <2>3, <2>4
  <2>6. live' \in 0..MaxTasks
    BY <2>2, <2>5, GridBounds
  <2> QED  BY <2>1, <2>5, <2>6 DEF GridTyped, gridVars
<1>10. CASE CloseShelf \/ \E w \in Works : VerdictExpires(w)
  BY <1>10, DiscoverAssumption DEF CloseShelf, VerdictExpires, gridVars, laneVars, feedVars, GridTyped
<1>11. CASE UNCHANGED discoverVars
  BY <1>11 DEF discoverVars, gridVars, laneVars, feedVars, GridTyped
<1> QED  BY <1>1, <1>2, <1>3, <1>4, <1>5, <1>6, <1>7, <1>8, <1>9, <1>10, <1>11 DEF DiscoverNext

LEMMA GridTypes == DiscoverSound /\ GridTyped => DiscoverTypeOK
<1> SUFFICES ASSUME DiscoverSound, GridTyped PROVE DiscoverTypeOK
  OBVIOUS
<1>1. gridListed \in Seq(Works) /\ checking \in Int
  BY DEF DiscoverSound, DiscoverTyped
<1>2. ToSet(gridListed) \subseteq Works
  BY <1>1 DEF ToSet
<1> QED  BY <1>1, <1>2 DEF GridTyped, DiscoverTypeOK

(* The library page's selection: what a batch and the rows to confirm are  *)
(* about is in the library's answer, and a match is a source's copy or the *)
(* entry's own row.                                                        *)
MatchTyped(r) ==
    /\ r \in [entry : Entries, match : Mangas, chosen : BOOLEAN]
    /\ r.match \in Sources \cup {r.entry}

SelectionTyped ==
    /\ seen.library \subseteq Entries /\ selected \subseteq Entries /\ filed \subseteq Entries
    /\ \A r \in matches : MatchTyped(r)
    /\ \A r \in batch.left : r.entry \in Entries /\ (batch.kind = "migrate" => MatchTyped(r))
    /\ \A r \in batch.found : MatchTyped(r)
    /\ sweep.left \subseteq Sources /\ sync.left \subseteq Mangas

(* The library page's server: nothing is read that is not listed.          *)
ShelfTyped ==
    /\ bound \in [Entries -> Mangas] /\ \A e \in Entries : bound[e] \in Sources \cup {e}
    /\ \A s \in Sources : read[s] \subseteq listed[s]
    /\ record \in [Mangas -> Chapters \cup {Unpulled}]
    /\ library \subseteq Entries /\ completed \subseteq Entries

LEMMA ShelfTypedStart == LibraryInit => ShelfTyped
<1> SUFFICES ASSUME LibraryInit PROVE ShelfTyped
  OBVIOUS
<1>1. bound \in [Entries -> Sources] /\ library = Entries /\ completed \in {{}, Entries}
  BY DEF LibraryInit
<1>2. read = [s \in Sources |-> listed[s] \ {0}]
  BY DEF LibraryInit
<1>3. record \in {[m \in Mangas |-> 0], [m \in Mangas |-> 1]}
  BY DEF LibraryInit
<1>4. {0, 1} \subseteq Chapters \cup {Unpulled}
  BY ShelvesAssumption DEF Chapters, Unpulled
<1>5. record \in [Mangas -> Chapters \cup {Unpulled}]
  BY <1>3, <1>4
<1> QED  BY <1>1, <1>2, <1>5 DEF ShelfTyped, Mangas

LEMMA ShelfTypedMove ==
  JobsSound /\ SelectionTyped /\ ShelfTyped /\ [LibraryNext]_libraryVars => ShelfTyped'
<1> SUFFICES ASSUME JobsSound, SelectionTyped, ShelfTyped, [LibraryNext]_libraryVars PROVE ShelfTyped'
  OBVIOUS
<1>0. listed \in [Sources -> SUBSET Chapters] /\ read \in [Sources -> SUBSET Chapters]
  BY DEF JobsSound, ListsTyped
<1>1. ASSUME UNCHANGED <<bound, listed, read, record, completed>>, library' \subseteq library
      PROVE  ShelfTyped'
  BY <1>1 DEF ShelfTyped
<1>2. ASSUME UNCHANGED <<bound, record, library, completed>>,
             \A s \in Sources : read'[s] \subseteq listed'[s]
      PROVE  ShelfTyped'
  BY <1>2 DEF ShelfTyped
<1>3. CASE Elsewhere
  <2>1. UNCHANGED <<listed, record, library, completed>>
    BY <1>3 DEF Elsewhere
  <2>2. CASE \E s \in Sources : \E n \in listed[s] :
               /\ read' = [read EXCEPT ![s] = IF n \in @ THEN @ \ {n} ELSE @ \cup {n}]
               /\ UNCHANGED bound
    <3>1. \A s \in Sources : read'[s] \subseteq listed'[s]
      BY <1>0, <2>1, <2>2 DEF ShelfTyped
    <3> QED  BY <1>2, <2>1, <2>2, <3>1
  <2>3. CASE \E e \in library, s \in Sources : bound' = [bound EXCEPT ![e] = s] /\ UNCHANGED read
    BY <2>1, <2>3 DEF ShelfTyped, Mangas
  <2> QED  BY <1>3, <2>2, <2>3 DEF Elsewhere
<1>4. CASE \/ LibraryAnswers \/ UnreadAnswers \/ SweepDone \/ RefreshTracking \/ CheckForNewChapters
           \/ LeaveSelection \/ (\E e \in Entries : ToggleSelected(e))
           \/ (\E s \in Sources : SweepFailed(s)) \/ BatchRefused \/ MatchesShown
           \/ (\E r \in matches : ToggleMigrateRow(r)) \/ UNCHANGED libraryVars
  BY <1>1, <1>4 DEF LibraryAnswers, UnreadAnswers, SweepDone, RefreshTracking, CheckForNewChapters,
                    LeaveSelection, ToggleSelected, SweepFailed, BatchRefused, MatchesShown,
                    ToggleMigrateRow, quietVars, serverVars, libraryVars
<1>5. CASE SyncDone \/ RemoveSelected \/ FileSelected \/ BatchDone
  BY <1>1, <1>5 DEF SyncDone, RemoveSelected, FileSelected, BatchDone, BatchOver, quietVars,
                     serverVars
<1>6. CASE \E kind \in {"remove", "file", "catchup", "find", "migrate"} : StartBatch(kind)
  BY <1>1, <1>6 DEF StartBatch, serverVars
<1>7. ASSUME NEW m \in Mangas, NEW n \in Numbers \cup {Unpulled}, RecordPulled(m, n)
      PROVE  ShelfTyped'
  <2>1. n \in Chapters \cup {Unpulled}
    BY ShelvesAssumption DEF Chapters
  <2>2. record' \in [Mangas -> Chapters \cup {Unpulled}]
    BY <1>7, <2>1 DEF RecordPulled, ShelfTyped
  <2> QED  BY <1>7, <2>2 DEF RecordPulled, ShelfTyped
<1>8. ASSUME NEW s \in Sources, RollBackToTracker(s) PROVE ShelfTyped'
  <2>1. \A t \in Sources : read'[t] \subseteq listed'[t]
    BY <1>0, <1>8 DEF RollBackToTracker, ShelfTyped
  <2> QED  BY <1>2, <1>8, <2>1 DEF RollBackToTracker
<1>9. ASSUME NEW s \in Sources, NEW list \in Lists, SourceSwept(s, list) PROVE ShelfTyped'
  <2>1. \A t \in Sources : read'[t] \subseteq listed'[t]
    BY <1>0, <1>9 DEF SourceSwept, ShelfTyped
  <2> QED  BY <1>2, <1>9, <2>1 DEF SourceSwept
<1>10. ASSUME NEW r \in batch.left, NEW ok \in BOOLEAN, CaughtUp(r, ok) PROVE ShelfTyped'
  <2>1. /\ UNCHANGED <<bound, listed, record, library, completed>>
        /\ read' = read \/ \E s \in Sources : \E new : read' = [read EXCEPT ![s] = @ \cup (new \cap listed[s])]
    BY <1>10 DEF CaughtUp
  <2>2. \A t \in Sources : read'[t] \subseteq listed'[t]
    BY <1>0, <2>1 DEF ShelfTyped
  <2> QED  BY <1>2, <2>1, <2>2
<1>11. ASSUME NEW r \in batch.left,
              NoMatchFound(r) \/ \E m \in Sources \cup {r.entry}, sure \in BOOLEAN : MatchFound(r, m, sure)
       PROVE  ShelfTyped'
  BY <1>1, <1>11 DEF MatchFound, NoMatchFound, quietVars, serverVars
<1>12. ASSUME NEW r \in batch.found, NEW list \in Lists, MovedListed(r, list) PROVE ShelfTyped'
  <2>1. \A t \in Sources : read'[t] \subseteq listed'[t]
    BY <1>0, <1>12 DEF MovedListed, ShelfTyped
  <2> QED  BY <1>2, <1>12, <2>1 DEF MovedListed
<1>13. ASSUME NEW r \in batch.found, MovedUnlisted(r) PROVE ShelfTyped'
  BY <1>1, <1>13 DEF MovedUnlisted, quietVars, serverVars
<1>14. ASSUME NEW r \in batch.found, NEW ok \in BOOLEAN, MovedMarked(r, ok) PROVE ShelfTyped'
  <2>1. \A t \in Sources : read'[t] \subseteq listed'[t]
    BY <1>0, <1>14 DEF MovedMarked, ShelfTyped
  <2> QED  BY <1>2, <1>14, <2>1 DEF MovedMarked
<1>15. ASSUME NEW r \in batch.left, NEW ok \in BOOLEAN, BindingMoved(r, ok) PROVE ShelfTyped'
  <2>1. r.entry \in Entries /\ r.match \in Sources \cup {r.entry}
    BY <1>15 DEF BindingMoved, SelectionTyped, MatchTyped
  <2>2. bound' = bound \/ bound' = [bound EXCEPT ![r.entry] = r.match]
    BY <1>15 DEF BindingMoved
  <2>3. UNCHANGED <<listed, read, record, library, completed>>
    BY <1>15 DEF BindingMoved
  <2> QED  BY <2>1, <2>2, <2>3 DEF ShelfTyped, Mangas
<1> QED  BY <1>3, <1>4, <1>5, <1>6, <1>7, <1>8, <1>9, <1>10, <1>11, <1>12, <1>13, <1>14, <1>15
         DEF LibraryNext


LEMMA SelectionStart == LibraryInit => SelectionTyped
<1> SUFFICES ASSUME LibraryInit PROVE SelectionTyped
  OBVIOUS
<1>1. /\ seen = View /\ library = Entries /\ selected = {} /\ filed = {} /\ matches = {}
      /\ batch = IdleBatch /\ sync = IdleSync /\ sweep = IdleSweep
  BY DEF LibraryInit
<1>2. seen.library = Entries
  BY <1>1 DEF View
<1>3. batch.left = {} /\ batch.found = {} /\ sync.left = {} /\ sweep.left = {}
  BY <1>1 DEF IdleBatch, IdleSync, IdleSweep
<1> QED  BY <1>1, <1>2, <1>3 DEF SelectionTyped

(* What the page has of the library is what an answer said of it.          *)
LEMMA SeenLibrary ==
  ASSUME JobsSound, [LibraryNext]_libraryVars
  PROVE  seen'.library \in {seen.library, library, library'}
<1>0. ViewSound(seen)
  BY DEF JobsSound, ListsTyped
<1>1. seen = [bound |-> seen.bound, listed |-> seen.listed, read |-> seen.read,
              record |-> seen.record, library |-> seen.library]
  BY <1>0 DEF ViewSound
<1>2. CASE seen' = seen \/ seen' = View'
  BY <1>2 DEF View
<1>3. CASE LibraryAnswers \/ UnreadAnswers \/ SweepDone
  BY <1>1, <1>3 DEF LibraryAnswers, UnreadAnswers, SweepDone
<1>4. CASE SyncDone
  BY <1>4 DEF SyncDone, View
<1>5. CASE RemoveSelected \/ FileSelected \/ BatchDone
  BY <1>5 DEF RemoveSelected, FileSelected, BatchDone, BatchOver, View
<1>6. CASE \/ Elsewhere \/ RefreshTracking \/ CheckForNewChapters
           \/ LeaveSelection \/ (\E e \in Entries : ToggleSelected(e)) \/ BatchRefused \/ MatchesShown
           \/ (\E r \in matches : ToggleMigrateRow(r)) \/ UNCHANGED libraryVars
           \/ (\E kind \in {"remove", "file", "catchup", "find", "migrate"} : StartBatch(kind))
  BY <1>6 DEF Elsewhere, RefreshTracking, CheckForNewChapters, LeaveSelection, ToggleSelected,
              BatchRefused, MatchesShown, ToggleMigrateRow, StartBatch, libraryVars
<1>7. CASE \/ \E s \in Sources : SweepFailed(s) \/ RollBackToTracker(s)
           \/ \E m \in Mangas, n \in Numbers \cup {Unpulled} : RecordPulled(m, n)
           \/ \E s \in Sources, list \in Lists : SourceSwept(s, list)
  BY <1>7 DEF SweepFailed, RollBackToTracker, RecordPulled, SourceSwept
<1>8. CASE \E r \in batch.left :
              \/ \E ok \in BOOLEAN : CaughtUp(r, ok) \/ BindingMoved(r, ok)
              \/ \E m \in Sources \cup {r.entry}, sure \in BOOLEAN : MatchFound(r, m, sure)
              \/ NoMatchFound(r)
  BY <1>8 DEF CaughtUp, BindingMoved, MatchFound, NoMatchFound
<1>9. CASE \E r \in batch.found :
              \/ \E list \in Lists : MovedListed(r, list)
              \/ MovedUnlisted(r)
              \/ \E ok \in BOOLEAN : MovedMarked(r, ok)
  BY <1>9 DEF MovedListed, MovedUnlisted, MovedMarked
<1> QED  BY <1>2, <1>3, <1>4, <1>5, <1>6, <1>7, <1>8, <1>9 DEF LibraryNext


LEMMA SelectionMove ==
  JobsSound /\ ShelfTyped /\ SelectionTyped /\ [LibraryNext]_libraryVars => SelectionTyped'
<1> SUFFICES ASSUME JobsSound, ShelfTyped, SelectionTyped, [LibraryNext]_libraryVars
             PROVE  SelectionTyped'
  OBVIOUS
<1>0. seen'.library \subseteq Entries /\ SyncSound /\ BatchSound /\ SweepTyped
  <2>1. library \subseteq Entries /\ library' \subseteq Entries
    BY ShelfTypedMove DEF ShelfTyped
  <2>2. seen.library \subseteq Entries
    BY DEF SelectionTyped
  <2>3. seen'.library \in {seen.library, library, library'}
    BY SeenLibrary
  <2> QED  BY <2>1, <2>2, <2>3 DEF JobsSound
<1>1. ASSUME selected' \subseteq Entries, filed' \subseteq Entries,
             \A r \in matches' : MatchTyped(r),
             batch' = batch, sync'.left \subseteq Mangas, sweep'.left \subseteq Sources
      PROVE  SelectionTyped'
  BY <1>0, <1>1 DEF SelectionTyped, MatchTyped
<1>2. ASSUME UNCHANGED <<sync, sweep>>, selected' \subseteq Entries, filed' \subseteq Entries,
             \A r \in matches' : MatchTyped(r),
             \A r \in batch'.left : r.entry \in Entries /\ (batch'.kind = "migrate" => MatchTyped(r)),
             \A r \in batch'.found : MatchTyped(r)
      PROVE  SelectionTyped'
  BY <1>0, <1>2 DEF SelectionTyped, MatchTyped
<1>3. CASE Elsewhere \/ LibraryAnswers \/ UnreadAnswers \/ UNCHANGED libraryVars
  BY <1>1, <1>3 DEF Elsewhere, LibraryAnswers, UnreadAnswers, libraryVars, quietVars, serverVars,
                    SelectionTyped
<1>4. CASE RefreshTracking
  <2>1. UNCHANGED <<selected, matches, batch, sweep, filed>>
    BY <1>4 DEF RefreshTracking, serverVars
  <2>2. sync'.left = seen.library \cup ReadSourcesOf(seen)
    BY <1>4 DEF RefreshTracking
  <2>3. sync'.left \subseteq Mangas
    BY <2>2 DEF SelectionTyped, ReadSourcesOf, Mangas
  <2> QED  BY <1>1, <2>1, <2>3 DEF SelectionTyped
<1>5. CASE SyncDone
  <2>1. UNCHANGED <<selected, matches, batch, sweep, filed>> /\ sync' = IdleSync
    BY <1>5 DEF SyncDone, quietVars, serverVars
  <2>2. sync'.left = {}
    BY <2>1 DEF IdleSync
  <2> QED  BY <1>1, <2>1, <2>2 DEF SelectionTyped
<1>6. CASE CheckForNewChapters \/ SweepDone
  <2>1. UNCHANGED <<selected, matches, batch, sync, filed>>
    BY <1>6 DEF CheckForNewChapters, SweepDone, quietVars, serverVars
  <2>2. sweep'.left \in {SweepIds, {}}
    BY <1>6 DEF CheckForNewChapters, SweepDone, IdleSweep
  <2> QED  BY <1>1, <2>1, <2>2 DEF SelectionTyped, SweepIds
<1>7. ASSUME NEW m \in Mangas, NEW n \in Numbers \cup {Unpulled}, RecordPulled(m, n)
      PROVE  SelectionTyped'
  <2>1. sync'.left = sync.left \ {m} /\ UNCHANGED <<selected, matches, batch, sweep, filed>>
    BY <1>0, <1>7 DEF RecordPulled, SyncSound
  <2> QED  BY <1>1, <2>1 DEF SelectionTyped
<1>8. ASSUME NEW s \in Sources, RollBackToTracker(s) PROVE SelectionTyped'
  <2>1. sync'.left = sync.left /\ UNCHANGED <<selected, matches, batch, sweep, filed>>
    BY <1>0, <1>8 DEF RollBackToTracker, SyncSound
  <2> QED  BY <1>1, <2>1 DEF SelectionTyped
<1>9. ASSUME NEW s \in Sources, SweepFailed(s) \/ \E list \in Lists : SourceSwept(s, list)
      PROVE  SelectionTyped'
  <2>1. sweep'.left = sweep.left \ {s} /\ UNCHANGED <<selected, matches, batch, sync, filed>>
    BY <1>0, <1>9 DEF SweepFailed, SourceSwept, SweepTyped, quietVars, serverVars
  <2> QED  BY <1>1, <2>1 DEF SelectionTyped
<1>10. CASE LeaveSelection \/ \E e \in Entries : ToggleSelected(e)
  <2>1. UNCHANGED <<batch, sync, sweep, filed>> /\ matches' = {} /\ selected' \subseteq Entries
    BY <1>10 DEF LeaveSelection, ToggleSelected, quietVars, serverVars, SelectionTyped
  <2> QED  BY <1>1, <2>1 DEF SelectionTyped
<1>11. ASSUME NEW r \in matches, ToggleMigrateRow(r) PROVE SelectionTyped'
  <2>1. /\ UNCHANGED <<batch, sync, sweep, filed, selected>>
        /\ matches' = (matches \ {r}) \cup {[r EXCEPT !.chosen = ~@]}
    BY <1>11 DEF ToggleMigrateRow, quietVars, serverVars
  <2>2. MatchTyped(r)
    BY DEF SelectionTyped
  <2>3. MatchTyped([r EXCEPT !.chosen = ~@])
    BY <2>2 DEF MatchTyped
  <2> QED  BY <1>1, <2>1, <2>3 DEF SelectionTyped
<1>12. ASSUME NEW kind \in {"remove", "file", "catchup", "find", "migrate"}, StartBatch(kind)
       PROVE  SelectionTyped'
  <2>1. /\ UNCHANGED <<sync, sweep, selected, filed>> /\ matches' \subseteq matches
        /\ batch' = [IdleBatch EXCEPT !.kind = kind, !.snap = seen,
                        !.left = IF kind = "migrate" THEN {r \in matches : r.chosen}
                                 ELSE {[entry |-> e] : e \in selected}]
    BY <1>12 DEF StartBatch, serverVars
  <2>2. /\ batch'.kind = kind /\ batch'.found = {}
        /\ batch'.left = IF kind = "migrate" THEN {r \in matches : r.chosen}
                         ELSE {[entry |-> e] : e \in selected}
    BY <2>1 DEF IdleBatch
  <2>3. \A r \in batch'.left : r.entry \in Entries /\ (batch'.kind = "migrate" => MatchTyped(r))
    <3>1. CASE kind = "migrate"
      BY <2>2, <3>1 DEF SelectionTyped, MatchTyped
    <3>2. CASE kind # "migrate"
      BY <2>2, <3>2 DEF SelectionTyped
    <3> QED  BY <3>1, <3>2
  <2> QED  BY <1>2, <2>1, <2>2, <2>3 DEF SelectionTyped
<1>13. CASE RemoveSelected \/ FileSelected \/ BatchDone
  <2>1. /\ UNCHANGED <<sync, sweep>> /\ batch' = IdleBatch /\ selected' = {} /\ matches' = {}
    BY <1>13 DEF RemoveSelected, FileSelected, BatchDone, BatchOver
  <2>2. filed' \in {filed, filed \cup {r.entry : r \in batch.left}, filed \ {r.entry : r \in batch.left}}
    BY <1>13 DEF RemoveSelected, FileSelected, BatchDone, quietVars, serverVars
  <2>3. filed' \subseteq Entries
    BY <2>2 DEF SelectionTyped
  <2>4. batch'.left = {} /\ batch'.found = {}
    BY <2>1 DEF IdleBatch
  <2> QED  BY <1>2, <2>1, <2>3, <2>4
<1>14. CASE BatchRefused \/ MatchesShown
  <2>1. /\ UNCHANGED <<sync, sweep, selected, filed>> /\ batch' = IdleBatch
        /\ matches' \in {matches, batch.found}
    BY <1>14 DEF BatchRefused, MatchesShown, quietVars, serverVars
  <2>2. batch'.left = {} /\ batch'.found = {}
    BY <2>1 DEF IdleBatch
  <2> QED  BY <1>2, <2>1, <2>2 DEF SelectionTyped
<1>15. ASSUME NEW r \in batch.left,
              NoMatchFound(r) \/ \E ok \in BOOLEAN : CaughtUp(r, ok)
       PROVE  SelectionTyped'
  <2>1. /\ UNCHANGED <<sync, sweep, selected, filed, matches>>
        /\ batch'.kind = batch.kind /\ batch'.left \subseteq batch.left /\ batch'.found = batch.found
    BY <1>0, <1>15 DEF CaughtUp, NoMatchFound, BatchSound, quietVars, serverVars
  <2> QED  BY <1>2, <2>1 DEF SelectionTyped
<1>16. ASSUME NEW r \in batch.left, NEW m \in Sources \cup {r.entry}, NEW sure \in BOOLEAN,
              MatchFound(r, m, sure)
       PROVE  SelectionTyped'
  <2>1. /\ UNCHANGED <<sync, sweep, selected, filed, matches>>
        /\ batch'.kind = batch.kind /\ batch'.left \subseteq batch.left
        /\ batch'.found = batch.found \cup {[entry |-> r.entry, match |-> m, chosen |-> sure]}
    BY <1>0, <1>16 DEF MatchFound, BatchSound, quietVars, serverVars
  <2>2. r.entry \in Entries
    BY DEF SelectionTyped
  <2>3. MatchTyped([entry |-> r.entry, match |-> m, chosen |-> sure])
    BY <2>2 DEF MatchTyped, Mangas
  <2> QED  BY <1>2, <2>1, <2>3 DEF SelectionTyped
<1>17. ASSUME NEW r \in batch.left, NEW ok \in BOOLEAN, BindingMoved(r, ok) PROVE SelectionTyped'
  <2>1. /\ UNCHANGED <<sync, sweep, selected, filed, matches>>
        /\ batch.kind = "migrate" /\ batch'.kind = batch.kind
        /\ batch'.left \subseteq batch.left /\ batch'.found \in {batch.found, {r}}
    BY <1>0, <1>17 DEF BindingMoved, BatchSound
  <2>2. MatchTyped(r)
    BY <2>1 DEF SelectionTyped
  <2> QED  BY <1>2, <2>1, <2>2 DEF SelectionTyped
<1>18. ASSUME NEW r \in batch.found,
              \/ \E list \in Lists : MovedListed(r, list)
              \/ MovedUnlisted(r)
              \/ \E ok \in BOOLEAN : MovedMarked(r, ok)
       PROVE  SelectionTyped'
  <2>1. /\ UNCHANGED <<sync, sweep, selected, filed, matches>>
        /\ batch'.kind = batch.kind /\ batch'.left \subseteq batch.left
        /\ batch'.found \subseteq batch.found
    BY <1>0, <1>18 DEF MovedListed, MovedUnlisted, MovedMarked, BatchSound, quietVars, serverVars
  <2> QED  BY <1>2, <2>1 DEF SelectionTyped
<1> QED  BY <1>3, <1>4, <1>5, <1>6, <1>7, <1>8, <1>9, <1>10, <1>11, <1>12, <1>13, <1>14, <1>15,
            <1>16, <1>17, <1>18 DEF LibraryNext

LEMMA LibraryTypes == JobsSound /\ ShelfTyped /\ SelectionTyped => LibraryPageTypeOK
BY DEF JobsSound, ListsTyped, ShelfTyped, SelectionTyped, MatchTyped, LibraryPageTypeOK


(* A title's page: what is bound, and by which request, is a copy or       *)
(* nothing; what a carry marks and its undo takes back is listed.          *)
Bindable == Copies \cup {Unbound}

RequestTyped(lists, c) ==
    /\ c.kind \in {"save", "unbind", "switch", "move", "restore"} => c.row \in Copies
    /\ c.kind \in {"carry", "undo"} => c.row \in AllRows /\ c.ids \subseteq lists[c.row]

BindingsTyped ==
    /\ bindings \in [Titles -> Bindable] /\ remembered \in [Titles -> Bindable]
    /\ boundId \in Bindable /\ detail.bound \in Bindable
    /\ pendingCarry = NoCarry \/ pendingCarry.row \in Copies
    /\ searched \in Copies \cup {"none", "empty"}
    /\ emptied \subseteq Titles

MarksListed == \A r \in AllRows : readOf[r] \subseteq chaptersOf[r]

RequestsTyped ==
    /\ \A c \in calls \cup carried : RequestTyped(chaptersOf, c)
    /\ carried = {} \/ \E c : carried = {c}

DetailTyped == BindingsTyped /\ MarksListed /\ RequestsTyped

LEMMA DetailTypedStart == DetailInit => DetailTyped
<1> SUFFICES ASSUME DetailInit PROVE DetailTyped
  OBVIOUS
<1>1. bindings \in [Titles -> Bindable]
  BY DEF DetailInit, Bindable
<1>2. remembered \in {[t \in Titles |-> Unbound], [t \in Titles |-> CHOOSE s \in Copies : TRUE]}
  BY DEF DetailInit
<1>3. (CHOOSE s \in Copies : TRUE) \in Copies
  BY DetailAssumption
<1>4. remembered \in [Titles -> Bindable]
  BY <1>2, <1>3 DEF Bindable
<1>5. /\ id \in Titles /\ detail = NoAnswer /\ boundId = remembered[id] /\ pendingCarry = NoCarry
      /\ carried = {} /\ searched = "none" /\ calls = {} /\ emptied = {}
  BY DEF DetailInit
<1>6. readOf = [r \in AllRows |-> chaptersOf[r] \cap {1}]
  BY DEF DetailInit
<1>7. MarksListed
  BY <1>6 DEF MarksListed
<1>8. detail.bound = Unbound
  BY <1>5 DEF NoAnswer
<1>9. BindingsTyped
  BY <1>1, <1>4, <1>5, <1>8 DEF BindingsTyped, Bindable
<1>10. RequestsTyped
  BY <1>5 DEF RequestsTyped
<1> QED  BY <1>7, <1>9, <1>10 DEF DetailTyped

LEMMA AdoptedTyped ==
  ASSUME BindingsTyped, NEW t \in Titles, NEW b \in Bindable
  PROVE  Adopted(t, b) \in Bindable
BY DEF BindingsTyped, Adopted

LEMMA HandedTyped ==
  ASSUME BindingsTyped, NEW t \in Titles, NEW b \in Bindable, NEW lists,
         NEW c \in Handed(t, b)
  PROVE  RequestTyped(lists, c)
<1>1. remembered[t] # Unbound /\ c = Written(t, remembered[t], 0)
  BY DEF Handed
<1>2. c.kind = "save" /\ c.row = remembered[t]
  BY <1>1 DEF Written, Call
<1> QED  BY <1>1, <1>2 DEF RequestTyped, BindingsTyped, Bindable

(* A request stays typed while the lists only grow.                        *)
LEMMA RequestsKept ==
  ASSUME RequestsTyped, calls' \subseteq calls, carried' \subseteq carried,
         \A r \in AllRows : chaptersOf[r] \subseteq chaptersOf'[r]
  PROVE  RequestsTyped'
BY DEF RequestsTyped, RequestTyped

LEMMA RequestMade ==
  ASSUME RequestsTyped, NEW d, RequestTyped(chaptersOf', d), calls' \subseteq calls \cup {d},
         carried' \subseteq carried, \A r \in AllRows : chaptersOf[r] \subseteq chaptersOf'[r]
  PROVE  RequestsTyped'
BY DEF RequestsTyped, RequestTyped

LEMMA CallHolds ==
  ASSUME NEW k, NEW t, NEW s, NEW n, NEW ids
  PROVE  LET c == Call(k, t, s, n, ids)
         IN  c.kind = k /\ c.title = t /\ c.row = s /\ c.upTo = n /\ c.ids = ids
BY DEF Call


LEMMA BindingsMove == DetailSound /\ DetailTyped /\ [DetailNext]_detailVars => BindingsTyped'
<1> SUFFICES ASSUME DetailSound, DetailTyped, [DetailNext]_detailVars PROVE BindingsTyped'
  OBVIOUS
<1>0. BindingsTyped /\ id \in Titles /\ Unbound \in Bindable /\ Copies \subseteq Bindable
  BY DEF DetailTyped, DetailSound, NoteSound, Bindable
<1>t. \A c \in calls : c.title \in Titles /\ RequestTyped(chaptersOf, c)
  BY DEF DetailTyped, RequestsTyped, DetailSound, RequestsSound, RequestSound
<1>a. Adopted(id, bindings[id]) \in Bindable /\ bindings[id] \in Bindable
  BY <1>0, AdoptedTyped DEF BindingsTyped
<1>1. ASSUME UNCHANGED <<bindings, remembered, boundId, detail, pendingCarry, searched, emptied>>
      PROVE  BindingsTyped'
  BY <1>0, <1>1 DEF BindingsTyped
<1>2. ASSUME NEW t \in Titles, Walk(t) PROVE BindingsTyped'
  <2>1. Adopted(t, detail.bound) \in Bindable /\ remembered[t] \in Bindable
    BY <1>0, AdoptedTyped DEF BindingsTyped
  <2>2. /\ UNCHANGED <<bindings, remembered, detail, emptied>> /\ pendingCarry' = NoCarry
        /\ searched' = "none" /\ boundId' \in {remembered[t], Adopted(t, detail.bound)}
    BY <1>2 DEF Walk, rowVars
  <2> QED  BY <1>0, <2>1, <2>2 DEF BindingsTyped
<1>3. CASE DetailAnswered
  <2>1. /\ UNCHANGED <<bindings, remembered, emptied, pendingCarry, searched>>
        /\ detail' = [title |-> id, bound |-> bindings[id]] /\ boundId' = Adopted(id, bindings[id])
    BY <1>3 DEF DetailAnswered, rowVars
  <2> QED  BY <1>0, <1>a, <2>1 DEF BindingsTyped
<1>4. ASSUME NEW list \in ChapterLists, ListAnswered(list) PROVE BindingsTyped'
  <2>1. /\ UNCHANGED <<bindings, remembered, boundId, detail, pendingCarry, searched>>
        /\ emptied' \in {emptied, emptied \cup {id}}
    BY <1>4 DEF ListAnswered, shownVars
  <2> QED  BY <1>0, <2>1 DEF BindingsTyped
<1>5. CASE \/ \E n \in 0..1 : SaveNote(n)
           \/ \E n \in Reported : RecordCarried(n)
           \/ \E c \in calls, ok \in BOOLEAN : NoteSaved(c, ok) \/ ProgressCarried(c, ok) \/ CarryUndone(c, ok)
           \/ \E c \in carried : UndoCarry(c)
           \/ OpenPicker \/ Unbind \/ HonourMarker \/ RestorePreviousSource \/ UNCHANGED detailVars
  BY <1>1, <1>5 DEF SaveNote, RecordCarried, NoteSaved, ProgressCarried, CarryUndone, UndoCarry,
                    OpenPicker, Unbind, HonourMarker, RestorePreviousSource, detailVars, rowVars,
                    shownVars, sourceVars
<1>6. ASSUME NEW s \in Copies, BindTo(s) PROVE BindingsTyped'
  <2>1. /\ UNCHANGED <<bindings, detail, emptied, pendingCarry, searched>>
        /\ remembered' = [remembered EXCEPT ![id] = s] /\ boundId' = s
    BY <1>6 DEF BindTo, shownVars
  <2> QED  BY <1>0, <2>1 DEF BindingsTyped
<1>7. ASSUME NEW c \in calls, NEW ok \in BOOLEAN, Saved(c, ok) PROVE BindingsTyped'
  <2>1. /\ UNCHANGED <<remembered, boundId, detail, emptied, searched>>
        /\ bindings' \in {bindings, [bindings EXCEPT ![c.title] = c.row]}
        /\ pendingCarry' \in {pendingCarry, [row |-> c.row, upTo |-> c.upTo]}
    BY <1>7 DEF Saved, shownVars
  <2>2. c.row \in Copies /\ c.title \in Titles
    BY <1>t, <1>7 DEF Saved, RequestTyped
  <2>3. bindings' \in [Titles -> Bindable]
    BY <1>0, <2>1, <2>2 DEF BindingsTyped
  <2>4. pendingCarry' = NoCarry \/ pendingCarry'.row \in Copies
    BY <1>0, <2>1, <2>2 DEF BindingsTyped
  <2> QED  BY <1>0, <2>1, <2>3, <2>4 DEF BindingsTyped
<1>8. ASSUME NEW c \in calls, NEW ok \in BOOLEAN, BindingDropped(c, ok) \/ MovedOff(c, ok)
      PROVE  BindingsTyped'
  <2>1. c.title \in Titles
    BY <1>t
  <2>2. /\ UNCHANGED <<detail, emptied, pendingCarry>>
        /\ \/ UNCHANGED <<bindings, remembered, boundId, searched>>
           \/ /\ bindings' = [bindings EXCEPT ![c.title] = Unbound]
              /\ remembered' = [remembered EXCEPT ![c.title] = Unbound]
              /\ boundId' = Unbound /\ (searched' = searched \/ (c.kind = "move" /\ searched' = c.row))
    BY <1>8 DEF BindingDropped, MovedOff, shownVars
  <2>3. c.kind = "move" => c.row \in Copies
    BY <1>t DEF RequestTyped
  <2> QED  BY <1>0, <2>1, <2>2, <2>3 DEF BindingsTyped
<1>9. ASSUME NEW c \in calls, NEW ok \in BOOLEAN, PreviousRestored(c, ok) PROVE BindingsTyped'
  <2>1. c.title \in Titles /\ c.row \in Copies
    BY <1>t, <1>9 DEF PreviousRestored, RequestTyped
  <2>2. /\ UNCHANGED <<detail, emptied, pendingCarry>>
        /\ \/ UNCHANGED <<bindings, remembered, boundId, searched>>
           \/ /\ bindings' = [bindings EXCEPT ![c.title] = c.row]
              /\ remembered' = [remembered EXCEPT ![c.title] = c.row]
              /\ boundId' = c.row /\ searched' = "none"
    BY <1>9 DEF PreviousRestored, shownVars
  <2> QED  BY <1>0, <2>1, <2>2 DEF BindingsTyped
<1>10. ASSUME NEW c \in calls, NEW list \in ChapterLists, Switched(c, list) PROVE BindingsTyped'
  <2>1. /\ UNCHANGED <<bindings, remembered, boundId, detail, emptied, pendingCarry>>
        /\ searched' \in {searched, "empty"}
    BY <1>10 DEF Switched, shownVars
  <2> QED  BY <1>0, <2>1 DEF BindingsTyped
<1>11. CASE CarryAsked
  <2>1. /\ UNCHANGED <<bindings, remembered, boundId, detail, emptied, searched>>
        /\ pendingCarry' = NoCarry
    BY <1>11 DEF CarryAsked, rowVars, shownVars
  <2> QED  BY <1>0, <2>1 DEF BindingsTyped
<1> QED  BY <1>2, <1>3, <1>4, <1>5, <1>6, <1>7, <1>8, <1>9, <1>10, <1>11 DEF DetailNext

(* A source's list only grows, and only from nothing.                      *)
LEMMA ListsGrow ==
  ASSUME DetailSound, DetailTyped, [DetailNext]_detailVars
  PROVE  /\ \A r \in AllRows : chaptersOf[r] \subseteq chaptersOf'[r]
         /\ chaptersOf' # chaptersOf => readOf' = readOf
<1>0. chaptersOf = [r \in AllRows |-> chaptersOf[r]]
  BY DEF DetailSound, RequestsSound
<1>1. ASSUME NEW list \in ChapterLists, ListAnswered(list)
      PROVE  readOf' = readOf /\ \A r \in AllRows : chaptersOf[r] \subseteq chaptersOf'[r]
  <2>1. /\ readOf' = readOf
        /\ chaptersOf' = [chaptersOf EXCEPT ![Active] = IF chaptersOf[Active] = {} THEN list
                                                        ELSE chaptersOf[Active]]
    BY <1>1 DEF ListAnswered
  <2> QED  BY <1>0, <2>1
<1>2. ASSUME NEW c \in calls, NEW list \in ChapterLists, Switched(c, list)
      PROVE  readOf' = readOf /\ \A r \in AllRows : chaptersOf[r] \subseteq chaptersOf'[r]
  <2>1. /\ readOf' = readOf
        /\ chaptersOf' = [chaptersOf EXCEPT ![c.title] = IF chaptersOf[c.title] = {} THEN list
                                                         ELSE chaptersOf[c.title]]
    BY <1>2 DEF Switched
  <2> QED  BY <1>0, <2>1
<1>3. CASE \/ \E t \in Titles : Walk(t)
           \/ DetailAnswered \/ OpenPicker \/ Unbind
           \/ \E n \in 0..1 : SaveNote(n)
           \/ HonourMarker \/ RestorePreviousSource \/ CarryAsked
           \/ \E n \in Reported : RecordCarried(n)
           \/ \E s \in Copies : BindTo(s)
           \/ \E c \in carried : UndoCarry(c)
           \/ UNCHANGED detailVars
  BY <1>3 DEF Walk, DetailAnswered, OpenPicker, Unbind, SaveNote, HonourMarker,
              RestorePreviousSource, CarryAsked, RecordCarried, BindTo, UndoCarry, detailVars,
              rowVars
<1>4. CASE \E c \in calls, ok \in BOOLEAN :
              \/ Saved(c, ok) \/ NoteSaved(c, ok) \/ BindingDropped(c, ok) \/ MovedOff(c, ok)
              \/ PreviousRestored(c, ok) \/ ProgressCarried(c, ok) \/ CarryUndone(c, ok)
  BY <1>4 DEF Saved, NoteSaved, BindingDropped, MovedOff, PreviousRestored, ProgressCarried,
              CarryUndone
<1> QED  BY <1>1, <1>2, <1>3, <1>4 DEF DetailNext


LEMMA MarksListedMove == DetailSound /\ DetailTyped /\ [DetailNext]_detailVars => MarksListed'
<1> SUFFICES ASSUME DetailSound, DetailTyped, [DetailNext]_detailVars PROVE MarksListed'
  OBVIOUS
<1>0. MarksListed /\ \A r \in AllRows : chaptersOf[r] \subseteq chaptersOf'[r]
  BY ListsGrow DEF DetailTyped
<1>1. CASE readOf' = readOf
  BY <1>0, <1>1 DEF MarksListed
<1>2. ASSUME NEW c \in calls, NEW ok \in BOOLEAN, ProgressCarried(c, ok) \/ CarryUndone(c, ok)
      PROVE  MarksListed'
  <2>1. c.ids \subseteq chaptersOf[c.row]
    BY <1>2 DEF ProgressCarried, CarryUndone, DetailTyped, RequestsTyped, RequestTyped
  <2>2. \/ readOf' = readOf
        \/ readOf' = [readOf EXCEPT ![c.row] = @ \cup c.ids]
        \/ readOf' = [readOf EXCEPT ![c.row] = @ \ c.ids]
    BY <1>2 DEF ProgressCarried, CarryUndone
  <2>3. readOf = [r \in AllRows |-> readOf[r]]
    BY DEF DetailSound, MarksTyped
  <2> QED  BY <1>0, <2>1, <2>2, <2>3 DEF MarksListed
<1>3. CASE \/ \E t \in Titles : Walk(t)
           \/ DetailAnswered \/ OpenPicker \/ Unbind
           \/ \E n \in 0..1 : SaveNote(n)
           \/ HonourMarker \/ RestorePreviousSource \/ CarryAsked
           \/ \E list \in ChapterLists : ListAnswered(list)
           \/ \E n \in Reported : RecordCarried(n)
           \/ \E s \in Copies : BindTo(s)
           \/ \E c \in carried : UndoCarry(c)
           \/ UNCHANGED detailVars
  BY <1>1, <1>3 DEF Walk, DetailAnswered, OpenPicker, Unbind, SaveNote, HonourMarker, ListAnswered,
                    RestorePreviousSource, CarryAsked, RecordCarried, BindTo, UndoCarry, detailVars,
                    rowVars
<1>4. CASE \/ \E c \in calls, ok \in BOOLEAN :
                 \/ Saved(c, ok) \/ NoteSaved(c, ok) \/ BindingDropped(c, ok) \/ MovedOff(c, ok)
                 \/ PreviousRestored(c, ok)
           \/ \E c \in calls, list \in ChapterLists : Switched(c, list)
  BY <1>1, <1>4 DEF Saved, NoteSaved, BindingDropped, MovedOff, PreviousRestored, Switched
<1> QED  BY <1>2, <1>3, <1>4 DEF DetailNext

LEMMA RequestsTypedMove == DetailSound /\ DetailTyped /\ [DetailNext]_detailVars => RequestsTyped'
<1> SUFFICES ASSUME DetailSound, DetailTyped, [DetailNext]_detailVars PROVE RequestsTyped'
  OBVIOUS
<1>0. /\ RequestsTyped /\ BindingsTyped /\ id \in Titles
      /\ \A r \in AllRows : chaptersOf[r] \subseteq chaptersOf'[r]
  BY ListsGrow DEF DetailTyped, DetailSound, NoteSound
<1>1. CASE calls' \subseteq calls /\ carried' \subseteq carried
  BY <1>0, <1>1, RequestsKept
<1>2. ASSUME NEW d, RequestTyped(chaptersOf', d), calls' \subseteq calls \cup {d},
             carried' \subseteq carried
      PROVE  RequestsTyped'
  BY <1>0, <1>2, RequestMade
<1>3. ASSUME NEW t \in Titles, NEW b \in Bindable, calls' \subseteq calls \cup Handed(t, b),
             carried' \subseteq carried
      PROVE  RequestsTyped'
  <2>1. \A d \in Handed(t, b) : RequestTyped(chaptersOf', d)
    BY <1>0, HandedTyped
  <2> QED  BY <1>0, <1>3, <2>1 DEF RequestsTyped, RequestTyped
<1>4. ASSUME NEW t \in Titles, Walk(t) PROVE RequestsTyped'
  <2>1. calls' \subseteq calls \cup Handed(t, detail.bound) /\ carried' \subseteq carried
    BY <1>4 DEF Walk
  <2> QED  BY <1>0, <1>3, <2>1 DEF BindingsTyped
<1>5. CASE DetailAnswered
  <2>1. calls' \subseteq calls \cup Handed(id, bindings[id]) /\ carried' \subseteq carried
    BY <1>5 DEF DetailAnswered
  <2> QED  BY <1>0, <1>3, <2>1 DEF BindingsTyped
<1>6. ASSUME NEW n \in 0..1, SaveNote(n) PROVE RequestsTyped'
  <2>1. calls' = calls \cup {Call("note", id, Unbound, n, {})} /\ carried' = carried
    BY <1>6 DEF SaveNote, sourceVars
  <2>2. RequestTyped(chaptersOf', Call("note", id, Unbound, n, {}))
    BY CallHolds DEF RequestTyped
  <2> QED  BY <1>2, <2>1, <2>2
<1>7. ASSUME NEW s \in Copies, BindTo(s) PROVE RequestsTyped'
  <2> DEFINE n == TopOf({TrackedProgress, readThrough})
             d == Call("save", id, s, n, {})
  <2>1. calls' = calls \cup {d} /\ carried' \subseteq carried
    BY <1>7 DEF BindTo, Written
  <2>2. d.kind = "save" /\ d.row = s
    BY CallHolds
  <2> HIDE DEF n, d
  <2> QED  BY <1>2, <2>1, <2>2 DEF RequestTyped
<1>8. ASSUME Unbind \/ RestorePreviousSource PROVE RequestsTyped'
  <2>1. PICK kind \in {"unbind", "restore"}, s \in Copies : calls' = calls \cup {Call(kind, id, s, 0, {})}
    <3>1. CASE Unbind
      BY <1>0, <3>1 DEF Unbind, BindingsTyped, Bindable
    <3>2. CASE RestorePreviousSource
      BY <3>2 DEF RestorePreviousSource
    <3> QED  BY <1>8, <3>1, <3>2
  <2>2. RequestTyped(chaptersOf', Call(kind, id, s, 0, {}))
    BY CallHolds DEF RequestTyped
  <2>3. carried' = carried
    BY <1>8 DEF Unbind, RestorePreviousSource, sourceVars
  <2> QED  BY <1>2, <2>1, <2>2, <2>3
<1>9. CASE HonourMarker
  <2> DEFINE was == Adopted(id, detail.bound)
  <2>1. was \in Bindable
    BY <1>0, AdoptedTyped DEF BindingsTyped
  <2>2. /\ carried' = carried
        /\ calls' = calls \/ (was # Unbound /\ calls' = calls \cup {Call("switch", id, was, 0, {})})
    BY <1>9 DEF HonourMarker, sourceVars
  <2> HIDE DEF was
  <2>3. was # Unbound => RequestTyped(chaptersOf', Call("switch", id, was, 0, {}))
    BY <2>1, CallHolds DEF RequestTyped, Bindable
  <2> QED  BY <1>1, <1>2, <2>2, <2>3
<1>10. ASSUME NEW c \in calls, NEW list \in ChapterLists, Switched(c, list) PROVE RequestsTyped'
  <2>1. /\ c.kind = "switch" /\ carried' = carried
        /\ calls' \subseteq calls \cup {[c EXCEPT !.kind = "move"]}
    BY <1>10 DEF Switched
  <2>2. c = Call(c.kind, c.title, c.row, c.upTo, c.ids)
    BY DEF DetailSound, RequestsSound, RequestSound
  <2>3. [c EXCEPT !.kind = "move"] = Call("move", c.title, c.row, c.upTo, c.ids)
    BY <2>2 DEF Call
  <2>4. c.row \in Copies
    BY <1>0, <2>1 DEF RequestsTyped, RequestTyped
  <2>5. RequestTyped(chaptersOf', Call("move", c.title, c.row, c.upTo, c.ids))
    BY <2>4, CallHolds DEF RequestTyped
  <2> QED  BY <1>2, <2>1, <2>3, <2>5
<1>11. CASE CarryAsked
  <2> DEFINE ids == Marks(boundId, pendingCarry.upTo)
  <2>1. /\ pendingCarry # NoCarry /\ boundId = pendingCarry.row /\ carried' = carried
        /\ calls' \subseteq calls \cup {Call("carry", id, boundId, pendingCarry.upTo, ids)}
        /\ chaptersOf' = chaptersOf
    BY <1>11 DEF CarryAsked, rowVars
  <2>2. boundId \in AllRows /\ ids \subseteq chaptersOf[boundId]
    BY <1>0, <2>1 DEF BindingsTyped, AllRows, Marks
  <2> HIDE DEF ids
  <2>3. RequestTyped(chaptersOf', Call("carry", id, boundId, pendingCarry.upTo, ids))
    BY <2>1, <2>2, CallHolds DEF RequestTyped
  <2> QED  BY <1>2, <2>1, <2>3
<1>12. ASSUME NEW c \in calls, NEW ok \in BOOLEAN, ProgressCarried(c, ok) PROVE RequestsTyped'
  <2>1. calls' \subseteq calls /\ carried' \in {carried, {c}}
    BY <1>12 DEF ProgressCarried
  <2> QED  BY <1>0, <2>1 DEF RequestsTyped, RequestTyped
<1>13. ASSUME NEW c \in carried, UndoCarry(c) PROVE RequestsTyped'
  <2>1. carried' = carried /\ calls' = calls \cup {[c EXCEPT !.kind = "undo"]}
    BY <1>13 DEF UndoCarry, sourceVars
  <2>2. c.kind = "carry" /\ c = Call(c.kind, c.title, c.row, c.upTo, c.ids)
    BY DEF DetailSound, RequestsSound, RequestSound
  <2>3. [c EXCEPT !.kind = "undo"] = Call("undo", c.title, c.row, c.upTo, c.ids)
    BY <2>2 DEF Call
  <2>4. c.row \in AllRows /\ c.ids \subseteq chaptersOf'[c.row]
    BY <1>0, <2>2 DEF RequestsTyped, RequestTyped
  <2>5. RequestTyped(chaptersOf', Call("undo", c.title, c.row, c.upTo, c.ids))
    BY <2>4, CallHolds DEF RequestTyped
  <2> QED  BY <1>2, <2>1, <2>3, <2>5
<1>14. CASE \/ OpenPicker
            \/ \E list \in ChapterLists : ListAnswered(list)
            \/ \E n \in Reported : RecordCarried(n)
            \/ UNCHANGED detailVars
            \/ \E c \in calls, ok \in BOOLEAN :
                  \/ Saved(c, ok) \/ NoteSaved(c, ok) \/ BindingDropped(c, ok) \/ MovedOff(c, ok)
                  \/ PreviousRestored(c, ok) \/ CarryUndone(c, ok)
  BY <1>1, <1>14 DEF OpenPicker, ListAnswered, RecordCarried, detailVars, Saved, NoteSaved,
                     BindingDropped, MovedOff, PreviousRestored, CarryUndone, sourceVars
<1> QED  BY <1>4, <1>5, <1>6, <1>7, <1>8, <1>9, <1>10, <1>11, <1>12, <1>13, <1>14 DEF DetailNext

LEMMA DetailTypedMove == DetailSound /\ DetailTyped /\ [DetailNext]_detailVars => DetailTyped'
BY BindingsMove, MarksListedMove, RequestsTypedMove DEF DetailTyped

LEMMA DetailTypes == DetailSound /\ DetailTyped => DetailPageTypeOK
<1> SUFFICES ASSUME DetailSound, DetailTyped PROVE DetailPageTypeOK
  OBVIOUS
<1>1. Cardinality(carried) <= 1
  <2>1. carried = {} \/ \E c : carried = {c}
    BY DEF DetailTyped, RequestsTyped
  <2>2. CASE carried = {}
    BY <2>2, FS_EmptySet
  <2>3. ASSUME NEW c, carried = {c} PROVE Cardinality(carried) <= 1
    BY <2>3, FS_Singleton
  <2> QED  BY <2>1, <2>2, <2>3
<1>2. pendingCarry.row \in Bindable
  BY DEF DetailTyped, BindingsTyped, NoCarry, Bindable
<1>3. id \in Titles
  BY DEF DetailSound, NoteSound
<1> QED  BY <1>1, <1>2, <1>3 DEF DetailTyped, BindingsTyped, MarksListed, Bindable, DetailPageTypeOK

-----------------------------------------------------------------------------
(* The types of the pages, whichever of them moves.                        *)
PagesTyped ==
    /\ focus = "discover" => GridTyped
    /\ focus = "sweep" => SearchTyped
    /\ focus = "library" => ShelfTyped /\ SelectionTyped
    /\ focus = "detail" => DetailTyped
    /\ focus = "restore" => PanelTyped
    /\ focus = "sources" => PressesTyped

LEMMA PagesTypedStart == PagesInit => PagesTyped
BY GridTypedStart, SearchTypedStart, ShelfTypedStart, SelectionStart, DetailTypedStart,
   PanelTypedStart, PressesStart DEF PagesInit, PagesTyped

LEMMA PagesTypedMove == PagesSound /\ PagesTyped /\ [PagesNext]_pagesVars => PagesTyped'
<1> SUFFICES ASSUME PagesSound, PagesTyped, [PagesNext]_pagesVars PROVE PagesTyped'
  OBVIOUS
<1>0. focus' = focus
  BY DEF PagesNext, pagesVars
<1>1. CASE focus = "discover"
  <2>1. [DiscoverNext]_discoverVars
    BY <1>1 DEF PagesNext, pagesVars
  <2> QED  BY <1>0, <1>1, <2>1, GridTypedMove DEF PagesSound, PagesTyped
<1>2. CASE focus = "sweep"
  <2>1. [SweepNext]_sweepVars
    BY <1>2 DEF PagesNext, pagesVars
  <2> QED  BY <1>0, <1>2, <2>1, SearchTypedMove DEF PagesSound, PagesTyped
<1>3. CASE focus = "library"
  <2>1. [LibraryNext]_libraryVars
    BY <1>3 DEF PagesNext, pagesVars
  <2> QED  BY <1>0, <1>3, <2>1, ShelfTypedMove, SelectionMove DEF PagesSound, PagesTyped
<1>4. CASE focus = "detail"
  <2>1. [DetailNext]_detailVars
    BY <1>4 DEF PagesNext, pagesVars
  <2> QED  BY <1>0, <1>4, <2>1, DetailTypedMove DEF PagesSound, PagesTyped
<1>5. CASE focus = "restore"
  <2>1. [RestoreNext]_restoreVars
    BY <1>5 DEF PagesNext, pagesVars
  <2> QED  BY <1>0, <1>5, <2>1, PanelTypedMove DEF PagesTyped
<1>6. CASE focus = "sources"
  <2>1. [SourcesNext]_sourcesVars
    BY <1>6 DEF PagesNext, pagesVars
  <2> QED  BY <1>0, <1>6, <2>1, PressesMove DEF PagesTyped
<1> QED  BY <1>0, <1>1, <1>2, <1>3, <1>4, <1>5, <1>6 DEF PagesTyped

(* Every page's variables hold what its code can put there: a binding is   *)
(* of a source or nothing, what is read is listed, a match is a source's   *)
(* copy or the title's own row, and only what the page has been told of is *)
(* selected, asked for or shown.                                           *)
THEOREM PagesStayTyped == PagesSpec => []PagesTypesOK
<1>1. PanelTyped => RestoreTypeOK
  BY DEF PanelTyped
<1>2. PagesSound /\ PagesTyped => PagesTypesOK
  BY <1>1, SettingsTypes, OverridesTypes, GridTypes, SearchTypes, LibraryTypes, DetailTypes, SourcesTypes
     DEF PagesSound, PagesTyped, PagesTypesOK
<1> QED  BY <1>2, PagesTypedStart, PagesTypedMove, PagesAreSound, PTL DEF PagesSpec

=============================================================================
