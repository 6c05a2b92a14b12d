----------------------------- MODULE EditorSave -----------------------------
(***************************************************************************)
(* Saving a file from the web editor: FileEditor.mountInto's handle with   *)
(* its autosave controller (web/file-editor.js) and the GET and PUT of     *)
(* /api/files/content (server.ts), whose check on expectedMtimeMs is the   *)
(* only thing between two tabs, or a tab and another program, and a lost   *)
(* version.  One file; a text is the number of the edit that made it.      *)
(***************************************************************************)
EXTENDS Naturals, FiniteSets

CONSTANTS
  Editors,   \* the editor tabs that show the file, in one browser or more
  Autosaving,   \* those whose editor.autosave is not "off"
  MaxPuts,      \* bound on the PUTs in flight
  MaxEdits,     \* bound on the edits, opens and manual saves together
  SaveOverlaps      \* what may happen while a PUT is under way: "typing" in the
                \* tab that sent it, a "writer" between its check and its answer

NoTab == 0
ASSUME SaveAssumption == MaxEdits \in Nat /\ NoTab \notin Editors

NoPut == [by |-> NoTab, text |-> 0, base |-> 0, mtime |-> 0, step |-> "none"]
Closed == [load |-> "closed", text |-> 0, base |-> 0, mtime |-> 0,
           edited |-> FALSE, failed |-> FALSE, timer |-> FALSE]

VARIABLES
  disk,      \* [text, mtime]; an mtime is the number of the write
  written,   \* history: every text that was ever on disk
  editors,   \* per tab its handle: text of the view, current.mtimeMs, edited,
             \* the autosave's failed and timer, and (history) base, the text
             \* the tab last read from the disk or stored there
  puts,      \* the PUTs in flight, by slot
  edits      \* edits, opens and manual saves so far

saveVars == <<disk, written, editors, puts, edits>>

SaveInit ==
  /\ disk = [text |-> 0, mtime |-> 1] /\ written = {0} /\ edits = 0
  /\ editors = [t \in Editors |-> Closed]
  /\ puts = [n \in 1..MaxPuts |-> NoPut]

InFlight(t) == {n \in DOMAIN puts : puts[n].by = t /\ puts[n].step # "none"}
FreeSlots == {n \in DOMAIN puts : puts[n].step = "none"}
FirstFree == CHOOSE n \in FreeSlots : TRUE
Counts == edits < MaxEdits /\ edits' = edits + 1
Undisturbed ==
  \/ "writer" \in SaveOverlaps
  \/ \A n \in DOMAIN puts : puts[n].step \notin {"checked", "written"}

-----------------------------------------------------------------------------
(* The tab.                                                                *)

\* GET: the file's stat, then its bytes.
Stats(t) ==
  /\ editors[t].load = "closed" /\ Counts
  /\ editors' = [editors EXCEPT ![t].load = "loading", ![t].mtime = disk.mtime]
  /\ UNCHANGED <<disk, written, puts>>

Reads(t) ==
  /\ editors[t].load = "loading"
  /\ editors' = [editors EXCEPT ![t].load = "open",
                                ![t].text = disk.text, ![t].base = disk.text]
  /\ UNCHANGED <<disk, written, puts, edits>>

\* onDocChanged: the tab is edited, and the debounce starts again (notifyChange)
\* unless the last save failed.
Type(t) ==
  /\ editors[t].load = "open" /\ Counts
  /\ "typing" \in SaveOverlaps \/ InFlight(t) = {}
  /\ editors' = [editors EXCEPT ![t].text = edits + 1, ![t].edited = TRUE,
                                ![t].timer = t \in Autosaving /\ ~editors[t].failed]
  /\ UNCHANGED <<disk, written, puts>>

\* handle.save(): the PUT takes the view's text and current.mtimeMs along.
SendsPut(t) ==
  puts' = [puts EXCEPT ![FirstFree] =
            [by |-> t, text |-> editors[t].text, base |-> editors[t].base,
             mtime |-> editors[t].mtime, step |-> "sent"]]

SaveManual(t) ==
  /\ editors[t].load = "open" /\ FreeSlots # {} /\ Counts
  /\ SendsPut(t)
  /\ UNCHANGED <<disk, written, editors>>

\* run(): the timer is spent, also when a failed save forbids another one.
AutosaveFires(t) ==
  /\ editors[t].timer /\ FreeSlots # {}
  /\ editors' = [editors EXCEPT ![t].timer = FALSE]
  /\ IF editors[t].failed THEN UNCHANGED puts ELSE SendsPut(t)
  /\ UNCHANGED <<disk, written, edits>>

\* Mutant: a success leaves the timer running.
SavedKeepsTimer(t, mtime, text) ==
  [editors EXCEPT ![t].mtime = mtime, ![t].base = text, ![t].edited = FALSE,
                  ![t].failed = FALSE]

\* notifySaved: a success stops the timer, a failure stops autosave until a
\* manual save succeeds.
SavedAs(t, mtime, text) ==
  [editors EXCEPT ![t].mtime = mtime, ![t].base = text, ![t].edited = FALSE,
                  ![t].failed = FALSE, ![t].timer = FALSE]

\* Mutant: the mtime a conflict reports is adopted for the next try.
AdoptsConflict(n) ==
  [editors EXCEPT ![puts[n].by].failed = TRUE, ![puts[n].by].mtime = disk.mtime]

\* Mutant: a failed save is not noted.
FailureUnnoted(n) == editors

FailedSave(n) == [editors EXCEPT ![puts[n].by].failed = TRUE]

\* The answer reaches the handle, which a closed tab no longer has; the answer
\* may be lost with its connection (the catch).
Answer(n) ==
  /\ puts[n].step \in {"stored", "refused"}
  /\ puts' = [puts EXCEPT ![n] = NoPut]
  /\ \/ puts[n].by = NoTab /\ UNCHANGED editors
     \/ /\ puts[n].by # NoTab /\ puts[n].step = "stored"
        /\ editors' = SavedAs(puts[n].by, puts[n].mtime, puts[n].text)
     \/ puts[n].by # NoTab /\ editors' = FailedSave(n)
  /\ UNCHANGED <<disk, written, edits>>

\* requestCloseKey: only an edited tab asks, and here the user accepts.
CloseEditor(t) ==
  /\ editors[t].load = "open"
  /\ editors' = [editors EXCEPT ![t] = Closed]
  /\ puts' = [n \in DOMAIN puts |->
               IF n \in InFlight(t) THEN [puts[n] EXCEPT !.by = NoTab] ELSE puts[n]]
  /\ UNCHANGED <<disk, written, edits>>

-----------------------------------------------------------------------------
(* The server: each await of the PUT handler is a step.                    *)

PutChecks(n) ==
  /\ puts[n].step = "sent" /\ Undisturbed
  /\ puts' = [puts EXCEPT ![n].step =
                IF disk.mtime = puts[n].mtime THEN "checked" ELSE "refused"]
  /\ UNCHANGED <<disk, written, editors, edits>>

PutWrites(n) ==
  /\ puts[n].step = "checked"
  /\ disk' = [text |-> puts[n].text, mtime |-> disk.mtime + 1]
  /\ written' = written \cup {puts[n].text}
  /\ puts' = [puts EXCEPT ![n].step = "written"]
  /\ UNCHANGED <<editors, edits>>

\* The mtime that is answered is the one a stat finds after the write.
PutStats(n) ==
  /\ puts[n].step = "written"
  /\ puts' = [puts EXCEPT ![n].step = "stored", ![n].mtime = disk.mtime]
  /\ UNCHANGED <<disk, written, editors, edits>>

\* Access denied, no space, the file gone.
PutFails(n) ==
  /\ puts[n].step \in {"sent", "checked"}
  /\ puts' = [puts EXCEPT ![n].step = "refused"]
  /\ UNCHANGED <<disk, written, editors, edits>>

\* Another program writes the file (a shell, git, an agent).
ExternalWrite ==
  /\ Undisturbed /\ Counts
  /\ disk' = [text |-> edits + 1, mtime |-> disk.mtime + 1]
  /\ written' = written \cup {edits + 1}
  /\ UNCHANGED <<editors, puts>>

-----------------------------------------------------------------------------
SaveWork ==
  \/ \E n \in DOMAIN puts :
       PutChecks(n) \/ PutWrites(n) \/ PutStats(n) \/ PutFails(n) \/ Answer(n)
  \/ \E t \in Editors : Reads(t) \/ AutosaveFires(t)

SaveNext ==
  \/ SaveWork \/ ExternalWrite
  \/ \E t \in Editors : Stats(t) \/ Type(t) \/ SaveManual(t) \/ CloseEditor(t)

SaveSpec == SaveInit /\ [][SaveNext]_saveVars /\ WF_saveVars(SaveWork)

-----------------------------------------------------------------------------
SaveTypeOK ==
  /\ disk.text \in written /\ written \subseteq 0..MaxEdits /\ disk.mtime \in Nat
  /\ \A t \in Editors :
       /\ editors[t].load \in {"closed", "loading", "open"}
       /\ editors[t].load = "open" => editors[t].base \in written
       /\ editors[t].timer => editors[t].edited /\ t \in Autosaving
  /\ \A n \in DOMAIN puts :
       puts[n].step \in {"none", "sent", "checked", "written", "stored", "refused"}

\* A save replaces the version its tab has read or stored itself and no other:
\* expectedMtimeMs is there "so two editors can't silently clobber each other"
\* (server.ts, above the content routes).
NoSilentOverwrite ==
  [][\A n \in DOMAIN puts :
       puts[n].step = "checked" /\ puts'[n].step = "written" =>
         puts[n].base = disk.text]_saveVars

Unsaved(t) == editors[t].load = "open" /\ editors[t].text \notin written

\* What is typed into a tab with autosave comes to the disk, unless a save has
\* failed and autosave waits for the user (createAutosaveController).
TypedIsStored ==
  \A t \in Autosaving :
    (Unsaved(t) /\ ~editors[t].failed) ~> (~Unsaved(t) \/ editors[t].failed)

\* A tab that closes without a question holds nothing that was never stored:
\* isDirty "returns true when the file has unsaved changes" (mountInto).
NothingDiscardedUnasked == \A t \in Editors : Unsaved(t) => editors[t].edited
=============================================================================
