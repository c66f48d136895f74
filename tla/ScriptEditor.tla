---------------------------- MODULE ScriptEditor ----------------------------
(***************************************************************************)
(* The editor of a script's page: pages/ScriptEdit.tsx with EditorPanel,   *)
(* FileTree and FileDialog, against the files api/scripts.py keeps on      *)
(* disk.  A request is sent in one step, served in a second and answered   *)
(* in a third, so saves, loads, deletions and additions overtake each      *)
(* other as they do on several connections.  A render and the effects it   *)
(* runs are one step: React flushes them before the next event.            *)
(***************************************************************************)
EXTENDS Naturals, FiniteSets

CONSTANTS
    Paths,      \* file paths, numbered in the order list_files sorts them
    Candidates, \* the paths whose extension may be an entrypoint
    Versions,   \* bound: how many texts may be typed into each file
    MaxFiles,   \* the limit of create_file_endpoint (50)
    Saves,      \* bound: one slot for each autosave that is under way
    MaxRequests \* bound: requests of all kinds under way

ASSUME EditorAssumption ==
    /\ Paths \subseteq Nat \ {0} /\ IsFiniteSet(Paths)
    /\ Candidates \subseteq Paths
    /\ Versions \in [Paths -> Nat \ {0}] /\ MaxFiles \in Nat
    /\ MaxRequests \in Nat

NoPath == 0
Blank == [of |-> NoPath, v |-> 0]        \* the empty text
Absent == [of |-> NoPath, v |-> 1]       \* there is no such file
Typed(p) == [of : {p}, v : 0 .. Versions[p] - 1]
Texts(p) == Typed(p) \cup {Blank}
AllTexts == {Blank} \cup UNION {Typed(p) : p \in Paths}

NoTimer == [path |-> NoPath, text |-> Blank]
NoSave == [path |-> NoPath, text |-> Blank, stage |-> "none", mounted |-> FALSE]
Idle == [path |-> NoPath, stage |-> "none"]

VARIABLES
    disk,      \* server: the text of each file
    entry,     \* server: the entrypoint of the script's row
    files,     \* ["script-files"]: the paths listed and the first of them
    script,    \* ["script"]: its entrypoint, NoPath while loading
    tab,       \* activeTab: the editor or another; only that tab is mounted
    active,    \* activePath
    shown,     \* activeContent, the panel's initialContent
    dialog,    \* the "Add file" dialog, modal
    content, dirty, lastSaved, timer,  \* EditorPanel, while it is mounted
    saves,     \* Saves -> the PUT in each slot
    loads,     \* the GETs of file contents
    del, add, upd, \* the mutations: delete a file, add one, set the entrypoint
    disturbed  \* history: "yes" when something happened to the open file that
               \* "Saved" cannot reflect, "left" when it is only that the tab
               \* was left after a save

server == <<disk, entry>>
cache == <<files, script>>
panel == <<content, dirty, lastSaved, timer>>
page == <<tab, active, shown, dialog, panel, disturbed>>
mutations == <<del, add, upd>>
vars == <<server, cache, page, saves, loads, mutations>>

Present == {p \in Paths : disk[p] # Absent}

(* list_files: the entrypoint first, then by path. *)
FirstOf(ps, e) ==
    CASE ps = {} -> NoPath
      [] e \in ps -> e
      [] OTHER -> CHOOSE p \in ps : \A q \in ps : p <= q

UnderWay == {s \in Saves : saves[s] # NoSave} \cup loads
            \cup {r \in {<<"del", del.path>>, <<"add", add.path>>, <<"upd", upd>>} :
                     r[2] # NoPath}
RequestFree == Cardinality(UnderWay) < MaxRequests
Saving == \E s \in Saves : saves[s] # NoSave
Loading == \E l \in loads : l.live
Mounted == tab = "editor" /\ active # NoPath /\ script # NoPath

EditorTypeOK ==
    /\ disk \in [Paths -> AllTexts \cup {Absent}]
    /\ entry \in Paths
    /\ files \in [paths : SUBSET Paths, head : Paths \cup {NoPath}]
    /\ script \in Paths \cup {NoPath}
    /\ tab \in {"editor", "other"}
    /\ active \in Paths \cup {NoPath}
    /\ shown \in AllTexts
    /\ dialog \in BOOLEAN
    /\ content \in AllTexts /\ lastSaved \in AllTexts /\ dirty \in BOOLEAN
    /\ timer \in [path : Paths \cup {NoPath}, text : AllTexts]
    /\ saves \in [Saves -> [path : Paths \cup {NoPath}, text : AllTexts,
                            stage : {"none", "sent", "ok"}, mounted : BOOLEAN]]
    /\ loads \subseteq [path : Paths, live : BOOLEAN, stage : {"sent", "ok"},
                        text : AllTexts]
    /\ del \in [path : Paths \cup {NoPath}, stage : {"none", "sent", "ok"}]
    /\ add \in [path : Paths \cup {NoPath}, stage : {"none", "sent", "ok"}]
    /\ upd \in Paths \cup {NoPath}
    /\ disturbed \in {"no", "left", "yes"}

(* A script that is there, with its entrypoint among its files. *)
Init ==
    /\ disk \in {[p \in Paths |-> IF p \in ps THEN [of |-> p, v |-> 0] ELSE Absent] :
                    ps \in {qs \in SUBSET Paths : Cardinality(qs) <= MaxFiles}}
    /\ entry \in Candidates \cap Present
    /\ files = [paths |-> {}, head |-> NoPath]
    /\ script = NoPath
    /\ tab = "editor"
    /\ active = NoPath /\ shown = Blank /\ dialog = FALSE
    /\ content = Blank /\ dirty = FALSE /\ lastSaved = Blank /\ timer = NoTimer
    /\ saves = [s \in Saves |-> NoSave]
    /\ loads = {}
    /\ del = Idle /\ add = Idle /\ upd = NoPath
    /\ disturbed = "no"
-----------------------------------------------------------------------------
Disturb(b) == disturbed' = IF b THEN "yes" ELSE disturbed

(* EditorPanel begins, or is reset, with the text t: nothing to save. *)
ResetPanel(t) ==
    /\ content' = t /\ lastSaved' = t
    /\ dirty' = FALSE /\ timer' = NoTimer

(* The panel goes: its timer is cleared, and a PUT that it sent sets the   *)
(* state of nothing when it answers.                                       *)
Unmount == saves' = [s \in Saves |-> [saves[s] EXCEPT !.mounted = FALSE]]

Abandoned == {[l EXCEPT !.live = FALSE] : l \in loads}

\* Fault: the panel is not reset, and the debounce effect takes the old text
\* for the new path.
ShowKeepingText(p) ==
    /\ active' = p
    /\ shown' = Blank
    /\ loads' = Abandoned
          \cup {[path |-> p, live |-> TRUE, stage |-> "sent", text |-> Blank]}
    /\ disturbed' = IF Saving THEN "yes" ELSE "no"
    /\ timer' = IF timer = NoTimer THEN NoTimer ELSE [path |-> p, text |-> content]
    /\ UNCHANGED <<content, lastSaved, dirty>>

(* A change of activePath: the load effect empties the editor, abandons    *)
(* the load of the file before and asks for the new one.                   *)
Show(p) ==
    /\ active' = p
    /\ shown' = Blank
    /\ loads' = Abandoned
          \cup {[path |-> p, live |-> TRUE, stage |-> "sent", text |-> Blank]}
    /\ disturbed' = IF Saving THEN "yes" ELSE "no"
    /\ ResetPanel(Blank)

(* What the page does by itself when no file is selected: the entrypoint,  *)
(* else the first file, else "No file selected".                           *)
ShowDefault(fs, e) ==
    IF fs.paths = {}
    THEN /\ active' = NoPath /\ loads' = Abandoned /\ disturbed' = "no"
         /\ ResetPanel(Blank) /\ UNCHANGED shown
    ELSE Show(IF e \in fs.paths THEN e ELSE fs.head)

EditorTab == tab = "editor" /\ script # NoPath /\ ~dialog

(* A click in FileTree, or a choice in the narrow layout's select. *)
Select(p) ==
    /\ EditorTab /\ p \in files.paths \ {active} /\ RequestFree
    /\ Show(p)
    /\ UNCHANGED <<server, cache, tab, dialog, saves, mutations>>

(* setContent and the debounce effect: equal to lastSaved, the pending     *)
(* save is dropped; different, the 1.5 seconds start again.                *)
Type(t) ==
    /\ Mounted /\ ~dialog
    /\ t \in Typed(active) \ {content}
    /\ content' = t
    /\ dirty' = (t # lastSaved)
    /\ timer' = IF t = lastSaved THEN NoTimer ELSE [path |-> active, text |-> t]
    /\ Disturb(Saving)
    /\ UNCHANGED <<server, cache, tab, active, shown, dialog, lastSaved, saves,
                   loads, mutations>>

(* The tabs: the panel is mounted anew with the text that was loaded. *)
OpenEditorTab ==
    /\ tab = "other" /\ ~dialog
    /\ tab' = "editor"
    /\ ResetPanel(shown)
    /\ UNCHANGED <<server, cache, active, shown, dialog, disturbed, saves,
                   loads, mutations>>

(* The tab changes by a click, or to the logs when a run that was asked    *)
(* for has begun.                                                          *)
LeaveEditorTab ==
    /\ tab = "editor" /\ script # NoPath
    /\ tab' = "other"
    /\ Unmount
    /\ disturbed' = CASE Saving -> "yes"
                     [] disturbed = "no" /\ lastSaved # shown -> "left"
                     [] OTHER -> disturbed
    /\ ResetPanel(Blank)
    /\ UNCHANGED <<server, cache, active, shown, dialog, loads, mutations>>
-----------------------------------------------------------------------------
(* The autosave. *)
TimerFires(s) ==
    /\ timer # NoTimer /\ saves[s] = NoSave /\ RequestFree
    /\ saves' = [saves EXCEPT ![s] = [path |-> timer.path, text |-> timer.text,
                                      stage |-> "sent", mounted |-> TRUE]]
    /\ timer' = NoTimer
    /\ Disturb(Loading)
    /\ UNCHANGED <<server, cache, tab, active, shown, dialog, content, dirty,
                   lastSaved, loads, mutations>>

(* put_file_endpoint: write_file replaces the file, or creates it. *)
ServePut(s) ==
    /\ saves[s].stage = "sent"
    /\ disk' = [disk EXCEPT ![saves[s].path] = saves[s].text]
    /\ saves' = [saves EXCEPT ![s].stage = "ok"]
    /\ UNCHANGED <<entry, cache, page, loads, mutations>>

(* lastSaved and dirty are those of the panel that sent the text, whatever *)
(* it shows by now.                                                        *)
PutDone(s) ==
    /\ saves[s].stage = "ok"
    /\ IF saves[s].mounted
       THEN lastSaved' = saves[s].text /\ dirty' = FALSE
       ELSE UNCHANGED <<lastSaved, dirty>>
    /\ saves' = [saves EXCEPT ![s] = NoSave]
    /\ UNCHANGED <<server, cache, tab, active, shown, dialog, content, timer,
                   disturbed, loads, mutations>>

\* Fault: a save that failed clears the label like one that succeeded.
PutFailedQuietly(s) ==
    /\ saves[s] # NoSave
    /\ saves' = [saves EXCEPT ![s] = NoSave]
    /\ dirty' = (dirty /\ ~saves[s].mounted)
    /\ Disturb(saves[s].stage = "ok")
    /\ UNCHANGED <<server, cache, tab, active, shown, dialog, content, timer,
                   lastSaved, loads, mutations>>

(* The request or its answer is lost, or the server has an error. *)
PutFailed(s) ==
    /\ saves[s] # NoSave
    /\ saves' = [saves EXCEPT ![s] = NoSave]
    /\ Disturb(saves[s].stage = "ok")
    /\ UNCHANGED <<server, cache, tab, active, shown, dialog, panel, loads,
                   mutations>>
-----------------------------------------------------------------------------
(* Loading the active file. *)
ServeGet(l) ==
    /\ l.stage = "sent" /\ disk[l.path] # Absent
    /\ loads' = (loads \ {l}) \cup {[l EXCEPT !.stage = "ok", !.text = disk[l.path]]}
    /\ UNCHANGED <<server, cache, page, saves, mutations>>

\* Fault: the answer is taken for whatever file is open by now.
GetAnsweredLate(l) ==
    /\ l.stage = "ok"
    /\ loads' = loads \ {l}
    /\ shown' = l.text
    /\ IF Mounted /\ l.text # shown THEN ResetPanel(l.text) ELSE UNCHANGED panel
    /\ UNCHANGED <<server, cache, tab, active, dialog, disturbed, saves, mutations>>

(* The answer is taken unless the effect has been cleaned up.  A new       *)
(* initialContent resets the panel; the empty text is no new one.          *)
GetAnswered(l) ==
    /\ l.stage = "ok"
    /\ loads' = loads \ {l}
    /\ IF l.live
       THEN /\ shown' = l.text
            /\ IF Mounted /\ l.text # shown
               THEN /\ content' = l.text /\ lastSaved' = l.text /\ dirty' = FALSE
                    /\ timer' = IF content = l.text THEN timer ELSE NoTimer
               ELSE UNCHANGED panel
       ELSE UNCHANGED <<shown, panel>>
    /\ UNCHANGED <<server, cache, tab, active, dialog, disturbed, saves, mutations>>

GetFailed(l) ==
    /\ loads' = loads \ {l}
    /\ Disturb(l.live)
    /\ UNCHANGED <<server, cache, tab, active, shown, dialog, panel, saves,
                   mutations>>
-----------------------------------------------------------------------------
(* The list of files: fetched on arrival, when a mutation asks for it, and *)
(* whenever the network comes back, so its answer may come at any time. *)
ListAnswered ==
    /\ RequestFree
    /\ files' = [paths |-> Present, head |-> FirstOf(Present, entry)]
    /\ files' # files
    /\ IF active = NoPath
       THEN ShowDefault(files', script)
       ELSE UNCHANGED <<active, shown, loads, disturbed, panel>>
    /\ UNCHANGED <<server, script, tab, dialog, saves, mutations>>

(* The script's row.  Until it is there the page shows "Loading", and no   *)
(* panel is mounted.                                                       *)
ScriptAnswered ==
    /\ script = NoPath
    /\ script' = entry
    /\ ResetPanel(shown)
    /\ UNCHANGED <<server, files, tab, active, shown, dialog, disturbed, saves,
                   loads, mutations>>
-----------------------------------------------------------------------------
(* Deleting a file: confirmed, sent, and refused for the entrypoint. *)
Delete(p) ==
    /\ EditorTab /\ p \in files.paths /\ del = Idle /\ RequestFree
    /\ del' = [path |-> p, stage |-> "sent"]
    /\ UNCHANGED <<server, cache, page, saves, loads, add, upd>>

ServeDelete ==
    /\ del.stage = "sent" /\ del.path # entry /\ del.path \in Present
    /\ disk' = [disk EXCEPT ![del.path] = Absent]
    /\ del' = [del EXCEPT !.stage = "ok"]
    /\ UNCHANGED <<entry, cache, page, saves, loads, add, upd>>

(* The selection is cleared only when it is the deleted file: the panel    *)
(* goes, and the default-file effect opens one of the files known so far.  *)
DeleteDone ==
    /\ del.stage = "ok"
    /\ del' = Idle
    /\ IF active = del.path
       THEN ShowDefault(files, script) /\ Unmount
       ELSE UNCHANGED <<active, shown, panel, loads, disturbed, saves>>
    /\ UNCHANGED <<server, cache, tab, dialog, add, upd>>

DeleteFailed ==
    /\ del # Idle
    /\ del' = Idle
    /\ Disturb(del.stage = "ok" /\ del.path = active)
    /\ UNCHANGED <<server, cache, tab, active, shown, dialog, panel, saves,
                   loads, add, upd>>
-----------------------------------------------------------------------------
(* Adding a file through FileDialog, which stays open until it is there.   *)
(* A name its PATH_RE refuses, or with "..", is not sent: Paths are those  *)
(* it lets pass.                                                           *)
OpenDialog ==
    /\ EditorTab
    /\ dialog' = TRUE
    /\ UNCHANGED <<server, cache, tab, active, shown, panel, disturbed, saves,
                   loads, mutations>>

CancelDialog ==
    /\ dialog
    /\ dialog' = FALSE
    /\ UNCHANGED <<server, cache, tab, active, shown, panel, disturbed, saves,
                   loads, mutations>>

SubmitPath(p) ==
    /\ dialog /\ add = Idle /\ RequestFree
    /\ add' = [path |-> p, stage |-> "sent"]
    /\ UNCHANGED <<server, cache, page, saves, loads, del, upd>>

(* create_file_endpoint: counts the files, then writes the empty text,     *)
(* over a file of that name if there is one.                               *)
RoomForFile == Cardinality(Present) < MaxFiles

ServeAdd ==
    /\ add.stage = "sent" /\ RoomForFile
    /\ disk' = [disk EXCEPT ![add.path] = Blank]
    /\ add' = [add EXCEPT !.stage = "ok"]
    /\ Disturb(add.path = active)
    /\ UNCHANGED <<entry, cache, tab, active, shown, dialog, panel, saves,
                   loads, del, upd>>

AddDone ==
    /\ add.stage = "ok"
    /\ add' = Idle
    /\ dialog' = FALSE
    /\ IF active # add.path
       THEN Show(add.path)
       ELSE UNCHANGED <<active, shown, panel, loads, disturbed>>
    /\ UNCHANGED <<server, cache, tab, saves, del, upd>>

AddFailed ==
    /\ add # Idle
    /\ add' = Idle
    /\ UNCHANGED <<server, cache, page, saves, loads, del, upd>>
-----------------------------------------------------------------------------
(* The entrypoint select of the Config tab, disabled while it is pending. *)
EntryOptions == {p \in files.paths : p \in Candidates \/ p = script}

ChooseEntry(p) ==
    /\ tab = "other" /\ p \in EntryOptions \ {script}
    /\ upd = NoPath /\ RequestFree
    /\ upd' = p
    /\ UNCHANGED <<server, cache, page, saves, loads, del, add>>

(* Served, or failed, and answered: all the page does is to fetch again,   *)
(* and it is the only writer of the entrypoint.                            *)
ServeEntry ==
    /\ upd # NoPath
    /\ entry' \in {upd, entry}
    /\ script' = entry'
    /\ upd' = NoPath
    /\ UNCHANGED <<disk, files, page, saves, loads, del, add>>
-----------------------------------------------------------------------------
User ==
    \/ \E p \in Paths : Select(p) \/ Delete(p) \/ SubmitPath(p) \/ ChooseEntry(p)
    \/ \E t \in AllTexts : Type(t)
    \/ OpenEditorTab \/ LeaveEditorTab
    \/ OpenDialog \/ CancelDialog

Serve ==
    \/ \E s \in Saves : ServePut(s)
    \/ \E l \in loads : ServeGet(l)
    \/ ServeDelete \/ ServeAdd \/ ServeEntry

Answer ==
    \/ \E s \in Saves : PutDone(s) \/ PutFailed(s)
    \/ \E l \in loads : GetAnswered(l) \/ GetFailed(l)
    \/ ListAnswered \/ ScriptAnswered
    \/ DeleteDone \/ DeleteFailed \/ AddDone \/ AddFailed

Next == User \/ Serve \/ Answer \/ \E s \in Saves : TimerFires(s)

Spec == Init /\ [][Next]_vars
-----------------------------------------------------------------------------
(* A text typed for one file is never written to another, whatever is      *)
(* selected, deleted or added between the keystroke and the PUT.           *)
NoCrossWrite == \A p \in Paths : disk[p] \in Texts(p) \cup {Absent}

(* What the editor shows under a file's name, or is about to save under    *)
(* it, is that file's text: late loads and late saves of another file do   *)
(* not get into it.                                                        *)
ShownBelongs ==
    /\ Mounted => content \in Texts(active)
    /\ timer # NoTimer => Mounted /\ timer.path = active /\ timer.text = content

Quiet == timer = NoTimer /\ ~Saving /\ ~Loading /\ del = Idle /\ add = Idle

SavedMeansStored == Mounted /\ ~dirty /\ Quiet => disk[active] = content

(* With nothing under way, "Saved" means that the server holds the text    *)
(* shown, as long as the file was neither opened nor typed into while a    *)
(* save was under way, typed text was not saved before the load had        *)
(* answered, the tab was not left after a save, no request failed half-way *)
(* and "Add file" did not name the open file.                              *)
SavedUnlessDisturbed == disturbed # "no" \/ SavedMeansStored
=============================================================================
