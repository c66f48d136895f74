------------------------- MODULE ScriptEditorProofs -------------------------
(***************************************************************************)
(* Proofs about ScriptEditor, for any number of files, texts and requests: *)
(* no text gets into another file, neither on the disk nor on the screen.  *)
(* And "Saved" is said of a text that is on the disk, unless a disturbance *)
(* is on record (SavedUnlessDisturbed).                                    *)
(*                                                                         *)
(* NoCrossWrite and ShownBelongs are not inductive.  A text reaches the    *)
(* disk by way of the panel, the timer and a PUT, and the panel by way of  *)
(* a GET, which is taken only while it is live; so every one of these has  *)
(* to hold a text of the file it is for (PanelOwn, SavesOwn, LoadsOwn),    *)
(* and a live load has to be one of the file that is open.                 *)
(*                                                                         *)
(* SavedUnlessDisturbed speaks of a quiet page; StoredInv says what has to *)
(* be so while a save, a load or a deletion of the open file is under way. *)
(***************************************************************************)
EXTENDS ScriptEditor, TLAPS, WellFoundedInduction

SaveType == [path : Paths \cup {NoPath}, text : AllTexts,
             stage : {"none", "sent", "ok"}, mounted : BOOLEAN]
LoadType == [path : Paths, live : BOOLEAN, stage : {"sent", "ok"}, text : AllTexts]
FilesType == [paths : SUBSET Paths, head : Paths \cup {NoPath}]
RequestType == [path : Paths \cup {NoPath}, stage : {"none", "sent", "ok"}]
History == {"no", "left", "yes"}

ServerInv ==
    /\ disk \in [Paths -> AllTexts \cup {Absent}]
    /\ NoCrossWrite
    /\ entry \in Paths

\* The list has a first file, unless it is empty.
HasHead(fs) == fs \in FilesType /\ (fs.paths # {} => fs.head \in Paths)
CacheInv == HasHead(files) /\ script \in Paths \cup {NoPath}

ViewTypes ==
    /\ tab \in {"editor", "other"} /\ active \in Paths \cup {NoPath}
    /\ shown \in AllTexts /\ dialog \in BOOLEAN
    /\ content \in AllTexts /\ lastSaved \in AllTexts /\ dirty \in BOOLEAN
    /\ timer \in [path : Paths \cup {NoPath}, text : AllTexts]
    /\ disturbed \in History

PanelOwn ==
    /\ active # NoPath => shown \in Texts(active) /\ content \in Texts(active)
    /\ timer # NoTimer => Mounted /\ timer.path = active /\ timer.text = content

SavesInv ==
    /\ saves \in [Saves -> SaveType]
    /\ \A s \in Saves : saves[s].stage = "sent" =>
          saves[s].path \in Paths /\ saves[s].text \in Texts(saves[s].path)

LoadsInv ==
    /\ loads \subseteq LoadType
    /\ \A l \in loads : l.text \in Texts(l.path) /\ (l.live => l.path = active)

RequestsInv == del \in RequestType /\ add \in RequestType /\ upd \in Paths \cup {NoPath}
\* What the server has accepted to add or delete has a name.
RequestsNamed == (del # Idle => del.path \in Paths) /\ (add # Idle => add.path \in Paths)

EditorInv ==
    /\ ServerInv /\ CacheInv /\ ViewTypes /\ PanelOwn
    /\ SavesInv /\ LoadsInv /\ RequestsInv /\ RequestsNamed

-----------------------------------------------------------------------------
(* Texts and lists.                                                        *)

LEMMA TextsOf ==
    /\ Blank \in AllTexts
    /\ \A p \in Paths : Texts(p) \subseteq AllTexts /\ Blank \in Texts(p)
    /\ \A p \in Paths : Typed(p) \subseteq Texts(p)
BY EditorAssumption DEF Texts, AllTexts, Typed

LEMMA NoPathIsNone == NoPath \notin Paths
BY EditorAssumption DEF NoPath

\* list_files sorts, so a list that is not empty has a first file.
LEMMA LeastPath ==
    ASSUME NEW S \in SUBSET Paths, S # {}
    PROVE  \E p \in S : \A q \in S : p <= q
<1>. DEFINE R == OpToRel(<, Nat)
<1>1. IsWellFoundedOn(R, Nat)
  BY NatLessThanWellFounded
<1>2. S \subseteq Nat
  BY EditorAssumption
<1>3. PICK m \in S : \A n \in S : ~ (<<n, m>> \in R)
  BY <1>1, <1>2, WFMin
<1>4. \A n \in S : ~ (n < m)
  BY <1>2, <1>3 DEF OpToRel
<1>5. \A n \in S : m <= n
  BY <1>2, <1>4
<1>. QED BY <1>5

LEMMA FirstOfList ==
    ASSUME NEW S \in SUBSET Paths, NEW e
    PROVE  HasHead([paths |-> S, head |-> FirstOf(S, e)])
<1>1. CASE S = {}
  BY <1>1 DEF FirstOf, HasHead, FilesType
<1>2. CASE S # {} /\ e \in S
  BY <1>2 DEF FirstOf, HasHead, FilesType
<1>3. CASE S # {} /\ e \notin S
  <2>1. FirstOf(S, e) = CHOOSE p \in S : \A q \in S : p <= q
    BY <1>3 DEF FirstOf
  <2>2. FirstOf(S, e) \in S
    BY <2>1, <1>3, LeastPath
  <2>. QED BY <2>2 DEF HasHead, FilesType
<1>. QED BY <1>1, <1>2, <1>3

LEMMA InitInv == Init => EditorInv
<1>. SUFFICES ASSUME Init PROVE EditorInv
  OBVIOUS
<1>1. PICK ps \in SUBSET Paths :
         disk = [p \in Paths |-> IF p \in ps THEN [of |-> p, v |-> 0] ELSE Absent]
  BY DEF Init
<1>2. \A p \in Paths : [of |-> p, v |-> 0] \in Typed(p)
  BY EditorAssumption DEF Typed
<1>3. \A p \in Paths : disk[p] \in Texts(p) \cup {Absent}
  BY <1>1, <1>2, TextsOf
<1>4. ServerInv
  BY <1>1, <1>3, TextsOf, EditorAssumption DEF ServerInv, NoCrossWrite, Init
<1>5. CacheInv
  BY DEF Init, CacheInv, HasHead, FilesType
<1>6. ViewTypes /\ PanelOwn
  BY TextsOf DEF Init, ViewTypes, PanelOwn, NoTimer, History
<1>7. NoSave \in SaveType /\ NoSave.stage = "none"
  BY TextsOf DEF NoSave, SaveType
<1>8. SavesInv
  BY <1>7 DEF Init, SavesInv
<1>9. LoadsInv /\ RequestsInv /\ RequestsNamed
  BY DEF Init, LoadsInv, RequestsInv, RequestType, RequestsNamed, Idle
<1>. QED BY <1>4, <1>5, <1>6, <1>8, <1>9 DEF EditorInv

-----------------------------------------------------------------------------
(* What steps have in common.                                              *)

LEMMA DisturbTypes ==
    ASSUME disturbed \in History, NEW b, Disturb(b)
    PROVE  disturbed' \in History
BY DEF Disturb, History

\* The page and the panel are left as they are.
LEMMA SameView ==
    ASSUME ViewTypes, PanelOwn, dialog' \in BOOLEAN, disturbed' \in History,
           UNCHANGED <<tab, active, shown, content, lastSaved, dirty, timer, script>>
    PROVE  ViewTypes' /\ PanelOwn'
BY DEF ViewTypes, PanelOwn, Mounted

LEMMA SameRest ==
    /\ SavesInv /\ UNCHANGED saves => SavesInv'
    /\ LoadsInv /\ UNCHANGED <<loads, active>> => LoadsInv'
    /\ RequestsInv /\ RequestsNamed /\ UNCHANGED <<del, add, upd>>
          => RequestsInv' /\ RequestsNamed'
    /\ ServerInv /\ UNCHANGED <<disk, entry>> => ServerInv'
    /\ CacheInv /\ UNCHANGED <<files, script>> => CacheInv'
BY DEF SavesInv, LoadsInv, RequestsInv, RequestsNamed, ServerInv, CacheInv,
       NoCrossWrite

\* Loads that are abandoned may be of any file.
LEMMA AbandonedLoads ==
    ASSUME LoadsInv
    PROVE  /\ Abandoned \subseteq LoadType
           /\ \A l \in Abandoned : l.text \in Texts(l.path) /\ ~l.live
<1>. SUFFICES ASSUME NEW l \in loads
              PROVE  LET a == [l EXCEPT !.live = FALSE]
                     IN  a \in LoadType /\ a.text \in Texts(a.path) /\ ~a.live
  BY DEF Abandoned
<1>1. l \in LoadType /\ l.text \in Texts(l.path)
  BY DEF LoadsInv
<1>. QED BY <1>1 DEF LoadType

LEMMA ShowLoads ==
    ASSUME EditorInv, NEW p \in Paths, Show(p)
    PROVE  LoadsInv'
<1>. DEFINE new == [path |-> p, live |-> TRUE, stage |-> "sent", text |-> Blank]
<1>1. loads' = Abandoned \cup {new} /\ active' = p
  BY DEF Show
<1>2. new \in LoadType /\ new.text \in Texts(new.path) /\ new.path = p
  BY TextsOf DEF LoadType
<1>3. /\ Abandoned \subseteq LoadType
      /\ \A l \in Abandoned : l.text \in Texts(l.path) /\ ~l.live
  BY AbandonedLoads DEF EditorInv
<1>4. loads' \subseteq LoadType
  BY <1>1, <1>2, <1>3
<1>5. \A l \in loads' : l.text \in Texts(l.path) /\ (l.live => l.path = p)
  BY <1>1, <1>2, <1>3
<1>. QED BY <1>1, <1>4, <1>5 DEF LoadsInv

LEMMA ShowView ==
    ASSUME NEW p \in Paths, Show(p), tab' \in {"editor", "other"}, dialog' \in BOOLEAN
    PROVE  ViewTypes' /\ PanelOwn'
<1>1. /\ active' = p /\ shown' = Blank /\ content' = Blank /\ lastSaved' = Blank
      /\ dirty' = FALSE /\ timer' = NoTimer /\ disturbed' \in History
  BY DEF Show, ResetPanel, History
<1>2. NoTimer \in [path : Paths \cup {NoPath}, text : AllTexts]
  BY TextsOf DEF NoTimer
<1>3. ViewTypes'
  BY <1>1, <1>2, TextsOf DEF ViewTypes
<1>4. PanelOwn'
  BY <1>1, TextsOf DEF PanelOwn
<1>. QED BY <1>3, <1>4

LEMMA ShowDefaultInv ==
    ASSUME EditorInv, NEW fs, HasHead(fs), NEW e, ShowDefault(fs, e),
           tab' \in {"editor", "other"}, dialog' \in BOOLEAN
    PROVE  ViewTypes' /\ PanelOwn' /\ LoadsInv'
<1>1. CASE fs.paths = {}
  <2>1. /\ active' = NoPath /\ loads' = Abandoned /\ disturbed' = "no"
        /\ content' = Blank /\ lastSaved' = Blank /\ dirty' = FALSE
        /\ timer' = NoTimer /\ shown' = shown
    BY <1>1 DEF ShowDefault, ResetPanel
  <2>2. NoTimer \in [path : Paths \cup {NoPath}, text : AllTexts]
    BY TextsOf DEF NoTimer
  <2>3. shown \in AllTexts
    BY DEF EditorInv, ViewTypes
  <2>4. ViewTypes'
    BY <2>1, <2>2, <2>3, TextsOf DEF ViewTypes, History
  <2>5. PanelOwn'
    BY <2>1 DEF PanelOwn
  <2>6. LoadsInv'
    BY <2>1, AbandonedLoads DEF EditorInv, LoadsInv
  <2>. QED BY <2>4, <2>5, <2>6
<1>2. CASE fs.paths # {}
  <2>. DEFINE p == IF e \in fs.paths THEN e ELSE fs.head
  <2>1. p \in Paths
    BY <1>2 DEF HasHead, FilesType
  <2>2. Show(p)
    BY <1>2 DEF ShowDefault
  <2>. HIDE DEF p
  <2>. QED BY <2>1, <2>2, ShowView, ShowLoads
<1>. QED BY <1>1, <1>2

-----------------------------------------------------------------------------
(* The steps, one lemma for each kind.                                     *)

\* Steps that do not touch the panel: they move requests and the dialog.
LEMMA AsideInv ==
    ASSUME EditorInv, NEW p \in Paths,
           Delete(p) \/ SubmitPath(p) \/ ChooseEntry(p) \/ OpenDialog \/ CancelDialog
    PROVE  EditorInv'
<1>1. UNCHANGED <<disk, entry, files, script, tab, active, shown, content, lastSaved,
                  dirty, timer, disturbed, saves, loads>>
  BY DEF Delete, SubmitPath, ChooseEntry, OpenDialog, CancelDialog, server, cache,
         page, panel, mutations
<1>2. dialog' \in BOOLEAN
  BY DEF Delete, SubmitPath, ChooseEntry, OpenDialog, CancelDialog, page, EditorInv,
         ViewTypes
<1>3. RequestsInv' /\ RequestsNamed'
  <2>1. [path |-> p, stage |-> "sent"] \in RequestType
    BY DEF RequestType
  <2>2. /\ del' \in {del, [path |-> p, stage |-> "sent"]}
        /\ add' \in {add, [path |-> p, stage |-> "sent"]}
        /\ upd' \in {upd, p}
    BY DEF Delete, SubmitPath, ChooseEntry, OpenDialog, CancelDialog, mutations
  <2>. QED BY <2>1, <2>2 DEF EditorInv, RequestsInv, RequestsNamed
<1>. QED BY <1>1, <1>2, <1>3, SameView, SameRest DEF EditorInv, ViewTypes

LEMMA SelectInv ==
    ASSUME EditorInv, NEW p \in Paths, Select(p)
    PROVE  EditorInv'
<1>1. Show(p) /\ UNCHANGED <<disk, entry, files, script, tab, dialog, saves, del, add, upd>>
  BY DEF Select, server, cache, mutations
<1>2. ViewTypes' /\ PanelOwn'
  BY <1>1, ShowView DEF EditorInv, ViewTypes
<1>3. LoadsInv'
  BY <1>1, ShowLoads
<1>. QED BY <1>1, <1>2, <1>3, SameRest DEF EditorInv

LEMMA TypeInv ==
    ASSUME EditorInv, NEW t, Type(t)
    PROVE  EditorInv'
<1>1. /\ UNCHANGED <<disk, entry, files, script, tab, active, shown, dialog, lastSaved,
                     saves, loads, del, add, upd>>
      /\ t \in Typed(active) /\ Mounted /\ content' = t /\ dirty' = (t # lastSaved)
      /\ timer' \in {NoTimer, [path |-> active, text |-> t]}
      /\ Disturb(Saving)
  BY DEF Type, server, cache, mutations
<1>2. active \in Paths
  BY <1>1 DEF Mounted, EditorInv, ViewTypes
<1>3. t \in Texts(active) /\ t \in AllTexts
  BY <1>1, <1>2, TextsOf
<1>4. /\ NoTimer \in [path : Paths \cup {NoPath}, text : AllTexts]
      /\ [path |-> active, text |-> t] \in [path : Paths \cup {NoPath}, text : AllTexts]
  BY <1>2, <1>3, TextsOf DEF NoTimer
<1>5. disturbed' \in History
  BY <1>1, DisturbTypes DEF EditorInv, ViewTypes
<1>6. timer' \in [path : Paths \cup {NoPath}, text : AllTexts]
  BY <1>1, <1>4
<1>7. dirty' \in BOOLEAN
  BY <1>1
<1>8. ViewTypes'
  BY <1>1, <1>3, <1>5, <1>6, <1>7 DEF EditorInv, ViewTypes
<1>9. PanelOwn'
  BY <1>1, <1>3 DEF EditorInv, PanelOwn, Mounted
<1>. QED BY <1>1, <1>8, <1>9, SameRest DEF EditorInv

\* The panel begins again with the text that was loaded, or goes away.
LEMMA MountInv ==
    ASSUME EditorInv, OpenEditorTab \/ ScriptAnswered
    PROVE  EditorInv'
<1>1. /\ UNCHANGED <<disk, entry, files, active, shown, dialog, disturbed, saves, loads,
                     del, add, upd>>
      /\ ResetPanel(shown)
  BY DEF OpenEditorTab, ScriptAnswered, server, cache, mutations
<1>2. tab' \in {"editor", "other"} /\ script' \in Paths \cup {NoPath}
  BY DEF OpenEditorTab, ScriptAnswered, cache, EditorInv, ViewTypes, CacheInv, ServerInv
<1>3. NoTimer \in [path : Paths \cup {NoPath}, text : AllTexts]
  BY TextsOf DEF NoTimer
<1>4. ViewTypes'
  BY <1>1, <1>2, <1>3 DEF EditorInv, ViewTypes, ResetPanel
<1>5. PanelOwn'
  BY <1>1 DEF EditorInv, PanelOwn, ResetPanel
<1>6. CacheInv'
  BY <1>1, <1>2 DEF EditorInv, CacheInv
<1>. QED BY <1>1, <1>4, <1>5, <1>6, SameRest DEF EditorInv

\* A save whose panel has gone is still a save of its file.
LEMMA UnmountInv ==
    ASSUME SavesInv, Unmount
    PROVE  SavesInv'
<1>1. \A s \in Saves : /\ saves'[s] = [saves[s] EXCEPT !.mounted = FALSE]
                       /\ saves[s] \in SaveType
  BY DEF Unmount, SavesInv
<1>2. \A s \in Saves : /\ saves'[s] \in SaveType
                       /\ saves'[s].stage = saves[s].stage
                       /\ saves'[s].path = saves[s].path
                       /\ saves'[s].text = saves[s].text
  BY <1>1 DEF SaveType
<1>3. saves' \in [Saves -> SaveType]
  BY <1>2 DEF Unmount
<1>. QED BY <1>2, <1>3 DEF SavesInv

LEMMA LeaveInv ==
    ASSUME EditorInv, LeaveEditorTab
    PROVE  EditorInv'
<1>1. /\ UNCHANGED <<disk, entry, files, script, active, shown, dialog, loads, del, add, upd>>
      /\ tab' = "other" /\ Unmount /\ ResetPanel(Blank)
  BY DEF LeaveEditorTab, server, cache, mutations
<1>2. disturbed' \in {"yes", "left", disturbed}
  BY DEF LeaveEditorTab
<1>3. NoTimer \in [path : Paths \cup {NoPath}, text : AllTexts]
  BY TextsOf DEF NoTimer
<1>4. ViewTypes'
  BY <1>1, <1>2, <1>3, TextsOf DEF EditorInv, ViewTypes, ResetPanel, History
<1>5. PanelOwn'
  BY <1>1, TextsOf DEF EditorInv, ViewTypes, PanelOwn, ResetPanel
<1>6. SavesInv'
  BY <1>1, UnmountInv DEF EditorInv
<1>. QED BY <1>1, <1>4, <1>5, <1>6, SameRest DEF EditorInv

\* The PUT takes what the timer held, which is the text of the open file.
LEMMA TimerInv ==
    ASSUME EditorInv, NEW s \in Saves, TimerFires(s)
    PROVE  EditorInv'
<1>. DEFINE put == [path |-> timer.path, text |-> timer.text, stage |-> "sent",
                    mounted |-> TRUE]
<1>1. /\ UNCHANGED <<disk, entry, files, script, tab, active, shown, dialog, content, dirty,
                     lastSaved, loads, del, add, upd>>
      /\ timer # NoTimer /\ timer' = NoTimer /\ saves' = [saves EXCEPT ![s] = put]
      /\ Disturb(Loading)
  BY DEF TimerFires, server, cache, mutations
<1>2. /\ timer.path = active /\ timer.text = content /\ active # NoPath
      /\ active \in Paths \cup {NoPath} /\ content \in Texts(active) /\ content \in AllTexts
  BY <1>1 DEF EditorInv, PanelOwn, Mounted, ViewTypes
<1>3. put \in SaveType /\ put.path \in Paths /\ put.text \in Texts(put.path)
  BY <1>2 DEF SaveType
<1>. HIDE DEF put
<1>4. SavesInv'
  BY <1>1, <1>3 DEF EditorInv, SavesInv
<1>5. disturbed' \in History
  BY <1>1, DisturbTypes DEF EditorInv, ViewTypes
<1>6. NoTimer \in [path : Paths \cup {NoPath}, text : AllTexts]
  BY TextsOf DEF NoTimer
<1>7. ViewTypes' /\ PanelOwn'
  BY <1>1, <1>5, <1>6 DEF EditorInv, ViewTypes, PanelOwn
<1>. QED BY <1>1, <1>4, <1>7, SameRest DEF EditorInv

\* The disk gets the text under the name it was sent for.
LEMMA ServePutInv ==
    ASSUME EditorInv, NEW s \in Saves, ServePut(s)
    PROVE  EditorInv'
<1>1. /\ UNCHANGED <<entry, files, script, tab, active, shown, dialog, content, dirty,
                     lastSaved, timer, disturbed, loads, del, add, upd>>
      /\ saves[s].stage = "sent"
      /\ disk' = [disk EXCEPT ![saves[s].path] = saves[s].text]
      /\ saves' = [saves EXCEPT ![s].stage = "ok"]
  BY DEF ServePut, cache, page, panel, mutations
<1>2. saves[s].path \in Paths /\ saves[s].text \in Texts(saves[s].path)
  BY <1>1 DEF EditorInv, SavesInv
<1>3. saves[s].text \in AllTexts
  BY <1>2, TextsOf
<1>4. ServerInv'
  BY <1>1, <1>2, <1>3 DEF EditorInv, ServerInv, NoCrossWrite
<1>5. saves[s] \in SaveType
  BY DEF EditorInv, SavesInv
<1>6. [saves[s] EXCEPT !.stage = "ok"] \in SaveType
  BY <1>5 DEF SaveType
<1>7. SavesInv'
  BY <1>1, <1>5, <1>6 DEF EditorInv, SavesInv, SaveType
<1>8. ViewTypes' /\ PanelOwn'
  BY <1>1, SameView DEF EditorInv, ViewTypes
<1>. QED BY <1>1, <1>4, <1>7, <1>8, SameRest DEF EditorInv

\* The answer to a save, or its loss, changes the label alone.
LEMMA PutOverInv ==
    ASSUME EditorInv, NEW s \in Saves, PutDone(s) \/ PutFailed(s)
    PROVE  EditorInv'
<1>1. /\ UNCHANGED <<disk, entry, files, script, tab, active, shown, dialog, content, timer,
                     loads, del, add, upd>>
      /\ saves' = [saves EXCEPT ![s] = NoSave]
      /\ lastSaved' \in {lastSaved, saves[s].text} /\ dirty' \in {dirty, FALSE}
      /\ disturbed' \in {disturbed, "yes"}
  BY DEF PutDone, PutFailed, Disturb, server, cache, panel, mutations
<1>2. NoSave \in SaveType /\ NoSave.stage = "none"
  BY TextsOf DEF NoSave, SaveType
<1>3. SavesInv'
  BY <1>1, <1>2 DEF EditorInv, SavesInv
<1>4. saves[s].text \in AllTexts
  BY DEF EditorInv, SavesInv, SaveType
<1>5. ViewTypes'
  BY <1>1, <1>4 DEF EditorInv, ViewTypes, History
<1>6. PanelOwn'
  BY <1>1 DEF EditorInv, PanelOwn, Mounted
<1>. QED BY <1>1, <1>3, <1>5, <1>6, SameRest DEF EditorInv

\* A GET is answered with the text the file has.
LEMMA ServeGetInv ==
    ASSUME EditorInv, NEW l \in loads, ServeGet(l)
    PROVE  EditorInv'
<1>. DEFINE got == [l EXCEPT !.stage = "ok", !.text = disk[l.path]]
<1>1. /\ UNCHANGED <<disk, entry, files, script, tab, active, shown, dialog, content, dirty,
                     lastSaved, timer, disturbed, saves, del, add, upd>>
      /\ disk[l.path] # Absent
      /\ loads' = (loads \ {l}) \cup {got}
  BY DEF ServeGet, server, cache, page, panel, mutations
<1>2. l \in LoadType /\ l.path \in Paths /\ (l.live => l.path = active)
  BY DEF EditorInv, LoadsInv, LoadType
<1>3. disk[l.path] \in Texts(l.path)
  BY <1>1, <1>2 DEF EditorInv, ServerInv, NoCrossWrite
<1>4. disk[l.path] \in AllTexts
  BY <1>2, <1>3, TextsOf
<1>5. got \in LoadType
  BY <1>2, <1>4 DEF LoadType
<1>6. got.path = l.path /\ got.live = l.live /\ got.text = disk[l.path]
  BY <1>2 DEF LoadType
<1>. HIDE DEF got
<1>7. LoadsInv'
  BY <1>1, <1>2, <1>3, <1>5, <1>6 DEF EditorInv, LoadsInv
<1>8. ViewTypes' /\ PanelOwn'
  BY <1>1, SameView DEF EditorInv, ViewTypes
<1>. QED BY <1>1, <1>7, <1>8, SameRest DEF EditorInv

\* An answer that is taken is one for the open file, because a load of
\* another has been abandoned.
LEMMA GetAnsweredInv ==
    ASSUME EditorInv, NEW l \in loads, GetAnswered(l)
    PROVE  EditorInv'
<1>1. /\ UNCHANGED <<disk, entry, files, script, tab, active, dialog, disturbed, saves,
                     del, add, upd>>
      /\ loads' = loads \ {l}
  BY DEF GetAnswered, server, cache, mutations
<1>2. LoadsInv'
  BY <1>1 DEF EditorInv, LoadsInv
<1>3. l.text \in Texts(l.path) /\ l.path \in Paths /\ (l.live => l.path = active)
  BY DEF EditorInv, LoadsInv, LoadType
<1>4. l.text \in AllTexts
  BY <1>3, TextsOf
<1>5. NoTimer \in [path : Paths \cup {NoPath}, text : AllTexts]
  BY TextsOf DEF NoTimer
<1>6. CASE ~l.live
  <2>1. UNCHANGED <<shown, content, dirty, lastSaved, timer>>
    BY <1>6 DEF GetAnswered, panel
  <2>. QED BY <1>1, <1>2, <2>1, SameView, SameRest DEF EditorInv, ViewTypes
<1>7. CASE l.live /\ ~(Mounted /\ l.text # shown)
  <2>1. shown' = l.text /\ UNCHANGED <<content, dirty, lastSaved, timer>>
    BY <1>7 DEF GetAnswered, panel
  <2>2. ViewTypes'
    BY <1>1, <1>4, <2>1 DEF EditorInv, ViewTypes
  <2>3. PanelOwn'
    BY <1>1, <1>3, <1>7, <2>1 DEF EditorInv, PanelOwn, Mounted
  <2>. QED BY <1>1, <1>2, <2>2, <2>3, SameRest DEF EditorInv
<1>8. CASE l.live /\ Mounted /\ l.text # shown
  <2>1. /\ shown' = l.text /\ content' = l.text /\ lastSaved' = l.text /\ dirty' = FALSE
        /\ timer' = IF content = l.text THEN timer ELSE NoTimer
    BY <1>8 DEF GetAnswered
  <2>2. timer' \in [path : Paths \cup {NoPath}, text : AllTexts]
    BY <1>5, <2>1 DEF EditorInv, ViewTypes
  <2>3. ViewTypes'
    BY <1>1, <1>4, <2>1, <2>2 DEF EditorInv, ViewTypes
  <2>4. PanelOwn'
    BY <1>1, <1>3, <1>8, <2>1 DEF EditorInv, PanelOwn, Mounted
  <2>. QED BY <1>1, <1>2, <2>3, <2>4, SameRest DEF EditorInv
<1>. QED BY <1>6, <1>7, <1>8

LEMMA GetFailedInv ==
    ASSUME EditorInv, NEW l \in loads, GetFailed(l)
    PROVE  EditorInv'
<1>1. /\ UNCHANGED <<disk, entry, files, script, tab, active, shown, dialog, content, dirty,
                     lastSaved, timer, saves, del, add, upd>>
      /\ loads' = loads \ {l} /\ Disturb(l.live)
  BY DEF GetFailed, server, cache, panel, mutations
<1>2. LoadsInv'
  BY <1>1 DEF EditorInv, LoadsInv
<1>3. disturbed' \in History
  BY <1>1, DisturbTypes DEF EditorInv, ViewTypes
<1>. QED BY <1>1, <1>2, <1>3, SameView, SameRest DEF EditorInv, ViewTypes

LEMMA ListAnsweredInv ==
    ASSUME EditorInv, ListAnswered
    PROVE  EditorInv'
<1>1. /\ UNCHANGED <<disk, entry, script, tab, dialog, saves, del, add, upd>>
      /\ files' = [paths |-> Present, head |-> FirstOf(Present, entry)]
  BY DEF ListAnswered, server, mutations
<1>2. Present \in SUBSET Paths
  BY DEF Present
<1>3. HasHead(files')
  BY <1>1, <1>2, FirstOfList
<1>4. CacheInv'
  BY <1>1, <1>3 DEF EditorInv, CacheInv
<1>5. CASE active = NoPath
  <2>1. ShowDefault(files', script)
    BY <1>5 DEF ListAnswered
  <2>2. ViewTypes' /\ PanelOwn' /\ LoadsInv'
    BY <1>1, <1>3, <2>1, ShowDefaultInv DEF EditorInv, ViewTypes
  <2>. QED BY <1>1, <1>4, <2>2, SameRest DEF EditorInv
<1>6. CASE active # NoPath
  <2>1. UNCHANGED <<active, shown, loads, disturbed, content, dirty, lastSaved, timer>>
    BY <1>6 DEF ListAnswered, panel
  <2>. QED BY <1>1, <1>4, <2>1, SameView, SameRest DEF EditorInv, ViewTypes
<1>. QED BY <1>5, <1>6

LEMMA DeleteDoneInv ==
    ASSUME EditorInv, DeleteDone
    PROVE  EditorInv'
<1>1. /\ UNCHANGED <<disk, entry, files, script, tab, dialog, add, upd>> /\ del' = Idle
  BY DEF DeleteDone, server, cache
<1>2. RequestsInv' /\ RequestsNamed'
  BY <1>1 DEF EditorInv, RequestsInv, RequestsNamed, Idle, RequestType
<1>3. CASE active = del.path
  <2>1. ShowDefault(files, script) /\ Unmount
    BY <1>3 DEF DeleteDone
  <2>2. ViewTypes' /\ PanelOwn' /\ LoadsInv'
    BY <1>1, <2>1, ShowDefaultInv DEF EditorInv, ViewTypes, CacheInv
  <2>3. SavesInv'
    BY <2>1, UnmountInv DEF EditorInv
  <2>. QED BY <1>1, <1>2, <2>2, <2>3, SameRest DEF EditorInv
<1>4. CASE active # del.path
  <2>1. UNCHANGED <<active, shown, loads, disturbed, saves, content, dirty, lastSaved, timer>>
    BY <1>4 DEF DeleteDone, panel
  <2>. QED BY <1>1, <1>2, <2>1, SameView, SameRest DEF EditorInv, ViewTypes
<1>. QED BY <1>3, <1>4

LEMMA AddDoneInv ==
    ASSUME EditorInv, AddDone
    PROVE  EditorInv'
<1>1. /\ UNCHANGED <<disk, entry, files, script, tab, saves, del, upd>>
      /\ add' = Idle /\ dialog' = FALSE /\ add # Idle
  BY DEF AddDone, server, cache, Idle
<1>2. RequestsInv' /\ RequestsNamed' /\ add.path \in Paths
  BY <1>1 DEF EditorInv, RequestsInv, RequestsNamed, Idle, RequestType
<1>3. CASE active # add.path
  <2>1. Show(add.path)
    BY <1>3 DEF AddDone
  <2>2. ViewTypes' /\ PanelOwn' /\ LoadsInv'
    BY <1>1, <1>2, <2>1, ShowView, ShowLoads DEF EditorInv, ViewTypes
  <2>. QED BY <1>1, <1>2, <2>2, SameRest DEF EditorInv
<1>4. CASE active = add.path
  <2>1. UNCHANGED <<active, shown, loads, disturbed, content, dirty, lastSaved, timer>>
    BY <1>4 DEF AddDone, panel
  <2>. QED BY <1>1, <1>2, <2>1, SameView, SameRest DEF EditorInv, ViewTypes
<1>. QED BY <1>3, <1>4

LEMMA RequestOverInv ==
    ASSUME EditorInv, DeleteFailed \/ AddFailed
    PROVE  EditorInv'
<1>1. /\ UNCHANGED <<disk, entry, files, script, tab, active, shown, dialog, content, dirty,
                     lastSaved, timer, saves, loads, upd>>
      /\ del' \in {del, Idle} /\ add' \in {add, Idle} /\ disturbed' \in {disturbed, "yes"}
  BY DEF DeleteFailed, AddFailed, Disturb, server, cache, page, panel
<1>2. RequestsInv' /\ RequestsNamed'
  BY <1>1 DEF EditorInv, RequestsInv, RequestsNamed, Idle, RequestType
<1>3. disturbed' \in History
  BY <1>1 DEF EditorInv, ViewTypes, History
<1>. QED BY <1>1, <1>2, <1>3, SameView, SameRest DEF EditorInv, ViewTypes

LEMMA ServeDeleteInv ==
    ASSUME EditorInv, ServeDelete
    PROVE  EditorInv'
<1>1. /\ UNCHANGED <<entry, files, script, tab, active, shown, dialog, content, dirty,
                     lastSaved, timer, disturbed, saves, loads, add, upd>>
      /\ disk' = [disk EXCEPT ![del.path] = Absent] /\ del.stage = "sent"
      /\ del' = [del EXCEPT !.stage = "ok"]
  BY DEF ServeDelete, cache, page, panel
<1>2. ServerInv'
  BY <1>1 DEF EditorInv, ServerInv, NoCrossWrite
<1>3. del \in RequestType /\ del.path \in Paths
  BY <1>1 DEF EditorInv, RequestsInv, RequestsNamed, Idle
<1>4. del' \in RequestType /\ del'.path \in Paths
  BY <1>1, <1>3 DEF RequestType
<1>5. RequestsInv' /\ RequestsNamed'
  BY <1>1, <1>4 DEF EditorInv, RequestsInv, RequestsNamed
<1>6. ViewTypes' /\ PanelOwn'
  BY <1>1, SameView DEF EditorInv, ViewTypes
<1>. QED BY <1>1, <1>2, <1>5, <1>6, SameRest DEF EditorInv

LEMMA ServeAddInv ==
    ASSUME EditorInv, ServeAdd
    PROVE  EditorInv'
<1>1. /\ UNCHANGED <<entry, files, script, tab, active, shown, dialog, content, dirty,
                     lastSaved, timer, saves, loads, del, upd>>
      /\ disk' = [disk EXCEPT ![add.path] = Blank] /\ add.stage = "sent"
      /\ add' = [add EXCEPT !.stage = "ok"] /\ Disturb(add.path = active)
  BY DEF ServeAdd, cache, panel
<1>2. ServerInv'
  BY <1>1, TextsOf DEF EditorInv, ServerInv, NoCrossWrite
<1>3. add \in RequestType /\ add.path \in Paths
  BY <1>1 DEF EditorInv, RequestsInv, RequestsNamed, Idle
<1>4. add' \in RequestType /\ add'.path \in Paths
  BY <1>1, <1>3 DEF RequestType
<1>5. RequestsInv' /\ RequestsNamed'
  BY <1>1, <1>4 DEF EditorInv, RequestsInv, RequestsNamed
<1>6. disturbed' \in History
  BY <1>1, DisturbTypes DEF EditorInv, ViewTypes
<1>7. ViewTypes' /\ PanelOwn'
  BY <1>1, <1>6, SameView DEF EditorInv, ViewTypes
<1>. QED BY <1>1, <1>2, <1>5, <1>7, SameRest DEF EditorInv

\* A new entrypoint only shows that there is a script.
LEMMA ServeEntryInv ==
    ASSUME EditorInv, ServeEntry
    PROVE  EditorInv'
<1>1. /\ UNCHANGED <<disk, files, tab, active, shown, dialog, content, dirty, lastSaved,
                     timer, disturbed, saves, loads, del, add>>
      /\ upd # NoPath /\ entry' \in {upd, entry} /\ script' = entry' /\ upd' = NoPath
  BY DEF ServeEntry, page, panel
<1>2. entry' \in Paths
  BY <1>1 DEF EditorInv, RequestsInv, ServerInv
<1>3. ServerInv' /\ CacheInv'
  BY <1>1, <1>2 DEF EditorInv, ServerInv, CacheInv, NoCrossWrite
<1>4. RequestsInv' /\ RequestsNamed'
  BY <1>1 DEF EditorInv, RequestsInv, RequestsNamed
<1>5. ViewTypes'
  BY <1>1 DEF EditorInv, ViewTypes
<1>6. PanelOwn'
  BY <1>1, <1>2, NoPathIsNone DEF EditorInv, PanelOwn, Mounted
<1>. QED BY <1>1, <1>3, <1>4, <1>5, <1>6, SameRest DEF EditorInv

-----------------------------------------------------------------------------
LEMMA NextInv == EditorInv /\ [Next]_vars => EditorInv'
<1>. SUFFICES ASSUME EditorInv, [Next]_vars PROVE EditorInv'
  OBVIOUS
<1>1. CASE User
  <2>1. CASE \E p \in Paths : Select(p) \/ Delete(p) \/ SubmitPath(p) \/ ChooseEntry(p)
    BY <2>1, AsideInv, SelectInv
  <2>2. CASE \E t \in AllTexts : Type(t)
    BY <2>2, TypeInv
  <2>3. CASE OpenEditorTab \/ LeaveEditorTab
    BY <2>3, MountInv, LeaveInv
  <2>4. CASE OpenDialog \/ CancelDialog
    <3>1. entry \in Paths
      BY DEF EditorInv, ServerInv
    <3>. QED BY <2>4, <3>1, AsideInv
  <2>. QED BY <1>1, <2>1, <2>2, <2>3, <2>4 DEF User
<1>2. CASE Serve
  BY <1>2, ServePutInv, ServeGetInv, ServeDeleteInv, ServeAddInv, ServeEntryInv DEF Serve
<1>3. CASE Answer
  BY <1>3, PutOverInv, GetAnsweredInv, GetFailedInv, ListAnsweredInv, MountInv,
     DeleteDoneInv, RequestOverInv, AddDoneInv DEF Answer
<1>4. CASE \E s \in Saves : TimerFires(s)
  BY <1>4, TimerInv
<1>5. CASE UNCHANGED vars
  <2>1. UNCHANGED <<disk, entry, files, script, tab, active, shown, dialog, content, dirty,
                    lastSaved, timer, disturbed, saves, loads, del, add, upd>>
    BY <1>5 DEF vars, server, cache, page, panel, mutations
  <2>. QED BY <2>1, SameView, SameRest DEF EditorInv, ViewTypes
<1>. QED BY <1>1, <1>2, <1>3, <1>4, <1>5 DEF Next

\* Every text on its way - typed, waiting for the timer, in a PUT or a GET, on
\* the disk - is one of the file it is for.
THEOREM EditorInvariant == Spec => []EditorInv
<1>. QED BY InitInv, NextInv, PTL DEF Spec

\* Every variable of the editor keeps its type.
THEOREM EditorTypes == Spec => []EditorTypeOK
<1>1. EditorInv => EditorTypeOK
  BY DEF EditorInv, EditorTypeOK, ServerInv, CacheInv, HasHead, ViewTypes, SavesInv,
         LoadsInv, RequestsInv, SaveType, LoadType, FilesType, RequestType, History
<1>. QED BY <1>1, EditorInvariant, PTL

\* A text typed for one file is never written to another, for any number of
\* files, saves and requests (EditorPanel.tsx against api/scripts.py).
THEOREM NeverCrossWritten == Spec => []NoCrossWrite
<1>1. EditorInv => NoCrossWrite
  BY DEF EditorInv, ServerInv
<1>. QED BY <1>1, EditorInvariant, PTL

\* Nor is it shown, or about to be saved, under another file's name.
THEOREM AlwaysBelongs == Spec => []ShownBelongs
<1>1. EditorInv => ShownBelongs
  BY DEF EditorInv, PanelOwn, ShownBelongs, Mounted
<1>. QED BY <1>1, EditorInvariant, PTL

-----------------------------------------------------------------------------
(* "Saved".  SavedUnlessDisturbed speaks of quiet moments alone; what gets *)
(* the editor there is what the requests under way are about to do.        *)

\* The open file has been deleted, and the page does not know it yet.
Deleted == del.stage = "ok" /\ del.path = active
Holds(t) == disk[active] = t \/ Deleted

\* What the panel takes for saved, or begins with once it is mounted.
Base == IF Mounted THEN lastSaved ELSE shown

\* A save under way is one of the text shown, and no other is to come.
Current(s) ==
    /\ Mounted /\ timer = NoTimer
    /\ saves[s].mounted /\ saves[s].path = active /\ saves[s].text = content
    /\ saves[s].stage = "ok" => Holds(content)

LoadsCurrent ==
    /\ Loading => ~Saving /\ shown = Blank /\ lastSaved = Blank
    /\ \A l, m \in loads : l.live /\ m.live => l = m
    /\ \A l \in loads : l.live /\ l.stage = "ok" => Holds(l.text)

SavesCurrent ==
    /\ \A s \in Saves : saves[s] # NoSave => Current(s)
    /\ \A s, u \in Saves : saves[s] # NoSave /\ saves[u] # NoSave => s = u

Stored ==
    /\ LoadsCurrent /\ SavesCurrent
    /\ ~Loading /\ (\A s \in Saves : saves[s].stage # "ok") => Holds(Base)
    /\ Mounted /\ ~dirty => content = lastSaved

StoredInv == disturbed = "no" /\ active # NoPath => Stored

\* Whoever is not on the editor's tab, or has chosen an entrypoint, has seen
\* the script: the panel is not mounted under another tab's feet.
ScriptSeen == tab = "other" \/ upd # NoPath => script # NoPath

LEMMA SavedFromStored ==
    ASSUME StoredInv
    PROVE  SavedUnlessDisturbed
<1>. SUFFICES ASSUME disturbed = "no", Mounted, ~dirty, Quiet
              PROVE  disk[active] = content
  BY DEF SavedUnlessDisturbed, SavedMeansStored
<1>1. Stored
  BY DEF StoredInv, Mounted
<1>2. \A s \in Saves : saves[s].stage # "ok"
  BY DEF Quiet, Saving, NoSave
<1>3. ~Deleted
  BY DEF Quiet, Deleted, Idle
<1>. QED BY <1>1, <1>2, <1>3 DEF Stored, Quiet, Holds, Base

\* A step that leaves the panel, the saves and the loads as they are.
LEMMA StoredKept ==
    ASSUME Stored, UNCHANGED <<active, shown, content, lastSaved, dirty, timer, saves, loads>>,
           Mounted' = Mounted, Deleted => Deleted', disk'[active] = disk[active] \/ Deleted'
    PROVE  Stored'
BY DEF Stored, LoadsCurrent, SavesCurrent, Current, Holds, Base, Loading, Saving

\* A file that is opened while no save is under way.
LEMMA StoredShown ==
    ASSUME LoadsInv, NEW p \in Paths, Show(p), disturbed' = "no",
           \A s \in Saves : saves[s] = NoSave => saves'[s] = NoSave
    PROVE  Stored'
<1>. DEFINE new == [path |-> p, live |-> TRUE, stage |-> "sent", text |-> Blank]
<1>1. /\ loads' = Abandoned \cup {new}
      /\ ~Saving
      /\ shown' = Blank /\ content' = Blank /\ lastSaved' = Blank
  BY DEF Show, ResetPanel
<1>2. \A l \in Abandoned : ~l.live
  BY AbandonedLoads
<1>3. new.live /\ new.stage = "sent"
  OBVIOUS
<1>4. \A s \in Saves : saves'[s] = NoSave
  BY <1>1 DEF Saving
<1>5. LoadsCurrent'
  <2>. HIDE DEF new
  <2>1. \A l \in loads' : l.live => l = new
    BY <1>1, <1>2
  <2>2. ~Saving'
    BY <1>4 DEF Saving
  <2>. QED BY <1>1, <1>3, <2>1, <2>2 DEF LoadsCurrent
<1>6. SavesCurrent'
  BY <1>4 DEF SavesCurrent
<1>7. Loading'
  BY <1>1, <1>3 DEF Loading
<1>. QED BY <1>1, <1>5, <1>6, <1>7 DEF Stored

LEMMA StoredShownDefault ==
    ASSUME EditorInv, NEW fs, HasHead(fs), NEW e, ShowDefault(fs, e), disturbed' = "no",
           active' # NoPath, \A s \in Saves : saves[s] = NoSave => saves'[s] = NoSave
    PROVE  Stored'
<1>1. fs.paths # {}
  BY DEF ShowDefault
<1>. DEFINE p == IF e \in fs.paths THEN e ELSE fs.head
<1>2. p \in Paths
  BY <1>1 DEF HasHead, FilesType
<1>3. Show(p)
  BY <1>1 DEF ShowDefault
<1>. HIDE DEF p
<1>. QED BY <1>2, <1>3, StoredShown DEF EditorInv

\* A slot without a save stays one when the panel goes.
LEMMA NoneUnmounted ==
    ASSUME Unmount, NEW s \in Saves, saves[s] = NoSave
    PROVE  saves'[s] = NoSave
<1>1. saves'[s] = [NoSave EXCEPT !.mounted = FALSE]
  BY DEF Unmount
<1>. DEFINE gone == [NoSave EXCEPT !.mounted = FALSE]
<1>2. NoSave \in SaveType
  BY TextsOf DEF NoSave, SaveType
<1>3. /\ gone \in SaveType
      /\ gone.path = NoSave.path /\ gone.text = NoSave.text
      /\ gone.stage = NoSave.stage /\ gone.mounted = NoSave.mounted
  BY <1>2 DEF SaveType, NoSave
<1>. HIDE DEF gone
<1>4. gone = NoSave
  BY <1>2, <1>3 DEF SaveType
<1>. QED BY <1>1, <1>4 DEF gone

-----------------------------------------------------------------------------
(* The steps again. *)

\* Requests and the dialog move.
LEMMA AsideStored ==
    ASSUME EditorInv, StoredInv, NEW p \in Paths,
           Delete(p) \/ SubmitPath(p) \/ ChooseEntry(p) \/ OpenDialog \/ CancelDialog \/ AddFailed
    PROVE  StoredInv'
<1>1. /\ UNCHANGED <<disk, script, tab, active, shown, content, lastSaved, dirty, timer, disturbed,
                     saves, loads>>
      /\ del' = del \/ del = Idle
  BY DEF Delete, SubmitPath, ChooseEntry, OpenDialog, CancelDialog, AddFailed, server, cache,
         page, panel, mutations
<1>2. Mounted' = Mounted /\ (Deleted => Deleted')
  BY <1>1 DEF Mounted, Deleted, Idle
<1>. QED BY <1>1, <1>2, StoredKept DEF StoredInv

LEMMA TypeStored ==
    ASSUME EditorInv, StoredInv, NEW t, Type(t)
    PROVE  StoredInv'
<1>. SUFFICES ASSUME disturbed' = "no" PROVE Stored'
  BY DEF StoredInv
<1>1. /\ UNCHANGED <<disk, script, tab, active, shown, lastSaved, saves, loads, del>>
      /\ content' = t /\ dirty' = (t # lastSaved) /\ Mounted
      /\ ~Saving /\ disturbed = "no"
  BY DEF Type, Disturb, server, cache, mutations
<1>2. Stored
  BY <1>1 DEF StoredInv, Mounted
<1>3. Mounted' /\ Deleted' = Deleted
  BY <1>1 DEF Mounted, Deleted
<1>4. \A s \in Saves : saves[s] = NoSave
  BY <1>1 DEF Saving
<1>. QED BY <1>1, <1>2, <1>3, <1>4 DEF Stored, LoadsCurrent, SavesCurrent, Holds, Base, Loading, Saving

\* The panel is mounted with the text that was loaded; no save is under way,
\* since a save under no panel would have disturbed.
LEMMA MountStored ==
    ASSUME EditorInv, StoredInv, ScriptSeen, OpenEditorTab \/ ScriptAnswered
    PROVE  StoredInv'
<1>. SUFFICES ASSUME disturbed' = "no", active' # NoPath PROVE Stored'
  BY DEF StoredInv
<1>1. /\ UNCHANGED <<disk, active, shown, disturbed, saves, loads, del>>
      /\ content' = shown /\ lastSaved' = shown
      /\ ~Mounted
  BY DEF OpenEditorTab, ScriptAnswered, ResetPanel, Mounted, server, cache, mutations
<1>2. Stored /\ Deleted' = Deleted
  BY <1>1 DEF StoredInv, Deleted
<1>3. \A s \in Saves : saves[s] = NoSave
  BY <1>1, <1>2 DEF Stored, SavesCurrent, Current
<1>4. Base' = shown /\ Base = shown
  BY <1>1 DEF Base
<1>. QED BY <1>1, <1>2, <1>3, <1>4 DEF Stored, LoadsCurrent, SavesCurrent, Holds, Loading, Saving

\* What was saved in this panel and is not what was loaded is forgotten when
\* it goes; that is what "left" is for.
LEMMA LeaveStored ==
    ASSUME EditorInv, StoredInv, LeaveEditorTab
    PROVE  StoredInv'
<1>. SUFFICES ASSUME disturbed' = "no", active' # NoPath PROVE Stored'
  BY DEF StoredInv
<1>1. /\ UNCHANGED <<disk, active, shown, loads, del>>
      /\ disturbed = "no" /\ ~Saving /\ lastSaved = shown
      /\ lastSaved' = Blank /\ tab' = "other" /\ tab = "editor" /\ script # NoPath
      /\ Unmount
  BY DEF LeaveEditorTab, ResetPanel, server, cache, mutations
<1>2. Stored /\ Mounted /\ ~Mounted' /\ Deleted' = Deleted
  BY <1>1 DEF StoredInv, Mounted, Deleted
<1>3. \A s \in Saves : saves[s] = NoSave /\ saves'[s] = NoSave
  BY <1>1, NoneUnmounted DEF Saving, Unmount
<1>4. Base' = Base
  BY <1>1, <1>2 DEF Base
<1>. QED BY <1>1, <1>2, <1>3, <1>4 DEF Stored, LoadsCurrent, SavesCurrent, Holds, Loading, Saving

\* A step that shows a file shows it afresh.
LEMMA SelectStored ==
    ASSUME EditorInv, NEW p \in Paths, Select(p)
    PROVE  StoredInv'
BY StoredShown DEF Select, StoredInv, EditorInv

LEMMA ListStored ==
    ASSUME EditorInv, StoredInv, ListAnswered
    PROVE  StoredInv'
<1>1. /\ UNCHANGED <<disk, script, tab, saves, del>>
      /\ files' = [paths |-> Present, head |-> FirstOf(Present, entry)]
  BY DEF ListAnswered, server, mutations
<1>2. CASE active = NoPath
  <2>1. HasHead(files')
    BY <1>1, FirstOfList DEF Present
  <2>2. ShowDefault(files', script)
    BY <1>2 DEF ListAnswered
  <2>. QED BY <1>1, <2>1, <2>2, StoredShownDefault DEF StoredInv
<1>3. CASE active # NoPath
  <2>1. UNCHANGED <<active, shown, loads, disturbed, content, lastSaved, dirty, timer>>
    BY <1>3 DEF ListAnswered, panel
  <2>2. Mounted' = Mounted /\ Deleted' = Deleted
    BY <1>1, <2>1 DEF Mounted, Deleted
  <2>. QED BY <1>1, <2>1, <2>2, StoredKept DEF StoredInv
<1>. QED BY <1>2, <1>3

LEMMA DeleteDoneStored ==
    ASSUME EditorInv, StoredInv, DeleteDone
    PROVE  StoredInv'
<1>1. UNCHANGED <<disk, files, script, tab>> /\ del.stage = "ok"
  BY DEF DeleteDone, server, cache
<1>2. CASE active = del.path
  <2>1. ShowDefault(files, script) /\ Unmount
    BY <1>2 DEF DeleteDone
  <2>2. HasHead(files)
    BY DEF EditorInv, CacheInv
  <2>. QED BY <2>1, <2>2, NoneUnmounted, StoredShownDefault DEF StoredInv
<1>3. CASE active # del.path
  <2>1. UNCHANGED <<active, shown, loads, disturbed, saves, content, lastSaved, dirty, timer>>
    BY <1>3 DEF DeleteDone, panel
  <2>2. Mounted' = Mounted /\ ~Deleted
    BY <1>1, <1>3, <2>1 DEF Mounted, Deleted
  <2>. QED BY <1>1, <2>1, <2>2, StoredKept DEF StoredInv
<1>. QED BY <1>2, <1>3

LEMMA DeleteFailedStored ==
    ASSUME EditorInv, StoredInv, DeleteFailed
    PROVE  StoredInv'
<1>. SUFFICES ASSUME disturbed' = "no", active' # NoPath PROVE Stored'
  BY DEF StoredInv
<1>1. /\ UNCHANGED <<disk, script, tab, active, shown, content, lastSaved, dirty, timer, saves, loads>>
      /\ ~Deleted /\ disturbed = "no"
  BY DEF DeleteFailed, Disturb, Deleted, server, cache, panel
<1>2. Mounted' = Mounted
  BY <1>1 DEF Mounted
<1>. QED BY <1>1, <1>2, StoredKept DEF StoredInv

LEMMA AddDoneStored ==
    ASSUME EditorInv, StoredInv, AddDone
    PROVE  StoredInv'
<1>1. UNCHANGED <<disk, script, tab, saves, del>> /\ add # Idle
  BY DEF AddDone, server, cache, Idle
<1>2. CASE active # add.path
  <2>1. Show(add.path) /\ add.path \in Paths
    BY <1>1, <1>2 DEF AddDone, EditorInv, RequestsNamed
  <2>. QED BY <1>1, <2>1, StoredShown DEF StoredInv, EditorInv
<1>3. CASE active = add.path
  <2>1. UNCHANGED <<active, shown, loads, disturbed, content, lastSaved, dirty, timer>>
    BY <1>3 DEF AddDone, panel
  <2>2. Mounted' = Mounted /\ Deleted' = Deleted
    BY <1>1, <2>1 DEF Mounted, Deleted
  <2>. QED BY <1>1, <2>1, <2>2, StoredKept DEF StoredInv
<1>. QED BY <1>2, <1>3

\* The server deletes the open file, and the page will hear of it; or adds
\* another.
LEMMA ServeFileStored ==
    ASSUME EditorInv, StoredInv, ServeDelete \/ ServeAdd
    PROVE  StoredInv'
<1>. SUFFICES ASSUME disturbed' = "no", active' # NoPath PROVE Stored'
  BY DEF StoredInv
<1>1. /\ UNCHANGED <<script, tab, active, shown, content, lastSaved, dirty, timer, saves, loads>>
      /\ disturbed = "no"
  BY DEF ServeDelete, ServeAdd, Disturb, cache, page, panel
<1>2. Mounted' = Mounted
  BY <1>1 DEF Mounted
<1>3. (Deleted => Deleted') /\ (disk'[active] = disk[active] \/ Deleted')
  <2>1. CASE ServeDelete
    <3>1. /\ disk' = [disk EXCEPT ![del.path] = Absent]
          /\ del' = [del EXCEPT !.stage = "ok"]
          /\ del.stage = "sent"
          /\ del \in RequestType
          /\ disk \in [Paths -> AllTexts \cup {Absent}]
      BY <2>1 DEF ServeDelete, EditorInv, RequestsInv, ServerInv
    <3>2. del'.stage = "ok" /\ del'.path = del.path
      BY <3>1 DEF RequestType
    <3>. QED BY <1>1, <3>1, <3>2 DEF Deleted
  <2>2. CASE ServeAdd
    <3>1. /\ disk' = [disk EXCEPT ![add.path] = Blank] /\ del' = del
          /\ add.path # active
          /\ disk \in [Paths -> AllTexts \cup {Absent}]
      BY <2>2 DEF ServeAdd, Disturb, EditorInv, ServerInv
    <3>. QED BY <1>1, <3>1 DEF Deleted
  <2>. QED BY <2>1, <2>2
<1>. QED BY <1>1, <1>2, <1>3, StoredKept DEF StoredInv

LEMMA ServeEntryStored ==
    ASSUME EditorInv, StoredInv, ScriptSeen, ServeEntry
    PROVE  StoredInv'
<1>1. /\ UNCHANGED <<disk, tab, active, shown, content, lastSaved, dirty, timer, disturbed, saves,
                     loads, del>>
      /\ upd # NoPath /\ script' \in {upd, entry}
  BY DEF ServeEntry, page, panel
<1>2. script # NoPath /\ script' # NoPath
  BY <1>1, NoPathIsNone DEF ScriptSeen, EditorInv, ServerInv
<1>3. Mounted' = Mounted /\ Deleted' = Deleted
  BY <1>1, <1>2 DEF Mounted, Deleted
<1>. QED BY <1>1, <1>3, StoredKept DEF StoredInv

\* The PUT takes the text shown, and while it is under way any key pressed
\* disturbs: one save at a time.
LEMMA TimerStored ==
    ASSUME EditorInv, StoredInv, NEW s \in Saves, TimerFires(s)
    PROVE  StoredInv'
<1>. SUFFICES ASSUME disturbed' = "no", active' # NoPath PROVE Stored'
  BY DEF StoredInv
<1>. DEFINE put == [path |-> timer.path, text |-> timer.text, stage |-> "sent", mounted |-> TRUE]
<1>1. /\ UNCHANGED <<disk, script, tab, active, shown, content, lastSaved, dirty, loads, del>>
      /\ timer # NoTimer /\ timer' = NoTimer
      /\ saves' = [saves EXCEPT ![s] = put]
      /\ ~Loading /\ disturbed = "no"
  BY DEF TimerFires, Disturb, server, cache, mutations
<1>2. Stored /\ Mounted /\ timer.path = active /\ timer.text = content
  BY <1>1 DEF StoredInv, EditorInv, PanelOwn
<1>3. Mounted' /\ Base' = Base /\ Deleted' = Deleted /\ ~Loading'
  BY <1>1, <1>2 DEF Mounted, Base, Deleted, Loading
<1>4. \A u \in Saves : saves[u] = NoSave
  BY <1>1, <1>2 DEF Stored, SavesCurrent, Current
<1>5. /\ saves'[s].path = active /\ saves'[s].text = content
      /\ saves'[s].stage = "sent" /\ saves'[s].mounted
      /\ \A u \in Saves \ {s} : saves'[u] = NoSave
  BY <1>1, <1>2, <1>4 DEF EditorInv, SavesInv
<1>6. SavesCurrent'
  BY <1>1, <1>3, <1>5 DEF SavesCurrent, Current
<1>7. LoadsCurrent'
  BY <1>1, <1>2, <1>3 DEF Stored, LoadsCurrent, Holds
<1>8. Holds(Base)'
  <2>1. Holds(Base)
    BY <1>1, <1>2, <1>4 DEF Stored, NoSave
  <2>. QED BY <1>1, <1>3, <2>1 DEF Holds
<1>. QED BY <1>1, <1>2, <1>6, <1>7, <1>8 DEF Stored, Mounted

LEMMA ServePutStored ==
    ASSUME EditorInv, StoredInv, NEW s \in Saves, ServePut(s)
    PROVE  StoredInv'
<1>. SUFFICES ASSUME disturbed' = "no", active' # NoPath PROVE Stored'
  BY DEF StoredInv
<1>1. /\ UNCHANGED <<script, tab, active, shown, content, lastSaved, dirty, timer, loads, del>>
      /\ saves[s].stage = "sent" /\ disturbed = "no"
      /\ disk' = [disk EXCEPT ![saves[s].path] = saves[s].text]
      /\ saves' = [saves EXCEPT ![s] = [saves[s] EXCEPT !.stage = "ok"]]
  BY DEF ServePut, cache, page, panel, mutations
<1>2. saves[s] \in SaveType /\ saves[s] # NoSave /\ Stored
  BY <1>1 DEF EditorInv, SavesInv, StoredInv, NoSave
<1>3. Current(s) /\ Saving /\ \A u \in Saves \ {s} : saves[u] = NoSave
  BY <1>2 DEF Stored, SavesCurrent, Saving
<1>4. /\ saves'[s].path = saves[s].path /\ saves'[s].text = saves[s].text
      /\ saves'[s].mounted = saves[s].mounted /\ saves'[s].stage = "ok"
      /\ \A u \in Saves \ {s} : saves'[u] = NoSave
  BY <1>1, <1>2, <1>3 DEF EditorInv, SavesInv, SaveType
<1>5. disk'[active] = content
  BY <1>1, <1>3 DEF Current, Mounted, EditorInv, ServerInv, ViewTypes
<1>6. SavesCurrent'
  BY <1>1, <1>3, <1>4, <1>5 DEF SavesCurrent, Current, Mounted, Holds
<1>7. ~Loading
  BY <1>2, <1>3 DEF Stored, LoadsCurrent
<1>8. LoadsCurrent'
  BY <1>1, <1>2, <1>7 DEF Stored, LoadsCurrent, Loading
<1>. QED BY <1>1, <1>2, <1>4, <1>6, <1>8 DEF Stored, Mounted

LEMMA PutOverStored ==
    ASSUME EditorInv, StoredInv, NEW s \in Saves, PutDone(s) \/ PutFailed(s)
    PROVE  StoredInv'
<1>. SUFFICES ASSUME disturbed' = "no", active' # NoPath PROVE Stored'
  BY DEF StoredInv
<1>1. /\ UNCHANGED <<disk, script, tab, active, shown, content, timer, loads, del>>
      /\ saves' = [saves EXCEPT ![s] = NoSave] /\ saves[s] # NoSave
      /\ disturbed = "no"
  BY DEF PutDone, PutFailed, Disturb, server, cache, panel, mutations, NoSave
<1>2. Stored /\ Current(s) /\ Saving /\ \A u \in Saves \ {s} : saves[u] = NoSave
  BY <1>1 DEF StoredInv, Stored, SavesCurrent, Saving
<1>3. \A u \in Saves : saves'[u] = NoSave
  BY <1>1, <1>2 DEF EditorInv, SavesInv
<1>4. ~Loading /\ ~Loading' /\ Mounted /\ Mounted'
  BY <1>1, <1>2 DEF Stored, LoadsCurrent, Loading, Current, Mounted
<1>5. LoadsCurrent' /\ SavesCurrent'
  BY <1>1, <1>2, <1>3, <1>4 DEF Stored, LoadsCurrent, SavesCurrent, Loading
<1>6. CASE PutDone(s)
  <2>1. saves[s].stage = "ok" /\ lastSaved' = content
    BY <1>2, <1>6 DEF PutDone, Current
  <2>2. Holds(content)
    BY <1>2, <2>1 DEF Current
  <2>3. Holds(Base)'
    BY <1>1, <1>4, <2>1, <2>2 DEF Holds, Base, Deleted
  <2>. QED BY <1>1, <1>5, <2>1, <2>3 DEF Stored
<1>7. CASE PutFailed(s)
  <2>1. saves[s].stage # "ok" /\ UNCHANGED <<lastSaved, dirty>>
    BY <1>7 DEF PutFailed, Disturb, panel
  <2>2. \A u \in Saves : saves[u].stage # "ok"
    BY <1>2, <2>1 DEF NoSave
  <2>3. Holds(Base)
    BY <1>2, <1>4, <2>2 DEF Stored
  <2>4. Holds(Base)'
    BY <1>1, <1>4, <2>1, <2>3 DEF Holds, Base, Deleted
  <2>. QED BY <1>1, <1>2, <1>4, <1>5, <2>1, <2>4 DEF Stored
<1>. QED BY <1>6, <1>7

LEMMA ServeGetStored ==
    ASSUME EditorInv, StoredInv, NEW l \in loads, ServeGet(l)
    PROVE  StoredInv'
<1>. SUFFICES ASSUME disturbed' = "no", active' # NoPath PROVE Stored'
  BY DEF StoredInv
<1>. DEFINE got == [l EXCEPT !.stage = "ok", !.text = disk[l.path]]
<1>1. /\ UNCHANGED <<disk, script, tab, active, shown, content, lastSaved, dirty, timer, saves, del>>
      /\ disturbed = "no" /\ loads' = (loads \ {l}) \cup {got}
  BY DEF ServeGet, server, cache, page, panel, mutations
<1>2. Stored /\ l \in LoadType /\ (l.live => l.path = active)
  BY <1>1 DEF StoredInv, EditorInv, LoadsInv
<1>3. got.live = l.live /\ got.text = disk[l.path]
  BY <1>2 DEF LoadType
<1>. HIDE DEF got
<1>4. Loading' = Loading
  BY <1>1, <1>3 DEF Loading
<1>5. Mounted' = Mounted /\ Base' = Base /\ Deleted' = Deleted
  BY <1>1 DEF Mounted, Base, Deleted
<1>6. \A m, n \in loads' : m.live /\ n.live => m = n
  BY <1>1, <1>2, <1>3 DEF Stored, LoadsCurrent
<1>7. \A m \in loads' : m.live /\ m.stage = "ok" => Holds(m.text)'
  BY <1>1, <1>2, <1>3, <1>5 DEF Stored, LoadsCurrent, Holds
<1>8. LoadsCurrent'
  BY <1>1, <1>2, <1>4, <1>6, <1>7 DEF Stored, LoadsCurrent, Saving
<1>9. SavesCurrent'
  BY <1>1, <1>2, <1>5 DEF Stored, SavesCurrent, Current, Holds
<1>. QED BY <1>1, <1>2, <1>4, <1>5, <1>8, <1>9 DEF Stored, Holds

LEMMA GetAnsweredStored ==
    ASSUME EditorInv, StoredInv, NEW l \in loads, GetAnswered(l)
    PROVE  StoredInv'
<1>. SUFFICES ASSUME disturbed' = "no", active' # NoPath PROVE Stored'
  BY DEF StoredInv
<1>1. /\ UNCHANGED <<disk, script, tab, active, saves, del>>
      /\ disturbed = "no" /\ loads' = loads \ {l} /\ l.stage = "ok"
  BY DEF GetAnswered, server, cache, mutations
<1>2. Stored /\ Mounted' = Mounted /\ Deleted' = Deleted
  BY <1>1 DEF StoredInv, Mounted, Deleted
<1>3. CASE ~l.live
  <2>1. UNCHANGED <<shown, content, lastSaved, dirty, timer>> /\ Loading' = Loading
    BY <1>1, <1>3 DEF GetAnswered, panel, Loading
  <2>2. LoadsCurrent'
    BY <1>1, <1>2, <2>1 DEF Stored, LoadsCurrent, Saving, Holds
  <2>3. SavesCurrent'
    BY <1>1, <1>2, <2>1 DEF Stored, SavesCurrent, Current, Holds
  <2>. QED BY <1>1, <1>2, <2>1, <2>2, <2>3 DEF Stored, Holds, Base
<1>4. CASE l.live
  <2>1. Loading /\ ~Saving /\ shown = Blank /\ lastSaved = Blank /\ Holds(l.text)
    BY <1>1, <1>2, <1>4 DEF Stored, LoadsCurrent, Loading
  <2>2. ~Loading'
    BY <1>1, <1>2, <1>4 DEF Stored, LoadsCurrent, Loading
  <2>3. \A u \in Saves : saves'[u] = NoSave
    BY <1>1, <2>1 DEF Saving
  <2>4. LoadsCurrent' /\ SavesCurrent'
    BY <1>1, <1>2, <2>2, <2>3 DEF Stored, LoadsCurrent, SavesCurrent, Loading
  <2>5. Base' = l.text
    BY <1>2, <1>4, <2>1 DEF GetAnswered, Base, panel
  <2>6. Holds(Base)'
    BY <1>1, <1>2, <2>1, <2>5 DEF Holds
  <2>7. Mounted' /\ ~dirty' => content' = lastSaved'
    BY <1>2, <1>4 DEF GetAnswered, Stored, panel
  <2>. QED BY <2>4, <2>6, <2>7 DEF Stored
<1>. QED BY <1>3, <1>4

LEMMA GetFailedStored ==
    ASSUME EditorInv, StoredInv, NEW l \in loads, GetFailed(l)
    PROVE  StoredInv'
<1>. SUFFICES ASSUME disturbed' = "no", active' # NoPath PROVE Stored'
  BY DEF StoredInv
<1>1. /\ UNCHANGED <<disk, script, tab, active, shown, content, lastSaved, dirty, timer, saves, del>>
      /\ disturbed = "no" /\ loads' = loads \ {l} /\ ~l.live
  BY DEF GetFailed, Disturb, server, cache, panel, mutations
<1>2. Stored /\ Loading' = Loading
  BY <1>1 DEF StoredInv, Loading
<1>3. Mounted' = Mounted /\ Base' = Base /\ Deleted' = Deleted
  BY <1>1 DEF Mounted, Base, Deleted
<1>4. LoadsCurrent'
  BY <1>1, <1>2, <1>3 DEF Stored, LoadsCurrent, Saving, Holds
<1>5. SavesCurrent'
  BY <1>1, <1>2, <1>3 DEF Stored, SavesCurrent, Current, Holds
<1>. QED BY <1>1, <1>2, <1>3, <1>4, <1>5 DEF Stored, Holds

-----------------------------------------------------------------------------
LEMMA ScriptSeenNext ==
    ASSUME EditorInv, ScriptSeen, [Next]_vars
    PROVE  ScriptSeen'
<1>. USE DEF ScriptSeen
<1>0. NoPath \notin Paths /\ entry \in Paths
  BY NoPathIsNone DEF EditorInv, ServerInv
<1>1. CASE UNCHANGED <<script, tab, upd>>
  BY <1>1
<1>2. CASE LeaveEditorTab
  BY <1>2 DEF LeaveEditorTab, cache, mutations
<1>3. ASSUME NEW p \in Paths, ChooseEntry(p) PROVE ScriptSeen'
  BY <1>3 DEF ChooseEntry, cache, page
<1>4. CASE ServeEntry
  <2>1. upd \in Paths
    BY <1>4 DEF ServeEntry, EditorInv, RequestsInv
  <2>. QED BY <1>4, <1>0, <2>1 DEF ServeEntry
<1>5. CASE ScriptAnswered
  BY <1>5, <1>0 DEF ScriptAnswered
<1>6. CASE OpenEditorTab
  BY <1>6 DEF OpenEditorTab, cache, mutations
<1>7. CASE User
  <2>1. ASSUME NEW p \in Paths, Select(p) \/ Delete(p) \/ SubmitPath(p)
        PROVE  UNCHANGED <<script, tab, upd>>
    BY <2>1 DEF Select, Delete, SubmitPath, cache, page, mutations
  <2>2. ASSUME NEW t \in AllTexts, Type(t) PROVE UNCHANGED <<script, tab, upd>>
    BY <2>2 DEF Type, cache, mutations
  <2>3. CASE OpenDialog \/ CancelDialog
    BY <1>1, <2>3 DEF OpenDialog, CancelDialog, cache, mutations
  <2>. QED BY <1>1, <1>2, <1>3, <1>6, <1>7, <2>1, <2>2, <2>3 DEF User
<1>8. CASE Serve
  <2>1. ASSUME NEW s \in Saves, ServePut(s) PROVE UNCHANGED <<script, tab, upd>>
    BY <2>1 DEF ServePut, cache, page, mutations
  <2>2. ASSUME NEW l \in loads, ServeGet(l) PROVE UNCHANGED <<script, tab, upd>>
    BY <2>2 DEF ServeGet, cache, page, mutations
  <2>3. CASE ServeDelete \/ ServeAdd
    BY <1>1, <2>3 DEF ServeDelete, ServeAdd, cache, page
  <2>. QED BY <1>1, <1>4, <1>8, <2>1, <2>2, <2>3 DEF Serve
<1>9. CASE Answer
  <2>1. ASSUME NEW s \in Saves, PutDone(s) \/ PutFailed(s) PROVE UNCHANGED <<script, tab, upd>>
    BY <2>1 DEF PutDone, PutFailed, cache, mutations
  <2>2. ASSUME NEW l \in loads, GetAnswered(l) \/ GetFailed(l)
        PROVE  UNCHANGED <<script, tab, upd>>
    BY <2>2 DEF GetAnswered, GetFailed, cache, mutations
  <2>3. CASE ListAnswered \/ DeleteDone \/ DeleteFailed \/ AddDone \/ AddFailed
    BY <1>1, <2>3 DEF ListAnswered, DeleteDone, DeleteFailed, AddDone, AddFailed, cache, page,
                      mutations
  <2>. QED BY <1>1, <1>5, <1>9, <2>1, <2>2, <2>3 DEF Answer
<1>10. ASSUME NEW s \in Saves, TimerFires(s) PROVE UNCHANGED <<script, tab, upd>>
  BY <1>10 DEF TimerFires, cache, mutations
<1>11. CASE UNCHANGED vars
  BY <1>1, <1>11 DEF vars, cache, page, mutations
<1>. QED BY <1>1, <1>7, <1>8, <1>9, <1>10, <1>11 DEF Next

LEMMA StoredNext ==
    ASSUME EditorInv, StoredInv, ScriptSeen, [Next]_vars
    PROVE  StoredInv'
<1>0. entry \in Paths
  BY DEF EditorInv, ServerInv
<1>1. CASE User
  <2>1. CASE \E p \in Paths : Select(p) \/ Delete(p) \/ SubmitPath(p) \/ ChooseEntry(p)
    BY <2>1, AsideStored, SelectStored
  <2>2. CASE \E t \in AllTexts : Type(t)
    BY <2>2, TypeStored
  <2>3. CASE OpenEditorTab \/ LeaveEditorTab
    BY <2>3, MountStored, LeaveStored
  <2>4. CASE OpenDialog \/ CancelDialog
    BY <2>4, <1>0, AsideStored
  <2>. QED BY <1>1, <2>1, <2>2, <2>3, <2>4 DEF User
<1>2. CASE Serve
  BY <1>2, ServePutStored, ServeGetStored, ServeFileStored, ServeEntryStored DEF Serve
<1>3. CASE Answer
  <2>1. CASE AddFailed
    BY <2>1, <1>0, AsideStored
  <2>. QED BY <1>3, <2>1, PutOverStored, GetAnsweredStored, GetFailedStored, ListStored, MountStored,
              DeleteDoneStored, DeleteFailedStored, AddDoneStored DEF Answer
<1>4. CASE \E s \in Saves : TimerFires(s)
  BY <1>4, TimerStored
<1>5. CASE UNCHANGED vars
  <2>1. UNCHANGED <<disk, script, tab, active, shown, content, lastSaved, dirty, timer, disturbed,
                    saves, loads, del>>
    BY <1>5 DEF vars, server, cache, page, panel, mutations
  <2>2. Mounted' = Mounted /\ Deleted' = Deleted
    BY <2>1 DEF Mounted, Deleted
  <2>. QED BY <2>1, <2>2, StoredKept DEF StoredInv
<1>. QED BY <1>1, <1>2, <1>3, <1>4, <1>5 DEF Next

\* With nothing under way, "Saved" means that the server holds the text shown,
\* unless something disturbed it, for any number of files, saves and requests
\* (EditorPanel.tsx against api/scripts.py).
THEOREM SavedIsStored == Spec => []SavedUnlessDisturbed
<1>1. Init => StoredInv /\ ScriptSeen
  BY DEF Init, StoredInv, ScriptSeen
<1>2. EditorInv /\ (StoredInv /\ ScriptSeen) /\ [Next]_vars => (StoredInv /\ ScriptSeen)'
  BY StoredNext, ScriptSeenNext
<1>3. StoredInv => SavedUnlessDisturbed
  BY SavedFromStored
<1>. QED BY <1>1, <1>2, <1>3, EditorInvariant, PTL DEF Spec
=============================================================================
