---------------------------- MODULE SchedulePages ----------------------------
(***************************************************************************)
(* The schedules page: pages/Schedules.tsx with ScheduleForm and           *)
(* CustomPicker, on top of cached answers, against the table that          *)
(* api/schedules.py keeps.  A request is sent in one step, served in a     *)
(* second and answered in a third.  The page is the only writer; what the  *)
(* scheduler does to a row is in Schedules.                                *)
(***************************************************************************)
EXTENDS CronPicker, FiniteSets

CONSTANTS
    Ids,          \* schedules: the one there at the start and those created
    AtStart,      \* what it may be
    Zones, Home,  \* time zones; that of the user's profile
    NoZone,       \* null, which the column may be
    Offered,      \* the presets that were fetched
    RawCrons,     \* expressions typed into the advanced field
    PickDays, PickHours, PickMinutes, \* what is clicked and typed in the picker
    MaxClicks,    \* bound: changes made in forms
    MaxDialogs,   \* bound: forms opened
    MaxToggles    \* bound: switches clicked

(* A row: the expression and the zone, which the form edits as it does the *)
(* blackout dates, left out; whether it is enabled, and the policy (of     *)
(* overlap, queue and retry), which it passes on; the kind, and days, the  *)
(* column include_days.  The page makes no rows of kind interval, but      *)
(* edits those that are there.                                             *)
Rows == [kind : {"cron", "interval"}, cron : Crons, tz : Zones \cup {NoZone},
         enabled : BOOLEAN, policy : {"default", "own"}, days : {"null", "some"}]

ASSUME SchedulesPageAssumption ==
    /\ AtStart \subseteq Rows
    /\ Ids \subseteq Nat \ {0} /\ IsFiniteSet(Ids) /\ 1000 \notin Ids
    /\ Home \in Zones /\ NoZone \notin Zones
    /\ RawCrons \subseteq Crons /\ Offered \subseteq Presets
    /\ PickDays \subseteq 0 .. 6 /\ PickHours \subseteq 0 .. 23
    /\ PickMinutes \subseteq 0 .. 59
    /\ MaxClicks \in Nat /\ MaxDialogs \in Nat /\ MaxToggles \in Nat

NoRow == [kind |-> "none", cron |-> DefaultCron, tz |-> Home, enabled |-> FALSE,
          policy |-> "none", days |-> "none"]

(* stale, of a form and of a save, is history: the columns in which what   *)
(* the page goes by is not, or no more, what the row says.                 *)
None == 0
New == 1000
NoForm == [cron |-> DefaultCron, tz |-> Home, touched |-> {}, stale |-> {}, on |-> FALSE]
NoSave == [of |-> None, row |-> NoRow, touched |-> {}, stale |-> {}, stage |-> "none"]
NoFetch == [stage |-> "none", rows |-> [i \in Ids |-> NoRow]]
NoFull == [stage |-> "none", row |-> NoRow]
Sent == [NoFull EXCEPT !.stage = "sent"]
Edited == {"cron", "tz"}
PassedOn == {"enabled", "policy"}

VARIABLES
    row,       \* server: the table; NoRow where there is none
    list,      \* ["schedules"]: the rows known, or none at first
    loaded,    \* ... whether there has been an answer
    listFetch, \* ... and the fetch under way
    full,      \* ["schedule", id]
    fullFetch, \* ... and the fetches under way
    mode,      \* None, New, or the schedule whose form is open
    form,      \* ScheduleForm, while it is mounted
    toggles,   \* the switches clicked: requests under way
    save,      \* the POST or PUT under way; the buttons are disabled meanwhile
    deleting,  \* the schedule the confirmation asks about
    remove,    \* the DELETE under way
    clicks, dialogs, switched, \* how many there were
    excused    \* history: the list need not be that of the table any more

vars == <<row, list, loaded, listFetch, full, fullFetch, mode, form, toggles,
          save, deleting, remove, clicks, dialogs, switched, excused>>

SchedulePagesTypeOK ==
    /\ row \in [Ids -> Rows \cup {NoRow}] /\ list \in [Ids -> Rows \cup {NoRow}]
    /\ loaded \in BOOLEAN /\ excused \in BOOLEAN
    /\ listFetch.stage \in {"none", "sent", "ok"}
    /\ listFetch.rows \in [Ids -> Rows \cup {NoRow}]
    /\ full \in [Ids -> Rows \cup {NoRow}]
    /\ fullFetch \in [Ids -> [stage : {"none", "sent", "ok"}, row : Rows \cup {NoRow}]]
    /\ mode \in Ids \cup {None, New}
    /\ form.cron \in Crons /\ form.tz \in Zones /\ form.touched \subseteq Edited
    /\ form.stale \subseteq Edited /\ form.on \in BOOLEAN
    /\ toggles \subseteq [of : Ids, to : BOOLEAN, stage : {"sent", "ok"}]
    /\ save.of \in Ids \cup {None, New} /\ save.row \in Rows \cup {NoRow}
    /\ save.touched \subseteq Edited /\ save.stale \subseteq Edited \cup PassedOn
    /\ save.stage \in {"none", "sent", "ok"}
    /\ deleting \in Ids \cup {None}
    /\ remove \in [of : Ids \cup {None}, stage : {"none", "sent", "ok"}]

NoRemove == [of |-> None, stage |-> "none"]

Init ==
    /\ \E i \in Ids : \E r \in AtStart :
          /\ \A j \in Ids : i <= j
          /\ row = [[j \in Ids |-> NoRow] EXCEPT ![i] = r]
    /\ list = [i \in Ids |-> NoRow] /\ loaded = FALSE
    /\ listFetch = [NoFetch EXCEPT !.stage = "sent"]
    /\ full = [i \in Ids |-> NoRow] /\ fullFetch = [i \in Ids |-> NoFull]
    /\ mode = None /\ form = NoForm
    /\ toggles = {} /\ save = NoSave /\ deleting = None /\ remove = NoRemove
    /\ clicks = 0 /\ dialogs = 0 /\ switched = 0 /\ excused = FALSE
-----------------------------------------------------------------------------
(* The list. *)
ServeList ==
    /\ listFetch.stage = "sent"
    /\ listFetch' = [stage |-> "ok", rows |-> row]
    /\ UNCHANGED <<row, list, loaded, full, fullFetch, mode, form, toggles, save,
                   deleting, remove, clicks, dialogs, switched, excused>>

ListAnswered ==
    /\ listFetch.stage = "ok"
    /\ list' = listFetch.rows /\ loaded' = TRUE
    /\ listFetch' = NoFetch
    /\ UNCHANGED <<row, full, fullFetch, mode, form, toggles, save, deleting,
                   remove, clicks, dialogs, switched, excused>>

ListFails ==
    /\ listFetch.stage # "none"
    /\ listFetch' = NoFetch
    /\ excused' = TRUE
    /\ UNCHANGED <<row, list, loaded, full, fullFetch, mode, form, toggles, save,
                   deleting, remove, clicks, dialogs, switched>>

\* Fault: a fetch under way is taken for the new one.
InvalidateUnlessFetching ==
    /\ listFetch' = IF listFetch.stage # "none" THEN listFetch
                    ELSE [NoFetch EXCEPT !.stage = "sent"]
    /\ excused' = (excused \/ (~loaded /\ listFetch.stage # "none"))

(* invalidateQueries: a fetch under way is given up and made again; but    *)
(* the first of all is left to answer.                                     *)
Invalidate ==
    /\ listFetch' = IF ~loaded /\ listFetch.stage # "none" THEN listFetch
                    ELSE [NoFetch EXCEPT !.stage = "sent"]
    /\ excused' = (excused \/ (~loaded /\ listFetch.stage # "none"))

ClosedDialogs == mode = None /\ deleting = None

(* The switch shows the list's value until the list is fetched again, and  *)
(* may be clicked again meanwhile.                                         *)
Toggle(i) ==
    /\ ClosedDialogs /\ list[i] # NoRow /\ switched < MaxToggles
    /\ toggles' = toggles \cup {[of |-> i, to |-> ~list[i].enabled, stage |-> "sent"]}
    /\ switched' = switched + 1
    /\ UNCHANGED <<row, list, loaded, listFetch, full, fullFetch, mode, form, save,
                   deleting, remove, clicks, dialogs, excused>>

ServeToggle(t) ==
    /\ t.stage = "sent" /\ row[t.of] # NoRow
    /\ row' = [row EXCEPT ![t.of].enabled = t.to]
    /\ toggles' = (toggles \ {t}) \cup {[t EXCEPT !.stage = "ok"]}
    /\ save' = [save EXCEPT !.stale = IF save.of = t.of THEN @ \cup {"enabled"} ELSE @]
    /\ UNCHANGED <<list, loaded, listFetch, full, fullFetch, mode, form, deleting, remove,
                   clicks, dialogs, switched, excused>>

ToggleDone(t) ==
    /\ t.stage = "ok"
    /\ toggles' = toggles \ {t}
    /\ Invalidate
    /\ UNCHANGED <<row, list, loaded, full, fullFetch, mode, form, save, deleting,
                   remove, clicks, dialogs, switched>>

(* Refused, or the request or its answer is lost. *)
ToggleFails(t) ==
    /\ toggles' = toggles \ {t}
    /\ excused' = (excused \/ t.stage = "ok")
    /\ UNCHANGED <<row, list, loaded, listFetch, full, fullFetch, mode, form, save,
                   deleting, remove, clicks, dialogs, switched>>
-----------------------------------------------------------------------------
(* The form.  useState takes its initial values once, when it is mounted;  *)
(* null for the zone is shown, and saved, as the user's own.               *)
ZoneOf(r) == IF r.tz = NoZone THEN Home ELSE r.tz

EditedIn(r, q) ==
    {f \in Edited : (f = "cron" /\ r.cron # q.cron) \/ (f = "tz" /\ r.tz # q.tz)}

FormOf(i, r) == [cron |-> r.cron, tz |-> ZoneOf(r), touched |-> {},
                 stale |-> EditedIn(r, row[i]), on |-> TRUE]
DefaultForm(i) ==
    [NoForm EXCEPT !.on = TRUE, !.stale = IF i = New THEN {} ELSE Edited]

OpenCreate ==
    /\ ClosedDialogs /\ dialogs < MaxDialogs
    /\ mode' = New /\ form' = DefaultForm(New)
    /\ dialogs' = dialogs + 1
    /\ UNCHANGED <<row, list, loaded, listFetch, full, fullFetch, toggles, save,
                   deleting, remove, clicks, switched, excused>>

(* EditOrCreateForm: a record in the cache is used at once, and fetched    *)
(* again; without one the dialog says "Loading".                           *)
OpenEdit(i) ==
    /\ ClosedDialogs /\ list[i] # NoRow /\ dialogs < MaxDialogs
    /\ mode' = i
    /\ form' = IF full[i] = NoRow THEN NoForm ELSE FormOf(i, full[i])
    /\ fullFetch' = [fullFetch EXCEPT ![i] = IF @.stage = "none" THEN Sent ELSE @]
    /\ dialogs' = dialogs + 1
    /\ UNCHANGED <<row, list, loaded, listFetch, full, toggles, save, deleting,
                   remove, clicks, switched, excused>>

ServeFull(i) ==
    /\ fullFetch[i].stage = "sent" /\ row[i] # NoRow
    /\ fullFetch' = [fullFetch EXCEPT ![i] = [stage |-> "ok", row |-> row[i]]]
    /\ UNCHANGED <<row, list, loaded, listFetch, full, mode, form, toggles, save,
                   deleting, remove, clicks, dialogs, switched, excused>>

FullAnswered(i) ==
    /\ fullFetch[i].stage = "ok"
    /\ fullFetch' = [fullFetch EXCEPT ![i] = NoFull]
    /\ full' = [full EXCEPT ![i] = fullFetch[i].row]
    /\ form' = IF mode = i /\ ~form.on THEN FormOf(i, fullFetch[i].row) ELSE form
    /\ UNCHANGED <<row, list, loaded, listFetch, mode, toggles, save, deleting,
                   remove, clicks, dialogs, switched, excused>>

(* With an error instead of a record the form is that of a new schedule. *)
FullFails(i) ==
    /\ fullFetch[i].stage # "none"
    /\ fullFetch' = [fullFetch EXCEPT ![i] = NoFull]
    /\ form' = IF mode = i /\ ~form.on THEN DefaultForm(i) ELSE form
    /\ UNCHANGED <<row, list, loaded, listFetch, full, mode, toggles, save,
                   deleting, remove, clicks, dialogs, switched, excused>>

CloseForm ==
    /\ mode # None
    /\ mode' = None /\ form' = NoForm
    /\ UNCHANGED <<row, list, loaded, listFetch, full, fullFetch, toggles, save,
                   deleting, remove, clicks, dialogs, switched, excused>>

Edit(c, z) ==
    /\ form.on /\ clicks < MaxClicks
    /\ <<c, z>> # <<form.cron, form.tz>>
    /\ form' = [form EXCEPT !.cron = c, !.tz = z,
                   !.touched = @ \cup {f \in Edited :
                                          IF f = "cron" THEN c # form.cron ELSE z # form.tz}]
    /\ clicks' = clicks + 1
    /\ UNCHANGED <<row, list, loaded, listFetch, full, fullFetch, mode, toggles,
                   save, deleting, remove, dialogs, switched, excused>>

PickPreset == \E c \in Offered : Edit(c, form.tz)
PickCustom == \E c \in Picks(form.cron, PickDays, PickHours, PickMinutes) :
                 Edit(c, form.tz)
TypeCron == \E c \in RawCrons : Edit(c, form.tz)
PickZone == \E z \in Zones : Edit(form.cron, z)

\* Fault: the switch and the policy are those of a new schedule.
PayloadOfForm(i) ==
    [kind |-> "cron", cron |-> form.cron, tz |-> form.tz, enabled |-> TRUE,
     policy |-> "default", days |-> "null"]

\* Fault: no default for a record that is not there.
PayloadUnchecked(i) ==
    [kind |-> "cron", cron |-> form.cron, tz |-> form.tz,
     enabled |-> IF i = New THEN TRUE ELSE full[i].enabled,
     policy |-> IF i = New THEN "default" ELSE full[i].policy, days |-> "null"]

Known(i) == i # New /\ (IF i = New THEN FALSE ELSE full[i] # NoRow)

(* submit: what the form does not edit comes from the record as known now, *)
(* but kind and include_days are always those of a cron without days.      *)
Payload(i) ==
    [kind |-> "cron", cron |-> form.cron, tz |-> form.tz,
     enabled |-> IF Known(i) THEN full[i].enabled ELSE TRUE,
     policy |-> IF Known(i) THEN full[i].policy ELSE "default", days |-> "null"]

PassedOnIn(r, q) ==
    {f \in PassedOn : \/ f = "enabled" /\ r.enabled # q.enabled
                      \/ f = "policy" /\ r.policy # q.policy}

Submit ==
    /\ form.on /\ save = NoSave
    /\ save' = [of |-> mode, row |-> Payload(mode), touched |-> form.touched,
                stage |-> "sent",
                stale |-> form.stale \cup
                    (IF Known(mode) THEN PassedOnIn(full[mode], row[mode]) ELSE PassedOn)]
    /\ UNCHANGED <<row, list, loaded, listFetch, full, fullFetch, mode, form,
                   toggles, deleting, remove, clicks, dialogs, switched, excused>>

(* advance_next_run raises on what is no expression: SaveFails. *)
ServeUpdate ==
    /\ save.stage = "sent" /\ save.of \in Ids
    /\ row[save.of] # NoRow /\ save.row.cron.minute # Unreadable
    /\ row' = [row EXCEPT ![save.of] = save.row]
    /\ save' = [save EXCEPT !.stage = "ok"]
    /\ form' = IF mode = save.of
               THEN [form EXCEPT !.stale = @ \cup EditedIn(save.row, row[save.of])] ELSE form
    /\ UNCHANGED <<list, loaded, listFetch, full, fullFetch, mode, toggles,
                   deleting, remove, clicks, dialogs, switched, excused>>

(* Ids are not used again: nothing on the page speaks of a new one. *)
Unheard(i) ==
    /\ list[i] = NoRow /\ listFetch.rows[i] = NoRow /\ full[i] = NoRow
    /\ fullFetch[i] = NoFull /\ mode # i /\ deleting # i
    /\ \A t \in toggles : t.of # i

ServeCreate(i) ==
    /\ save.stage = "sent" /\ save.of = New /\ save.row.cron.minute # Unreadable
    /\ \A j \in Ids : j >= i => row[j] = NoRow
    /\ Unheard(i)
    /\ row' = [row EXCEPT ![i] = save.row]
    /\ save' = [save EXCEPT !.stage = "ok"]
    /\ UNCHANGED <<list, loaded, listFetch, full, fullFetch, mode, form, toggles,
                   deleting, remove, clicks, dialogs, switched, excused>>

(* Whatever form is open by now is closed. *)
SaveDone ==
    /\ save.stage = "ok"
    /\ save' = NoSave
    /\ Invalidate
    /\ mode' = None /\ form' = NoForm
    /\ UNCHANGED <<row, list, loaded, full, fullFetch, toggles, deleting, remove,
                   clicks, dialogs, switched>>

SaveFails ==
    /\ save # NoSave
    /\ save' = NoSave
    /\ excused' = (excused \/ save.stage = "ok")
    /\ UNCHANGED <<row, list, loaded, listFetch, full, fullFetch, mode, form,
                   toggles, deleting, remove, clicks, dialogs, switched>>
-----------------------------------------------------------------------------
(* Deleting. *)
AskDelete(i) ==
    /\ ClosedDialogs /\ list[i] # NoRow /\ dialogs < MaxDialogs
    /\ deleting' = i /\ dialogs' = dialogs + 1
    /\ UNCHANGED <<row, list, loaded, listFetch, full, fullFetch, mode, form,
                   toggles, save, remove, clicks, switched, excused>>

CancelDelete ==
    /\ deleting # None
    /\ deleting' = None
    /\ UNCHANGED <<row, list, loaded, listFetch, full, fullFetch, mode, form,
                   toggles, save, remove, clicks, dialogs, switched, excused>>

ConfirmDelete ==
    /\ deleting # None /\ remove = NoRemove
    /\ remove' = [of |-> deleting, stage |-> "sent"]
    /\ UNCHANGED <<row, list, loaded, listFetch, full, fullFetch, mode, form,
                   toggles, save, deleting, clicks, dialogs, switched, excused>>

ServeDelete ==
    /\ remove.stage = "sent" /\ row[remove.of] # NoRow
    /\ row' = [row EXCEPT ![remove.of] = NoRow]
    /\ remove' = [remove EXCEPT !.stage = "ok"]
    /\ UNCHANGED <<list, loaded, listFetch, full, fullFetch, mode, form, toggles,
                   save, deleting, clicks, dialogs, switched, excused>>

DeleteDone ==
    /\ remove.stage = "ok"
    /\ remove' = NoRemove /\ deleting' = None
    /\ Invalidate
    /\ UNCHANGED <<row, list, loaded, full, fullFetch, mode, form, toggles, save,
                   clicks, dialogs, switched>>

DeleteFails ==
    /\ remove # NoRemove
    /\ remove' = NoRemove
    /\ excused' = (excused \/ remove.stage = "ok")
    /\ UNCHANGED <<row, list, loaded, listFetch, full, fullFetch, mode, form,
                   toggles, save, deleting, clicks, dialogs, switched>>
-----------------------------------------------------------------------------
List ==
    \/ ServeList \/ ListAnswered \/ ListFails
    \/ \E i \in Ids : Toggle(i)
    \/ \E t \in toggles : ServeToggle(t) \/ ToggleDone(t) \/ ToggleFails(t)

Form ==
    \/ OpenCreate \/ CloseForm \/ Submit
    \/ PickPreset \/ PickCustom \/ TypeCron \/ PickZone
    \/ \E i \in Ids : OpenEdit(i) \/ ServeFull(i) \/ FullAnswered(i) \/ FullFails(i) \/ ServeCreate(i)
    \/ ServeUpdate \/ SaveDone \/ SaveFails

Deletion ==
    \/ \E i \in Ids : AskDelete(i)
    \/ CancelDelete \/ ConfirmDelete \/ ServeDelete \/ DeleteDone \/ DeleteFails

Next == List \/ Form \/ Deletion

Spec == Init /\ [][Next]_vars
-----------------------------------------------------------------------------
(* When nothing is under way the list is the table, unless an answer was   *)
(* lost, or the very first fetch of the list was still under way when a    *)
(* change was answered.                                                    *)
Quiet == listFetch.stage = "none" /\ toggles = {} /\ save = NoSave /\ remove = NoRemove
ListCurrent == Quiet /\ ~excused => list = row

(* Saving a form keeps what was not changed in it, column by column: the   *)
(* expression and the zone unless the form began with others than the row  *)
(* had (a record of the cache, which nothing brings up to date after a     *)
(* PUT, or the defaults, if the record could not be fetched) or another    *)
(* save reached the row since; the switch and the policy unless the record *)
(* known when the button was pressed says otherwise than the row, or the   *)
(* switch was served between the button and the PUT.  Those columns are    *)
(* then set back.  Three things no form keeps: a null zone becomes the     *)
(* user's, and the kind and include_days become those of a cron schedule   *)
(* without days, whatever they were (ScheduleForm.tsx).                    *)
Served(i) == save.of = i /\ save.stage = "sent" /\ save'.stage = "ok"
UntouchedKept ==
    [][\A i \in Ids :
          Served(i) =>
              /\ "cron" \notin save.touched \cup save.stale => row'[i].cron = row[i].cron
              /\ "tz" \notin save.touched \cup save.stale => row'[i].tz = ZoneOf(row[i])
              /\ "enabled" \notin save.stale => row'[i].enabled = row[i].enabled
              /\ "policy" \notin save.stale => row'[i].policy = row[i].policy
              /\ row'[i].kind = "cron" /\ row'[i].days = "null"]_vars

(* The picker shows when the schedule fires, whatever sequence of clicks   *)
(* led there, as long as what was typed, or there at the start, is of a    *)
(* shape it can edit.  Two exceptions: "*" for the minute, which has to be *)
(* typed, and text that is no expression; and a day of the month, for      *)
(* which the form has no control: of an expression that brought one, a     *)
(* preset among them ("First of month" is shown as "Daily", at 00:00), it  *)
(* tells the time and not the days.  No click of its own brings one.       *)
Editable(c) == c.minute = Quarters => c.hour = AnyHour
Brought == RawCrons \cup Offered \cup {r.cron : r \in AtStart}
OnlyEditable == \A c \in Brought : Editable(c)
DatesBrought == {c.dom : c \in Brought} \ {AnyDate}
PickerTellsTruth ==
    OnlyEditable /\ form.on /\ form.cron.minute \notin {AnyMinute, Unreadable} =>
        /\ TimeTold(form.cron)
        /\ form.cron.dom \notin DatesBrought => DaysTold(form.cron)
=============================================================================
