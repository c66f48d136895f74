------------------------ MODULE SchedulePagesProofs ------------------------
(***************************************************************************)
(* Proofs about SchedulePages, for any number of schedules, dialogs,       *)
(* switches and clicks: the list becomes the table again, a saved form     *)
(* changes no column but those it says, and of what the picker's controls  *)
(* are for they show the truth.                                            *)
(*                                                                         *)
(* ListCurrent speaks of a quiet page.  ListInv says who will see to it    *)
(* that the list becomes the table until then: a fetch that has not been   *)
(* served, one that has brought the table as it is, or a change that was   *)
(* served and whose answer asks for the list again.                        *)
(***************************************************************************)
EXTENDS SchedulePages, TLAPS

RowType == Rows \cup {NoRow}
Table == [Ids -> RowType]
FetchType == [stage : {"none", "sent", "ok"}, rows : Table]
FullType == [Ids -> [stage : {"none", "sent", "ok"}, row : RowType]]
FormType == [cron : Crons, tz : Zones, touched : SUBSET Edited, stale : SUBSET Edited,
             on : BOOLEAN]
ToggleType == [of : Ids, to : BOOLEAN, stage : {"sent", "ok"}]
SaveType == [of : Ids \cup {None, New}, row : RowType, touched : SUBSET Edited,
             stale : SUBSET (Edited \cup PassedOn), stage : {"none", "sent", "ok"}]
RemoveType == [of : Ids \cup {None}, stage : {"none", "sent", "ok"}]

\* A form that is shown is somebody's, a save under way has a row, and so has
\* an answer.
PageInv ==
    /\ row \in Table /\ list \in Table /\ full \in Table
    /\ loaded \in BOOLEAN /\ excused \in BOOLEAN
    /\ listFetch \in FetchType /\ fullFetch \in FullType
    /\ \A i \in Ids : fullFetch[i].stage = "ok" => fullFetch[i].row \in Rows
    /\ mode \in Ids \cup {None, New}
    /\ form \in FormType /\ (form.on => mode # None)
    /\ toggles \subseteq ToggleType
    /\ save \in SaveType /\ (save.stage # "none" => save.row \in Rows)
    /\ deleting \in Ids \cup {None} /\ remove \in RemoveType

LEMMA TypesOfPage == PageInv => SchedulePagesTypeOK
BY DEF PageInv, RowType, Table, FetchType, FullType, FormType, ToggleType, SaveType, RemoveType,
       SchedulePagesTypeOK

-----------------------------------------------------------------------------
(* Expressions.                                                            *)

LEMMA CronsMade ==
    ASSUME NEW m \in 0 .. Unreadable, NEW h \in 0 .. AnyHour, NEW d \in 0 .. 31,
           NEW w \in SUBSET (0 .. 6)
    PROVE  /\ Cron(m, h, d, w) \in Crons
           /\ Editable(Cron(m, h, d, w)) <=> (m = Quarters => h = AnyHour)
           /\ Cron(m, h, d, w).dom = d
BY DEF Cron, Crons, Editable

\* Of a shape the picker can edit, with no date but those that were brought.
Shape(c) == Editable(c) /\ c.dom \in DatesBrought \cup {AnyDate}

LEMMA Fields ==
    /\ {0, Quarters} \subseteq 0 .. Unreadable
    /\ {0, 8, 9, 17, AnyHour} \subseteq 0 .. AnyHour
    /\ {1, AnyDate} \subseteq 0 .. 31
    /\ {AnyDay, {1}, 1 .. 5} \subseteq SUBSET (0 .. 6)
    /\ Quarters # 0
BY DEF Quarters, Unreadable, AnyHour, AnyDate, AnyDay

LEMMA PresetsMade ==
    ASSUME NEW c \in Presets
    PROVE  c \in Crons /\ Editable(c)
<1>1. PICK m \in {0, Quarters}, h \in {0, 8, 9, 17, AnyHour}, d \in {1, AnyDate},
          w \in {AnyDay, {1}, 1 .. 5} :
             c = Cron(m, h, d, w) /\ (m = Quarters => h = AnyHour)
  BY Fields DEF Presets, DefaultCron
<1>2. /\ m \in 0 .. Unreadable /\ h \in 0 .. AnyHour /\ d \in 0 .. 31
      /\ w \in SUBSET (0 .. 6)
  BY Fields
<1>. QED BY <1>1, <1>2, CronsMade

LEMMA DefaultMade == DefaultCron \in Crons /\ Shape(DefaultCron)
<1>1. DefaultCron \in Presets
  BY DEF Presets
<1>2. DefaultCron.dom = AnyDate
  BY DEF DefaultCron, Cron
<1>. QED BY <1>1, <1>2, PresetsMade DEF Shape

\* A click on the picker turns an expression of a shape it can edit into
\* another, and brings no date.
LEMMA PicksMade ==
    ASSUME NEW c \in Crons, NEW p \in Picks(c, PickDays, PickHours, PickMinutes)
    PROVE  p \in Crons /\ (Editable(c) => Editable(p)) /\ p.dom \in {c.dom, AnyDate}
<1>. DEFINE dow == c.dow
            mm == MinuteKept(c)
            hh == HourKept(c)
<1>0. /\ c.minute \in 0 .. Unreadable /\ c.hour \in 0 .. AnyHour /\ c.dom \in 0 .. 31
      /\ dow \in SUBSET (0 .. 6)
  BY DEF Crons
<1>1. mm \in 0 .. Unreadable /\ mm # Quarters /\ hh \in 0 .. AnyHour
  BY <1>0 DEF MinuteKept, HourKept, Quarters, Unreadable, AnyHour
<1>2. /\ 0 \in 0 .. Unreadable /\ Quarters \in 0 .. Unreadable /\ AnyHour \in 0 .. AnyHour
      /\ AnyDate \in 0 .. 31 /\ AnyDay \in SUBSET (0 .. 6) /\ {1} \in SUBSET (0 .. 6)
  BY Fields
<1>. HIDE DEF mm, hh, dow
<1>3. ASSUME NEW h \in 0 .. AnyHour, NEW d \in 0 .. 31, NEW w \in SUBSET (0 .. 6)
      PROVE  /\ Cron(mm, h, d, w) \in Crons /\ Editable(Cron(mm, h, d, w))
             /\ Cron(mm, h, d, w).dom = d
  BY <1>1, CronsMade
<1>4. /\ Cron(Quarters, AnyHour, AnyDate, AnyDay) \in Crons
      /\ Editable(Cron(Quarters, AnyHour, AnyDate, AnyDay))
      /\ Cron(Quarters, AnyHour, AnyDate, AnyDay).dom = AnyDate
  BY <1>2, CronsMade
<1>5. ASSUME NEW f \in Frequency, p = SetFrequency(c, f)
      PROVE  p \in Crons /\ Editable(p) /\ p.dom \in {c.dom, AnyDate}
  <2>1. CASE f = "minutes"
    BY <1>4, <1>5, <2>1 DEF SetFrequency
  <2>2. CASE f = "hourly"
    BY <1>2, <1>3, <1>5, <2>2 DEF SetFrequency, mm
  <2>3. CASE f = "daily"
    BY <1>0, <1>1, <1>2, <1>3, <1>5, <2>3 DEF SetFrequency, mm, hh
  <2>4. CASE f = "weekly"
    <3>1. (IF dow = AnyDay THEN {1} ELSE dow) \in SUBSET (0 .. 6)
      BY <1>0, <1>2
    <3>2. p = Cron(mm, hh, c.dom, IF dow = AnyDay THEN {1} ELSE dow)
      BY <1>5, <2>4 DEF SetFrequency, mm, hh, dow
    <3>. QED BY <1>0, <1>1, <1>3, <3>1, <3>2
  <2>. QED BY <2>1, <2>2, <2>3, <2>4 DEF Frequency
<1>6. ASSUME NEW d \in PickDays, p = ToggleDay(c, d)
      PROVE  p \in Crons /\ Editable(p) /\ p.dom \in {c.dom, AnyDate}
  <2>1. (IF d \in dow THEN dow \ {d} ELSE dow \cup {d}) \in SUBSET (0 .. 6)
    BY <1>0, SchedulesPageAssumption
  <2>2. p = Cron(mm, hh, c.dom, IF d \in dow THEN dow \ {d} ELSE dow \cup {d})
    BY <1>6 DEF ToggleDay, mm, hh, dow
  <2>. QED BY <1>0, <1>1, <1>3, <2>1, <2>2
<1>7. ASSUME NEW h \in PickHours, NEW m \in PickMinutes, p = SetAt(c, h, m)
      PROVE  p \in Crons /\ (Editable(c) => Editable(p)) /\ p.dom \in {c.dom, AnyDate}
  <2>1. m \in 0 .. Unreadable /\ m # Quarters /\ h \in 0 .. AnyHour
    BY SchedulesPageAssumption DEF Quarters, Unreadable, AnyHour
  <2>2. \/ p = Cron(m, AnyHour, AnyDate, AnyDay)
        \/ p = c
        \/ p = Cron(m, h, c.dom, dow)
    BY <1>7 DEF SetAt, dow
  <2>3. CASE p = Cron(m, AnyHour, AnyDate, AnyDay)
    BY <1>2, <2>1, <2>3, CronsMade
  <2>4. CASE p = Cron(m, h, c.dom, dow)
    BY <1>0, <2>1, <2>4, CronsMade
  <2>. QED BY <2>2, <2>3, <2>4
<1>. QED BY <1>5, <1>6, <1>7 DEF Picks

\* Of the shapes it can edit, the picker shows when they fire, but for a date.
LEMMA EditableTold ==
    ASSUME NEW c \in Crons, Editable(c), c.minute \notin {AnyMinute, Unreadable}
    PROVE  TimeTold(c) /\ (c.dom = AnyDate => DaysTold(c))
<1>1. FiredMinutes(c) = ShownMinutes(c)
  BY DEF Editable, FiredMinutes, ShownMinutes, FrequencyOf, MinuteShown
<1>2. FiredHours(c) = ShownHours(c)
  BY DEF Editable, FiredHours, ShownHours, FrequencyOf, HourShown
<1>3. ASSUME c.dom = AnyDate, NEW date \in 1 .. 31, NEW day \in 0 .. 6
      PROVE  FiresOn(c, date, day) <=> day \in ShownDays(c)
  BY <1>3 DEF FiresOn, ShownDays, FrequencyOf, DaysPressed, AnyDay
<1>. QED BY <1>1, <1>2, <1>3 DEF TimeTold, DaysTold

-----------------------------------------------------------------------------
(* Types.                                                                  *)

LEMMA BlankRecords ==
    /\ NoRow \in RowType /\ NoRow \notin Rows
    /\ NoFetch \in FetchType /\ [NoFetch EXCEPT !.stage = "sent"] \in FetchType
    /\ NoForm \in FormType /\ ~NoForm.on
    /\ NoSave \in SaveType /\ NoSave.stage = "none"
    /\ NoRemove \in RemoveType
    /\ NoFull \in [stage : {"none", "sent", "ok"}, row : RowType] /\ NoFull.stage = "none"
    /\ Sent \in [stage : {"none", "sent", "ok"}, row : RowType] /\ Sent.stage = "sent"
<1>1. NoRow \in RowType /\ NoRow \notin Rows
  BY DEF RowType, NoRow, Rows
<1>2. NoFetch \in FetchType /\ [NoFetch EXCEPT !.stage = "sent"] \in FetchType
  BY <1>1 DEF NoFetch, FetchType, Table
<1>3. NoForm \in FormType /\ ~NoForm.on
  BY DefaultMade, SchedulesPageAssumption DEF NoForm, FormType, Edited
<1>4. NoSave \in SaveType /\ NoSave.stage = "none"
  BY <1>1 DEF NoSave, SaveType
<1>5. NoRemove \in RemoveType
  BY DEF NoRemove, RemoveType
<1>6. /\ NoFull \in [stage : {"none", "sent", "ok"}, row : RowType] /\ NoFull.stage = "none"
      /\ Sent \in [stage : {"none", "sent", "ok"}, row : RowType] /\ Sent.stage = "sent"
  BY <1>1 DEF NoFull, Sent
<1>. QED BY <1>1, <1>2, <1>3, <1>4, <1>5, <1>6

LEMMA PageInit == Init => PageInv
<1>. SUFFICES ASSUME Init PROVE PageInv
  OBVIOUS
<1>1. row \in Table
  BY BlankRecords, SchedulesPageAssumption DEF Init, Table, RowType
<1>2. list \in Table /\ full \in Table
  BY BlankRecords DEF Init, Table
<1>3. fullFetch \in FullType /\ \A i \in Ids : fullFetch[i].stage = "none"
  BY BlankRecords DEF Init, FullType
<1>. QED BY <1>1, <1>2, <1>3, BlankRecords DEF Init, PageInv

LEMMA InvalidateTypes ==
    ASSUME PageInv, Invalidate
    PROVE  listFetch' \in FetchType /\ excused' \in BOOLEAN
BY BlankRecords DEF Invalidate, PageInv

LEMMA ListTypes ==
    ASSUME PageInv, List
    PROVE  PageInv'
<1>. USE DEF PageInv
<1>1. CASE ServeList
  BY <1>1 DEF ServeList, FetchType
<1>2. CASE ListAnswered
  BY <1>2, BlankRecords DEF ListAnswered, FetchType
<1>3. CASE ListFails
  BY <1>3, BlankRecords DEF ListFails
<1>4. ASSUME NEW i \in Ids, Toggle(i) PROVE PageInv'
  <2>1. list[i] \in Rows
    BY <1>4 DEF Toggle, Table, RowType
  <2>2. [of |-> i, to |-> ~list[i].enabled, stage |-> "sent"] \in ToggleType
    BY <2>1 DEF Rows, ToggleType
  <2>. QED BY <1>4, <2>2 DEF Toggle
<1>5. ASSUME NEW t \in toggles, ServeToggle(t) PROVE PageInv'
  <2>1. t \in ToggleType /\ t.of \in Ids /\ t.to \in BOOLEAN
    BY DEF ToggleType
  <2>2. row[t.of] \in Rows
    BY <1>5, <2>1 DEF ServeToggle, Table, RowType
  <2>3. [row[t.of] EXCEPT !.enabled = t.to] \in Rows
    BY <2>1, <2>2 DEF Rows
  <2>4. row' \in Table
    BY <1>5, <2>1, <2>3 DEF ServeToggle, Table, RowType
  <2>5. toggles' \subseteq ToggleType
    BY <1>5, <2>1 DEF ServeToggle, ToggleType
  <2>6. save' \in SaveType /\ save'.stage = save.stage /\ save'.row = save.row
    BY <1>5 DEF ServeToggle, SaveType, PassedOn
  <2>. QED BY <1>5, <2>4, <2>5, <2>6 DEF ServeToggle
<1>6. ASSUME NEW t \in toggles, ToggleDone(t) PROVE PageInv'
  BY <1>6, InvalidateTypes DEF ToggleDone
<1>7. ASSUME NEW t \in toggles, ToggleFails(t) PROVE PageInv'
  BY <1>7 DEF ToggleFails
<1>. QED BY <1>1, <1>2, <1>3, <1>4, <1>5, <1>6, <1>7 DEF List

\* What a form begins with.
LEMMA FormsMade ==
    ASSUME NEW i \in Ids \cup {New}
    PROVE  /\ DefaultForm(i) \in FormType /\ DefaultForm(i).on
           /\ DefaultForm(i).cron = DefaultCron
           /\ i # New => DefaultForm(i).stale = Edited
           /\ \A r \in Rows : FormOf(i, r) \in FormType
<1>1. \A r \in Rows : ZoneOf(r) \in Zones /\ EditedIn(r, row[i]) \subseteq Edited
  BY SchedulesPageAssumption DEF ZoneOf, EditedIn, Rows
<1>. QED BY <1>1, BlankRecords DEF DefaultForm, FormOf, FormType, NoForm, Rows

LEMMA EditTypes ==
    ASSUME PageInv, NEW c \in Crons, NEW z \in Zones, Edit(c, z)
    PROVE  PageInv' /\ form'.cron = c /\ form'.tz = z
<1>1. /\ form' \in FormType /\ form'.on = form.on /\ form'.cron = c /\ form'.tz = z
  BY DEF Edit, PageInv, FormType
<1>. QED BY <1>1 DEF Edit, PageInv

LEMMA BroughtMade ==
    ASSUME OnlyEditable, NEW c \in Brought
    PROVE  Shape(c)
BY DEF OnlyEditable, Shape, DatesBrought

LEMMA PickTypes ==
    ASSUME PageInv, PickPreset \/ PickCustom \/ TypeCron \/ PickZone
    PROVE  \E c \in Crons, z \in Zones :
              Edit(c, z) /\ (OnlyEditable /\ Shape(form.cron) => Shape(c))
<1>0. form.cron \in Crons /\ form.tz \in Zones
  BY DEF PageInv, FormType
<1>1. CASE PickPreset
  BY <1>0, <1>1, BroughtMade, PresetsMade, SchedulesPageAssumption DEF PickPreset, Brought
<1>2. CASE PickCustom
  BY <1>0, <1>2, PicksMade DEF PickCustom, Shape
<1>3. CASE TypeCron
  BY <1>0, <1>3, BroughtMade, SchedulesPageAssumption DEF TypeCron, Brought
<1>4. CASE PickZone
  BY <1>0, <1>4 DEF PickZone
<1>. QED BY <1>1, <1>2, <1>3, <1>4

LEMMA PayloadMade ==
    ASSUME PageInv, NEW i \in Ids \cup {New}
    PROVE  /\ Payload(i) \in Rows
           /\ Payload(i).cron = form.cron /\ Payload(i).tz = form.tz
           /\ Payload(i).kind = "cron" /\ Payload(i).days = "null"
<1>1. form.cron \in Crons /\ form.tz \in Zones
  BY DEF PageInv, FormType
<1>2. Known(i) => full[i] \in Rows
  BY DEF PageInv, Table, RowType, Known
<1>. QED BY <1>1, <1>2 DEF Payload, Rows

LEMMA FormTypes ==
    ASSUME PageInv, Form
    PROVE  PageInv'
<1>. USE DEF PageInv
<1>1. CASE OpenCreate
  BY <1>1, FormsMade DEF OpenCreate, New, None
<1>2. CASE CloseForm
  BY <1>2, BlankRecords DEF CloseForm
<1>3. CASE Submit
  <2>1. mode \in Ids \cup {New}
    BY <1>3 DEF Submit
  <2>2. Payload(mode) \in Rows
    BY <2>1, PayloadMade
  <2>3. PassedOnIn(full[mode], row[mode]) \subseteq PassedOn
    BY DEF PassedOnIn
  <2>4. save' \in SaveType /\ save'.row \in Rows
    BY <1>3, <2>1, <2>2, <2>3 DEF Submit, SaveType, FormType, RowType
  <2>. QED BY <1>3, <2>4 DEF Submit
<1>4. CASE PickPreset \/ PickCustom \/ TypeCron \/ PickZone
  BY <1>4, PickTypes, EditTypes
<1>5. ASSUME NEW i \in Ids, OpenEdit(i) PROVE PageInv'
  <2>1. form' \in FormType /\ i # None
    BY <1>5, FormsMade, BlankRecords, SchedulesPageAssumption DEF OpenEdit, Table, RowType, None
  <2>2. /\ fullFetch' \in FullType
        /\ \A j \in Ids : fullFetch'[j].stage = "ok" => fullFetch'[j].row \in Rows
    BY <1>5, BlankRecords DEF OpenEdit, FullType
  <2>. QED BY <1>5, <2>1, <2>2 DEF OpenEdit
<1>6. ASSUME NEW i \in Ids, FullAnswered(i) PROVE PageInv'
  <2>1. fullFetch[i].row \in Rows /\ i # None
    BY <1>6, SchedulesPageAssumption DEF FullAnswered, None
  <2>2. full' \in Table
    BY <1>6, <2>1 DEF FullAnswered, Table, RowType
  <2>3. form' \in FormType /\ (form'.on => mode # None)
    BY <1>6, <2>1, FormsMade DEF FullAnswered
  <2>4. /\ fullFetch' \in FullType
        /\ \A j \in Ids : fullFetch'[j].stage = "ok" => fullFetch'[j].row \in Rows
    BY <1>6, BlankRecords DEF FullAnswered, FullType
  <2>. QED BY <1>6, <2>2, <2>3, <2>4 DEF FullAnswered
<1>7. ASSUME NEW i \in Ids, FullFails(i) PROVE PageInv'
  <2>1. form' \in FormType /\ (form'.on => mode # None)
    BY <1>7, FormsMade, SchedulesPageAssumption DEF FullFails, None
  <2>2. /\ fullFetch' \in FullType
        /\ \A j \in Ids : fullFetch'[j].stage = "ok" => fullFetch'[j].row \in Rows
    BY <1>7, BlankRecords DEF FullFails, FullType
  <2>. QED BY <1>7, <2>1, <2>2 DEF FullFails
<1>8. ASSUME NEW i \in Ids, ServeCreate(i) PROVE PageInv'
  <2>1. save.row \in Rows /\ save' \in SaveType /\ save'.row = save.row
    BY <1>8 DEF ServeCreate, SaveType
  <2>. QED BY <1>8, <2>1 DEF ServeCreate, Table, RowType
<1>9. CASE ServeUpdate
  <2>1. save.row \in Rows /\ save' \in SaveType /\ save'.row = save.row
    BY <1>9 DEF ServeUpdate, SaveType
  <2>2. form' \in FormType /\ form'.on = form.on
    BY <1>9 DEF ServeUpdate, FormType, EditedIn
  <2>. QED BY <1>9, <2>1, <2>2 DEF ServeUpdate, Table, RowType
<1>10. CASE SaveDone
  BY <1>10, InvalidateTypes, BlankRecords DEF SaveDone
<1>11. CASE SaveFails
  BY <1>11, BlankRecords DEF SaveFails
<1>12. ASSUME NEW i \in Ids, ServeFull(i) PROVE PageInv'
  <2>1. row[i] \in Rows
    BY <1>12 DEF ServeFull, Table, RowType
  <2>2. /\ fullFetch' \in FullType
        /\ \A j \in Ids : fullFetch'[j].stage = "ok" => fullFetch'[j].row \in Rows
    BY <1>12, <2>1 DEF ServeFull, FullType, RowType
  <2>. QED BY <1>12, <2>2 DEF ServeFull
<1>. QED BY <1>1, <1>2, <1>3, <1>4, <1>5, <1>6, <1>7, <1>8, <1>9, <1>10, <1>11, <1>12 DEF Form

LEMMA DeletionTypes ==
    ASSUME PageInv, Deletion
    PROVE  PageInv'
<1>. USE DEF PageInv
<1>1. ASSUME NEW i \in Ids, AskDelete(i) PROVE PageInv'
  BY <1>1 DEF AskDelete
<1>2. CASE CancelDelete
  BY <1>2 DEF CancelDelete
<1>3. CASE ConfirmDelete
  BY <1>3 DEF ConfirmDelete, RemoveType
<1>4. CASE ServeDelete
  <2>1. row' \in Table
    BY <1>4, BlankRecords DEF ServeDelete, Table
  <2>2. remove' \in RemoveType
    BY <1>4 DEF ServeDelete, RemoveType
  <2>. QED BY <1>4, <2>1, <2>2 DEF ServeDelete
<1>5. CASE DeleteDone
  BY <1>5, InvalidateTypes, BlankRecords DEF DeleteDone
<1>6. CASE DeleteFails
  BY <1>6, BlankRecords DEF DeleteFails
<1>. QED BY <1>1, <1>2, <1>3, <1>4, <1>5, <1>6 DEF Deletion

LEMMA PageStep == PageInv /\ [Next]_vars => PageInv'
<1>1. ASSUME PageInv, UNCHANGED vars PROVE PageInv'
  BY <1>1 DEF vars, PageInv
<1>. QED BY <1>1, ListTypes, FormTypes, DeletionTypes DEF Next

\* SchedulePagesTypeOK: every variable has the values the page can give it.
THEOREM SchedulePagesTypes == Spec => []SchedulePagesTypeOK
<1>. QED BY PageInit, PageStep, TypesOfPage, PTL DEF Spec

-----------------------------------------------------------------------------
(* The list.                                                               *)

\* A change that was served and whose answer has not come: it will ask for
\* the list again.
Unanswered ==
    \/ \E t \in toggles : t.stage = "ok"
    \/ save.stage = "ok"
    \/ remove.stage = "ok"

ListInv ==
    ~excused =>
       \/ Unanswered
       \/ listFetch.stage = "sent"
       \/ listFetch.stage = "ok" /\ listFetch.rows = row
       \/ listFetch.stage = "none" /\ list = row

LEMMA ListInit == Init => ListInv
BY DEF Init, ListInv, NoFetch

\* Asking again, unless it is the first fetch that goes on.
LEMMA InvalidateAsks == ASSUME Invalidate PROVE ListInv'
BY DEF Invalidate, ListInv, NoFetch

\* What touches neither the table nor the fetch and forgets no answer.
LEMMA ListUntouched ==
    ASSUME ListInv, UNCHANGED <<row, list, listFetch>>, excused => excused',
           Unanswered => Unanswered' \/ excused'
    PROVE  ListInv'
BY DEF ListInv

LEMMA ListStep == PageInv /\ ListInv /\ [Next]_vars => ListInv'
<1>. SUFFICES ASSUME PageInv, ListInv, [Next]_vars PROVE ListInv'
  OBVIOUS
<1>1. CASE ServeList
  BY <1>1 DEF ServeList, ListInv
<1>2. CASE ListAnswered
  <2>1. listFetch'.stage = "none"
    BY <1>2 DEF ListAnswered, NoFetch
  <2>2. Unanswered => Unanswered'
    BY <1>2 DEF ListAnswered, Unanswered
  <2>. QED BY <1>2, <2>1, <2>2 DEF ListAnswered, ListInv
<1>3. CASE ListFails
  BY <1>3 DEF ListFails, ListInv
<1>4. ASSUME NEW i \in Ids, Toggle(i) PROVE ListInv'
  BY <1>4, ListUntouched DEF Toggle, Unanswered
<1>5. ASSUME NEW t \in toggles, ServeToggle(t) PROVE ListInv'
  <2>1. [t EXCEPT !.stage = "ok"] \in toggles' /\ [t EXCEPT !.stage = "ok"].stage = "ok"
    BY <1>5 DEF ServeToggle, PageInv, ToggleType
  <2>. QED BY <2>1 DEF ListInv, Unanswered
<1>6. ASSUME NEW t \in toggles, ToggleFails(t) PROVE ListInv'
  <2>1. CASE t.stage = "ok"
    BY <1>6, <2>1 DEF ToggleFails, ListInv
  <2>2. CASE t.stage # "ok"
    BY <1>6, <2>2, ListUntouched DEF ToggleFails, Unanswered
  <2>. QED BY <2>1, <2>2
<1>7. ASSUME \/ \E t \in toggles : ToggleDone(t)
             \/ SaveDone \/ DeleteDone
      PROVE  ListInv'
  BY <1>7, InvalidateAsks DEF ToggleDone, SaveDone, DeleteDone
<1>8. CASE ServeUpdate \/ \E i \in Ids : ServeCreate(i)
  <2>1. save'.stage = "ok"
    BY <1>8 DEF ServeUpdate, ServeCreate, PageInv, SaveType
  <2>. QED BY <2>1 DEF ListInv, Unanswered
<1>9. CASE ServeDelete
  <2>1. remove'.stage = "ok"
    BY <1>9 DEF ServeDelete, PageInv, RemoveType
  <2>. QED BY <2>1 DEF ListInv, Unanswered
<1>10. CASE Submit
  BY <1>10, ListUntouched DEF Submit, Unanswered, NoSave
<1>11. CASE ConfirmDelete
  BY <1>11, ListUntouched DEF ConfirmDelete, Unanswered, NoRemove
<1>12. CASE SaveFails
  BY <1>12, ListUntouched DEF SaveFails, Unanswered
<1>13. CASE DeleteFails
  BY <1>13, ListUntouched DEF DeleteFails, Unanswered
<1>14. CASE PickPreset \/ PickCustom \/ TypeCron \/ PickZone
  <2>1. \E c, z : Edit(c, z)
    BY <1>14 DEF PickPreset, PickCustom, TypeCron, PickZone
  <2>. QED BY <2>1, ListUntouched DEF Edit, Unanswered
<1>15. ASSUME \/ OpenCreate \/ CloseForm \/ CancelDelete
              \/ \E i \in Ids : OpenEdit(i) \/ ServeFull(i) \/ FullAnswered(i) \/ FullFails(i)
                                 \/ AskDelete(i)
       PROVE  ListInv'
  BY <1>15, ListUntouched
     DEF OpenCreate, CloseForm, CancelDelete, OpenEdit, ServeFull, FullAnswered, FullFails, AskDelete,
         Unanswered
<1>16. CASE UNCHANGED vars
  BY <1>16, ListUntouched DEF vars, Unanswered
<1>. QED BY <1>1, <1>2, <1>3, <1>4, <1>5, <1>6, <1>7, <1>8, <1>9, <1>10, <1>11, <1>12,
            <1>13, <1>14, <1>15, <1>16 DEF Next, List, Form, Deletion

\* ListCurrent: when nothing is under way the list shown is the table of the
\* server, whatever switches, forms and deletions overlapped, unless an answer
\* was lost or the first fetch of all was under way when a change was answered.
THEOREM ListBecomesTable == Spec => []ListCurrent
<1>1. ListInv => ListCurrent
  BY DEF ListInv, ListCurrent, Quiet, Unanswered, NoSave, NoRemove
<1>. QED BY <1>1, PageInit, PageStep, ListInit, ListStep, PTL DEF Spec

-----------------------------------------------------------------------------
(* What a form keeps.                                                      *)

\* Column by column, of a row that is there.
EditedKept(i, c, z, exempt) ==
    row[i] # NoRow =>
       /\ "cron" \notin exempt => c = row[i].cron
       /\ "tz" \notin exempt => z = ZoneOf(row[i])

PassedKept(i, r, exempt) ==
    row[i] # NoRow =>
       /\ "enabled" \notin exempt => r.enabled = row[i].enabled
       /\ "policy" \notin exempt => r.policy = row[i].policy

FormKeeps ==
    form.on /\ mode \in Ids =>
       EditedKept(mode, form.cron, form.tz, form.touched \cup form.stale)

SaveKeeps ==
    save.stage = "sent" /\ save.of \in Ids =>
       /\ EditedKept(save.of, save.row.cron, save.row.tz, save.touched \cup save.stale)
       /\ PassedKept(save.of, save.row, save.stale)
       /\ save.row.kind = "cron" /\ save.row.days = "null"

KeptInv == FormKeeps /\ SaveKeeps

LEMMA KeptInit == Init => KeptInv
BY DEF Init, KeptInv, FormKeeps, SaveKeeps, NoForm, NoSave

\* Where the server's rows and the form stand as they were, but for the
\* columns newly excepted.
LEMMA FormKeepsOn ==
    ASSUME FormKeeps, mode' = mode, form'.on = form.on, form'.cron = form.cron,
           form'.tz = form.tz, form'.touched = form.touched, form.stale \subseteq form'.stale,
           form.on /\ mode \in Ids /\ row'[mode] # NoRow =>
              /\ row[mode] # NoRow
              /\ "cron" \notin form'.stale => row'[mode].cron = row[mode].cron
              /\ "tz" \notin form'.stale => row'[mode].tz = row[mode].tz
    PROVE  FormKeeps'
BY DEF FormKeeps, EditedKept, ZoneOf

\* What a form is when it is mounted.
LEMMA FormKeepsNew ==
    ASSUME NEW i \in Ids, NEW r \in Rows, mode' = i, form' = FormOf(i, r), row' = row,
           row \in Table
    PROVE  FormKeeps'
<1>1. /\ form'.cron = r.cron /\ form'.tz = ZoneOf(r)
      /\ form'.stale = EditedIn(r, row[i])
  BY DEF FormOf
<1>2. /\ "cron" \notin form'.stale => r.cron = row[i].cron
      /\ "tz" \notin form'.stale => r.tz = row[i].tz
  BY <1>1 DEF EditedIn, Edited
<1>. QED BY <1>1, <1>2 DEF FormKeeps, EditedKept, ZoneOf

LEMMA KeptStep == PageInv /\ KeptInv /\ [Next]_vars => KeptInv'
<1>. SUFFICES ASSUME PageInv, KeptInv, [Next]_vars PROVE KeptInv'
  OBVIOUS
<1>0. /\ form \in FormType /\ save \in SaveType /\ row \in Table /\ full \in Table
      /\ New \notin Ids /\ None \notin Ids /\ FormKeeps /\ SaveKeeps
  BY SchedulesPageAssumption DEF PageInv, New, None, KeptInv
<1>1. ASSUME NEW t \in toggles, ServeToggle(t) PROVE KeptInv'
  <2>0. t.of \in Ids
    BY DEF PageInv, ToggleType
  <2>1. row[t.of] \in Rows
    BY <1>0, <1>1, <2>0 DEF ServeToggle, Table, RowType
  <2>2. \A i \in Ids : /\ i # t.of => row'[i] = row[i]
                       /\ row'[i].cron = row[i].cron /\ row'[i].tz = row[i].tz
                       /\ row'[i].policy = row[i].policy
                       /\ row'[i] # NoRow => row[i] # NoRow
    BY <1>0, <1>1, <2>0, <2>1, BlankRecords DEF ServeToggle, Table, Rows
  <2>3. /\ save'.of = save.of /\ save'.row = save.row /\ save'.touched = save.touched
        /\ save'.stage = save.stage /\ save.stale \subseteq save'.stale
        /\ save.of = t.of => "enabled" \in save'.stale
    BY <1>0, <1>1 DEF ServeToggle, SaveType
  <2>4. FormKeeps'
    BY <1>0, <1>1, <2>2, FormKeepsOn DEF ServeToggle
  <2>5. SaveKeeps'
    <3>. SUFFICES ASSUME save.stage = "sent", save.of \in Ids
                  PROVE  /\ EditedKept(save.of, save.row.cron, save.row.tz,
                                       save.touched \cup save.stale)'
                         /\ PassedKept(save.of, save.row, save.stale)'
      BY <1>0, <2>3 DEF SaveKeeps
    <3>1. EditedKept(save.of, save.row.cron, save.row.tz, save.touched \cup save.stale)'
      BY <1>0, <2>2, <2>3 DEF SaveKeeps, EditedKept, ZoneOf
    <3>2. PassedKept(save.of, save.row, save.stale)'
      BY <1>0, <2>2, <2>3 DEF SaveKeeps, PassedKept
    <3>. QED BY <3>1, <3>2
  <2>. QED BY <2>4, <2>5 DEF KeptInv
<1>2. CASE OpenCreate
  BY <1>0, <1>2 DEF OpenCreate, KeptInv, FormKeeps, SaveKeeps, EditedKept, PassedKept
<1>3. ASSUME NEW i \in Ids, OpenEdit(i) PROVE KeptInv'
  <2>1. CASE full[i] = NoRow
    BY <1>0, <1>3, <2>1, BlankRecords
       DEF OpenEdit, KeptInv, FormKeeps, SaveKeeps, EditedKept, PassedKept
  <2>2. CASE full[i] # NoRow
    <3>1. full[i] \in Rows
      BY <1>0, <2>2 DEF Table, RowType
    <3>2. FormKeeps'
      BY <1>0, <1>3, <2>2, <3>1, FormKeepsNew DEF OpenEdit
    <3>. QED BY <1>0, <1>3, <3>2 DEF OpenEdit, KeptInv, SaveKeeps, EditedKept, PassedKept
  <2>. QED BY <2>1, <2>2
<1>4. ASSUME NEW i \in Ids, FullAnswered(i) PROVE KeptInv'
  <2>1. fullFetch[i].row \in Rows
    BY <1>4 DEF FullAnswered, PageInv
  <2>2. FormKeeps'
    <3>1. CASE mode = i /\ ~form.on
      BY <1>0, <1>4, <2>1, <3>1, FormKeepsNew DEF FullAnswered
    <3>2. CASE ~(mode = i /\ ~form.on)
      BY <1>0, <1>4, <3>2 DEF FullAnswered, FormKeeps, EditedKept
    <3>. QED BY <3>1, <3>2
  <2>. QED BY <1>0, <1>4, <2>2 DEF FullAnswered, KeptInv, SaveKeeps, EditedKept, PassedKept
<1>5. ASSUME NEW i \in Ids, FullFails(i) PROVE KeptInv'
  <2>1. DefaultForm(i).stale = Edited
    BY <1>0, FormsMade
  <2>. QED BY <1>0, <1>5, <2>1
       DEF FullFails, KeptInv, FormKeeps, SaveKeeps, EditedKept, PassedKept, Edited
<1>6. CASE CloseForm
  BY <1>0, <1>6, BlankRecords DEF CloseForm, KeptInv, FormKeeps, SaveKeeps, EditedKept, PassedKept
<1>7. ASSUME NEW c \in Crons, NEW z \in Zones, Edit(c, z) PROVE KeptInv'
  <2>1. /\ form'.on = form.on /\ form'.stale = form.stale
        /\ form'.cron = c /\ form'.tz = z
        /\ form.touched \subseteq form'.touched
        /\ c # form.cron => "cron" \in form'.touched
        /\ z # form.tz => "tz" \in form'.touched
    BY <1>0, <1>7 DEF Edit, FormType, Edited
  <2>. QED BY <1>0, <1>7, <2>1 DEF Edit, KeptInv, FormKeeps, SaveKeeps, EditedKept, PassedKept
<1>8. CASE Submit
  <2>1. mode \in Ids \cup {New}
    BY <1>8 DEF Submit, PageInv
  <2>2. /\ Payload(mode).cron = form.cron /\ Payload(mode).tz = form.tz
        /\ Payload(mode).kind = "cron" /\ Payload(mode).days = "null"
    BY <2>1, PayloadMade
  <2>3. /\ save'.of = mode /\ save'.row = Payload(mode) /\ save'.touched = form.touched
        /\ save'.stale = form.stale \cup
             (IF Known(mode) THEN PassedOnIn(full[mode], row[mode]) ELSE PassedOn)
    BY <1>0, <1>8 DEF Submit
  <2>4. mode \in Ids =>
           EditedKept(save.of, save.row.cron, save.row.tz, save.touched \cup save.stale)'
    BY <1>0, <1>8, <2>1, <2>2, <2>3 DEF Submit, FormKeeps, EditedKept
  <2>5. PassedKept(save.of, save.row, save.stale)'
    <3>1. CASE Known(mode)
      <4>1. /\ "enabled" \notin save'.stale => full[mode].enabled = row[mode].enabled
            /\ "policy" \notin save'.stale => full[mode].policy = row[mode].policy
        BY <2>3, <3>1 DEF PassedOnIn, PassedOn
      <4>2. /\ save'.row.enabled = full[mode].enabled
            /\ save'.row.policy = full[mode].policy
        BY <2>3, <3>1 DEF Payload
      <4>. QED BY <1>8, <2>3, <4>1, <4>2 DEF Submit, PassedKept
    <3>2. CASE ~Known(mode)
      BY <1>8, <2>3, <3>2 DEF PassedKept, PassedOn
    <3>. QED BY <3>1, <3>2
  <2>6. SaveKeeps'
    BY <2>2, <2>3, <2>4, <2>5 DEF SaveKeeps
  <2>. QED BY <1>0, <1>8, <2>6 DEF Submit, KeptInv, FormKeeps, EditedKept
<1>9. CASE ServeUpdate
  <2>1. save'.stage = "ok"
    BY <1>0, <1>9 DEF ServeUpdate, SaveType
  <2>2. /\ form'.on = form.on /\ form'.cron = form.cron /\ form'.tz = form.tz
        /\ form'.touched = form.touched /\ form.stale \subseteq form'.stale
        /\ mode = save.of => EditedIn(save.row, row[mode]) \subseteq form'.stale
    BY <1>0, <1>9 DEF ServeUpdate, FormType
  <2>3. /\ \A i \in Ids : i # save.of => row'[i] = row[i]
        /\ row[save.of] # NoRow /\ row'[save.of] = save.row
    BY <1>0, <1>9 DEF ServeUpdate, Table
  <2>4. mode = save.of =>
           /\ "cron" \notin form'.stale => save.row.cron = row[mode].cron
           /\ "tz" \notin form'.stale => save.row.tz = row[mode].tz
    BY <2>2 DEF EditedIn, Edited
  <2>5. FormKeeps'
    BY <1>0, <1>9, <2>2, <2>3, <2>4, FormKeepsOn DEF ServeUpdate
  <2>. QED BY <2>1, <2>5 DEF KeptInv, SaveKeeps
<1>10. ASSUME NEW i \in Ids, ServeCreate(i) PROVE KeptInv'
  <2>1. save'.stage = "ok"
    BY <1>0, <1>10 DEF ServeCreate, SaveType
  <2>2. (\A j \in Ids : j # i => row'[j] = row[j]) /\ mode # i
    BY <1>0, <1>10 DEF ServeCreate, Table, Unheard
  <2>3. FormKeeps'
    BY <1>0, <1>10, <2>2 DEF ServeCreate, FormKeeps, EditedKept
  <2>. QED BY <2>1, <2>3 DEF KeptInv, SaveKeeps
<1>11. CASE SaveDone
  BY <1>11, BlankRecords DEF SaveDone, KeptInv, FormKeeps, SaveKeeps
<1>12. CASE SaveFails
  BY <1>0, <1>12, BlankRecords DEF SaveFails, KeptInv, FormKeeps, SaveKeeps, EditedKept
<1>13. CASE ServeDelete
  <2>1. \A i \in Ids : row'[i] = row[i] \/ row'[i] = NoRow
    BY <1>0, <1>13 DEF ServeDelete, Table
  <2>. QED BY <1>0, <1>13, <2>1
       DEF ServeDelete, KeptInv, FormKeeps, SaveKeeps, EditedKept, PassedKept
<1>14. CASE PickPreset \/ PickCustom \/ TypeCron \/ PickZone
  BY <1>7, <1>14, PickTypes
<1>15. CASE UNCHANGED <<row, mode, form, save>>
  BY <1>0, <1>15 DEF KeptInv, FormKeeps, SaveKeeps, EditedKept, PassedKept
<1>16. ASSUME \/ ServeList \/ ListAnswered \/ ListFails
              \/ \E i \in Ids : Toggle(i) \/ AskDelete(i) \/ ServeFull(i)
              \/ \E t \in toggles : ToggleDone(t) \/ ToggleFails(t)
              \/ CancelDelete \/ ConfirmDelete \/ DeleteDone \/ DeleteFails
       PROVE  UNCHANGED <<row, mode, form, save>>
  BY <1>16 DEF ServeList, ListAnswered, ListFails, Toggle, AskDelete, ToggleDone, ToggleFails,
               CancelDelete, ConfirmDelete, DeleteDone, DeleteFails, ServeFull
<1>17. UNCHANGED vars => UNCHANGED <<row, mode, form, save>>
  BY DEF vars
<1>. QED BY <1>1, <1>2, <1>3, <1>4, <1>5, <1>6, <1>8, <1>9, <1>10, <1>11, <1>12, <1>13,
            <1>14, <1>15, <1>16, <1>17 DEF Next, List, Form, Deletion

\* Only a PUT makes the save of a schedule that is there served.
LEMMA ServedByUpdate ==
    ASSUME PageInv, [Next]_vars, NEW i \in Ids, Served(i)
    PROVE  ServeUpdate
<1>0. New \notin Ids /\ save \in SaveType
  BY SchedulesPageAssumption DEF PageInv, New
<1>1. save.stage = "sent" /\ save'.stage = "ok" /\ save' # save /\ save.of = i
  BY DEF Served
<1>2. ASSUME NEW t \in toggles PROVE ~ServeToggle(t)
  BY <1>0, <1>1 DEF ServeToggle, SaveType
<1>3. ~SaveDone /\ ~SaveFails /\ ~Submit
  BY <1>1 DEF SaveDone, SaveFails, Submit, NoSave
<1>4. ASSUME NEW j \in Ids PROVE ~ServeCreate(j)
  BY <1>0, <1>1 DEF ServeCreate
<1>5. ~Deletion
  BY <1>1 DEF Deletion, AskDelete, CancelDelete, ConfirmDelete, ServeDelete, DeleteDone,
              DeleteFails
<1>6. ~List
  BY <1>1, <1>2 DEF List, ServeList, ListAnswered, ListFails, Toggle, ToggleDone, ToggleFails
<1>7. ~(PickPreset \/ PickCustom \/ TypeCron \/ PickZone)
  BY <1>1 DEF PickPreset, PickCustom, TypeCron, PickZone, Edit
<1>8. ~(\/ OpenCreate \/ CloseForm
        \/ \E j \in Ids : OpenEdit(j) \/ ServeFull(j) \/ FullAnswered(j) \/ FullFails(j))
  BY <1>1 DEF OpenCreate, CloseForm, OpenEdit, ServeFull, FullAnswered, FullFails
<1>. QED BY <1>1, <1>3, <1>4, <1>5, <1>6, <1>7, <1>8 DEF Next, Form, vars

\* UntouchedKept: a PUT changes of the four columns that a form edits or passes
\* on those only that were changed in the form, or of which the page's own
\* record, when the form was filled or the button pressed, said otherwise than
\* the row, or which another request changed meanwhile; null for the zone
\* becomes the user's own, and kind and include_days those of a cron schedule
\* without days.
THEOREM FormKeepsRest == Spec => UntouchedKept
<1>. DEFINE Kept == \A i \in Ids :
                       Served(i) =>
                          /\ "cron" \notin save.touched \cup save.stale => row'[i].cron = row[i].cron
                          /\ "tz" \notin save.touched \cup save.stale => row'[i].tz = ZoneOf(row[i])
                          /\ "enabled" \notin save.stale => row'[i].enabled = row[i].enabled
                          /\ "policy" \notin save.stale => row'[i].policy = row[i].policy
                          /\ row'[i].kind = "cron" /\ row'[i].days = "null"
<1>1. ASSUME PageInv, KeptInv, [Next]_vars PROVE Kept
  <2>. SUFFICES ASSUME NEW i \in Ids, Served(i)
                PROVE  /\ "cron" \notin save.touched \cup save.stale => row'[i].cron = row[i].cron
                       /\ "tz" \notin save.touched \cup save.stale => row'[i].tz = ZoneOf(row[i])
                       /\ "enabled" \notin save.stale => row'[i].enabled = row[i].enabled
                       /\ "policy" \notin save.stale => row'[i].policy = row[i].policy
                       /\ row'[i].kind = "cron" /\ row'[i].days = "null"
    BY DEF Kept
  <2>1. ServeUpdate
    BY <1>1, ServedByUpdate
  <2>2. save.of = i /\ save.stage = "sent" /\ row[i] # NoRow /\ row'[i] = save.row
    BY <1>1, <2>1 DEF Served, ServeUpdate, PageInv, Table
  <2>. QED BY <1>1, <2>2 DEF KeptInv, SaveKeeps, EditedKept, PassedKept
<1>2. [](PageInv /\ KeptInv) /\ [][Next]_vars => [][Kept]_vars
  BY <1>1, PTL
<1>3. Spec => [](PageInv /\ KeptInv) /\ [][Next]_vars
  BY PageInit, PageStep, KeptInit, KeptStep, PTL DEF Spec
<1>. QED BY <1>2, <1>3, PTL DEF UntouchedKept

-----------------------------------------------------------------------------
(* The picker.                                                             *)

EditableInv ==
    OnlyEditable =>
       /\ \A i \in Ids : Shape(row[i].cron) /\ Shape(full[i].cron) /\ Shape(fullFetch[i].row.cron)
       /\ Shape(form.cron) /\ Shape(save.row.cron)

LEMMA EditableInit == Init => EditableInv
<1>. SUFFICES ASSUME Init, OnlyEditable
              PROVE  /\ \A i \in Ids : /\ Shape(row[i].cron) /\ Shape(full[i].cron)
                                       /\ Shape(fullFetch[i].row.cron)
                     /\ Shape(form.cron) /\ Shape(save.row.cron)
  BY DEF EditableInv
<1>1. \A r \in AtStart : Shape(r.cron)
  BY BroughtMade DEF Brought
<1>2. Shape(NoRow.cron)
  BY DefaultMade DEF NoRow
<1>. QED BY <1>1, <1>2, DefaultMade DEF Init, NoForm, NoSave, NoFull

LEMMA EditableStep == PageInv /\ EditableInv /\ [Next]_vars => EditableInv'
<1>. SUFFICES ASSUME PageInv, EditableInv, [Next]_vars, OnlyEditable PROVE EditableInv'
  BY DEF EditableInv, OnlyEditable
<1>0. /\ form \in FormType /\ save \in SaveType /\ row \in Table /\ full \in Table
      /\ fullFetch \in FullType
      /\ \A i \in Ids : Shape(row[i].cron) /\ Shape(full[i].cron) /\ Shape(fullFetch[i].row.cron)
      /\ Shape(form.cron) /\ Shape(save.row.cron)
      /\ Shape(NoRow.cron) /\ Shape(NoForm.cron) /\ Shape(NoSave.row.cron)
      /\ Shape(NoFull.row.cron) /\ Shape(Sent.row.cron)
  BY DefaultMade DEF PageInv, EditableInv, NoRow, NoForm, NoSave, NoFull, Sent
<1>1. ASSUME NEW t \in toggles, ServeToggle(t) PROVE EditableInv'
  <2>0. t.of \in Ids
    BY DEF PageInv, ToggleType
  <2>1. row[t.of] \in Rows
    BY <1>0, <1>1, <2>0 DEF ServeToggle, Table, RowType
  <2>2. \A i \in Ids : row'[i].cron = row[i].cron
    BY <1>0, <1>1, <2>0, <2>1 DEF ServeToggle, Table, Rows
  <2>3. form'.cron = form.cron /\ save'.row = save.row
    BY <1>0, <1>1 DEF ServeToggle, SaveType
  <2>. QED BY <1>0, <1>1, <2>2, <2>3 DEF ServeToggle, EditableInv
<1>2. CASE OpenCreate
  BY <1>0, <1>2, FormsMade, DefaultMade DEF OpenCreate, EditableInv
<1>3. ASSUME NEW i \in Ids, OpenEdit(i) PROVE EditableInv'
  <2>1. Shape(form'.cron)
    BY <1>0, <1>3 DEF OpenEdit, FormOf
  <2>2. \A j \in Ids : Shape(fullFetch'[j].row.cron)
    BY <1>0, <1>3 DEF OpenEdit, FullType
  <2>. QED BY <1>0, <1>3, <2>1, <2>2 DEF OpenEdit, EditableInv
<1>4. ASSUME NEW i \in Ids, FullAnswered(i) PROVE EditableInv'
  <2>1. Shape(form'.cron)
    BY <1>0, <1>4 DEF FullAnswered, FormOf
  <2>2. \A j \in Ids : Shape(full'[j].cron)
    BY <1>0, <1>4 DEF FullAnswered, Table
  <2>3. \A j \in Ids : Shape(fullFetch'[j].row.cron)
    BY <1>0, <1>4 DEF FullAnswered, FullType
  <2>. QED BY <1>0, <1>4, <2>1, <2>2, <2>3 DEF FullAnswered, EditableInv
<1>5. ASSUME NEW i \in Ids, FullFails(i) PROVE EditableInv'
  <2>1. Shape(form'.cron)
    BY <1>0, <1>5, FormsMade, DefaultMade DEF FullFails
  <2>2. \A j \in Ids : Shape(fullFetch'[j].row.cron)
    BY <1>0, <1>5 DEF FullFails, FullType
  <2>. QED BY <1>0, <1>5, <2>1, <2>2 DEF FullFails, EditableInv
<1>6. CASE CloseForm
  BY <1>0, <1>6 DEF CloseForm, EditableInv
<1>7. CASE PickPreset \/ PickCustom \/ TypeCron \/ PickZone
  <2>1. Shape(form'.cron)
    BY <1>0, <1>7, PickTypes, EditTypes
  <2>2. UNCHANGED <<row, full, fullFetch, save>>
    BY <1>7 DEF PickPreset, PickCustom, TypeCron, PickZone, Edit
  <2>. QED BY <1>0, <2>1, <2>2 DEF EditableInv
<1>8. CASE Submit
  <2>1. mode \in Ids \cup {New}
    BY <1>8 DEF Submit, PageInv
  <2>2. save'.row.cron = form.cron
    BY <1>8, <2>1, PayloadMade DEF Submit
  <2>. QED BY <1>0, <1>8, <2>2 DEF Submit, EditableInv
<1>9. CASE ServeUpdate \/ \E i \in Ids : ServeCreate(i)
  <2>1. \A j \in Ids : Shape(row'[j].cron)
    BY <1>0, <1>9 DEF ServeUpdate, ServeCreate, Table
  <2>2. form'.cron = form.cron /\ save'.row = save.row /\ full' = full /\ fullFetch' = fullFetch
    BY <1>0, <1>9 DEF ServeUpdate, ServeCreate, FormType, SaveType
  <2>. QED BY <1>0, <2>1, <2>2 DEF EditableInv
<1>10. CASE SaveDone
  BY <1>0, <1>10 DEF SaveDone, EditableInv
<1>11. CASE SaveFails
  BY <1>0, <1>11 DEF SaveFails, EditableInv
<1>12. CASE ServeDelete
  <2>1. \A j \in Ids : Shape(row'[j].cron)
    BY <1>0, <1>12 DEF ServeDelete, Table
  <2>. QED BY <1>0, <1>12, <2>1 DEF ServeDelete, EditableInv
<1>13. CASE UNCHANGED <<row, full, fullFetch, form, save>>
  BY <1>0, <1>13 DEF EditableInv
<1>14. ASSUME \/ ServeList \/ ListAnswered \/ ListFails
              \/ \E i \in Ids : Toggle(i) \/ AskDelete(i)
              \/ \E t \in toggles : ToggleDone(t) \/ ToggleFails(t)
              \/ CancelDelete \/ ConfirmDelete \/ DeleteDone \/ DeleteFails
       PROVE  UNCHANGED <<row, full, fullFetch, form, save>>
  BY <1>14 DEF ServeList, ListAnswered, ListFails, Toggle, AskDelete, ToggleDone, ToggleFails,
               CancelDelete, ConfirmDelete, DeleteDone, DeleteFails
<1>15. UNCHANGED vars => UNCHANGED <<row, full, fullFetch, form, save>>
  BY DEF vars
<1>16. ASSUME NEW i \in Ids, ServeFull(i) PROVE EditableInv'
  <2>1. \A j \in Ids : Shape(fullFetch'[j].row.cron)
    BY <1>0, <1>16 DEF ServeFull, FullType
  <2>. QED BY <1>0, <1>16, <2>1 DEF ServeFull, EditableInv
<1>. QED BY <1>1, <1>2, <1>3, <1>4, <1>5, <1>6, <1>7, <1>8, <1>9, <1>10, <1>11, <1>12, <1>13,
            <1>14, <1>15, <1>16 DEF Next, List, Form, Deletion

\* PickerTellsTruth: whatever sequence of clicks, saved forms and answers led
\* to the expression in the form, the picker shows the time it fires at, if what
\* was typed or there at the start is of a shape it can edit; and the days too,
\* unless the expression still has a day of the month that a preset, the text
\* or the table brought.
THEOREM PickerTrue == Spec => []PickerTellsTruth
<1>1. ASSUME PageInv, EditableInv, OnlyEditable, form.on,
             form.cron.minute \notin {AnyMinute, Unreadable}
      PROVE  /\ TimeTold(form.cron)
             /\ form.cron.dom \notin DatesBrought => DaysTold(form.cron)
  <2>1. form.cron \in Crons /\ Shape(form.cron)
    BY <1>1 DEF PageInv, FormType, EditableInv
  <2>2. Editable(form.cron) /\ form.cron.dom \in DatesBrought \cup {AnyDate}
    BY <2>1 DEF Shape
  <2>. QED BY <1>1, <2>1, <2>2, EditableTold
<1>2. PageInv /\ EditableInv => PickerTellsTruth
  BY <1>1 DEF PickerTellsTruth
<1>. QED BY <1>2, PageInit, PageStep, EditableInit, EditableStep, PTL DEF Spec
=============================================================================
