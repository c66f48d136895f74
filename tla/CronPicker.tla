----------------------------- MODULE CronPicker -----------------------------
(***************************************************************************)
(* components/schedules/CustomPicker.tsx: the form over a cron expression. *)
(* It has no state of its own: what it shows is read from the expression,  *)
(* and each control writes a new one.  An expression is its five fields;   *)
(* the month is "*" in all that can be chosen here.  Other text (that of   *)
(* an interval, "30m") becomes the minute: parseCron puts what is missing. *)
(***************************************************************************)
EXTENDS Naturals

AnyMinute == 60      \* "*"
Quarters == 61       \* "*/15"
Unreadable == 62     \* no minute: the whole is no cron expression
AnyHour == 24        \* "*"
AnyDate == 0         \* "*", else the day of the month
AnyDay == {}         \* "*", else the days listed, a range expanded: Sunday is 0

Cron(m, h, date, days) == [minute |-> m, hour |-> h, dom |-> date, dow |-> days]
Crons == [minute : 0 .. Unreadable, hour : 0 .. AnyHour, dom : 0 .. 31, dow : SUBSET (0 .. 6)]

(* services/presets.py, DEFAULT_CRON among them. *)
DefaultCron == Cron(0, 9, AnyDate, AnyDay)
Presets == {Cron(Quarters, AnyHour, AnyDate, AnyDay), Cron(0, AnyHour, AnyDate, AnyDay),
            DefaultCron, Cron(0, 17, AnyDate, 1 .. 5), Cron(0, 8, AnyDate, {1}),
            Cron(0, 0, 1, AnyDay)}

Frequency == {"minutes", "hourly", "daily", "weekly"}

FrequencyOf(c) ==
    CASE c.minute = Quarters -> "minutes"
      [] c.minute # Quarters /\ c.hour = AnyHour -> "hourly"
      [] c.minute # Quarters /\ c.hour # AnyHour /\ c.dow # AnyDay -> "weekly"
      [] OTHER -> "daily"

(* What the controls show. *)
DaysPressed(c) == c.dow
HourShown(c) == IF c.hour = AnyHour THEN 0 ELSE c.hour
MinuteShown(c) == IF c.minute \in {AnyMinute, Quarters} THEN 0 ELSE c.minute

(* hh and mm of setFrequency and toggleDay. *)
HourKept(c) == IF c.hour = AnyHour THEN 9 ELSE c.hour
MinuteKept(c) == IF c.minute = Quarters THEN 0 ELSE c.minute

\* Fault: the quarters are kept under the new frequency.
SetFrequencyAsIs(c, f) ==
    CASE f = "minutes" -> Cron(Quarters, AnyHour, AnyDate, AnyDay)
      [] f = "hourly" -> Cron(c.minute, AnyHour, AnyDate, AnyDay)
      [] f = "daily" -> Cron(c.minute, HourKept(c), c.dom, AnyDay)
      [] f = "weekly" -> Cron(c.minute, HourKept(c), c.dom,
                              IF c.dow = AnyDay THEN {1} ELSE c.dow)

SetFrequency(c, f) ==
    CASE f = "minutes" -> Cron(Quarters, AnyHour, AnyDate, AnyDay)
      [] f = "hourly" -> Cron(MinuteKept(c), AnyHour, AnyDate, AnyDay)
      [] f = "daily" -> Cron(MinuteKept(c), HourKept(c), c.dom, AnyDay)
      [] f = "weekly" -> Cron(MinuteKept(c), HourKept(c), c.dom,
                              IF c.dow = AnyDay THEN {1} ELSE c.dow)

(* The last day taken away leaves "*". *)
ToggleDay(c, d) ==
    Cron(MinuteKept(c), HourKept(c), c.dom,
         IF d \in c.dow THEN c.dow \ {d} ELSE c.dow \cup {d})

(* The control beside "At": of the hourly shape the minute only, of the    *)
(* quarters nothing; the number input is held to 0 .. 59.                  *)
SetAt(c, h, m) ==
    CASE FrequencyOf(c) = "hourly" -> Cron(m, AnyHour, AnyDate, AnyDay)
      [] FrequencyOf(c) = "minutes" -> c
      [] OTHER -> Cron(m, h, c.dom, c.dow)

(* Everything one click on the friendly form may write. *)
Picks(c, days, hours, minutes) ==
    {SetFrequency(c, f) : f \in Frequency} \cup {ToggleDay(c, d) : d \in days}
    \cup {SetAt(c, h, m) : h \in hours, m \in minutes}
-----------------------------------------------------------------------------
(* When an expression fires; with both a date and days it does on either.  *)
FiredMinutes(c) ==
    CASE c.minute = AnyMinute -> 0 .. 59
      [] c.minute = Quarters -> {0, 15, 30, 45}
      [] c.minute = Unreadable -> {}
      [] OTHER -> {c.minute}
FiredHours(c) == IF c.hour = AnyHour THEN 0 .. 23 ELSE {c.hour}
FiresOn(c, date, day) ==
    \/ c.dom = AnyDate /\ c.dow = AnyDay
    \/ c.dom # AnyDate /\ date = c.dom
    \/ c.dow # AnyDay /\ day \in c.dow

(* When the form says that it fires: it has no control for a date. *)
ShownDays(c) ==
    IF FrequencyOf(c) = "daily" \/ DaysPressed(c) = {} THEN 0 .. 6 ELSE DaysPressed(c)
ShownHours(c) ==
    IF FrequencyOf(c) \in {"minutes", "hourly"} THEN 0 .. 23 ELSE {HourShown(c)}
ShownMinutes(c) ==
    IF FrequencyOf(c) = "minutes" THEN {0, 15, 30, 45} ELSE {MinuteShown(c)}

TimeTold(c) == FiredMinutes(c) = ShownMinutes(c) /\ FiredHours(c) = ShownHours(c)
DaysTold(c) ==
    \A date \in 1 .. 31, day \in 0 .. 6 : FiresOn(c, date, day) <=> day \in ShownDays(c)
=============================================================================
