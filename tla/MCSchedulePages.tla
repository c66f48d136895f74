--------------------------- MODULE MCSchedulePages ---------------------------
EXTENDS SchedulePages

MCIds == {1, 2}
MCStart == {[kind |-> "interval", cron |-> Cron(Unreadable, 0, AnyDate, AnyDay), tz |-> "null",
             enabled |-> FALSE, policy |-> "own", days |-> "some"]}
MCZones == {"UTC", "other"}
MCRaw == {Cron(AnyMinute, AnyHour, AnyDate, AnyDay)}
MCOffered == {Cron(0, 0, 1, AnyDay)}
MCDays == {1}
MCHours == {10}
MCMinutes == {30}
=============================================================================
