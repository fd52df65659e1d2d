\* Month ends, a leap day and the end of the calendar, with two events.
CONSTANTS
    Days <- MCDays
    Events = {1, 2}
    Intervals <- MCIntervals
    EventDays = {20240131, 20240229}
    Leads = {1}
    BaselineDays = {20240131, 99991231}
    BaselineRuntimes = {1}
    MaxRuntime = 2
    RuntimeInterval = 1
SPECIFICATION Spec
CHECK_DEADLOCK FALSE
INVARIANTS TypeOK OkIsProven DueInTheRightMonth
PROPERTIES AlarmIsSticky DueIsAnnounced RecordingNeverRegresses
