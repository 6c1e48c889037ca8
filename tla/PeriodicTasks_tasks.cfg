\* Two tasks, days of two hours and start hours beyond, an edit and a crash.
SPECIFICATION FairSpec
CONSTANTS
  Task = {t1, t2}
  NoTask = NoTask
  HoursPerDay = 2
  TicksPerHour = 2
  StartHour <- Hours
  MaxEdits = 1
  MaxCrashes = 1
PROPERTIES HourlyOnce RunsAgain
CHECK_DEADLOCK FALSE
