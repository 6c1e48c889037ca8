\* What is launched ends, what is removed stops, what serves goes on.
SPECIFICATION FairSpec
CONSTANTS
  N = 2
  Host = {h1, h2}
  NoHost = NoHost
  ServiceInstances = 0
  TemplateType = "application"
  Removals = {"undeploy"}
  Faults = {"job"}
PROPERTIES SuccessServes EndsOrParks RemovedStops NoDowntime
CHECK_DEADLOCK FALSE
