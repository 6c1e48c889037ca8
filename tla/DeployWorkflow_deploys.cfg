\* Deployments meet every fault, are undeployed and committed, also both at once.
SPECIFICATION Spec
CONSTANTS
  N = 2
  Host = {h1}
  NoHost = NoHost
  ServiceInstances = 1
  TemplateType = "application"
  Removals = {"undeploy", "commit"}
  Faults = {"job", "undeploy", "gateway", "participant", "crash"}
INVARIANT HostsAccounted
PROPERTY LifecycleSpec
CHECK_DEADLOCK FALSE
