SPECIFICATION Spec
CONSTANTS
  p1 = p1
  p2 = p2
  host = host
  e1 = e1
  e2 = e2
  Kvms = {1, 2}
  EnvProfiles = {1}
  HostOf <- MCHostOf
  Procs = {p1, p2}
  Editors = {e1, e2}
  Agents = {1}
  Recorder = Recorder
  Schedule = Schedule
  None = None
  Installations = {"old", "new"}
  Retries = 1
  Moments <- MCEvening
  CommandModes = {"now", "install", "uninstall"}
  JobModes = {"now", "set", "read", "install", "uninstall", "meeting"}
  Alone = {2}
  Budgets <- MCBudgets
SYMMETRY MCSymmetry
INVARIANTS
  KeysFollowThreads
  ScheduleIsItsBoundaries
  RetriesLeaveSuccessesAlone
  ReconciledIsApplied
  SucceededIsApplied
PROPERTY
  SecretsFollowProfiles
CHECK_DEADLOCK FALSE
