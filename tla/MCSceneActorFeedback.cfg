CONSTANTS
  call = call
  talk1 = talk1
  talk2 = talk2
  cmd = cmd
  Events <- MCBusyEvents
  Fast <- MCFast
  External <- MCBusyExternal
  d1 = d1
  d2 = d2
  Drains <- MCDrains
  Feedback = {d2}
  MaxDrift = 1
  RecentLimit = 2
  SnapshotEvery = 2
  MaxPersona = 1
  MaxFailures = 1
  MaxRestarts = 1
SPECIFICATION Spec
INVARIANTS
  AcceptedIsHanded
