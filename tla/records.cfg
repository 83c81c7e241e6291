CONSTANTS
  Slots = {r1, r2}
  Files = {f1, f2}
  Readers = {u1, u2, u3}
  Globals = {u3}
  Viewers = {u1}
  NoFile = NoFile
  Contacts = {c1, c2}
  Student <- MCStudent
  Account <- MCAccount
  Owner <- MCOwner
  Team <- MCTeam
  MaxInvitations = 2
  Tasks = {t1}
  Milestones = {m1, m2, m3}
  NoMilestone = NoMilestone
  Events = {e1}
  Papers = {p1, p2}
  Jobs = {j1, j2}
  Pollers = {q1}
  Callers = {s1, s2}
  MaxCalls = 2
  MaxAttempts = 2
  BatchSize = 1
  Failures = {"transient", "permanent", "crash"}
  NoJob = NoJob
SPECIFICATION RecordsSpec
INVARIANTS NewOnce EmailAtMostOnce RowsTellTheTruth
PROPERTIES VersionsKeepAccess DownloadsAreCurrent LinksStand MilestonesRestOnWork PapersHold SettledForGood
CHECK_DEADLOCK FALSE
