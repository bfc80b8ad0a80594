SPECIFICATION Spec
CONSTANTS
  Files = {f1}
  ApiSessions = {a1, a2}
  TaskSessions = {t1}
  PoolSizes = {1, 2}
  Values = {"v1", "v2"}
  NoRow = NoRow
  Untouched = Untouched
  MaxAlerts = 1
  NoMigration = NoMigration
  MaxMigrations = 1
INVARIANTS TypeOK ConnectionsAccounted OnlyMigrationsDeadlock SchemaMatchesRevision
PROPERTY RefinesTables
CHECK_DEADLOCK FALSE
