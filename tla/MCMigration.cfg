SPECIFICATION MigrationSpec
CONSTANTS
    old = old
    new = new
    first = first
    second = second
    both = both
    third = third
    Node = {old, new}
    NoNode = NoNode
    Migration = {first, second, both, third}
    NoMigration = NoMigration
    From <- MCFrom
    To <- MCTo
    Deployed <- MCDeployed
    MaxRestarts = 2
    Interval = 3
    Accuracy = 2
    SelfStopping = {new}
CHECK_DEADLOCK FALSE
INVARIANTS NoRegression
PROPERTIES SavedWasRun MigrateEnds
