SPECIFICATION Spec
CONSTANTS
    app = app
    group = group
    schema = schema
    ext = ext
    contrib = contrib
    db = db
    NoItem = NoItem
    Pass = {p1, p2}
    Role = {app, group}
    Schema = {schema}
    Extension = {ext}
    Database = db
    Memberships <- OneMembership
    Owner = {app}
    SchemaOwner <- OwnedByApp
    HasOptions = FALSE
    AllowConns = TRUE
    Noted = {}
    Bundled = {ext}
    Optional = {}
    Grants <- TwoGrants
    Attempts = 6
    MaxRuns = 1
INVARIANTS
    RacersSucceed
CHECK_DEADLOCK FALSE
