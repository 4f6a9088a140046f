SPECIFICATION LiveSpec
CONSTANTS
    app = app
    group = group
    schema = schema
    ext = ext
    contrib = contrib
    db = db
    NoItem = NoItem
    Pass = {p1, p2}
    Role = {app, group}
    Schema = {schema}
    Extension = {ext, contrib}
    Database = db
    Memberships <- OneMembership
    Owner = {app}
    SchemaOwner <- OwnedByApp
    HasOptions = TRUE
    AllowConns = TRUE
    Noted = {app, db}
    Bundled = {ext}
    Optional = {contrib}
    Grants <- TwoGrants
    Attempts = 3
    MaxRuns = 1
INVARIANTS
    TypeOK
    
    
    
PROPERTIES
    PassEnds
CHECK_DEADLOCK FALSE
