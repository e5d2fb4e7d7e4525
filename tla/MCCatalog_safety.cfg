SPECIFICATION Spec
CONSTANTS
    r1 = r1  r2 = r2  p1 = p1  p2 = p2  t1 = t1  k1 = k1  s1 = s1
    NoSchema = NoSchema
    Replica = {r1, r2}
    Path = {p1, p2}
    Table = {t1}
    Tombstone = {k1}
    Schema = {s1}
    TableOf <- MCTableOf
    Version <- MCMixedVersion
    Edits <- MCEdits
    MaxAttempts = 2
    MaxOps = 3
    MaxFaults = 1
INVARIANTS
    TypeOK
    FilesAreReplay
    TombstonesAreReplay
    SchemasAreReplay
    FenceSound
    HeadIsFolded
    OutcomeMatchesLog
PROPERTIES
    ImplementsManifestLog
