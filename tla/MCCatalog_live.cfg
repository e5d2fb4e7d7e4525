SPECIFICATION FairSpec
CONSTANTS
    r1 = r1  r2 = r2  p1 = p1  p2 = p2  t1 = t1  k1 = k1  s1 = s1
    NoSchema = NoSchema
    Replica = {r1, r2}
    Path = {p1}
    Table = {t1}
    Tombstone = {}
    Schema = {}
    TableOf <- MCTableOfFiles
    Version <- MCSameVersion
    Edits <- MCOneFile
    MaxAttempts = 2
    MaxOps = 2
    MaxFaults = 1
PROPERTIES
    
    TailConverges
