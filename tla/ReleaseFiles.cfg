SPECIFICATION Spec
CONSTANTS
    Users = {u1, u2}
    Contents = {a, b}
    Extensions = {s19, srec}
    MaxEdits = 2
    MaxBuilds = 2
    MaxHarm = 2
    Top = 8
    Chunk = 2
    Page = 3
SYMMETRY Symmetric
INVARIANTS StoreIsTruthful ImagePairMatches TextKeepsImage PackageIsVerified RuntimeIsVerified
