CONSTANTS
    u1 = u1  u2 = u2  s1 = s1  s2 = s2  a = a  b = b  v = v
    Users = {u1, u2}
    Requests = {r1, r2}
    Sessions = {s1, s2}
    Items = {a, b, v}
    Images = {a, b}
    Indexers = {u2}
    OwnerOf <- TwoOwners
    Picked <- SharedPick
    NoUser = NoUser
    NoSession = NoSession
    NoItem = NoItem
SPECIFICATION FairSpec
INVARIANTS OneImporterPerSession RunningIffImporting CountsAddUp DoneLosesNothing
PROPERTIES ShownMovesForward EndedOnlyReplaced ImportEnds ServiceSpec
