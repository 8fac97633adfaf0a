CONSTANTS
    u1 = u1  u2 = u2  h1 = h1  h2 = h2  a = a  b = b  v = v
    Users = {u1, u2}
    Handlers = {h1, h2}
    Workers = {w1, w2}
    Items = {a, b, v}
    Images = {a, b}
    UserOf <- OwnHandler
    Library <- SharedLibrary
    Pickers = {u2}
    PickerWorkers = {}
    FullProgress = 2
    MaxJobs = 3
    MaxFaults = 1
    NoUser = NoUser
    NoItem = NoItem
SPECIFICATION Spec
INVARIANTS OneRunnerPerJob OneActivePerUser
           DoneMeansIndexed ProgressHonest OrphansComeFromFaults
PROPERTIES EndedIsFinal RunShrinks LockedOutForever QueueSpec
