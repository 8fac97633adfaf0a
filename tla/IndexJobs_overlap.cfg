CONSTANTS
    u1 = u1  u2 = u2  h1 = h1  h2 = h2  a = a  b = b  v = v
    Users = {u1}
    Handlers = {h1, h2}
    Workers = {w1, w2}
    Items = {a, b, v}
    Images = {a, b}
    UserOf <- SameUser
    Library <- OneLibrary
    Pickers = {}
    PickerWorkers = {}
    FullProgress = 2
    MaxJobs = 2
    MaxFaults = 0
    NoUser = NoUser
    NoItem = NoItem
SPECIFICATION Spec
INVARIANT OneActivePerUser
