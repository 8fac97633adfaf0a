CONSTANTS
    u1 = u1  u2 = u2  p1 = p1  x = x  y = y  tokyo = tokyo  beach = beach
    Users = {u1, u2}
    Photos = {x, y}
    Pages = {p1}
    Days <- MCDays
    Places = {tokyo}
    UserOf <- MCUserOf
    Items <- MCItems
    Texts = {beach}
    Versions <- MCVersions
    DayLength = 2
    Limits = {0, 1, 2, 3}
    MaxLimit = 2
    NoUser = NoUser
    NoDay = NoDay
    NoPlace = NoPlace
    NoTime = NoTime
    NoText = NoText
    NoRow = NoRow
SPECIFICATION FairSpec
INVARIANTS NearestFound ShownCanBeOpened ThumbnailsOfShown
PROPERTIES RendersEnd ThumbnailsSettle SearchEnds
