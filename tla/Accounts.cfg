CONSTANTS
    a1 = a1  a2 = a2
    Accounts = {a1, a2}
    Browsers = {b1, b2}
    Flows = {f1, f2}
    Logins = {h1, h2}
    Calls = {c1, c2}
    UserIds = {u1, u2}
    RefreshTokens = {t1, t2, t3}
    DevAccount = a1
    DevToken = dev
    NoAccount = NoAccount
    NoBrowser = NoBrowser
    NoFlow = NoFlow
    NoUser = NoUser
    NoRefresh = NoRefresh
SYMMETRY Symmetry
SPECIFICATION Spec
INVARIANTS OneUserPerAccount OwnTokens RowRefreshable RowUsable SessionFromOwnFlow SessionHasTokens
