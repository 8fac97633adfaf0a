CONSTANTS
    s1 = s1  s2 = s2  c1 = c1  w1 = w1  w2 = w2  f1 = f1  f2 = f2
    Sessions = {s1}
    Clicks = {c1}
    Watchers = {w1, w2}
    Followers = {f1, f2}
    MaxFaults = 0
    NoSession = NoSession
SPECIFICATION Spec
INVARIANT BusyWhileRunning
