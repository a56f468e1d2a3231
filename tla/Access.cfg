CONSTANTS
    ann = ann  bob = bob  cat = cat  new = new
    t1 = t1  t2 = t2  k1 = k1  k2 = k2  s1 = s1  s2 = s2
    tokA = tokA  tokC = tokC  tokNew = tokNew  st1 = st1  st2 = st2
    None = None
    Users = {ann, bob, cat, new}
    Teams = {t1, t2}
    Keys = {k1, k2}
    Tokens = {tokA, tokC, tokNew}
    LoginStates = {st1, st2}
    Requests = {s1, s2}
    Backend = "sqlite"
    Databases <- MCDatabases
SPECIFICATION AccessSpec
INVARIANTS
    DeactivatedStayOut
    
    LastAdminKept
    StateUsedOnce
CHECK_DEADLOCK FALSE
