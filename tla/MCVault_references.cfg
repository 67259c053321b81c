SPECIFICATION Spec
CONSTANTS
    root = root
    t1 = t1
    t2 = t2
    boss = boss
    a1 = a1
    guest = guest
    n1 = n1
    n2 = n2
    key1 = key1
    key2 = key2
    key3 = key3
    pass1 = pass1
    pass2 = pass2
    password = password
    token = token
    other = other
    None = None
    NoValue = NoValue
    Tokens = {root, t1, t2}
    Agents = {boss, a1, guest}
    SessionAgents = {guest}
    Namespaces = {n1, n2}
    Credentials <- AllCredentials
    Operations <- Retains
    Values = {key1, key2, key3, pass1, pass2}
    Digest <- DigestOf
    Labels = {password, token, other}
    FirstOwner <- Owners
    FirstAdmin <- Admins
    FirstGrants <- Granted
    Callers = {c1}
    MaxRequests = 1
INVARIANTS
    ReferencesResolve
CHECK_DEADLOCK FALSE
