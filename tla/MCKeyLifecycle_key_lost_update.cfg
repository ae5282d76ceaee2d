SPECIFICATION Spec

CONSTANTS
    u1 = u1
    u2 = u2
    k1 = k1
    k2 = k2
    k3 = k3
    NoUser = NoUser
    NoKey = NoKey
    Background = Background
    Users = {u1, u2}
    Keys = {k1, k2}
    Manual = {m}
    Slots = {s1, s2}
    Operations = {"revoke"}
    FirstKey <- BothClaimed
    MaxFaults = 0

INVARIANTS
    RevokedKeyIsDead
