SPECIFICATION FairSpec

CONSTANTS
    u1 = u1
    u2 = u2
    k1 = k1
    k2 = k2
    k3 = k3
    NoUser = NoUser
    NoKey = NoKey
    Background = Background
    Users = {u1, u2}
    Keys = {k1, k2}
    Manual = {m}
    Slots = {s1}
    Operations = {"revoke", "suspend", "unsuspend", "reconcile", "jobs"}
    FirstKey <- BothClaimed
    MaxFaults = 1

PROPERTIES
    QueuedRevocationHappens
