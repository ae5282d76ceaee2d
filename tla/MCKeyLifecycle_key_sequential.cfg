SPECIFICATION Spec

CONSTANTS
    u1 = u1
    u2 = u2
    k1 = k1
    k2 = k2
    k3 = k3
    NoUser = NoUser
    NoKey = NoKey
    Background = Background
    Users = {u1}
    Keys = {k1, k2, k3}
    Manual = {m}
    Slots = {s1}
    Operations = {"claim", "revoke", "test", "suspend", "delete", "jobs", "external", "cutoff"}
    FirstKey <- OneClaimed
    MaxFaults = 2

INVARIANTS
    AtMostOneUsableKey
    SuspendedHasNoActiveKey
    RevokedKeyIsDead

PROPERTIES
    KeepsTheLedger
