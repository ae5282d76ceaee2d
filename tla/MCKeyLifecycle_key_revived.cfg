SPECIFICATION Spec

CONSTANTS
    u1 = u1
    u2 = u2
    k1 = k1
    k2 = k2
    k3 = k3
    NoUser = NoUser
    NoKey = NoKey
    Background = Background
    Users = {u1}
    Keys = {k1}
    Manual = {m}
    Slots = {s1}
    Operations = {"suspend", "delete", "jobs"}
    FirstKey <- OneClaimed
    MaxFaults = 1

PROPERTIES
    DeletedForGood
