\* Two groups, one other user, four server changes, one failed call.
CONSTANTS
    Groups = {g1, g2}
    Users = {u1}
    MaxEvents = 4
    MaxFails = 1
SPECIFICATION Spec
INVARIANTS
    VersionOwnedByGroup
PROPERTIES
    PassConverges
