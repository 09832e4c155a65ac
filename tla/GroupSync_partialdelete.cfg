\* One group, one other user, four server changes (add a member, leave,
\* rejoin), one failed call.
CONSTANTS
    Groups = {g1}
    Users = {u1}
    MaxEvents = 4
    MaxFails = 1
SPECIFICATION Spec
INVARIANT MembersRecoverable
