\* Two users and two overlapping calls; each address is invited at most twice.
SPECIFICATION MembersSpec
CONSTANTS
    Users = {u1, u2}
    Addresses = {u2}
    NoUser = NoUser
    Calls = {c1, c2}
    MaxOffers = 2
INVARIANTS
    OneJoinPerOffer
PROPERTIES
    OwnersDecideOwnership
    LastOwnerLostOnlyByRace
SYMMETRY Symmetry
