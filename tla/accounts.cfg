SPECIFICATION Spec
CONSTANTS
    r1 = r1
    r2 = r2
    root = root
    ann = ann
    bob = bob
    Users = {root, ann, bob}
    Admins = {root, ann}
    Guests = {bob}
    Bootstrap = root
    Requests = {r1, r2}
    Spare = {}
    TokenTtl = 1
    MaxTokens = 2
    MaxCalls = 4
    MaxTime = 4
SYMMETRY Interchangeable
INVARIANTS
  LinksAreSpent
PROPERTIES
  SessionsFollowPassword
  AdminsRemain
  EndedStaysEnded
CHECK_DEADLOCK FALSE
