CONSTANTS
    a = a
    b = b
    Key = {a, b}
    NoKey = NoKey
    NoSubject = "none"
    Subject = {"none", "u"}
    NoName = "null"
    Name = {"null", "n"}
    Derivations <- MCDerivations
    Envelope <- MCEnvelope
    Models <- MCModels
    Writer = {1, 2}
    Limit = 1
    MaxId = 5
    MaxTime = 1
    MaxCalls = 2
SPECIFICATION Spec
INVARIANTS RollupsAreTheFold ListedOnce AnswersAgree
PROPERTY IdentityIsKept
CHECK_DEADLOCK FALSE
