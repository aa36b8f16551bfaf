SPECIFICATION FairSpec
CONSTANTS
    MaxVersion = 2
    MaxEvents = 3
    MaxSessions = 2
INVARIANTS
    OncePerConnect
PROPERTIES
    RegistrationReturns
CHECK_DEADLOCK FALSE
