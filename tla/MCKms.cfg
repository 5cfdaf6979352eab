\* With and without a fleet key: two sealers, two calls.
\* Two-valued bytes: a length field of two digits announces at most 3.
CONSTANTS
    Calls = {c1, c2}
    Slots = 2
    NoCall = NoCall
    Base = 2
    Version = 1
    MaxPublic = 6
    MaxPrivate = 3
    Publics <- AllPublics
    Privates <- AllPrivates
SPECIFICATION MCSpec
INVARIANTS
    TypeOK
    HandlesAccounted
    LegacyOnlyDecrypts
    ReadBackOrRejected
    DamageIsNeverMisread
PROPERTIES
    KeepsPromise
    EveryCallAnswered
CHECK_DEADLOCK FALSE
