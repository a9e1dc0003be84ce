\* One address, two requests at a time, a second password or a second secret.
CONSTANTS
    Accounts = {a1}
    Browsers = {b1}
    Workers = {w1, w2}
    MaxHashes = 2
    MaxSecrets = 2
    Nobody = nobody
    Idle = idle
SYMMETRY Symmetric
CONSTRAINT OneReplaced
SPECIFICATION AccountSpec
INVARIANTS
    AccountTypeOK
    NobodyEntersUnverified
PROPERTIES
    DeactivationHolds
    UsedLinksStayDead
    PasswordKept
    FactorKept
