CONSTANTS
    Addresses = {"ana", "admin", "user"}
    Passwords = {"p1", "p2"}
    Registrations = {r1, r2}
    Logins = {l1}
    Forms <- SomeForms
    Defaults <- TwoDefaults
    MaxCrashes = 2
SPECIFICATION FairSpec
INVARIANTS
    TypeOK
    OneAccountPerAddress
    ServesWithDefaultAccounts
    RegisteredCanLogIn
    ProfileIsTheOwners
PROPERTIES
    AccountsAreKept
    ServesAgain
CHECK_DEADLOCK FALSE
