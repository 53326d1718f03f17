SPECIFICATION FairSpec
CONSTANTS
    alice = alice
    bob = bob
    None = None
    Accounts <- MCAccounts
    AnyPort = 0
    Broken <- MCBroken
    Submitted <- MCSubmitted
    AutoAnswer <- MCAutoAnswer
    MaxClients = 3
INVARIANTS
    Consistent
PROPERTIES
    Released
CHECK_DEADLOCK FALSE
