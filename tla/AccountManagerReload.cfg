SPECIFICATION Spec
CONSTANTS
    alice = alice
    bob = bob
    None = None
    Accounts <- MCAccounts
    AnyPort = 0
    Broken <- MCBroken
    Submitted <- MCSubmitted
    AutoAnswer <- MCAutoAnswer
    MaxClients = 3
PROPERTY ReloadMatchesStartup
CHECK_DEADLOCK FALSE
