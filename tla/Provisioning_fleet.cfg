SPECIFICATION FairSpec
CONSTANTS
    Creds = {1, 2}
    Machines = {m1, m2}
    NoMachine = NoMachine
    MaxAccounts = 1
    MaxRequests = 2
    MaxFaults = 1
INVARIANTS  TerminalsAccountedFor ActiveIsServed
PROPERTIES RemovedIsFinal JobsAreServed
