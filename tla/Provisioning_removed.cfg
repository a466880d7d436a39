SPECIFICATION Spec
CONSTANTS
    Creds = {1}
    Machines = {m1}
    NoMachine = NoMachine
    MaxAccounts = 1
    MaxRequests = 1
    MaxFaults = 0
INVARIANT RemovedIsTornDown
