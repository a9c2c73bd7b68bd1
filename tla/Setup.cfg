\* Every firewall, three runs, two networks: a first run, a forced one and one that repairs.
CONSTANTS
    Nets = {1, 2}
    MaxRuns = 3
    MaxFaults = 2
    Firewalls = {"firewalld", "ufw", "nft"}
SPECIFICATION Spec
CHECK_DEADLOCK FALSE
INVARIANTS NoStrandedKeys CompleteOnDisk CompleteInForce
PROPERTIES OldConfigKept
