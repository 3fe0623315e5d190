SPECIFICATION Spec
CONSTANTS
    Clients = {1, 2}
    BootArgs = {"none", "nand-disable"}
    Codes = 2
    Every = 2
    MaxTries = 1
    Scripts <- MCScripts
CHECK_DEADLOCK FALSE
INVARIANTS RepliesMatch
PROPERTY RequestsAnswered
