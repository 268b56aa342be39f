CONSTANTS
    Importers = {i1, i2}
    Reviewers = {r1}
    Texts = {"a"}
    MaxRecords = 1
SPECIFICATION InboxSpec
INVARIANT InOnePlace
CHECK_DEADLOCK FALSE
