\* Three messages in two inboxes, pages of one or two rows, one deletion request beside
\* purges and retention.
SPECIFICATION Spec
CONSTANTS
    Message <- MCMessage
    Inbox = {i1, i2}
    Deleter = {d1}
    None = None
    MaxLimit = 2
    MaxList = 3
    DefaultList = 1
    MaxIds = 2
    Retention = 0
    Skew = 1
    MaxTime = 1
    MaxChanges = 1
    MaxWalks = 1
SYMMETRY Symmetry
INVARIANTS AuditBalance WalkComplete NoDuplicates
