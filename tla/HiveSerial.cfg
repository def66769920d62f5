SPECIFICATION FairSpec
CONSTANTS
    Conns = {c1, c2}
    Ids = {p}
    NoId = NoId
    Faults = {"crash", "disk"}
    MaxSends = 2
INVARIANTS SingleEntry OneSession MailKept
PROPERTIES NoDoubleShow LoginSettles DeadClientReleased
\* Clients may leave, and no new one needs to come.
CHECK_DEADLOCK FALSE
