SPECIFICATION BothSpec
CONSTANTS
    c1 = c1
    c2 = c2
    v1 = v1
    v2 = v2
    Requests = {c1, c2, v1, v2, r1, r2, r3}
    Emails = {e1, e2}
    Subs <- TwoSubs
    None = None
SYMMETRY Symmetry
INVARIANTS MailedUsable NoChangeOfTheDead
PROPERTIES MailboxProven NeverAgain CodeNotLost
CHECK_DEADLOCK FALSE
