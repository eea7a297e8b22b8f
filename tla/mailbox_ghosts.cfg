SPECIFICATION FairSpec
CONSTANTS
    m1 = m1
    m2 = m2
    m3 = m3
    a = a
    b = b
    u1 = u1
    inbox = inbox
    sent = sent
    trash = trash
    none = none
    Folders = {inbox, sent, trash}
    Inbox = inbox
    Sent = sent
    Trash = trash
    Fallback = none
    Mails = {m1, m2}
    Subject <- Alike
    Passes = {a}
    Users = {u1}
    Keys = {1, 2, 3}
    Limit = 2
    MaxUid = 2
    MaxEdits = 1
    MaxFaults = 0
PROPERTY GhostsGo
CHECK_DEADLOCK FALSE
