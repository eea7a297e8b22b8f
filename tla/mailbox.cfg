SPECIFICATION FairSpec
CONSTANTS
    m1 = m1
    m2 = m2
    m3 = m3
    a = a
    b = b
    u1 = u1
    inbox = inbox
    sent = sent
    trash = trash
    none = none
    Folders = {inbox, sent, trash}
    Inbox = inbox
    Sent = sent
    Trash = trash
    Fallback = none
    Mails = {m1, m2}
    Subject <- Alike
    Passes = {a, b}
    Users = {u1}
    Keys = {1, 2, 3, 4}
    Limit = 1
    MaxUid = 2
    MaxEdits = 1
    MaxFaults = 1
INVARIANTS OneCopyEach StandsForItsMail
PROPERTIES MailsGetMirrored DeletesWhatWasAsked
CHECK_DEADLOCK FALSE
