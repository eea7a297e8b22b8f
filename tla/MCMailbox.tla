------------------------------ MODULE MCMailbox ------------------------------
(* Small instances of Mailbox. *)
EXTENDS Mailbox

CONSTANTS m1, m2, m3, a, b, u1, inbox, sent, trash, none

Alike  == [m \in Mails |-> "subject"]
Differ == [m \in Mails |-> m]
=============================================================================
