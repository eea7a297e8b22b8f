--------------------------- MODULE MCConversations ---------------------------
(* Small instances of what is said in conversations: replies to Messenger and *)
(* Instagram (Outbound), and the chat of a visitor of the web site (Widget).  *)
(* They share no message and no conversation; in a behaviour one of them is   *)
(* at work: part says which.                                                  *)
EXTENDS Outbound

CONSTANTS
    r1, r2, d1, e1,                                       \* replies, a direct message, one sent outside
    m1, m2, a1, c0, c1, c2, s1, s2,                       \* messages, threads, connections
    Inbound, Answers, Threads, Foreign, Sockets, Budgets, \* of the web chat
    Parts

VARIABLES
    convs, unread, subject, where, status, phase, at, generic, enriching, marking, removal,
    connected, joining, viewers, page, answer, shown, temps, mine, typing, wire, notes,
    overlap, doomed, seen, late, raced, promised, crashed, budget,
    part

W == INSTANCE Widget WITH Outbound <- Answers, pc <- phase

ASSUME ChatAssumption ==
    /\ Inbound \cap Answers = {}
    /\ Foreign \subseteq Threads /\ None \notin Threads
    /\ Budgets \subseteq [W!Kinds -> Nat]

-----------------------------------------------------------------------------
(* Every text different, or two replies that read the same. *)
Different == [m \in Messages |-> m]
Alike == [m \in Messages |-> IF m \in Replies THEN "a" ELSE "b"]

-----------------------------------------------------------------------------
(* The scenes of the web chat: requests against agents who read and look,     *)
(* against a removal, and the page against its connection.                    *)
Quiet == [loads |-> 0, posts |-> 0, replies |-> 0, opens |-> 0, drops |-> 0, losses |-> 0,
          marks |-> 0, removals |-> 0, joins |-> 0, crashes |-> 0, uploads |-> 0, typings |-> 0]

Scene(f) == [k \in DOMAIN Quiet |-> IF k \in DOMAIN f THEN f[k] ELSE 0]

Reading  == Scene([posts |-> 2, marks |-> 2])
Watching == Scene([posts |-> 1, marks |-> 1, joins |-> 2])
Removing == Scene([posts |-> 2, removals |-> 1])
Replying == Scene([posts |-> 1, replies |-> 1, removals |-> 1])
Showing  == Scene([loads |-> 2, posts |-> 1, replies |-> 1, opens |-> 1, drops |-> 1])
Losing   == Scene([loads |-> 1, posts |-> 1, uploads |-> 1, losses |-> 1])
Typing   == Scene([posts |-> 1, replies |-> 1, opens |-> 2, typings |-> 2])
Crashing == Scene([posts |-> 1, replies |-> 1, removals |-> 1, crashes |-> 1])

Scenes == {Reading, Watching, Removing, Replying, Showing, Losing, Typing, Crashing}
QuietOnly    == {Quiet}
RemovingOnly == {Removing}

-----------------------------------------------------------------------------
chatVars == <<convs, unread, subject, where, status, phase, at, generic, enriching, marking, removal,
              connected, joining, viewers, page, answer, shown, temps, mine, typing, wire, notes,
              overlap, doomed, seen, late, raced, promised, crashed, budget>>

\* A part that is not at work has one scene.
MCInit ==
    /\ Init /\ W!Init /\ part \in Parts
    /\ part = "chat" => channel = "facebook"

Answering == part = "replies" /\ Next /\ UNCHANGED <<chatVars, part>>
Chatting  == part = "chat" /\ W!Next /\ UNCHANGED <<vars, part>>
MCNext == Answering \/ Chatting

MCSpec == MCInit /\ [][MCNext]_<<vars, chatVars, part>>

\* The fairness of the part at work.
MCFairSpec ==
    /\ MCSpec
    /\ \A m \in Replies : WF_vars(part = "replies" /\ Sending(m))
    /\ \A a \in Answers : WF_chatVars(part = "chat" /\ W!Receive(a))
    /\ WF_chatVars(part = "chat" /\ W!adminTypingTimeout)

-----------------------------------------------------------------------------
\* No message of a visitor is lost to the agents: neither by a counter that is reset
\* too early, nor by a conversation that is deleted under it (addMessage, markAsRead, remove).
NothingLost == W!NothingLost

\* A visitor whose requests do not overlap has one thread, and sees a message once
\* (handleWidgetMessage, widget.js).
NothingTwice == W!NothingTwice

\* Who is said to look at a conversation is connected (handleDisconnect).
ViewersAreThere == W!ViewersAreThere

\* The page lists what it was sent, and nobody types for ever (widget.js).
PageSettles == W!PageSettles

\* A removal deletes the conversations of one participant (remove).
OnlyThisParticipant == W!OnlyThisParticipant
=============================================================================
