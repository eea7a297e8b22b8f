---------------------------- MODULE MCMetaIngest ----------------------------
(* Small instances of MetaIngest.  Two messages of one thread, or one message *)
(* under two ids; two webhook calls at a time beside the polling pass.        *)
EXTENDS MetaIngest, TLC

CONSTANTS m1, m2, i1, i2, w1, w2

\* Each message has one id, as Meta normally reports it.
OwnIds     == [id \in {i1, i2} |-> IF id = i1 THEN m1 ELSE m2]
\* One message, one id.
OneId      == [id \in {i1} |-> m1]
\* One message, reported under two ids.
TwoIds     == [id \in {i1, i2} |-> m1]
OneThread  == [m \in Msgs |-> "t"]
OneThreads == {"t"}
Themselves == {<<m, m>> : m \in Msgs}
AllAlike   == Msgs \X Msgs

WorkerSymmetry == Permutations(Workers)
=============================================================================
