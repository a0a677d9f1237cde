--------------------------- MODULE MCTaskManager ---------------------------
(* Small instances of TaskManager: a simple task s1, at-most-once tasks    *)
(* c1, c2 of the same bin b1, a non-persistent task v1 and an orphan o1.    *)
EXTENDS TaskManager

CONSTANTS s1, v1, o1, c1, c2, b1, online, happy

MCBinOf == [t \in Complex |-> b1]

\* A sync of the bin needs the network and a healthy account.
MCNeeds == [b \in Bins |-> Resources]

=============================================================================
