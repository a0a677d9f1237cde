-------------------------- MODULE MCAccountServices --------------------------
(* One account with three tasks that talk to its server; three messages, two of
   them of one date; mailboxes below the inbox and below another, and one that
   has the path of the local outbox; two items of a feed, with comments of which
   two have one length; two addresses to
   look up, and two passwords. *)
EXTENDS AccountServices

CONSTANTS c1, c2, c3, t1, t2, p1, p2

Dates    == <<1, 2, 2>>
ThreeOf  == {1, 2, 3}
Paths    == {<<1>>, <<1, 2>>, <<9>>, <<5, 1>>}
Subjects == {<<1>>, <<2>>}
Inbox    == <<5>>
Outbox   == <<9>>
TwoItems == {1, 2}
Lengths  == <<1, 1, 2, 0>>
Authored == <<1, 1, 1, 0>>     \* the third has a quote
=============================================================================
