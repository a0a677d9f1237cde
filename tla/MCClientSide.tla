----------------------------- MODULE MCClientSide -----------------------------
(* Two views of one folder, a search with a derived view, and a tracked item; one
   address that two contacts may have, and two peeps; three messages in two
   conversations, two there from the start; two accounts, one with two folders,
   of which only one is there from the start; any message replied to, and a draft
   that is edited. *)
EXTENDS ClientSide

CONSTANTS view1, view2, search, derived, item, inbox, a1, a2, f1, f2, f3, s, me, x, y

MCLists  == {view1, view2, search}
MCKids   == {derived}
MCItems  == {item}
MCParent == [k \in MCKids |-> search]
MCFolder == [h \in MCLists |-> IF h = search THEN None ELSE inbox]

MCTalk   == <<"a", "a", "b">>
MCOf     == [d \in {f1, f2, f3} |-> IF d = f3 THEN a2 ELSE a1]
MCEdited == {[to |-> {me}, cc |-> {y}, author |-> x, own |-> me, mode |-> "all"]}
=============================================================================
