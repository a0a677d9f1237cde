----------------------------- MODULE ListMirror -----------------------------
(***************************************************************************)
(* What a list view promises the front end: it shows the list as it was at *)
(* some moment, those moments never go backwards, and it catches up with   *)
(* the list whenever the list stays as it is for long enough.              *)
(***************************************************************************)
EXTENDS Naturals, Sequences

CONSTANT Rows   \* what a row may be

VARIABLES
    list,    \* the list as the back end has it
    sent,    \* the lists that were sent and not shown yet, oldest first
    shown    \* the list that the front end shows

vars == <<list, sent, shown>>

TypeOK ==
    /\ list \in Seq(Rows)
    /\ sent \in Seq(Seq(Rows))
    /\ shown \in Seq(Rows)

Init ==
    /\ list \in Seq(Rows)
    /\ sent = << >>
    /\ shown = << >>

\* Anything may happen to the list.
Change ==
    /\ list' \in Seq(Rows)
    /\ UNCHANGED <<sent, shown>>

\* The list is sent as it is now.
Send ==
    /\ sent' = Append(sent, list)
    /\ UNCHANGED <<list, shown>>

Deliver ==
    /\ sent # << >>
    /\ shown' = Head(sent) /\ sent' = Tail(sent)
    /\ UNCHANGED list

Next == Change \/ Send \/ Deliver

Spec == Init /\ [][Next]_vars

\* The front end will show something else than the list.
Stale == list # IF sent = << >> THEN shown ELSE sent[Len(sent)]

Fairness == WF_vars(Deliver) /\ WF_vars(Stale /\ Send)

FairSpec == Spec /\ Fairness

=============================================================================
