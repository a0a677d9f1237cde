------------------------------ MODULE FlagDeltas ------------------------------
(***************************************************************************)
(* Additions to and removals from a list or a set of names (flags, labels, *)
(* folders): delta_algebra.js.  A list is the number of times it holds     *)
(* each name.                                                              *)
(***************************************************************************)
EXTENDS Naturals

CONSTANT Flags

SetOf(bag) == {f \in Flags : bag[f] > 0}
BagOf(flags) == [f \in Flags |-> IF f \in flags THEN 1 ELSE 0]

Size(bag) == \E f \in Flags : bag[f] > 0
Empty(d) == ~Size(d.add) /\ ~Size(d.remove)

\* normalizeAndApplyChanges: what is added counts as a change even if it is
\* there; what is removed is removed once.
Actual(flags, req) ==
    LET added == [f \in Flags |-> IF f \in req.add THEN flags[f] + 1 ELSE flags[f]]
    IN  [delta |-> [add |-> BagOf(req.add), remove |-> BagOf({f \in req.remove : added[f] > 0})],
         flags |-> [f \in Flags |-> IF f \in req.remove /\ added[f] > 0 THEN added[f] - 1 ELSE added[f]]]

\* normalizeAndApplyChangesToSet: only what is not there is added.
ActualInSet(names, req) ==
    LET added   == req.add \ SetOf(names)
        removed == req.remove \cap (SetOf(names) \cup added)
    IN  [delta |-> [add |-> BagOf(added), remove |-> BagOf(removed)],
         flags |-> BagOf((SetOf(names) \cup added) \ removed)]

\* Mutant of Merge: opposite changes do not cancel.
MergeAppends(old, new) ==
    [add |-> [f \in Flags |-> old.add[f] + new.add[f]], remove |-> [f \in Flags |-> old.remove[f] + new.remove[f]]]

\* mergeChanges: opposite changes cancel out, one for one.
Merge(old, new) ==
    LET Minus(a, b) == [f \in Flags |-> IF a[f] > 0 /\ b[f] > 0 THEN a[f] - 1 ELSE a[f]]
        Rest(a, b)  == [f \in Flags |-> IF a[f] > 0 /\ b[f] = 0 THEN 1 ELSE 0]
        Plus(a, b)  == [f \in Flags |-> a[f] + b[f]]
        cancel == \/ Size(old.add) /\ Size(new.remove)
                  \/ Size(old.remove) /\ Size(new.add)
    IN  IF cancel
        THEN [add    |-> Plus(Minus(old.add, new.remove), Rest(new.add, old.remove)),
              remove |-> Plus(Minus(old.remove, new.add), Rest(new.remove, old.add))]
        ELSE [add |-> Plus(old.add, new.add), remove |-> Plus(old.remove, new.remove)]
=============================================================================
