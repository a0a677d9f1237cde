-------------------------- MODULE TaskGroupsProofs --------------------------
(***************************************************************************)
(* Task groups account for what is outstanding: proofs for any kinds of    *)
(* tasks, any number of them, and any of them spawning any other.          *)
(*                                                                         *)
(* What TaskGroupTracker does to its groups is shown first, as facts about *)
(* its methods: each keeps the counts exact, but for the groups that it    *)
(* makes lose track of something.  A thing is part of a group as long as   *)
(* one can climb to it, by way of parents, from the thing's own group or   *)
(* from a group that lost track; and no group on the way is resolved.      *)
(***************************************************************************)
EXTENDS TaskGroups, FiniteSetTheorems, FunctionTheorems, TLAPS

\* What the tracker's tables look like between two calls of its methods.
Sound(T) ==
    /\ T = [groups |-> T.groups, named |-> T.named, owner |-> T.owner, reuses |-> T.reuses]
    /\ T.groups \in Seq(Group)
    /\ \A g \in DOMAIN T.groups :
        /\ T.groups[g].parent \in DOMAIN T.groups \cup {0}
        /\ T.groups[g].resolved <=> T.groups[g].pending = 0
    /\ T.named \in [DOMAIN T.named -> DOMAIN T.groups] /\ DOMAIN T.named \subseteq Bins
    /\ \A b \in DOMAIN T.named : T.groups[T.named[b]].pending # 0
    /\ T.owner \in [DOMAIN T.owner -> DOMAIN T.groups] /\ IsFiniteSet(DOMAIN T.owner)

\* Groups count what they have heard of, those in L have not heard of all of it.
Exact(T, L) ==
    /\ L \subseteq DOMAIN T.groups
    /\ \A g \in DOMAIN T.groups :
        IF g \in L THEN T.groups[g].pending > Heard(T, g) ELSE T.groups[g].pending = Heard(T, g)

\* The groups that one can climb to from x, or from a group in L.
Climb(T, L, x) == UNION {Path(T, g) : g \in L \cup ({OwnerOf(T, x)} \ {0})}

\* A thing of which B knows what it is part of is found by climbing.
Found(T, L, B) == \A x \in DOMAIN B : B[x] \subseteq Climb(T, L, x)

\* A sequence, and that nothing is twice in it.
IsSeq(s) == s \in Seq(Range(s))
Once(s) == \A i, j \in DOMAIN s : s[i] = s[j] => i = j

\* A thing is in one place.
Apart ==
    /\ Once(queue) /\ Once(adding)
    /\ Range(queue) \cap Range(adding) = {}
    /\ heap \cap (Range(queue) \cup Range(adding)) = {}

GroupsInv ==
    /\ TypeOK
    /\ Sound(tracker) /\ Exact(tracker, leaky) /\ Found(tracker, leaky, belongs)
    /\ Apart
    /\ kind \in [Tasks -> Kinds]

-----------------------------------------------------------------------------
(* Climbing. *)

LEMMA UpFacts ==
    ASSUME NEW T, NEW g, NEW C
    PROVE  /\ Up(T, g, C) \subseteq C
           /\ g \in C => g \in Up(T, g, C)
           /\ g \notin C => Up(T, g, C) = {}
           /\ \A k \in Up(T, g, C) : T.groups[k].parent \in C => T.groups[k].parent \in Up(T, g, C)
BY DEF Up

LEMMA UpLeast ==
    ASSUME NEW T, NEW g, NEW C, NEW S, S \subseteq C, g \in S,
           \A k \in S : T.groups[k].parent \in C => T.groups[k].parent \in S
    PROVE  Up(T, g, C) \subseteq S
BY DEF Up

\* Whoever climbs from g is at g or climbs from its parent.
LEMMA UpStep ==
    ASSUME NEW T, NEW C, NEW g \in C, NEW k \in Up(T, g, C), k # g
    PROVE  T.groups[g].parent \in C /\ k \in Up(T, T.groups[g].parent, C)
<1> DEFINE p == T.groups[g].parent
<1> DEFINE S == {g} \cup Up(T, p, C)
<1>1. S \subseteq C /\ g \in S
  BY UpFacts
<1>2. ASSUME NEW h \in S, T.groups[h].parent \in C PROVE T.groups[h].parent \in S
  <2>1. CASE h = g
    BY <1>2, <2>1, UpFacts
  <2>2. CASE h \in Up(T, p, C)
    BY <1>2, <2>2, UpFacts
  <2> QED
    BY <2>1, <2>2
<1>3. Up(T, g, C) \subseteq S
  <2> HIDE DEF S
  <2> QED
    BY <1>1, <1>2, UpLeast
<1> QED
  BY <1>3, UpFacts

\* There is one way up: of two groups on it one is above the other.
LEMMA UpLinear ==
    ASSUME NEW T, NEW C, NEW g \in C,
           NEW h \in Up(T, g, C), NEW k \in Up(T, g, C)
    PROVE  h \in Up(T, k, C) \/ k \in Up(T, h, C)
<1> DEFINE S == {i \in Up(T, g, C) : \A j \in Up(T, g, C) : i \in Up(T, j, C) \/ j \in Up(T, i, C)}
<1>1. S \subseteq C
  BY UpFacts
<1>2. g \in S
  BY UpFacts
<1>3. ASSUME NEW i \in S, T.groups[i].parent \in C PROVE T.groups[i].parent \in S
  <2> DEFINE p == T.groups[i].parent
  <2>1. p \in Up(T, g, C) /\ i \in C
    BY <1>3, UpFacts
  <2>2. ASSUME NEW j \in Up(T, g, C) PROVE p \in Up(T, j, C) \/ j \in Up(T, p, C)
    <3>1. CASE i \in Up(T, j, C)
      BY <1>3, <3>1, UpFacts
    <3>2. CASE j \in Up(T, i, C) /\ j # i
      BY <2>1, <3>2, UpStep
    <3>3. CASE j = i
      BY <1>3, <2>1, <3>3, UpFacts
    <3> QED
      BY <3>1, <3>2, <3>3
  <2> QED
    BY <2>1, <2>2
<1>4. Up(T, g, C) \subseteq S
  <2> HIDE DEF S
  <2> QED
    BY <1>1, <1>2, <1>3, UpLeast
<1> QED
  BY <1>4

\* Two groups on the way up have the same parent on it only if they are the same.
LEMMA UpOnlyChild ==
    ASSUME NEW T, NEW C, NEW g \in C,
           NEW h \in Up(T, g, C), NEW k \in Up(T, g, C), h # k,
           T.groups[h].parent = T.groups[k].parent
    PROVE  T.groups[h].parent \in C
<1>1. h \in C /\ k \in C
  BY UpFacts
<1>2. CASE h \in Up(T, k, C)
  BY <1>1, <1>2, UpStep
<1>3. CASE k \in Up(T, h, C)
  BY <1>1, <1>3, UpStep
<1> QED
  BY <1>2, <1>3, UpLinear

\* What is on the way up was climbed to from below.
LEMMA UpFromBelow ==
    ASSUME NEW T, NEW C, NEW g \in C, NEW h \in Up(T, g, C), h # g
    PROVE  \E k \in Up(T, g, C) : T.groups[k].parent = h
<1> SUFFICES ASSUME \A k \in Up(T, g, C) : T.groups[k].parent # h PROVE FALSE
  OBVIOUS
<1> DEFINE S == Up(T, g, C) \ {h}
<1>1. S \subseteq C /\ g \in S
  BY UpFacts
<1>2. \A k \in S : T.groups[k].parent \in C => T.groups[k].parent \in S
  BY UpFacts
<1>3. Up(T, g, C) \subseteq S
  <2> HIDE DEF S
  <2> QED
    BY <1>1, <1>2, UpLeast
<1> QED
  BY <1>3

\* What one climbs to from x and L has them and the parents of what it has.
LEMMA ClimbFacts ==
    ASSUME NEW T, NEW L, NEW x, L \subseteq Open(T), OwnerOf(T, x) \in Open(T) \cup {0}
    PROVE  /\ Climb(T, L, x) \subseteq Open(T) /\ L \subseteq Climb(T, L, x)
           /\ OwnerOf(T, x) # 0 => OwnerOf(T, x) \in Climb(T, L, x)
           /\ \A k \in Climb(T, L, x) :
                T.groups[k].parent \in Open(T) => T.groups[k].parent \in Climb(T, L, x)
<1> DEFINE P(h) == Up(T, h, Open(T))
<1>1. \A h : P(h) \subseteq Open(T) /\ (h \in Open(T) => h \in P(h))
  BY UpFacts
<1>2. \A h : \A k \in P(h) : T.groups[k].parent \in Open(T) => T.groups[k].parent \in P(h)
  BY UpFacts
<1>3. Climb(T, L, x) = UNION {P(h) : h \in L \cup ({OwnerOf(T, x)} \ {0})}
  BY DEF Climb, Path
<1> HIDE DEF P
<1> QED
  BY <1>1, <1>2, <1>3

\* And it is no more than that.
LEMMA ClimbLeast ==
    ASSUME NEW T, NEW L, NEW x, NEW S, S \subseteq Open(T), L \subseteq S,
           OwnerOf(T, x) \in S \cup {0},
           \A k \in S : T.groups[k].parent \in Open(T) => T.groups[k].parent \in S
    PROVE  Climb(T, L, x) \subseteq S
<1>1. ASSUME NEW g \in S PROVE Path(T, g) \subseteq S
  BY UpLeast DEF Path
<1> QED
  BY <1>1 DEF Climb

-----------------------------------------------------------------------------
(* Counting. *)

LEMMA SoundFacts ==
    ASSUME NEW T, Sound(T)
    PROVE  /\ DOMAIN T.groups = 1..Len(T.groups) /\ Len(T.groups) \in Nat
           /\ 0 \notin DOMAIN T.groups /\ DOMAIN T.groups \subseteq Nat
           /\ Open(T) \subseteq DOMAIN T.groups /\ IsFiniteSet(Open(T))
           /\ \A g \in DOMAIN T.groups : T.groups[g] \in Group
           /\ \A g \in DOMAIN T.groups : T.groups[g].pending \in Nat
<1>1. DOMAIN T.groups = 1..Len(T.groups) /\ Len(T.groups) \in Nat
  BY DEF Sound
<1>2. IsFiniteSet(DOMAIN T.groups)
  <2> DEFINE n == Len(T.groups)
  <2>1. n \in Int
    BY <1>1
  <2>2. IsFiniteSet(1..n)
    <3> HIDE DEF n
    <3> QED
      BY <2>1, FS_Interval
  <2> QED
    BY <1>1, <2>2
<1>3. \A g \in DOMAIN T.groups : T.groups[g] \in Group
  BY DEF Sound
<1>4. Open(T) \subseteq DOMAIN T.groups
  BY DEF Open
<1> QED
  BY <1>1, <1>2, <1>3, <1>4, FS_Subset DEF Group

LEMMA HeardFacts ==
    ASSUME NEW T, Sound(T), NEW g
    PROVE  /\ IsFiniteSet(Members(T, g)) /\ IsFiniteSet(Subgroups(T, g))
           /\ Cardinality(Members(T, g)) \in Nat /\ Cardinality(Subgroups(T, g)) \in Nat
           /\ Heard(T, g) \in Nat
           /\ Heard(T, g) = Cardinality(Members(T, g)) + Cardinality(Subgroups(T, g))
<1>1. Members(T, g) \subseteq DOMAIN T.owner /\ IsFiniteSet(DOMAIN T.owner)
  BY DEF Members, Sound
<1>2. Subgroups(T, g) \subseteq Open(T) /\ IsFiniteSet(Open(T))
  BY SoundFacts DEF Subgroups
<1>3. IsFiniteSet(Members(T, g)) /\ IsFiniteSet(Subgroups(T, g))
  BY <1>1, <1>2, FS_Subset
<1>4. Cardinality(Members(T, g)) \in Nat /\ Cardinality(Subgroups(T, g)) \in Nat
  BY <1>3, FS_CardinalityType
<1> QED
  BY <1>3, <1>4 DEF Heard

\* A group that waits for nothing has neither members nor open subgroups, and one
\* that waits for one thing has one of these at most.
LEMMA FewAreHeard ==
    ASSUME NEW T, NEW L, Sound(T), Exact(T, L), NEW g \in DOMAIN T.groups
    PROVE  /\ T.groups[g].resolved => Members(T, g) = {} /\ Subgroups(T, g) = {} /\ g \notin L
           /\ T.groups[g].pending = 1 =>
                /\ \A h, k \in Subgroups(T, g) : h = k
                /\ Members(T, g) = {} \/ Subgroups(T, g) = {}
                /\ Members(T, g) # {} \/ Subgroups(T, g) # {} => g \notin L
<1>1. /\ T.groups[g].pending \in Nat /\ T.groups[g].pending >= Heard(T, g)
      /\ g \in L => T.groups[g].pending > Heard(T, g)
  BY SoundFacts, HeardFacts DEF Exact
<1>2. T.groups[g].resolved <=> T.groups[g].pending = 0
  BY DEF Sound
<1>3. /\ Members(T, g) # {} => Cardinality(Members(T, g)) >= 1
      /\ Subgroups(T, g) # {} => Cardinality(Subgroups(T, g)) >= 1
  BY HeardFacts, FS_EmptySet
<1>4. ASSUME Cardinality(Subgroups(T, g)) <= 1 PROVE \A h, k \in Subgroups(T, g) : h = k
  <2>1. CASE Cardinality(Subgroups(T, g)) = 0
    BY <2>1, HeardFacts, FS_EmptySet
  <2>2. CASE Cardinality(Subgroups(T, g)) = 1
    BY <2>2, HeardFacts, FS_Singleton
  <2> QED
    BY <1>4, <2>1, <2>2, HeardFacts
<1>5. CASE T.groups[g].resolved
  BY <1>1, <1>2, <1>3, <1>5, HeardFacts
<1>6. CASE T.groups[g].pending = 1
  <2>1. /\ Cardinality(Subgroups(T, g)) <= 1
        /\ Members(T, g) = {} \/ Subgroups(T, g) = {}
        /\ Members(T, g) # {} \/ Subgroups(T, g) # {} => g \notin L
    BY <1>1, <1>3, <1>6, HeardFacts
  <2> QED
    BY <1>2, <1>4, <1>6, <2>1
<1> QED
  BY <1>5, <1>6

-----------------------------------------------------------------------------
(* ensureNamedTaskGroup. *)

\* The group that had the task so far, and what group g had before it was made.
Before(T, g) == IF g \in DOMAIN T.groups THEN T.groups[g].pending ELSE 0
Above(T, g)  == IF g \in DOMAIN T.groups THEN T.groups[g].parent ELSE 0

\* Group g takes the place of x.
Takes(T, U, name, x, g) ==
    /\ U = [groups |-> U.groups, named |-> U.named, owner |-> U.owner, reuses |-> T.reuses]
    /\ U.groups \in Seq(Group) /\ DOMAIN U.groups = DOMAIN T.groups \cup {g}
    /\ g \in DOMAIN T.groups <=> name \in DOMAIN T.named
    /\ name \in DOMAIN T.named => g = T.named[name] /\ T.groups[g].pending # 0
    /\ \A h \in DOMAIN T.groups : h # g => U.groups[h] = T.groups[h]
    /\ U.groups[g].pending = Before(T, g) + 1 /\ ~U.groups[g].resolved
    /\ U.groups[g].parent = IF OwnerOf(T, x) = g THEN Above(T, g) ELSE OwnerOf(T, x)
    /\ U.owner \in [DOMAIN T.owner \cup {x} -> DOMAIN U.groups]
    /\ U.owner[x] = g /\ \A y \in DOMAIN T.owner : y # x => U.owner[y] = T.owner[y]
    /\ U.named \in [DOMAIN T.named \cup ({name} \cap Bins) -> DOMAIN U.groups]
    /\ \A b \in DOMAIN U.named : U.named[b] = IF b \in DOMAIN T.named THEN T.named[b] ELSE g

LEMMA UnderIs ==
    ASSUME NEW r \in Group, NEW p \in Nat
    PROVE  /\ Under(r, p) \in Group
           /\ Under(r, p).parent = p /\ Under(r, p).pending = r.pending + 1
           /\ Under(r, p).resolved = r.resolved
<1> DEFINE q == r.pending + 1
<1>1. q \in Nat
  BY DEF Group
<1> HIDE DEF q
<1>2. [r EXCEPT !.parent = p, !.pending = q] \in Group
  BY <1>1 DEF Group
<1>3. /\ [r EXCEPT !.parent = p, !.pending = q].parent = p
      /\ [r EXCEPT !.parent = p, !.pending = q].pending = q
      /\ [r EXCEPT !.parent = p, !.pending = q].resolved = r.resolved
  BY <1>1 DEF Group
<1> QED
  BY <1>2, <1>3 DEF Under, q

LEMMA MakeIs ==
    ASSUME NEW T, Sound(T), NEW name \in Bins \cup {None}
    PROVE  LET V == Make(T, name)
               n == Len(T.groups) + 1
           IN /\ V = [groups |-> V.groups, named |-> V.named, owner |-> T.owner, reuses |-> T.reuses]
              /\ V.groups \in Seq(Group) /\ Len(V.groups) = n
              /\ DOMAIN V.groups = DOMAIN T.groups \cup {n} /\ n \notin DOMAIN T.groups
              /\ \A h \in DOMAIN T.groups : V.groups[h] = T.groups[h]
              /\ V.groups[n].pending = 0 /\ V.groups[n].parent = 0 /\ ~V.groups[n].resolved
              /\ V.named = IF name = None THEN T.named ELSE With(T.named, name, n)
<1> DEFINE new == [name |-> name, pending |-> 0, parent |-> 0, resolved |-> FALSE, follow |-> FALSE]
<1>1. T.groups \in Seq(Group) /\ new \in Group
  <2>1. new \in Group
    BY DEF Group
  <2> QED
    BY <2>1 DEF Sound
<1>2. Make(T, name) = [groups |-> Append(T.groups, new),
                       named |-> IF name = None THEN T.named ELSE With(T.named, name, Len(T.groups) + 1),
                       owner |-> T.owner, reuses |-> T.reuses]
  <2> DEFINE gs == Append(T.groups, new)
  <2> DEFINE ns == IF name = None THEN T.named ELSE With(T.named, name, Len(T.groups) + 1)
  <2>1. Make(T, name) = [T EXCEPT !.groups = gs, !.named = ns]
    BY DEF Make
  <2> HIDE DEF gs, ns
  <2>2. Make(T, name) = [groups |-> gs, named |-> ns, owner |-> T.owner, reuses |-> T.reuses]
    BY <2>1 DEF Sound
  <2> QED
    BY <2>2 DEF gs, ns
<1>3. new.pending = 0 /\ new.parent = 0 /\ ~new.resolved
  OBVIOUS
<1> HIDE DEF new
<1>4. /\ Append(T.groups, new) \in Seq(Group) /\ Len(Append(T.groups, new)) = Len(T.groups) + 1
      /\ DOMAIN T.groups = 1..Len(T.groups) /\ Len(T.groups) \in Nat
      /\ \A h \in DOMAIN T.groups : Append(T.groups, new)[h] = T.groups[h]
      /\ Append(T.groups, new)[Len(T.groups) + 1] = new
  BY <1>1
<1>5. DOMAIN Append(T.groups, new) = DOMAIN T.groups \cup {Len(T.groups) + 1}
      /\ Len(T.groups) + 1 \notin DOMAIN T.groups
  BY <1>4
<1> QED
  BY <1>2, <1>3, <1>4, <1>5

LEMMA EnsureNamedTakes ==
    ASSUME NEW T, Sound(T), NEW name \in Bins \cup {None}, NEW x
    PROVE  \E g : Takes(T, EnsureNamed(T, name, x), name, x, g)
<1> DEFINE U   == EnsureNamed(T, name, x)
<1> DEFINE own == OwnerOf(T, x)
<1>1. own \in DOMAIN T.groups \cup {0} /\ own \in Nat
  BY SoundFacts DEF OwnerOf, Sound
<1>2. None \notin DOMAIN T.named /\ DOMAIN T.named \subseteq Bins
  BY TaskGroupsAssumption DEF Sound
<1> DEFINE V == IF name \in DOMAIN T.named THEN T ELSE Make(T, name)
<1> DEFINE g == IF name \in DOMAIN T.named THEN T.named[name] ELSE Len(V.groups)
<1>3. U = [V EXCEPT !.groups[g] = Under(V.groups[g], IF own = g THEN V.groups[g].parent ELSE own),
                    !.owner = With(V.owner, x, g)]
  BY DEF EnsureNamed
<1>4. /\ V = [groups |-> V.groups, named |-> V.named, owner |-> T.owner, reuses |-> T.reuses]
      /\ V.groups \in Seq(Group) /\ DOMAIN V.groups = DOMAIN T.groups \cup {g}
      /\ g \in DOMAIN T.groups <=> name \in DOMAIN T.named
      /\ name \in DOMAIN T.named => g = T.named[name] /\ T.groups[g].pending # 0
      /\ \A h \in DOMAIN T.groups : V.groups[h] = T.groups[h]
      /\ V.groups[g].pending = Before(T, g) /\ ~V.groups[g].resolved
      /\ V.groups[g].parent = Above(T, g)
      /\ V.groups[g] \in Group
      /\ V.named \in [DOMAIN T.named \cup ({name} \cap Bins) -> DOMAIN V.groups]
      /\ \A b \in DOMAIN V.named : V.named[b] = IF b \in DOMAIN T.named THEN T.named[b] ELSE g
  <2>1. CASE name \in DOMAIN T.named
    <3>1. V = T /\ g = T.named[name] /\ g \in DOMAIN T.groups /\ T.groups[g].pending # 0
      BY <2>1 DEF Sound
    <3> HIDE DEF V, g
    <3>2. T.groups[g] \in Group /\ ~T.groups[g].resolved
      BY <3>1, SoundFacts DEF Sound
    <3>3. DOMAIN T.named \cup ({name} \cap Bins) = DOMAIN T.named
      BY <2>1
    <3> QED
      BY <2>1, <3>1, <3>2, <3>3 DEF Sound, Before, Above
  <2>2. CASE name \notin DOMAIN T.named
    <3>1. V = Make(T, name) /\ g = Len(V.groups)
      BY <2>2
    <3> HIDE DEF V, g
    <3>2. /\ V = [groups |-> V.groups, named |-> V.named, owner |-> T.owner, reuses |-> T.reuses]
          /\ V.groups \in Seq(Group) /\ DOMAIN V.groups = DOMAIN T.groups \cup {g} /\ g \notin DOMAIN T.groups
          /\ \A h \in DOMAIN T.groups : V.groups[h] = T.groups[h]
          /\ V.groups[g].pending = 0 /\ V.groups[g].parent = 0 /\ ~V.groups[g].resolved
          /\ V.named = IF name = None THEN T.named ELSE With(T.named, name, g)
      BY <3>1, MakeIs
    <3>3. V.groups[g] \in Group
      BY <3>2
    <3>4. T.named \in [DOMAIN T.named -> DOMAIN T.groups]
      BY DEF Sound
    <3>5. /\ V.named \in [DOMAIN T.named \cup ({name} \cap Bins) -> DOMAIN V.groups]
          /\ \A b \in DOMAIN V.named : V.named[b] = IF b \in DOMAIN T.named THEN T.named[b] ELSE g
      <4>1. CASE name = None
        <5>1. V.named = T.named /\ {name} \cap Bins = {}
          BY <3>2, <4>1, TaskGroupsAssumption
        <5> QED
          BY <3>2, <3>4, <5>1
      <4>2. CASE name # None
        <5>1. V.named = With(T.named, name, g) /\ {name} \cap Bins = {name}
          BY <3>2, <4>2
        <5>2. /\ V.named \in [DOMAIN T.named \cup {name} -> DOMAIN T.groups \cup {g}]
              /\ V.named[name] = g
              /\ \A b \in DOMAIN T.named : b # name => V.named[b] = T.named[b]
          <6> DEFINE f == T.named
          <6>1. f \in [DOMAIN T.named -> DOMAIN T.groups]
            BY <3>4
          <6> HIDE DEF f
          <6>2. /\ With(f, name, g) \in [DOMAIN T.named \cup {name} -> DOMAIN T.groups \cup {g}]
                /\ With(f, name, g)[name] = g
                /\ \A b \in DOMAIN T.named : b # name => With(f, name, g)[b] = f[b]
            BY <6>1 DEF With
          <6> QED
            BY <5>1, <6>2 DEF f
        <5> QED
          BY <2>2, <3>2, <5>1, <5>2
      <4> QED
        BY <4>1, <4>2
    <3> QED
      BY <2>2, <3>2, <3>3, <3>5 DEF Before, Above
  <2> QED
    BY <2>1, <2>2
<1>5. T.owner \in [DOMAIN T.owner -> DOMAIN T.groups]
  BY DEF Sound
<1> HIDE DEF U, V, g, own
<1>6. /\ U = [groups |-> U.groups, named |-> V.named, owner |-> U.owner, reuses |-> T.reuses]
      /\ U.groups \in Seq(Group) /\ DOMAIN U.groups = DOMAIN V.groups
      /\ U.groups[g].parent = IF own = g THEN V.groups[g].parent ELSE own
      /\ U.groups[g].pending = V.groups[g].pending + 1 /\ U.groups[g].resolved = V.groups[g].resolved
      /\ \A h \in DOMAIN V.groups : h # g => U.groups[h] = V.groups[h]
      /\ U.owner = With(T.owner, x, g)
  <2>1. /\ V.owner = T.owner /\ V.reuses = T.reuses /\ g \in DOMAIN V.groups
        /\ V = [groups |-> V.groups, named |-> V.named, owner |-> V.owner, reuses |-> V.reuses]
    BY <1>4
  <2>2. /\ U = [groups |-> U.groups, named |-> V.named, owner |-> U.owner, reuses |-> V.reuses]
        /\ U.groups \in Seq(Group) /\ DOMAIN U.groups = DOMAIN V.groups
        /\ U.groups[g].parent = IF own = g THEN V.groups[g].parent ELSE own
        /\ U.groups[g].pending = V.groups[g].pending + 1 /\ U.groups[g].resolved = V.groups[g].resolved
        /\ \A h \in DOMAIN V.groups : h # g => U.groups[h] = V.groups[h]
        /\ U.owner = With(V.owner, x, g)
    <3> DEFINE r == V.groups[g]
    <3> DEFINE p == IF own = g THEN r.parent ELSE own
    <3>1. r \in Group /\ p \in Nat
      BY <1>1, <1>4 DEF Group
    <3> DEFINE o == With(V.owner, x, g)
    <3>2. U = [V EXCEPT !.groups[g] = Under(r, p), !.owner = o]
      BY <1>3
    <3>3. /\ Under(r, p) \in Group
          /\ Under(r, p).parent = p /\ Under(r, p).pending = r.pending + 1
          /\ Under(r, p).resolved = r.resolved
      <4> HIDE DEF r, p
      <4> QED
        BY <3>1, UnderIs
    <3> DEFINE new == Under(r, p)
    <3> HIDE DEF new, o
    <3>4. /\ U.groups = [V.groups EXCEPT ![g] = new] /\ U.owner = o
          /\ U = [groups |-> U.groups, named |-> V.named, owner |-> U.owner, reuses |-> V.reuses]
      BY <2>1, <3>2 DEF new
    <3>5. new \in Group
      BY <3>3 DEF new
    <3>6. U.groups \in Seq(Group) /\ DOMAIN U.groups = DOMAIN V.groups /\ U.groups[g] = new
          /\ \A h \in DOMAIN V.groups : h # g => U.groups[h] = V.groups[h]
      BY <1>4, <2>1, <3>4, <3>5
    <3> QED
      BY <3>3, <3>4, <3>6 DEF new, o
  <2> QED
    BY <2>1, <2>2
<1>7. /\ U.owner \in [DOMAIN T.owner \cup {x} -> DOMAIN T.groups \cup {g}]
      /\ U.owner[x] = g
      /\ \A y \in DOMAIN T.owner : y # x => U.owner[y] = T.owner[y]
  <2> DEFINE f == T.owner
  <2>1. f \in [DOMAIN T.owner -> DOMAIN T.groups]
    BY <1>5
  <2> HIDE DEF f
  <2>2. /\ With(f, x, g) \in [DOMAIN T.owner \cup {x} -> DOMAIN T.groups \cup {g}]
        /\ With(f, x, g)[x] = g
        /\ \A y \in DOMAIN T.owner : y # x => With(f, x, g)[y] = f[y]
    BY <2>1 DEF With
  <2> QED
    BY <1>6, <2>2 DEF f
<1> QED
  <2>1. Takes(T, U, name, x, g)
    BY <1>4, <1>6, <1>7 DEF Takes, own
  <2> QED
    BY <2>1 DEF U

LEMMA TakesFacts ==
    ASSUME NEW T, Sound(T), NEW U, NEW name, NEW x, NEW g, Takes(T, U, name, x, g)
    PROVE  /\ OwnerOf(T, x) \in DOMAIN T.groups \cup {0} /\ Above(T, g) \in DOMAIN T.groups \cup {0}
           /\ Before(T, g) \in Nat /\ 0 \notin DOMAIN U.groups /\ g \in DOMAIN U.groups
           /\ U.groups[g].parent \in DOMAIN T.groups \cup {0} /\ U.groups[g].pending # 0
           /\ DOMAIN T.groups \subseteq DOMAIN U.groups
           /\ Open(U) = Open(T) \cup {g}
           /\ g \in DOMAIN T.groups => g \in Open(T)
           /\ OwnerOf(U, x) = g
           /\ \A y : y # x => OwnerOf(U, y) = OwnerOf(T, y)
<1>1. OwnerOf(T, x) \in DOMAIN T.groups \cup {0} /\ Above(T, g) \in DOMAIN T.groups \cup {0}
  BY DEF OwnerOf, Above, Sound
<1>2. Before(T, g) \in Nat
  BY SoundFacts DEF Before
<1>3. DOMAIN U.groups = 1..Len(U.groups) /\ Len(U.groups) \in Nat
  BY DEF Takes
<1>4. g \in DOMAIN T.groups => T.groups[g].pending # 0
  BY DEF Takes
<1>5. Open(U) = Open(T) \cup {g} /\ (g \in DOMAIN T.groups => g \in Open(T))
  BY <1>4 DEF Takes, Open, Sound
<1>6. OwnerOf(U, x) = g /\ \A y : y # x => OwnerOf(U, y) = OwnerOf(T, y)
  BY DEF Takes, OwnerOf
<1>7. U.groups[g].pending # 0
  BY <1>2 DEF Takes
<1> QED
  BY <1>1, <1>2, <1>3, <1>5, <1>6, <1>7 DEF Takes

LEMMA TakesSound ==
    ASSUME NEW T, Sound(T), NEW U, NEW name \in Bins \cup {None}, NEW x, NEW g,
           Takes(T, U, name, x, g)
    PROVE  Sound(U)
<1>1. U = [groups |-> U.groups, named |-> U.named, owner |-> U.owner, reuses |-> U.reuses]
      /\ U.groups \in Seq(Group)
  BY DEF Takes
<1>2. ASSUME NEW h \in DOMAIN U.groups
      PROVE  /\ U.groups[h].parent \in DOMAIN U.groups \cup {0}
             /\ U.groups[h].resolved <=> U.groups[h].pending = 0
  <2>1. CASE h = g
    <3>1. U.groups[g].pending # 0 /\ U.groups[g].parent \in DOMAIN U.groups \cup {0}
      BY TakesFacts
    <3> QED
      BY <2>1, <3>1 DEF Takes
  <2>2. CASE h # g
    BY <2>2 DEF Takes, Sound
  <2> QED
    BY <2>1, <2>2
<1>3. U.named \in [DOMAIN U.named -> DOMAIN U.groups] /\ DOMAIN U.named \subseteq Bins
  BY DEF Takes, Sound
<1>4. ASSUME NEW b \in DOMAIN U.named PROVE U.groups[U.named[b]].pending # 0
  <2>1. U.groups[g].pending # 0
    BY TakesFacts
  <2>2. CASE U.named[b] = g
    BY <2>1, <2>2
  <2>3. CASE U.named[b] # g
    <3>1. b \in DOMAIN T.named /\ U.named[b] = T.named[b] /\ T.named[b] \in DOMAIN T.groups
      BY <2>3 DEF Takes, Sound
    <3> QED
      BY <2>3, <3>1 DEF Takes, Sound
  <2> QED
    BY <2>2, <2>3
<1>5. U.owner \in [DOMAIN U.owner -> DOMAIN U.groups] /\ DOMAIN U.owner = DOMAIN T.owner \cup {x}
  BY DEF Takes
<1>6. IsFiniteSet(DOMAIN T.owner \cup {x})
  BY FS_AddElement DEF Sound
<1>7. IsFiniteSet(DOMAIN U.owner)
  BY <1>5, <1>6
<1> QED
  BY <1>1, <1>2, <1>3, <1>4, <1>5, <1>7 DEF Sound

\* How what a group hears of changes: x joins g, and leaves its owner for it, and g
\* leaves its parent for the owner of x.
LEMMA TakesMembers ==
    ASSUME NEW T, Sound(T), NEW U, NEW name, NEW x, NEW g, Takes(T, U, name, x, g), NEW h
    PROVE  Members(U, h) = IF h = g THEN Members(T, h) \cup {x} ELSE Members(T, h) \ {x}
BY DEF Takes, Members

LEMMA TakesSubgroups ==
    ASSUME NEW T, Sound(T), NEW U, NEW name, NEW x, NEW g, Takes(T, U, name, x, g), NEW h
    PROVE  Subgroups(U, h) = IF h = U.groups[g].parent THEN Subgroups(T, h) \cup {g}
                                                       ELSE Subgroups(T, h) \ {g}
<1>1. Open(U) = Open(T) \cup {g}
  BY TakesFacts
<1>2. \A k \in Open(T) : k # g => U.groups[k].parent = T.groups[k].parent
  BY SoundFacts DEF Takes
<1> QED
  BY <1>1, <1>2 DEF Subgroups

LEMMA TakesExact ==
    ASSUME NEW T, Sound(T), NEW U, NEW name \in Bins \cup {None}, NEW x, NEW g, NEW L,
           Takes(T, U, name, x, g), Exact(T, L)
    PROVE  Exact(U, L \cup LeaksByJoining(T, name, x))
<1> DEFINE M   == L \cup LeaksByJoining(T, name, x)
<1> DEFINE own == OwnerOf(T, x)
<1>1. M = L \cup (IF g \notin DOMAIN T.groups THEN {}
                  ELSE IF own = g THEN {g} ELSE {Above(T, g)} \ {0})
  BY DEF Takes, LeaksByJoining, Above
<1>2. M \subseteq DOMAIN U.groups /\ L \subseteq DOMAIN T.groups
  BY <1>1, TakesFacts DEF Exact
<1>3. Sound(U)
  BY TakesSound
<1> HIDE DEF M, own
<1>4. ASSUME NEW h \in DOMAIN U.groups
      PROVE  IF h \in M THEN U.groups[h].pending > Heard(U, h) ELSE U.groups[h].pending = Heard(U, h)
  <2> DEFINE m  == Cardinality(Members(T, h))
  <2> DEFINE s  == Cardinality(Subgroups(T, h))
  <2> DEFINE m1 == Cardinality(Members(U, h))
  <2> DEFINE s1 == Cardinality(Subgroups(U, h))
  <2>1. m \in Nat /\ s \in Nat /\ m1 \in Nat /\ s1 \in Nat /\ Heard(U, h) = m1 + s1
    BY <1>3, HeardFacts
  <2>2. /\ Before(T, h) \in Nat
        /\ IF h \in L THEN Before(T, h) > m + s ELSE Before(T, h) = m + s
    <3>1. CASE h \in DOMAIN T.groups
      BY <3>1, SoundFacts, HeardFacts DEF Before, Exact
    <3>2. CASE h \notin DOMAIN T.groups
      <4>1. Members(T, h) = {} /\ Subgroups(T, h) = {}
        <5>1. \A k \in Open(T) : T.groups[k].parent \in DOMAIN T.groups \cup {0}
          BY SoundFacts DEF Sound
        <5>2. h # 0
          BY TakesFacts
        <5> QED
          BY <3>2, <5>1, <5>2 DEF Members, Subgroups, Sound
      <4>2. m = 0 /\ s = 0 /\ h \notin L /\ Before(T, h) = 0
        BY <1>2, <3>2, <4>1, FS_EmptySet DEF Before
      <4> QED
        BY <4>2
    <3> QED
      BY <3>1, <3>2
  <2>3. m1 = IF h = g THEN (IF x \in Members(T, h) THEN m ELSE m + 1)
                      ELSE (IF x \in Members(T, h) THEN m - 1 ELSE m)
    BY TakesMembers, HeardFacts, FS_AddElement, FS_RemoveElement
  <2>4. s1 = IF h = U.groups[g].parent THEN (IF g \in Subgroups(T, h) THEN s ELSE s + 1)
                                       ELSE (IF g \in Subgroups(T, h) THEN s - 1 ELSE s)
    BY TakesSubgroups, HeardFacts, FS_AddElement, FS_RemoveElement
  <2>5. x \in Members(T, h) <=> h = own
    <3>1. h # 0
      BY TakesFacts
    <3> QED
      BY <3>1 DEF Members, OwnerOf, own
  <2>6. g \in Subgroups(T, h) <=> h = Above(T, g)
    <3>1. h # 0
      BY TakesFacts
    <3> QED
      BY <3>1, TakesFacts, SoundFacts DEF Subgroups, Above
  <2>7. U.groups[h].pending = IF h = g THEN Before(T, h) + 1 ELSE Before(T, h)
    BY DEF Takes, Before
  <2>8. U.groups[g].parent = IF own = g THEN Above(T, g) ELSE own
    BY DEF Takes, own
  <2>9. h \in M <=> h \in L \/ (own = g /\ h = g) \/ (own # g /\ h = Above(T, g))
    <3>1. h # 0 /\ (g \notin DOMAIN T.groups => Above(T, g) = 0 /\ own # g)
      BY TakesFacts, SoundFacts DEF Above, own
    <3> QED
      BY <1>1, <3>1
  <2> HIDE DEF m, s, m1, s1
  <2>10. CASE own = g
    BY <2>1, <2>2, <2>3, <2>4, <2>5, <2>6, <2>7, <2>8, <2>9, <2>10
  <2>11. CASE own # g
    <3>1. CASE h = g
      BY <2>1, <2>2, <2>3, <2>4, <2>5, <2>6, <2>7, <2>8, <2>9, <2>11, <3>1
    <3>2. CASE h # g /\ h = own
      BY <2>1, <2>2, <2>3, <2>4, <2>5, <2>6, <2>7, <2>8, <2>9, <2>11, <3>2
    <3>3. CASE h # g /\ h # own
      BY <2>1, <2>2, <2>3, <2>4, <2>5, <2>6, <2>7, <2>8, <2>9, <2>11, <3>3
    <3> QED
      BY <3>1, <3>2, <3>3
  <2> QED
    BY <2>10, <2>11
<1> QED
  BY <1>2, <1>4 DEF Exact, M

\* What is known of is open: what lost track, what contains an open group or owns.
LEMMA KnownAreOpen ==
    ASSUME NEW T, Sound(T), NEW L, Exact(T, L)
    PROVE  /\ L \subseteq Open(T)
           /\ \A k \in Open(T) : T.groups[k].parent \in Open(T) \cup {0}
           /\ \A x : OwnerOf(T, x) \in Open(T) \cup {0}
<1>1. L \subseteq DOMAIN T.groups
  BY DEF Exact
<1>2. L \subseteq Open(T)
  BY <1>1, FewAreHeard DEF Open
<1>3. ASSUME NEW k \in Open(T) PROVE T.groups[k].parent \in Open(T) \cup {0}
  <2> DEFINE p == T.groups[k].parent
  <2>1. p \in DOMAIN T.groups \cup {0}
    BY <1>3 DEF Open, Sound
  <2>2. k \in Subgroups(T, p)
    BY <1>3 DEF Subgroups
  <2> QED
    BY <2>1, <2>2, FewAreHeard DEF Open
<1>4. ASSUME NEW x PROVE OwnerOf(T, x) \in Open(T) \cup {0}
  <2>1. CASE x \in DOMAIN T.owner
    <3>1. T.owner[x] \in DOMAIN T.groups /\ x \in Members(T, T.owner[x])
      BY <2>1 DEF Sound, Members
    <3> QED
      BY <2>1, <3>1, FewAreHeard DEF Open, OwnerOf
  <2> QED
    BY <2>1 DEF OwnerOf
<1> QED
  BY <1>2, <1>3, <1>4

\* Whoever could climb to a group still can, and x to the group that takes its place.
LEMMA TakesClimb ==
    ASSUME NEW T, Sound(T), NEW U, NEW name \in Bins \cup {None}, NEW x, NEW g, NEW L,
           Takes(T, U, name, x, g), Exact(T, L)
    PROVE  LET M == L \cup LeaksByJoining(T, name, x)
           IN /\ \A y : Climb(T, L, y) \subseteq Climb(U, M, y)
              /\ g \in Climb(U, M, x)
<1> DEFINE M   == L \cup LeaksByJoining(T, name, x)
<1> DEFINE own == OwnerOf(T, x)
<1>1. M = L \cup (IF g \notin DOMAIN T.groups THEN {}
                  ELSE IF own = g THEN {g} ELSE {Above(T, g)} \ {0})
  BY DEF Takes, LeaksByJoining, Above
<1>2. /\ Open(U) = Open(T) \cup {g} /\ 0 \notin Open(U) /\ 0 \notin Open(T)
      /\ OwnerOf(U, x) = g /\ \A y : y # x => OwnerOf(U, y) = OwnerOf(T, y)
      /\ g \in DOMAIN T.groups => g \in Open(T)
  BY TakesFacts, SoundFacts DEF Open
<1>3. M \subseteq Open(U)
  <2>1. g \in DOMAIN T.groups => Above(T, g) \in Open(T) \cup {0}
    BY <1>2, KnownAreOpen DEF Above
  <2> QED
    BY <1>1, <1>2, <2>1, KnownAreOpen
<1>4. \A k \in Open(T) : U.groups[k].parent = T.groups[k].parent \/ T.groups[k].parent \in M \cup {0}
  <2>1. \A k \in Open(T) : k \in DOMAIN T.groups /\ (k # g => U.groups[k].parent = T.groups[k].parent)
    BY DEF Takes, Open
  <2>2. g \in DOMAIN T.groups => U.groups[g].parent = T.groups[g].parent \/ T.groups[g].parent \in M \cup {0}
    BY <1>1 DEF Takes, Above, own
  <2> QED
    BY <2>1, <2>2
<1> HIDE DEF M, own
<1>5. L \subseteq M /\ OwnerOf(T, x) \in Open(T) \cup {0}
      /\ \A y : y # x => OwnerOf(T, y) \in Open(T) \cup {0}
  BY <1>1, KnownAreOpen DEF own
<1>6. ASSUME NEW y
      PROVE  /\ M \subseteq Climb(U, M, y)
             /\ OwnerOf(U, y) # 0 => OwnerOf(U, y) \in Climb(U, M, y)
             /\ \A k \in Climb(U, M, y) :
                  U.groups[k].parent \in Open(U) => U.groups[k].parent \in Climb(U, M, y)
  <2>1. OwnerOf(U, y) \in Open(U) \cup {0}
    BY <1>2, <1>5
  <2> QED
    BY <1>3, <2>1, ClimbFacts
<1>7. g \in Climb(U, M, x)
  BY <1>2, <1>6
<1>8. ASSUME NEW y PROVE Climb(T, L, y) \subseteq Climb(U, M, y)
  <2> DEFINE S == Climb(U, M, y) \cap Open(T)
  <2>1. \A k \in S : T.groups[k].parent \in Open(T) => T.groups[k].parent \in S
    BY <1>2, <1>4, <1>6
  <2>2. OwnerOf(T, y) \in S \cup {0}
    <3>1. CASE y # x
      BY <1>2, <1>5, <1>6, <3>1
    <3>2. CASE y = x /\ own = g
      BY <1>2, <1>5, <1>6, <3>2 DEF own
    <3>3. CASE y = x /\ own # g
      <4>1. U.groups[g].parent = own
        BY <3>3 DEF Takes, own
      <4> QED
        BY <1>2, <1>5, <1>6, <1>7, <3>3, <4>1 DEF own
    <3> QED
      BY <3>1, <3>2, <3>3
  <2>3. S \subseteq Open(T) /\ L \subseteq S
    BY <1>5, <1>6, KnownAreOpen
  <2>4. Climb(T, L, y) \subseteq S
    <3> HIDE DEF S
    <3> QED
      BY <2>1, <2>2, <2>3, ClimbLeast
  <2> QED
    BY <2>4
<1> QED
  BY <1>7, <1>8 DEF M

\* Whoever could climb to a group still can as long as parents stay and it is open.
LEMMA ClimbKept ==
    ASSUME NEW T, NEW U, NEW L, NEW M, NEW y, NEW z,
           Sound(T), Sound(U), Exact(U, M), L \subseteq M,
           Open(U) \subseteq Open(T),
           \A k \in Open(U) : U.groups[k].parent = T.groups[k].parent,
           OwnerOf(T, y) \in {0, OwnerOf(U, z)}
    PROVE  Climb(T, L, y) \subseteq Climb(U, M, z)
<1>1. /\ M \subseteq Open(U) /\ OwnerOf(U, z) \in Open(U) \cup {0}
      /\ \A k \in Open(U) : U.groups[k].parent \in Open(U) \cup {0}
  BY KnownAreOpen
<1>2. 0 \notin Open(T) /\ 0 \notin Open(U)
  BY SoundFacts
<1> DEFINE S == Climb(U, M, z)
<1>3. /\ S \subseteq Open(U) /\ M \subseteq S
      /\ OwnerOf(U, z) # 0 => OwnerOf(U, z) \in S
      /\ \A k \in S : U.groups[k].parent \in Open(U) => U.groups[k].parent \in S
  BY <1>1, ClimbFacts
<1> HIDE DEF S
<1>4. \A k \in S : T.groups[k].parent \in Open(T) => T.groups[k].parent \in S
  BY <1>1, <1>2, <1>3
<1>5. S \subseteq Open(T) /\ L \subseteq S /\ OwnerOf(T, y) \in S \cup {0}
  BY <1>3
<1>6. Climb(T, L, y) \subseteq S
  BY <1>4, <1>5, ClimbLeast
<1> QED
  BY <1>6 DEF S

-----------------------------------------------------------------------------
(* What a method keeps: tables that are sound and counts that are exact, but *)
(* for the groups in M, and every way up.                                    *)

Keeps(T, L, U, M) ==
    /\ Sound(U) /\ Exact(U, M) /\ L \subseteq M
    /\ \A y : Climb(T, L, y) \subseteq Climb(U, M, y)

LEMMA EnsureNamedKeeps ==
    ASSUME NEW T, NEW L, Sound(T), Exact(T, L), NEW name \in Bins \cup {None}, NEW x
    PROVE  LET U == EnsureNamed(T, name, x)
           IN /\ Keeps(T, L, U, L \cup LeaksByJoining(T, name, x))
              /\ U.reuses = T.reuses /\ DOMAIN U.owner = DOMAIN T.owner \cup {x}
<1> DEFINE U == EnsureNamed(T, name, x)
<1>1. PICK g : Takes(T, U, name, x, g)
  BY EnsureNamedTakes
<1> HIDE DEF U
<1>2. Sound(U)
  BY <1>1, TakesSound
<1>3. Exact(U, L \cup LeaksByJoining(T, name, x))
  BY <1>1, TakesExact
<1>4. \A y : Climb(T, L, y) \subseteq Climb(U, L \cup LeaksByJoining(T, name, x), y)
  BY <1>1, TakesClimb
<1>5. U.reuses = T.reuses /\ DOMAIN U.owner = DOMAIN T.owner \cup {x}
  BY <1>1 DEF Takes
<1> QED
  BY <1>2, <1>3, <1>4, <1>5 DEF Keeps, U

\* Tables that differ in names and follow-on tasks only.
Alike(T, U) ==
    /\ U = [groups |-> U.groups, named |-> T.named, owner |-> T.owner, reuses |-> U.reuses]
    /\ U.groups \in Seq(Group) /\ DOMAIN U.groups = DOMAIN T.groups
    /\ \A h \in DOMAIN T.groups :
        /\ U.groups[h].parent = T.groups[h].parent
        /\ U.groups[h].pending = T.groups[h].pending
        /\ U.groups[h].resolved = T.groups[h].resolved

LEMMA AlikeKeeps ==
    ASSUME NEW T, NEW L, Sound(T), Exact(T, L), NEW U, Alike(T, U)
    PROVE  Keeps(T, L, U, L)
<1>1. U.named = T.named /\ U.owner = T.owner
  BY DEF Alike
<1>2. Sound(U)
  BY SMTT(40), <1>1 DEF Alike, Sound
<1>3. Open(U) = Open(T)
  BY DEF Open, Alike
<1>4. \A k \in Open(U) : U.groups[k].parent = T.groups[k].parent
  BY DEF Open, Alike
<1>5. \A g : Members(U, g) = Members(T, g) /\ Subgroups(U, g) = Subgroups(T, g)
  BY <1>1, <1>3, <1>4 DEF Members, Subgroups
<1>6. Exact(U, L)
  BY <1>5 DEF Exact, Heard, Alike
<1>7. \A y : OwnerOf(U, y) = OwnerOf(T, y)
  BY <1>1 DEF OwnerOf
<1>8. ASSUME NEW y PROVE Climb(T, L, y) \subseteq Climb(U, L, y)
  BY <1>2, <1>3, <1>4, <1>6, <1>7, ClimbKept
<1> QED
  BY <1>2, <1>6, <1>8 DEF Keeps

LEMMA EnsureFollowOnKeeps ==
    ASSUME NEW T, NEW L, Sound(T), Exact(T, L), NEW x
    PROVE  LET U == EnsureFollowOn(T, x)
           IN /\ Keeps(T, L, U, L)
              /\ U.reuses = T.reuses /\ DOMAIN U.owner = DOMAIN T.owner \cup {x}
<1> DEFINE V == IF x \in DOMAIN T.owner THEN T ELSE EnsureNamed(T, None, x)
<1> DEFINE U == EnsureFollowOn(T, x)
<1> DEFINE r == Root(V, V.owner[x])
<1>1. /\ Keeps(T, L, V, L)
      /\ V.reuses = T.reuses /\ DOMAIN V.owner = DOMAIN T.owner \cup {x}
  <2>1. CASE x \in DOMAIN T.owner
    BY <2>1 DEF Keeps
  <2>2. CASE x \notin DOMAIN T.owner
    <3>1. LeaksByJoining(T, None, x) = {}
      BY TaskGroupsAssumption DEF LeaksByJoining, Sound
    <3> DEFINE W == EnsureNamed(T, None, x)
    <3>2. /\ Keeps(T, L, W, L \cup LeaksByJoining(T, None, x))
          /\ W.reuses = T.reuses /\ DOMAIN W.owner = DOMAIN T.owner \cup {x}
      BY EnsureNamedKeeps
    <3> HIDE DEF W
    <3>3. L \cup LeaksByJoining(T, None, x) = L
      BY <3>1
    <3> QED
      BY <2>2, <3>2, <3>3 DEF W
  <2> QED
    BY <2>1, <2>2
<1>2. U = [V EXCEPT !.groups[r].follow = TRUE]
  BY DEF EnsureFollowOn
<1> HIDE DEF V, U, r
<1>3. Sound(V) /\ Exact(V, L)
  BY <1>1 DEF Keeps
<1>4. V = [groups |-> V.groups, named |-> V.named, owner |-> V.owner, reuses |-> V.reuses]
      /\ V.groups \in Seq(Group)
  BY <1>3 DEF Sound
<1>5. U.groups = [V.groups EXCEPT ![r].follow = TRUE]
      /\ U = [groups |-> U.groups, named |-> V.named, owner |-> V.owner, reuses |-> V.reuses]
  BY <1>2, <1>4
<1>6. Alike(V, U)
  <2>1. CASE r \in DOMAIN V.groups
    <3> DEFINE new == [V.groups[r] EXCEPT !.follow = TRUE]
    <3>1. V.groups[r] \in Group
      BY <1>4, <2>1
    <3>2. /\ new \in Group /\ new.parent = V.groups[r].parent
          /\ new.pending = V.groups[r].pending /\ new.resolved = V.groups[r].resolved
      BY <3>1 DEF Group
    <3>3. U.groups = [V.groups EXCEPT ![r] = new]
      BY <1>5
    <3> HIDE DEF new
    <3>4. /\ U.groups \in Seq(Group) /\ DOMAIN U.groups = DOMAIN V.groups /\ U.groups[r] = new
          /\ \A h \in DOMAIN V.groups : h # r => U.groups[h] = V.groups[h]
      BY <1>4, <2>1, <3>2, <3>3
    <3> QED
      BY <1>5, <3>2, <3>4 DEF Alike
  <2>2. CASE r \notin DOMAIN V.groups
    <3>1. U.groups = V.groups
      BY <1>4, <1>5, <2>2
    <3> QED
      BY <1>4, <1>5, <3>1 DEF Alike
  <2> QED
    BY <2>1, <2>2
<1>7. Keeps(V, L, U, L)
  BY <1>3, <1>6, AlikeKeeps
<1> QED
  BY <1>1, <1>5, <1>7 DEF Keeps, U

-----------------------------------------------------------------------------
(* _onWillPlan and _onWillExecute. *)

\* Group g waits for v things, and o says who owns what.
Counts(T, g, v, o) == [T EXCEPT !.groups[g].pending = v, !.owner = o]

LEMMA CountIs ==
    ASSUME NEW T, Sound(T), NEW g \in DOMAIN T.groups, NEW v \in Nat, NEW o
    PROVE  LET U == Counts(T, g, v, o)
           IN /\ U = [groups |-> U.groups, named |-> T.named, owner |-> o, reuses |-> T.reuses]
              /\ U.groups \in Seq(Group) /\ DOMAIN U.groups = DOMAIN T.groups
              /\ \A h \in DOMAIN T.groups :
                  /\ U.groups[h].parent = T.groups[h].parent
                  /\ U.groups[h].pending = IF h = g THEN v ELSE T.groups[h].pending
                  /\ U.groups[h].resolved = T.groups[h].resolved
<1> DEFINE U == Counts(T, g, v, o)
<1> DEFINE new == [T.groups[g] EXCEPT !.pending = v]
<1>1. T = [groups |-> T.groups, named |-> T.named, owner |-> T.owner, reuses |-> T.reuses]
      /\ T.groups \in Seq(Group)
  BY DEF Sound
<1>2. T.groups[g] \in Group
  BY <1>1
<1>3. /\ new \in Group /\ new.parent = T.groups[g].parent
      /\ new.pending = v /\ new.resolved = T.groups[g].resolved
  BY <1>2 DEF Group
<1>4. U.groups = [T.groups EXCEPT ![g] = new]
      /\ U = [groups |-> U.groups, named |-> T.named, owner |-> o, reuses |-> T.reuses]
  <2>1. U = [T EXCEPT !.groups = [T.groups EXCEPT ![g].pending = v], !.owner = o]
    BY DEF Counts
  <2>2. [T.groups EXCEPT ![g].pending = v] = [T.groups EXCEPT ![g] = new]
    BY <1>1
  <2> DEFINE gs == [T.groups EXCEPT ![g] = new]
  <2> HIDE DEF new, U
  <2>3. U = [T EXCEPT !.groups = gs, !.owner = o]
    BY <2>1, <2>2
  <2> HIDE DEF gs
  <2>4. U.groups = gs /\ U = [groups |-> gs, named |-> T.named, owner |-> o, reuses |-> T.reuses]
    BY <1>1, <2>3
  <2> QED
    BY <2>4 DEF gs
<1> HIDE DEF new
<1>5. /\ U.groups \in Seq(Group) /\ DOMAIN U.groups = DOMAIN T.groups /\ U.groups[g] = new
      /\ \A h \in DOMAIN T.groups : h # g => U.groups[h] = T.groups[h]
  <2> HIDE DEF U
  <2> QED
    BY <1>1, <1>3, <1>4
<1> HIDE DEF U
<1> QED
  BY <1>3, <1>4, <1>5 DEF U

LEMMA OnWillPlanKeeps ==
    ASSUME NEW T, NEW L, Sound(T), Exact(T, L), NEW x,
           NEW S, IsFiniteSet(S), S \cap DOMAIN T.owner = {}
    PROVE  LET U == OnWillPlan(T, S, x)
           IN /\ Keeps(T, L, U, L) /\ U.reuses = T.reuses
              /\ \A y \in S : Climb(T, L, x) \subseteq Climb(U, L, y)
              /\ DOMAIN T.owner \subseteq DOMAIN U.owner /\ DOMAIN U.owner \subseteq DOMAIN T.owner \cup S
<1> DEFINE U == OnWillPlan(T, S, x)
<1>1. CASE x \notin DOMAIN T.owner
  <2>1. U = T
    BY <1>1 DEF OnWillPlan
  <2>2. ASSUME NEW y \in S PROVE Climb(T, L, x) \subseteq Climb(T, L, y)
    BY <1>1 DEF Climb, OwnerOf
  <2> QED
    BY <2>1, <2>2 DEF Keeps
<1>2. CASE x \in DOMAIN T.owner
  <2> DEFINE g == T.owner[x]
  <2> DEFINE n == Cardinality(S)
  <2> DEFINE v == T.groups[g].pending + n
  <2> DEFINE o == Over(T.owner, [y \in S |-> g])
  <2>1. g \in DOMAIN T.groups /\ g \in Open(T) /\ g # 0
    <3>1. g \in Open(T) \cup {0} /\ g \in DOMAIN T.groups
      BY <1>2, KnownAreOpen DEF OwnerOf, Sound
    <3> QED
      BY <3>1, SoundFacts
  <2>2. n \in Nat /\ v \in Nat
    <3>1. n \in Nat /\ T.groups[g].pending \in Nat
      BY <2>1, SoundFacts, FS_CardinalityType
    <3> HIDE DEF n, g
    <3> QED
      BY <3>1
  <2>3. U = Counts(T, g, v, o)
    BY <1>2 DEF OnWillPlan, Counts
  <2>4. /\ o \in [DOMAIN T.owner \cup S -> DOMAIN T.groups]
        /\ \A y \in DOMAIN T.owner : o[y] = T.owner[y]
        /\ \A y \in S : o[y] = g
    <3> DEFINE f == T.owner
    <3>1. f \in [DOMAIN T.owner -> DOMAIN T.groups]
      BY DEF Sound
    <3> HIDE DEF f, g
    <3>2. Over(f, [y \in S |-> g]) \in [DOMAIN T.owner \cup S -> DOMAIN T.groups]
      BY <2>1, <3>1 DEF Over
    <3>3. /\ \A y \in DOMAIN T.owner : Over(f, [y1 \in S |-> g])[y] = f[y]
          /\ \A y \in S : Over(f, [y1 \in S |-> g])[y] = g
      BY <2>1, <3>1 DEF Over
    <3> QED
      BY <3>2, <3>3 DEF f
  <2>5. T.groups[g].pending # 0
    BY <2>1 DEF Open, Sound
  <2> HIDE DEF v, o, U
  <2>6. /\ U = [groups |-> U.groups, named |-> T.named, owner |-> o, reuses |-> T.reuses]
        /\ U.groups \in Seq(Group) /\ DOMAIN U.groups = DOMAIN T.groups
        /\ \A h \in DOMAIN T.groups :
            /\ U.groups[h].parent = T.groups[h].parent
            /\ U.groups[h].pending = IF h = g THEN v ELSE T.groups[h].pending
            /\ U.groups[h].resolved = T.groups[h].resolved
    <3> HIDE DEF g
    <3> QED
      BY <2>1, <2>2, <2>3, CountIs
  <2>7. U.named = T.named /\ U.owner = o /\ U.reuses = T.reuses
    BY <2>6
  <2>8. v # 0
    <3>1. T.groups[g].pending \in Nat
      BY <2>1, SoundFacts
    <3> HIDE DEF n, g
    <3> QED
      BY <2>2, <2>5, <3>1 DEF v
  <2> HIDE DEF g
  <2>9. Sound(U)
    <3>1. ASSUME NEW h \in DOMAIN U.groups
          PROVE  /\ U.groups[h].parent \in DOMAIN U.groups \cup {0}
                 /\ U.groups[h].resolved <=> U.groups[h].pending = 0
      BY <2>1, <2>5, <2>6, <2>8 DEF Sound
    <3>2. IsFiniteSet(DOMAIN T.owner \cup S)
      BY FS_Union DEF Sound
    <3>3. IsFiniteSet(DOMAIN U.owner) /\ U.owner \in [DOMAIN U.owner -> DOMAIN U.groups]
      BY <2>4, <2>6, <2>7, <3>2
    <3>4. \A b \in DOMAIN U.named : U.groups[U.named[b]].pending # 0
      BY <2>6, <2>7, <2>8 DEF Sound
    <3>5. U.named \in [DOMAIN U.named -> DOMAIN U.groups] /\ DOMAIN U.named \subseteq Bins
      BY <2>6, <2>7 DEF Sound
    <3> QED
      BY <2>6, <2>7, <3>1, <3>3, <3>4, <3>5 DEF Sound
  <2>10. Open(U) = Open(T) /\ \A k \in Open(U) : U.groups[k].parent = T.groups[k].parent
    BY <2>6 DEF Open
  <2>11. \A h : Subgroups(U, h) = Subgroups(T, h)
    BY <2>10 DEF Subgroups
  <2>12. \A h : Members(U, h) = IF h = g THEN Members(T, h) \cup S ELSE Members(T, h)
    BY <2>4, <2>7 DEF Members
  <2>13. Exact(U, L)
    <3>1. ASSUME NEW h \in DOMAIN T.groups
          PROVE  IF h \in L THEN U.groups[h].pending > Heard(U, h) ELSE U.groups[h].pending = Heard(U, h)
      <4>1. IF h \in L THEN T.groups[h].pending > Heard(T, h) ELSE T.groups[h].pending = Heard(T, h)
        BY DEF Exact
      <4>2. CASE h # g
        BY <2>6, <2>11, <2>12, <4>1, <4>2 DEF Heard
      <4>3. CASE h = g
        <5> DEFINE m == Cardinality(Members(T, h))
        <5> DEFINE s == Cardinality(Subgroups(T, h))
        <5> DEFINE w == T.groups[h].pending
        <5>1. Members(T, h) \cap S = {} /\ IsFiniteSet(Members(T, h)) /\ m \in Nat /\ s \in Nat
          BY HeardFacts DEF Members
        <5>2. Cardinality(Members(T, h) \cup S) = m + n
          <6>1. Cardinality(Members(T, h) \cup S) = m + n - Cardinality(Members(T, h) \cap S)
            BY <5>1, FS_Union
          <6>2. Cardinality(Members(T, h) \cap S) = 0
            BY <5>1, FS_EmptySet
          <6> HIDE DEF m, n
          <6> QED
            BY <2>2, <5>1, <6>1, <6>2
        <5>3. Heard(U, h) = m + n + s /\ Heard(T, h) = m + s
          BY <2>11, <2>12, <4>3, <5>2 DEF Heard
        <5>4. w \in Nat /\ U.groups[h].pending = w + n
          BY <2>6, <4>3, SoundFacts DEF v
        <5> HIDE DEF m, n, s
        <5> QED
          BY <2>2, <4>1, <5>1, <5>3, <5>4
      <4> QED
        BY <4>2, <4>3
    <3> QED
      BY <2>6, <3>1 DEF Exact
  <2>14. (\A y \in DOMAIN T.owner : OwnerOf(U, y) = OwnerOf(T, y)) /\ (\A y \in S : OwnerOf(U, y) = OwnerOf(T, x))
         /\ \A y : y \notin DOMAIN T.owner => OwnerOf(T, y) = 0
    BY <1>2, <2>4, <2>7 DEF OwnerOf, g
  <2>15. ASSUME NEW y PROVE Climb(T, L, y) \subseteq Climb(U, L, y)
    BY <2>9, <2>10, <2>13, <2>14, ClimbKept
  <2>16. ASSUME NEW y \in S PROVE Climb(T, L, x) \subseteq Climb(U, L, y)
    BY <2>9, <2>10, <2>13, <2>14, ClimbKept
  <2>17. DOMAIN U.owner = DOMAIN T.owner \cup S
    BY <2>4, <2>7
  <2>18. Keeps(T, L, U, L)
    BY <2>9, <2>13, <2>15 DEF Keeps
  <2> QED
    BY <2>7, <2>16, <2>17, <2>18 DEF U
<1> QED
  BY <1>1, <1>2

LEMMA OnWillExecuteKeeps ==
    ASSUME NEW T, NEW L, Sound(T), Exact(T, L), NEW x \in DOMAIN T.owner, NEW y, x # y
    PROVE  LET U == OnWillExecute(T, y, x)
           IN /\ Keeps(T, L, U, L \cup LeaksByReissue(T, y)) /\ U.reuses = T.reuses
              /\ Climb(T, L, x) \subseteq Climb(U, L \cup LeaksByReissue(T, y), y)
              /\ DOMAIN T.owner \subseteq DOMAIN U.owner /\ DOMAIN U.owner \subseteq DOMAIN T.owner \cup {y}
<1> DEFINE U == OnWillExecute(T, y, x)
<1> DEFINE M == L \cup LeaksByReissue(T, y)
<1> DEFINE g == T.owner[x]
<1> DEFINE v == T.groups[g].pending + 1
<1> DEFINE o == With(T.owner, y, g)
<1> DEFINE own == OwnerOf(T, y)
<1>1. g \in DOMAIN T.groups /\ g \in Open(T) /\ g # 0
  <2>1. g \in Open(T) \cup {0} /\ g \in DOMAIN T.groups
    BY KnownAreOpen DEF OwnerOf, Sound
  <2> QED
    BY <2>1, SoundFacts
<1>2. T.groups[g].pending \in Nat /\ v \in Nat /\ v # 0
  <2>1. T.groups[g].pending \in Nat
    BY <1>1, SoundFacts
  <2> HIDE DEF g
  <2> QED
    BY <2>1
<1>3. U = Counts(T, g, v, o)
  BY DEF OnWillExecute, Counts
<1>4. /\ o \in [DOMAIN T.owner \cup {y} -> DOMAIN T.groups]
      /\ \A z \in DOMAIN T.owner : z # y => o[z] = T.owner[z]
      /\ o[y] = g
  <2> DEFINE f == T.owner
  <2>1. f \in [DOMAIN T.owner -> DOMAIN T.groups]
    BY DEF Sound
  <2> HIDE DEF f, g
  <2>2. /\ With(f, y, g) \in [DOMAIN T.owner \cup {y} -> DOMAIN T.groups]
        /\ With(f, y, g)[y] = g
        /\ \A z \in DOMAIN T.owner : z # y => With(f, y, g)[z] = f[z]
    BY <1>1, <2>1 DEF With
  <2> QED
    BY <2>2 DEF f
<1>5. own \in Open(T) \cup {0} /\ M = L \cup ({own} \ {0}) /\ 0 \notin Open(T)
      /\ Open(T) \subseteq DOMAIN T.groups
  BY KnownAreOpen, SoundFacts DEF LeaksByReissue
<1> HIDE DEF v, o, U, g, M
<1>6. /\ U = [groups |-> U.groups, named |-> T.named, owner |-> o, reuses |-> T.reuses]
      /\ U.groups \in Seq(Group) /\ DOMAIN U.groups = DOMAIN T.groups
      /\ \A h \in DOMAIN T.groups :
          /\ U.groups[h].parent = T.groups[h].parent
          /\ U.groups[h].pending = IF h = g THEN v ELSE T.groups[h].pending
          /\ U.groups[h].resolved = T.groups[h].resolved
  BY <1>1, <1>2, <1>3, CountIs
<1>7. U.named = T.named /\ U.owner = o /\ U.reuses = T.reuses
  BY <1>6
<1>8. T.groups[g].pending # 0
  BY <1>1 DEF Open, Sound
<1>9. Sound(U)
  <2>1. ASSUME NEW h \in DOMAIN U.groups
        PROVE  /\ U.groups[h].parent \in DOMAIN U.groups \cup {0}
               /\ U.groups[h].resolved <=> U.groups[h].pending = 0
    BY <1>1, <1>2, <1>6, <1>8 DEF Sound
  <2>2. IsFiniteSet(DOMAIN T.owner \cup {y})
    BY FS_AddElement DEF Sound
  <2>3. IsFiniteSet(DOMAIN U.owner) /\ U.owner \in [DOMAIN U.owner -> DOMAIN U.groups]
    BY <1>4, <1>6, <1>7, <2>2
  <2>4. \A b \in DOMAIN U.named : U.groups[U.named[b]].pending # 0
    <3>1. \A b \in DOMAIN T.named : T.named[b] \in DOMAIN T.groups /\ T.groups[T.named[b]].pending # 0
      BY DEF Sound
    <3> QED
      BY <1>2, <1>6, <1>7, <3>1
  <2>5. U.named \in [DOMAIN U.named -> DOMAIN U.groups] /\ DOMAIN U.named \subseteq Bins
    BY <1>6, <1>7 DEF Sound
  <2> QED
    BY <1>6, <1>7, <2>1, <2>3, <2>4, <2>5 DEF Sound
<1>10. Open(U) = Open(T) /\ \A k \in Open(U) : U.groups[k].parent = T.groups[k].parent
  BY <1>6 DEF Open
<1>11. \A h : Subgroups(U, h) = Subgroups(T, h)
  BY <1>10 DEF Subgroups
<1>12. \A h : Members(U, h) = IF h = g THEN Members(T, h) \cup {y} ELSE Members(T, h) \ {y}
  BY <1>4, <1>7 DEF Members
<1>13. Exact(U, M)
  <2>1. ASSUME NEW h \in DOMAIN T.groups
        PROVE  IF h \in M THEN U.groups[h].pending > Heard(U, h) ELSE U.groups[h].pending = Heard(U, h)
    <3> DEFINE m == Cardinality(Members(T, h))
    <3> DEFINE s == Cardinality(Subgroups(T, h))
    <3> DEFINE m1 == Cardinality(Members(U, h))
    <3> DEFINE w == T.groups[h].pending
    <3>1. IF h \in L THEN w > m + s ELSE w = m + s
      BY HeardFacts DEF Exact
    <3>2. m \in Nat /\ s \in Nat /\ w \in Nat /\ Heard(U, h) = m1 + s
      BY <1>9, <1>11, HeardFacts, SoundFacts
    <3>3. m1 = IF h = g THEN (IF y \in Members(T, h) THEN m ELSE m + 1)
                        ELSE (IF y \in Members(T, h) THEN m - 1 ELSE m)
      BY SMTT(40), <1>12, HeardFacts, FS_AddElement, FS_RemoveElement
    <3>4. y \in Members(T, h) <=> h = own
      <4>1. h # 0
        BY SoundFacts
      <4> QED
        BY <4>1 DEF Members, OwnerOf
    <3>5. h \in M <=> h \in L \/ h = own
      BY <1>5, SoundFacts
    <3>6. U.groups[h].pending = IF h = g THEN w + 1 ELSE w
      BY <1>6 DEF v
    <3> HIDE DEF m, s, m1, w, own
    <3> QED
      BY <3>1, <3>2, <3>3, <3>4, <3>5, <3>6
  <2>2. M \subseteq DOMAIN U.groups
    BY <1>5, <1>6 DEF Exact
  <2> QED
    BY <1>6, <2>1, <2>2 DEF Exact
<1>14. (\A z : z # y => OwnerOf(U, z) = OwnerOf(T, z)) /\ OwnerOf(U, y) = OwnerOf(T, x) /\ OwnerOf(U, y) = g
  BY <1>4, <1>7 DEF OwnerOf, g
<1>15. Climb(T, L, x) \subseteq Climb(U, M, y)
  <2>1. L \subseteq M
    BY <1>5
  <2> QED
    BY <1>9, <1>10, <1>13, <1>14, <2>1, ClimbKept
<1>16. ASSUME NEW z PROVE Climb(T, L, z) \subseteq Climb(U, M, z)
  <2>1. L \subseteq M
    BY <1>5
  <2>2. CASE z # y
    BY <1>9, <1>10, <1>13, <1>14, <2>1, <2>2, ClimbKept
  <2>3. CASE z = y
    <3> DEFINE S == Climb(U, M, y)
    <3>1. /\ S \subseteq Open(U) /\ M \subseteq S
          /\ \A k \in S : U.groups[k].parent \in Open(U) => U.groups[k].parent \in S
      <4>1. M \subseteq Open(U) /\ OwnerOf(U, y) \in Open(U) \cup {0}
        BY <1>9, <1>13, KnownAreOpen
      <4> QED
        BY <4>1, ClimbFacts
    <3> HIDE DEF S, own
    <3>2. S \subseteq Open(T) /\ L \subseteq S /\ own \in S \cup {0}
      BY <1>5, <1>10, <3>1
    <3>3. \A k \in S : T.groups[k].parent \in Open(T) => T.groups[k].parent \in S
      BY <1>10, <3>1
    <3>4. Climb(T, L, y) \subseteq S
      BY <3>2, <3>3, ClimbLeast DEF own
    <3> QED
      BY <2>3, <3>4 DEF S
  <2> QED
    BY <2>2, <2>3
<1>17. DOMAIN U.owner = DOMAIN T.owner \cup {y}
  BY <1>4, <1>7
<1>18. Keeps(T, L, U, M)
  BY <1>5, <1>9, <1>13, <1>16 DEF Keeps
<1> QED
  BY <1>7, <1>15, <1>17, <1>18 DEF U, M


-----------------------------------------------------------------------------
(* _onExecuted. *)

LEMMA EndedIs ==
    ASSUME NEW r \in Group, r.pending # 0
    PROVE  /\ Ended(r) \in Group
           /\ Ended(r).parent = r.parent /\ Ended(r).pending = r.pending - 1
           /\ Ended(r).resolved <=> r.pending = 1
<1> DEFINE n == r.pending - 1
<1> DEFINE e == (r.pending = 1)
<1>1. n \in Nat /\ e \in BOOLEAN
  BY DEF Group
<1> HIDE DEF n, e
<1>2. [r EXCEPT !.pending = n, !.resolved = e] \in Group
  BY <1>1 DEF Group
<1>3. /\ [r EXCEPT !.pending = n, !.resolved = e].parent = r.parent
      /\ [r EXCEPT !.pending = n, !.resolved = e].pending = n
      /\ [r EXCEPT !.pending = n, !.resolved = e].resolved = e
  BY <1>1 DEF Group
<1> QED
  BY <1>2, <1>3 DEF Ended, n, e

\* When x of group g ends, this is how the groups above g follow: done have nothing
\* else to wait for, and less wait for one thing less.
Ends1(T, x, g, done, less) ==
    /\ x \in DOMAIN T.owner /\ g = T.owner[x]
    /\ done = Completes(T, g)
    /\ less = {g} \cup {T.groups[h].parent : h \in done}

LEMMA DoneFacts ==
    ASSUME NEW T, NEW L, Sound(T), Exact(T, L), NEW x, NEW g, NEW done, NEW less,
           Ends1(T, x, g, done, less)
    PROVE  /\ g \in Open(T) /\ done \subseteq Open(T) /\ less \subseteq Open(T) \cup {0}
           /\ \A h \in done : T.groups[h].pending = 1 /\ h \in less
           /\ \A h \in less : h \in DOMAIN T.groups /\ T.groups[h].pending = 1 => h \in done
           /\ \A h \in done : T.groups[h].parent # g
           /\ \A h, k \in done : T.groups[h].parent = T.groups[k].parent /\ T.groups[h].parent # 0 => h = k
<1> DEFINE E == Ending(T)
<1>1. done = Up(T, g, E) /\ g = T.owner[x] /\ x \in Members(T, g)
  BY DEF Ends1, Completes, Members
<1>2. g \in Open(T) /\ g \in DOMAIN T.groups
  <2>1. g \in DOMAIN T.groups /\ g \in Open(T) \cup {0}
    BY KnownAreOpen DEF Ends1, OwnerOf, Sound
  <2> QED
    BY <2>1, SoundFacts
<1>3. E \subseteq Open(T) /\ Open(T) \subseteq DOMAIN T.groups
  BY SoundFacts DEF Ending, Open, Sound
<1>4. \A h \in E : h \in DOMAIN T.groups /\ T.groups[h].pending = 1
  BY DEF Ending
<1>5. \A h \in DOMAIN T.groups : T.groups[h].pending = 1 => h \in E
  BY DEF Ending
<1> HIDE DEF E
<1>6. /\ done \subseteq E
      /\ g \in E => g \in done
      /\ g \notin E => done = {}
      /\ \A h \in done : T.groups[h].parent \in E => T.groups[h].parent \in done
  BY <1>1, UpFacts
<1>7. \A h \in done : h = g \/ \E k \in done : T.groups[k].parent = h
  BY <1>1, <1>6, UpFromBelow
<1>8. less = {g} \cup {T.groups[h].parent : h \in done}
  BY DEF Ends1
<1>9. \A h \in done : T.groups[h].parent \in Open(T) \cup {0}
  BY <1>3, <1>6, KnownAreOpen
<1>10. less \subseteq Open(T) \cup {0}
  BY <1>2, <1>8, <1>9
<1>11. \A h \in done : h \in less
  BY <1>7, <1>8
<1>12. \A h \in less : h \in DOMAIN T.groups /\ T.groups[h].pending = 1 => h \in done
  BY <1>5, <1>6, <1>8
<1>13. \A h \in done : h \in Subgroups(T, T.groups[h].parent)
  BY <1>3, <1>6 DEF Subgroups
<1>14. ASSUME NEW h \in done PROVE T.groups[h].parent # g
  <2> SUFFICES ASSUME T.groups[h].parent = g PROVE FALSE
    OBVIOUS
  <2>1. g \in E /\ h \in Subgroups(T, g)
    BY <1>6, <1>13
  <2>2. T.groups[g].pending = 1
    BY <1>4, <2>1
  <2> QED
    BY <1>1, <1>2, <2>1, <2>2, FewAreHeard
<1>15. ASSUME NEW h \in done, NEW k \in done, T.groups[h].parent = T.groups[k].parent,
              T.groups[h].parent # 0
       PROVE  h = k
  <2> SUFFICES ASSUME h # k PROVE FALSE
    OBVIOUS
  <2> DEFINE p == T.groups[h].parent
  <2>1. g \in E
    BY <1>6
  <2>2. p \in E
    BY <1>1, <1>15, <2>1, UpOnlyChild
  <2>3. h \in Subgroups(T, p) /\ k \in Subgroups(T, p)
    BY <1>13, <1>15
  <2>4. p \in DOMAIN T.groups /\ T.groups[p].pending = 1
    BY <1>4, <2>2
  <2> HIDE DEF p
  <2> QED
    BY <2>3, <2>4, FewAreHeard
<1> QED
  BY <1>2, <1>3, <1>4, <1>6, <1>10, <1>11, <1>12, <1>14, <1>15

LEMMA OnExecutedIs ==
    ASSUME NEW T, NEW L, Sound(T), Exact(T, L), NEW x \in DOMAIN T.owner
    PROVE  \E g, done, less :
             LET U == OnExecuted(T, x)
             IN /\ Ends1(T, x, g, done, less)
                /\ U.groups \in Seq(Group) /\ DOMAIN U.groups = DOMAIN T.groups
                /\ \A h \in DOMAIN T.groups :
                    /\ U.groups[h].parent = T.groups[h].parent
                    /\ U.groups[h].pending = IF h \in less THEN T.groups[h].pending - 1
                                                           ELSE T.groups[h].pending
                    /\ U.groups[h].resolved <=> T.groups[h].resolved \/ h \in done
                /\ U.named = [b \in {c \in DOMAIN T.named : T.named[c] \notin done} |-> T.named[b]]
                /\ U = [groups |-> U.groups, named |-> U.named, owner |-> Without(T.owner, x),
                        reuses |-> T.reuses]
<1> DEFINE g == T.owner[x]
<1> DEFINE done == Completes(T, g)
<1> DEFINE less == {g} \cup {T.groups[h].parent : h \in done}
<1> DEFINE U == OnExecuted(T, x)
<1> DEFINE V == [T EXCEPT !.owner = Without(T.owner, x)]
<1> DEFINE gs == [h \in DOMAIN T.groups |-> IF h \in less THEN Ended(T.groups[h]) ELSE T.groups[h]]
<1> DEFINE ns == [b \in {c \in DOMAIN T.named : T.named[c] \notin done} |-> T.named[b]]
<1> DEFINE os == Without(T.owner, x)
<1>1. T = [groups |-> T.groups, named |-> T.named, owner |-> T.owner, reuses |-> T.reuses]
      /\ T.groups \in Seq(Group)
  BY DEF Sound
<1>2. Ends1(T, x, g, done, less)
  BY DEF Ends1
<1>3. /\ done \subseteq Open(T) /\ less \subseteq Open(T) \cup {0}
      /\ \A h \in done : T.groups[h].pending = 1 /\ h \in less
      /\ \A h \in less : h \in DOMAIN T.groups /\ T.groups[h].pending = 1 => h \in done
  <2> HIDE DEF g, done, less
  <2> QED
    BY <1>2, DoneFacts
<1>4. U.groups = gs /\ U = [groups |-> gs, named |-> ns, owner |-> os, reuses |-> T.reuses]
  <2> DEFINE o == Without(T.owner, x)
  <2>1. V.groups = T.groups /\ V.named = T.named
        /\ V = [groups |-> T.groups, named |-> T.named, owner |-> o, reuses |-> T.reuses]
    <3> HIDE DEF o
    <3> QED
      BY <1>1 DEF o
  <2>2. Completes(V, g) = done
    <3> HIDE DEF V, g
    <3> QED
      BY <2>1 DEF Completes, Up, Ending
  <2>3. U = Decrement(V, g)
    BY DEF OnExecuted
  <2> HIDE DEF V, o
  <2>4. U = [V EXCEPT !.groups = gs, !.named = ns]
    <3> HIDE DEF g, done, U
    <3>1. U = [V EXCEPT
                !.groups = [h \in DOMAIN V.groups |->
                              IF h \in {g} \cup {V.groups[k].parent : k \in done}
                              THEN Ended(V.groups[h]) ELSE V.groups[h]],
                !.named = [b \in {c \in DOMAIN V.named : V.named[c] \notin done} |-> V.named[b]]]
      BY <2>2, <2>3 DEF Decrement
    <3> QED
      BY <2>1, <3>1
  <2> HIDE DEF gs, ns, U, g, done, less
  <2> QED
    BY <2>1, <2>4 DEF o
<1>5. /\ gs \in Seq(Group) /\ DOMAIN gs = DOMAIN T.groups
      /\ \A h \in DOMAIN T.groups :
          /\ gs[h].parent = T.groups[h].parent
          /\ gs[h].pending = IF h \in less THEN T.groups[h].pending - 1 ELSE T.groups[h].pending
          /\ gs[h].resolved <=> T.groups[h].resolved \/ h \in done
  <2> HIDE DEF g, done, less
  <2>1. ASSUME NEW h \in DOMAIN T.groups
        PROVE  /\ gs[h] \in Group
               /\ gs[h].parent = T.groups[h].parent
               /\ gs[h].pending = IF h \in less THEN T.groups[h].pending - 1 ELSE T.groups[h].pending
               /\ gs[h].resolved <=> T.groups[h].resolved \/ h \in done
    <3>1. T.groups[h] \in Group
      BY <1>1
    <3>2. CASE h \in less
      <4>1. h \in Open(T) /\ 0 \notin DOMAIN T.groups
        BY <1>3, <3>2, SoundFacts
      <4>2. T.groups[h].pending # 0 /\ ~T.groups[h].resolved
        BY <4>1 DEF Open, Sound
      <4>3. gs[h] = Ended(T.groups[h])
        BY <3>2
      <4> HIDE DEF gs
      <4> QED
        BY <1>3, <3>1, <3>2, <4>2, <4>3, EndedIs
    <3>3. CASE h \notin less
      BY <1>3, <3>1, <3>3
    <3> QED
      BY <3>2, <3>3
  <2>2. DOMAIN gs = DOMAIN T.groups
    OBVIOUS
  <2>3. gs \in [1..Len(T.groups) -> Group] /\ Len(T.groups) \in Nat
    <3>1. gs = [h \in DOMAIN T.groups |-> gs[h]]
      OBVIOUS
    <3> HIDE DEF gs
    <3> QED
      BY <1>1, <2>1, <3>1
  <2> HIDE DEF gs
  <2>4. gs \in Seq(Group)
    BY <2>3
  <2> QED
    BY <2>1, <2>2, <2>4
<1>6. U.named = ns /\ U.owner = os
  <2> HIDE DEF gs, ns, os, U
  <2> QED
    BY <1>4
<1> HIDE DEF g, done, less, gs, ns, os, U
<1>7. /\ U.groups \in Seq(Group) /\ DOMAIN U.groups = DOMAIN T.groups
      /\ \A h \in DOMAIN T.groups :
          /\ U.groups[h].parent = T.groups[h].parent
          /\ U.groups[h].pending = IF h \in less THEN T.groups[h].pending - 1 ELSE T.groups[h].pending
          /\ U.groups[h].resolved <=> T.groups[h].resolved \/ h \in done
      /\ U.named = [b \in {c \in DOMAIN T.named : T.named[c] \notin done} |-> T.named[b]]
      /\ U = [groups |-> U.groups, named |-> U.named, owner |-> Without(T.owner, x), reuses |-> T.reuses]
  BY <1>4, <1>5, <1>6 DEF ns, os
<1> QED
  BY <1>2, <1>7 DEF U

LEMMA OnExecutedKeeps ==
    ASSUME NEW T, NEW L, Sound(T), Exact(T, L), NEW x
    PROVE  LET U == OnExecuted(T, x)
           IN /\ Sound(U) /\ Exact(U, L) /\ U.reuses = T.reuses
              /\ DOMAIN U.owner = DOMAIN T.owner \ {x}
              /\ \A y : y # x => Climb(T, L, y) \subseteq Climb(U, L, y)
<1> DEFINE U == OnExecuted(T, x)
<1>1. CASE x \notin DOMAIN T.owner
  <2>1. U = T
    BY <1>1 DEF OnExecuted
  <2> QED
    BY <1>1, <2>1
<1>2. CASE x \in DOMAIN T.owner
  <2> HIDE DEF U
  <2>1. PICK g, done, less :
          /\ Ends1(T, x, g, done, less)
          /\ U.groups \in Seq(Group) /\ DOMAIN U.groups = DOMAIN T.groups
          /\ \A h \in DOMAIN T.groups :
              /\ U.groups[h].parent = T.groups[h].parent
              /\ U.groups[h].pending = IF h \in less THEN T.groups[h].pending - 1
                                                     ELSE T.groups[h].pending
              /\ U.groups[h].resolved <=> T.groups[h].resolved \/ h \in done
          /\ U.named = [b \in {c \in DOMAIN T.named : T.named[c] \notin done} |-> T.named[b]]
          /\ U = [groups |-> U.groups, named |-> U.named, owner |-> Without(T.owner, x),
                  reuses |-> T.reuses]
    BY <1>2, OnExecutedIs DEF U
  <2>2. U.owner = Without(T.owner, x) /\ U.reuses = T.reuses
    BY <2>1
  <2>3. /\ g \in Open(T) /\ done \subseteq Open(T) /\ less \subseteq Open(T) \cup {0}
        /\ \A h \in done : T.groups[h].pending = 1 /\ h \in less
        /\ \A h \in less : h \in DOMAIN T.groups /\ T.groups[h].pending = 1 => h \in done
        /\ \A h \in done : T.groups[h].parent # g
        /\ \A h, k \in done : T.groups[h].parent = T.groups[k].parent /\ T.groups[h].parent # 0 => h = k
    BY <2>1, DoneFacts
  <2>4. g = T.owner[x] /\ less = {g} \cup {T.groups[h].parent : h \in done}
    BY <2>1 DEF Ends1
  <2>5. 0 \notin DOMAIN T.groups /\ Open(T) \subseteq DOMAIN T.groups
        /\ \A h \in DOMAIN T.groups : T.groups[h].pending \in Nat
    BY SoundFacts
  <2>6. /\ DOMAIN U.owner = DOMAIN T.owner \ {x}
        /\ \A y \in DOMAIN U.owner : U.owner[y] = T.owner[y]
        /\ U.owner \in [DOMAIN U.owner -> DOMAIN T.groups]
    <3> DEFINE f == T.owner
    <3>1. f \in [DOMAIN T.owner -> DOMAIN T.groups]
      BY DEF Sound
    <3> HIDE DEF f
    <3>2. /\ DOMAIN Without(f, x) = DOMAIN f \ {x}
          /\ \A y \in DOMAIN f \ {x} : Without(f, x)[y] = f[y]
          /\ Without(f, x) \in [DOMAIN f \ {x} -> DOMAIN T.groups]
      BY <3>1 DEF Without
    <3> QED
      BY <2>2, <3>2 DEF f
  <2>7. \A h \in DOMAIN T.groups : U.groups[h].resolved <=> U.groups[h].pending = 0
    <3>1. \A h \in DOMAIN T.groups : T.groups[h].resolved <=> T.groups[h].pending = 0
      BY DEF Sound
    <3>2. \A h \in DOMAIN T.groups : h \in less => ~T.groups[h].resolved
      BY <2>3, <2>5 DEF Open
    <3> QED
      BY <2>1, <2>3, <2>5, <3>1, <3>2
  <2>8. Sound(U)
    <3>1. \A h \in DOMAIN U.groups : U.groups[h].parent \in DOMAIN U.groups \cup {0}
      BY <2>1 DEF Sound
    <3>2. U.named \in [DOMAIN U.named -> DOMAIN U.groups] /\ DOMAIN U.named \subseteq Bins
      BY <2>1 DEF Sound
    <3>3. ASSUME NEW b \in DOMAIN U.named PROVE U.groups[U.named[b]].pending # 0
      <4>1. U.named[b] = T.named[b] /\ T.named[b] \in DOMAIN T.groups /\ T.named[b] \notin done
        BY <2>1 DEF Sound
      <4>2. T.groups[T.named[b]].pending # 0
        BY <2>1 DEF Sound
      <4>3. ~T.groups[T.named[b]].resolved
        BY <4>1, <4>2 DEF Sound
      <4> QED
        BY <2>1, <2>7, <4>1, <4>3
    <3>4. IsFiniteSet(DOMAIN T.owner)
      BY DEF Sound
    <3>5. IsFiniteSet(DOMAIN U.owner)
      BY <2>6, <3>4, FS_Subset
    <3>6. U = [groups |-> U.groups, named |-> U.named, owner |-> U.owner, reuses |-> U.reuses]
      BY <2>1, <2>2
    <3> QED
      BY <2>1, <2>6, <2>7, <3>1, <3>2, <3>3, <3>5, <3>6 DEF Sound
  <2>9. Open(U) = Open(T) \ done /\ \A k \in Open(T) : U.groups[k].parent = T.groups[k].parent
    BY <2>1 DEF Open
  <2>10. ASSUME NEW h \in DOMAIN T.groups
         PROVE  Heard(U, h) = IF h \in less THEN Heard(T, h) - 1 ELSE Heard(T, h)
    <3> DEFINE m == Cardinality(Members(T, h))
    <3> DEFINE s == Cardinality(Subgroups(T, h))
    <3> DEFINE m1 == Cardinality(Members(U, h))
    <3> DEFINE s1 == Cardinality(Subgroups(U, h))
    <3>1. m \in Nat /\ s \in Nat /\ Heard(T, h) = m + s /\ Heard(U, h) = m1 + s1
      BY <2>8, HeardFacts
    <3>2. m1 = IF h = g THEN m - 1 ELSE m
      <4>1. CASE h = g
        <5>1. x \in Members(T, h) /\ Members(U, h) = Members(T, h) \ {x}
          BY <1>2, <2>4, <2>6, <4>1 DEF Members
        <5> QED
          BY <4>1, <5>1, HeardFacts, FS_RemoveElement
      <4>2. CASE h # g
        <5>1. Members(U, h) = Members(T, h)
          BY <2>4, <2>6, <4>2 DEF Members
        <5> QED
          BY <4>2, <5>1
      <4> QED
        BY <4>1, <4>2
    <3>3. s1 = IF h \in {T.groups[k].parent : k \in done} THEN s - 1 ELSE s
      <4>1. CASE h \in {T.groups[k].parent : k \in done}
        <5>1. PICK k \in done : T.groups[k].parent = h
          BY <4>1
        <5>2. \A j \in done : T.groups[j].parent = h => j = k
          BY <2>3, <2>5, <5>1
        <5>3. k \in Subgroups(T, h) /\ Subgroups(U, h) = Subgroups(T, h) \ {k}
          BY <2>3, <2>9, <5>1, <5>2 DEF Subgroups
        <5> QED
          BY <4>1, <5>3, HeardFacts, FS_RemoveElement
      <4>2. CASE h \notin {T.groups[k].parent : k \in done}
        <5>1. Subgroups(U, h) = Subgroups(T, h)
          BY <2>9, <4>2 DEF Subgroups
        <5> QED
          BY <4>2, <5>1
      <4> QED
        BY <4>1, <4>2
    <3>4. h \in less <=> h = g \/ h \in {T.groups[k].parent : k \in done}
      BY <2>4
    <3>5. h = g => h \notin {T.groups[k].parent : k \in done}
      BY <2>3
    <3> HIDE DEF m, s, m1, s1
    <3> QED
      BY <3>1, <3>2, <3>3, <3>4, <3>5
  <2>11. Exact(U, L)
    <3>1. ASSUME NEW h \in DOMAIN T.groups
          PROVE  IF h \in L THEN U.groups[h].pending > Heard(U, h) ELSE U.groups[h].pending = Heard(U, h)
      <4>1. IF h \in L THEN T.groups[h].pending > Heard(T, h) ELSE T.groups[h].pending = Heard(T, h)
        BY DEF Exact
      <4>2. U.groups[h].pending = IF h \in less THEN T.groups[h].pending - 1 ELSE T.groups[h].pending
        BY <2>1
      <4>3. T.groups[h].pending \in Nat /\ Heard(T, h) \in Nat
        BY <2>5, HeardFacts
      <4> QED
        BY <2>10, <4>1, <4>2, <4>3
    <3> QED
      BY <2>1, <3>1 DEF Exact
  <2>12. ASSUME NEW y, y # x PROVE Climb(T, L, y) \subseteq Climb(U, L, y)
    <3>1. OwnerOf(U, y) = OwnerOf(T, y)
      BY <2>6, <2>12 DEF OwnerOf
    <3>2. Open(U) \subseteq Open(T) /\ \A k \in Open(U) : U.groups[k].parent = T.groups[k].parent
      BY <2>9
    <3> QED
      BY <2>8, <2>11, <3>1, <3>2, ClimbKept
  <2> QED
    BY <2>2, <2>6, <2>8, <2>11, <2>12 DEF U
<1> QED
  BY <1>1, <1>2

-----------------------------------------------------------------------------
(* How a job ends. *)

\* x spawns N and ends.
JobEnd(T, N, x, event) ==
    LET told == OnWillPlan(T, N, x)
    IN IF event = "planned" THEN OnPlanned(told, x) ELSE OnExecuted(told, x)

\* It ends unless it is in K and goes on under its own id.
LEMMA JobEnds ==
    ASSUME NEW T, NEW L, Sound(T), Exact(T, L), NEW x, NEW K, NEW event,
           NEW N, IsFiniteSet(N), N \cap DOMAIN T.owner = {}, x \notin N,
           T.reuses = {} \/ (event = "planned" /\ T.reuses = {x} /\ x \in K),
           x \in K => x \notin DOMAIN T.owner \/ T.reuses = {x}
    PROVE  LET end == JobEnd(T, N, x, event)
           IN /\ Sound(end) /\ Exact(end, L) /\ end.reuses = {}
              /\ \A y : y # x \/ x \in K => Climb(T, L, y) \subseteq Climb(end, L, y)
              /\ \A y \in N : Climb(T, L, x) \subseteq Climb(end, L, y)
              /\ DOMAIN end.owner \subseteq (DOMAIN T.owner \cup N) \ ({x} \ K)
<1> DEFINE told == OnWillPlan(T, N, x)
<1> DEFINE end  == JobEnd(T, N, x, event)
<1>0. end = IF event = "planned" THEN OnPlanned(told, x) ELSE OnExecuted(told, x)
  BY DEF JobEnd
<1>1. /\ Keeps(T, L, told, L) /\ told.reuses = T.reuses
      /\ \A y \in N : Climb(T, L, x) \subseteq Climb(told, L, y)
      /\ DOMAIN T.owner \subseteq DOMAIN told.owner /\ DOMAIN told.owner \subseteq DOMAIN T.owner \cup N
  BY OnWillPlanKeeps
<1> HIDE DEF told, end
<1>2. /\ Sound(told) /\ Exact(told, L)
      /\ \A y : Climb(T, L, y) \subseteq Climb(told, L, y)
  BY <1>1 DEF Keeps
<1>3. SUFFICES /\ Sound(end) /\ Exact(end, L) /\ end.reuses = {}
               /\ \A y : y # x \/ x \in K => Climb(told, L, y) \subseteq Climb(end, L, y)
               /\ DOMAIN end.owner \subseteq DOMAIN told.owner \ ({x} \ K)
  BY <1>1, <1>2 DEF end
<1>4. CASE event = "planned" /\ T.reuses = {x} /\ x \in K
  <2>1. end = [told EXCEPT !.reuses = {}]
    <3>1. end = [told EXCEPT !.reuses = told.reuses \ {x}]
      BY <1>0, <1>1, <1>4 DEF OnPlanned
    <3>2. told.reuses \ {x} = {}
      BY <1>1, <1>4
    <3> QED
      BY <3>1, <3>2
  <2>2. told = [groups |-> told.groups, named |-> told.named, owner |-> told.owner, reuses |-> told.reuses]
        /\ told.groups \in Seq(Group)
    BY <1>2 DEF Sound
  <2>3. end.groups = told.groups /\ end.owner = told.owner /\ end.reuses = {}
        /\ end = [groups |-> told.groups, named |-> told.named, owner |-> told.owner, reuses |-> {}]
    BY <2>1, <2>2
  <2>4. Alike(told, end)
    BY <2>2, <2>3 DEF Alike
  <2>5. Keeps(told, L, end, L)
    BY <1>2, <2>4, AlikeKeeps
  <2> QED
    BY <1>4, <2>3, <2>5 DEF Keeps
<1>5. CASE T.reuses = {}
  <2>1. end = OnExecuted(told, x)
    BY <1>0, <1>1, <1>5 DEF OnPlanned
  <2>2. /\ Sound(end) /\ Exact(end, L) /\ end.reuses = told.reuses
        /\ DOMAIN end.owner = DOMAIN told.owner \ {x}
        /\ \A y : y # x => Climb(told, L, y) \subseteq Climb(end, L, y)
    BY <1>2, <2>1, OnExecutedKeeps
  <2>3. x \in K => end = told
    BY <1>1, <1>5, <2>1 DEF OnExecuted
  <2> QED
    BY <1>1, <1>5, <2>2, <2>3
<1> QED
  BY <1>4, <1>5

LEMMA ListedIs ==
    ASSUME NEW S, IsFiniteSet(S)
    PROVE  SetToSeq(S) \in [1..Cardinality(S) -> S]
<1>1. PICK f : f \in Bijection(1..Cardinality(S), S)
  BY FS_CardinalityType DEF ExistsBijection
<1>2. f \in [1..Cardinality(S) -> S] /\ IsInjective(f)
  BY <1>1 DEF Bijection, Injection
<1> QED
  BY <1>2 DEF SetToSeq

LEMMA FreshIs ==
    ASSUME NEW i \in Nat, NEW n \in Nat
    PROVE  /\ Len(Fresh(i, n)) = n /\ DOMAIN Fresh(i, n) = 1..n
           /\ Range(Fresh(i, n)) = (i + 1)..(i + n)
           /\ Once(Fresh(i, n))
           /\ IsSeq(Fresh(i, n))
<1> DEFINE f == Fresh(i, n)
<1>1. f = [k \in 1..n |-> i + k]
  BY DEF Fresh
<1>2. f \in Seq((i + 1)..(i + n)) /\ DOMAIN f = 1..n /\ Len(f) = n
  BY <1>1
<1>3. ASSUME NEW v \in (i + 1)..(i + n) PROVE v \in Range(f)
  <2>1. v - i \in 1..n
    OBVIOUS
  <2>2. f[v - i] = v
    BY <1>1, <2>1
  <2> HIDE DEF f
  <2> QED
    BY <1>2, <2>1, <2>2 DEF Range
<1>4. \A j, k \in 1..n : f[j] = f[k] => j = k
  BY <1>1
<1>5. Range(f) \subseteq (i + 1)..(i + n)
  BY <1>1 DEF Range
<1> QED
  <2>1. Range(f) = (i + 1)..(i + n)
    BY <1>3, <1>5
  <2> HIDE DEF f
  <2>2. IsSeq(f)
    BY <1>2, <2>1 DEF IsSeq
  <2> QED
    BY <1>2, <1>4, <2>1, <2>2 DEF f, Once

\* One sequence after another.
LEMMA ThenIs ==
    ASSUME NEW s, NEW t, NEW u, IsSeq(s), IsSeq(t), u = s \o t
    PROVE  /\ IsSeq(u) /\ Range(u) = Range(s) \cup Range(t)
           /\ Once(s) /\ Once(t) /\ Range(s) \cap Range(t) = {} => Once(u)
<1> DEFINE A == Range(s)
<1> DEFINE B == Range(t)
<1> HIDE DEF A, B
<1>0. s \in Seq(A) /\ t \in Seq(B)
  BY DEF IsSeq, A, B
<1>1. /\ DOMAIN s = 1..Len(s) /\ DOMAIN t = 1..Len(t) /\ DOMAIN u = 1..(Len(s) + Len(t))
      /\ Len(s) \in Nat /\ Len(t) \in Nat
      /\ \A j \in DOMAIN u : u[j] = IF j <= Len(s) THEN s[j] ELSE t[j - Len(s)]
  BY <1>0
<1>2. u \in Seq(A \cup B)
  BY <1>0
<1>3. \A j \in DOMAIN u : IF j <= Len(s) THEN j \in DOMAIN s ELSE j - Len(s) \in DOMAIN t
  BY <1>1
<1>4. \A j \in DOMAIN u : u[j] \in Range(s) \cup Range(t)
  BY <1>1, <1>3 DEF Range
<1>5. ASSUME NEW j \in DOMAIN s PROVE s[j] \in Range(u)
  <2>1. j \in DOMAIN u /\ u[j] = s[j]
    BY <1>1
  <2> QED
    BY <2>1 DEF Range
<1>6. ASSUME NEW j \in DOMAIN t PROVE t[j] \in Range(u)
  <2>1. j + Len(s) \in DOMAIN u /\ u[j + Len(s)] = t[j]
    BY <1>1
  <2> QED
    BY <2>1 DEF Range
<1>7. Range(u) = Range(s) \cup Range(t)
  BY <1>4, <1>5, <1>6 DEF Range
<1>8. ASSUME Once(s), Once(t), Range(s) \cap Range(t) = {},
             NEW j \in DOMAIN u, NEW k \in DOMAIN u, u[j] = u[k]
      PROVE  j = k
  <2>1. j \in Nat /\ k \in Nat
    BY <1>1
  <2>2. \A i \in DOMAIN s : s[i] \in Range(s)
    BY DEF Range
  <2>3. \A i \in DOMAIN t : t[i] \in Range(t)
    BY DEF Range
  <2>4. (j <= Len(s)) <=> (k <= Len(s))
    BY <1>1, <1>3, <1>8, <2>2, <2>3
  <2>5. CASE j <= Len(s)
    BY <1>1, <1>3, <1>8, <2>4, <2>5 DEF Once
  <2>6. CASE ~(j <= Len(s))
    <3>1. j - Len(s) = k - Len(s)
      BY <1>1, <1>3, <1>8, <2>4, <2>6 DEF Once
    <3> QED
      BY <1>1, <2>1, <3>1
  <2> QED
    BY <2>5, <2>6
<1> QED
  <2>1. IsSeq(u)
    BY <1>2, <1>7 DEF IsSeq, A, B
  <2> QED
    BY <1>7, <1>8, <2>1 DEF Once

-----------------------------------------------------------------------------
(* The invariant is inductive. *)

\* What there is has a place, and the tasks among it are numbered 1..issued.
LEMMA Places ==
    ASSUME GroupsInv
    PROVE  /\ issued \in Nat /\ Tasks \subseteq 1..issued /\ Bins \cap Nat = {} /\ Tasks \subseteq Nat
           /\ Range(queue) \subseteq Tasks /\ Range(adding) \subseteq Tasks /\ heap \subseteq Bins \cup Tasks
           /\ DOMAIN belongs = heap \cup Range(queue) \cup Range(adding)
           /\ DOMAIN tracker.owner \subseteq heap \cup Range(queue)
           /\ \A x \in heap \cup Range(queue) : x \notin Range(adding)
           /\ \A x \in heap : x \notin Range(queue)
<1>1. issued \in Nat /\ Tasks \subseteq 1..issued /\ Bins \cap Nat = {}
  BY TaskGroupsAssumption DEF GroupsInv, TypeOK
<1>2. Range(queue) \subseteq Tasks /\ Range(adding) \subseteq Tasks
  <2>1. queue \in Seq(Tasks) /\ adding \in Seq(Tasks)
    BY DEF GroupsInv, TypeOK
  <2> QED
    BY <2>1 DEF Range
<1> QED
  BY <1>1, <1>2 DEF GroupsInv, TypeOK, Apart

LEMMA MembershipFound ==
    ASSUME GroupsInv, NEW T, NEW M, Keeps(tracker, leaky, T, M), NEW x \in DOMAIN belongs
    PROVE  Membership(T, x) \subseteq Climb(T, M, x)
<1>1. belongs[x] \subseteq Climb(tracker, leaky, x)
  BY DEF GroupsInv, Found
<1>2. Sound(T) /\ Exact(T, M) /\ Climb(tracker, leaky, x) \subseteq Climb(T, M, x)
  BY DEF Keeps
<1>3. M \subseteq Open(T) /\ OwnerOf(T, x) \in Open(T) \cup {0}
  BY <1>2, KnownAreOpen
<1>4. OwnerOf(T, x) # 0 => OwnerOf(T, x) \in Climb(T, M, x)
  BY <1>3, ClimbFacts
<1> QED
  BY <1>1, <1>2, <1>4 DEF Membership

\* Job x has brought the tracker to T, ends, and leaves what is in kept behind.
Job(x, T, S, event, waiting, kept) ==
    /\ Ends(x, T, S, event, waiting, kept)
    /\ x \in heap \cup Range(queue) /\ S \subseteq Kinds
    /\ Keeps(tracker, leaky, T, leaky')
    /\ T.reuses = {} \/ (event = "planned" /\ T.reuses = {x} /\ x \in DOMAIN kept)
    /\ x \in DOMAIN kept => x \notin DOMAIN T.owner \/ T.reuses = {x}
    /\ DOMAIN T.owner \subseteq DOMAIN tracker.owner \cup {x} \cup DOMAIN kept
    /\ \A y \in DOMAIN kept : kept[y] \subseteq Climb(T, leaky', y)
    /\ DOMAIN kept \subseteq Bins \cup {x}
    /\ heap' = (heap \ {x}) \cup DOMAIN kept
    /\ IsSeq(waiting) /\ Once(waiting) /\ Range(waiting) = Range(queue) \ {x}
    /\ planned' \subseteq Bins /\ notices' \in 0..MaxNotices

LEMMA JobKeeps ==
    ASSUME GroupsInv, NEW x, NEW T, NEW S, NEW event, NEW waiting, NEW kept,
           Job(x, T, S, event, waiting, kept)
    PROVE  GroupsInv'
<1> DEFINE M     == leaky'
<1> DEFINE n     == Cardinality(S)
<1> DEFINE kinds == SetToSeq(S)
<1> DEFINE new   == Fresh(issued, n)
<1> DEFINE N     == (issued + 1)..(issued + n)
<1> DEFINE K     == DOMAIN kept
<1>1. PICK told \in {OnWillPlan(T, Range(new), x)} :
      \E end \in {IF event = "planned" THEN OnPlanned(told, x) ELSE OnExecuted(told, x)} :
         LET due  == {g \in DOMAIN end.groups :
                        end.groups[g].follow /\ end.groups[g].resolved
                                             /\ ~told.groups[g].resolved}
             more == Fresh(issued + Len(new), Cardinality(due))
         IN /\ issued + Len(new) <= MaxTasks \/ S = {}
            /\ tracker' = end
            /\ issued' = issued + Len(new) + Len(more)
            /\ kind' = Over(IF x \in DOMAIN kept THEN kind ELSE Without(kind, x),
                            [y \in Range(new) \cup Range(more) |->
                                IF y \in Range(new) THEN kinds[y - issued] ELSE Follow])
            /\ adding' = adding \o more
            /\ queue' = waiting \o new
            /\ belongs' = Over(Over(Without(belongs, x), kept),
                               [y \in Range(new) \cup Range(more) |->
                                   IF y \in Range(new) THEN Membership(T, x) ELSE {}])
  BY DEF Job, Ends
<1> DEFINE end  == IF event = "planned" THEN OnPlanned(told, x) ELSE OnExecuted(told, x)
<1> DEFINE due  == {g \in DOMAIN end.groups : end.groups[g].follow /\ end.groups[g].resolved
                                                                 /\ ~told.groups[g].resolved}
<1> DEFINE d    == Cardinality(due)
<1> DEFINE more == Fresh(issued + Len(new), d)
<1> DEFINE D    == (issued + n + 1)..(issued + n + d)
<1>2. /\ tracker' = end
      /\ issued' = issued + Len(new) + Len(more)
      /\ kind' = Over(IF x \in K THEN kind ELSE Without(kind, x),
                      [y \in Range(new) \cup Range(more) |->
                          IF y \in Range(new) THEN kinds[y - issued] ELSE Follow])
      /\ adding' = adding \o more
      /\ queue' = waiting \o new
      /\ belongs' = Over(Over(Without(belongs, x), kept),
                         [y \in Range(new) \cup Range(more) |->
                             IF y \in Range(new) THEN Membership(T, x) ELSE {}])
  BY <1>1
<1>3. told = OnWillPlan(T, Range(new), x)
  BY <1>1
<1>4. /\ issued \in Nat /\ Tasks \subseteq 1..issued /\ Bins \cap Nat = {} /\ Tasks \subseteq Nat
      /\ Range(queue) \subseteq Tasks /\ Range(adding) \subseteq Tasks /\ heap \subseteq Bins \cup Tasks
      /\ DOMAIN belongs = heap \cup Range(queue) \cup Range(adding)
      /\ DOMAIN tracker.owner \subseteq heap \cup Range(queue)
      /\ x \notin Range(adding)
  BY Places DEF Job
<1>5. n \in Nat /\ IsFiniteSet(S) /\ kinds \in [1..n -> S] /\ S \subseteq Kinds
  <2>1. IsFiniteSet(S)
    BY TaskGroupsAssumption, FS_Subset DEF Job
  <2> QED
    BY <2>1, FS_CardinalityType, ListedIs DEF Job
<1> HIDE DEF n, kinds
<1>6. /\ Len(new) = n /\ Range(new) = N /\ IsSeq(new)
      /\ Once(new)
  BY <1>4, <1>5, FreshIs
<1> HIDE DEF new
<1>7. N \cap Bins = {} /\ N \cap (1..issued) = {} /\ N \subseteq Nat /\ IsFiniteSet(N)
  <2>1. issued + 1 \in Int /\ issued + n \in Int
    BY <1>4, <1>5
  <2>2. IsFiniteSet(N)
    BY <2>1, FS_Interval
  <2> QED
    BY <1>4, <1>5, <2>2
<1>8. x \in Bins \cup Tasks /\ x \notin N /\ N \cap DOMAIN T.owner = {}
  <2>1. x \in Bins \cup Tasks /\ DOMAIN T.owner \subseteq Bins \cup Tasks
    BY <1>4 DEF Job
  <2> HIDE DEF N
  <2> QED
    BY <1>4, <1>7, <2>1
<1>9. Sound(T) /\ Exact(T, M)
  BY DEF Job, Keeps
<1> HIDE DEF N
<1>10. /\ Sound(end) /\ Exact(end, M) /\ end.reuses = {}
       /\ \A y : y # x \/ x \in K => Climb(T, M, y) \subseteq Climb(end, M, y)
       /\ \A y \in N : Climb(T, M, x) \subseteq Climb(end, M, y)
       /\ DOMAIN end.owner \subseteq (DOMAIN T.owner \cup N) \ ({x} \ K)
  <2> HIDE DEF M, end, K
  <2>1. told = OnWillPlan(T, N, x)
    BY <1>3, <1>6
  <2>2. T.reuses = {} \/ (event = "planned" /\ T.reuses = {x} /\ x \in K)
    BY DEF Job, K
  <2>3. x \in K => x \notin DOMAIN T.owner \/ T.reuses = {x}
    BY DEF Job, K
  <2>4. end = JobEnd(T, N, x, event)
    BY <2>1 DEF end, JobEnd
  <2> QED
    BY <1>7, <1>8, <1>9, <2>2, <2>3, <2>4, JobEnds
<1> HIDE DEF end
<1>11. d \in Nat
  <2>1. DOMAIN end.groups = 1..Len(end.groups) /\ Len(end.groups) \in Nat
    BY <1>10, SoundFacts
  <2> DEFINE l == Len(end.groups)
  <2>2. l \in Int
    BY <2>1
  <2> HIDE DEF l
  <2>3. IsFiniteSet(1..l)
    BY <2>2, FS_Interval
  <2>4. IsFiniteSet(due)
    BY <2>1, <2>3, FS_Subset DEF l
  <2> QED
    BY <2>4, FS_CardinalityType
<1> HIDE DEF due, d
<1>12. /\ Len(more) = d /\ Range(more) = D /\ IsSeq(more)
       /\ Once(more)
  <2> DEFINE i == issued + n
  <2>1. i \in Nat
    BY <1>4, <1>5
  <2>2. more = Fresh(i, d)
    BY <1>6
  <2> HIDE DEF more, i
  <2>3. /\ Len(more) = d /\ Range(more) = (i + 1)..(i + d) /\ IsSeq(more)
        /\ Once(more)
    BY <1>11, <2>1, <2>2, FreshIs
  <2> QED
    BY <2>3 DEF i
<1> HIDE DEF more
<1>13. /\ D \cap Bins = {} /\ D \cap (1..issued) = {} /\ D \cap N = {}
       /\ issued' \in Nat /\ 1..issued' = (1..issued) \cup N \cup D
  <2>1. issued' = issued + n + d
    BY <1>2, <1>6, <1>12
  <2> QED
    BY <1>4, <1>5, <1>11, <2>1 DEF N
<1> HIDE DEF D, M, K
<1>14. Range(queue') = (Range(queue) \ {x}) \cup N /\ IsSeq(queue') /\ Once(queue')
  <2>1. IsSeq(waiting) /\ Once(waiting) /\ Range(waiting) = Range(queue) \ {x}
    BY DEF Job
  <2>2. Range(waiting) \cap Range(new) = {}
    BY <1>4, <1>6, <1>7, <2>1
  <2>3. queue' = waiting \o new
    BY <1>2
  <2>4. IsSeq(queue') /\ Range(queue') = Range(waiting) \cup Range(new) /\ Once(queue')
    BY <1>6, <2>1, <2>2, <2>3, ThenIs
  <2> QED
    BY <1>6, <2>1, <2>4
<1>15. Range(adding') = Range(adding) \cup D /\ IsSeq(adding') /\ Once(adding')
  <2>1. IsSeq(adding)
    <3>1. adding \in Seq(Tasks)
      BY DEF GroupsInv, TypeOK
    <3> QED
      BY <3>1 DEF Range, IsSeq
  <2>2. Range(adding) \cap Range(more) = {}
    BY <1>4, <1>12, <1>13
  <2>3. Once(adding)
    BY DEF GroupsInv, Apart
  <2>4. adding' = adding \o more
    BY <1>2
  <2> QED
    BY <1>12, <2>1, <2>2, <2>3, <2>4, ThenIs
<1>16. /\ Tasks' = (Tasks \ ({x} \ K)) \cup N \cup D
       /\ kind' \in [Tasks' -> Kinds]
  <2>1. kind \in [Tasks -> Kinds]
    BY DEF GroupsInv
  <2>2. \A y \in N : kinds[y - issued] \in Kinds
    BY <1>4, <1>5 DEF N
  <2>3. Follow \in Kinds
    BY TaskGroupsAssumption
  <2> DEFINE f == IF x \in K THEN kind ELSE Without(kind, x)
  <2> DEFINE e == [y \in N \cup D |-> IF y \in N THEN kinds[y - issued] ELSE Follow]
  <2>4. f \in [Tasks \ ({x} \ K) -> Kinds]
    BY <2>1 DEF Without
  <2>5. e \in [N \cup D -> Kinds]
    BY <2>2, <2>3
  <2>6. kind' = Over(f, e)
    BY <1>2, <1>6, <1>12
  <2> HIDE DEF f, e
  <2> QED
    BY <2>4, <2>5, <2>6 DEF Over, Tasks
<1>17. /\ DOMAIN belongs' = (DOMAIN belongs \ {x}) \cup K \cup N \cup D
       /\ \A y \in N : belongs'[y] = Membership(T, x)
       /\ \A y \in D : belongs'[y] = {}
       /\ \A y \in K \ (N \cup D) : belongs'[y] = kept[y]
       /\ \A y \in DOMAIN belongs \ ({x} \cup K \cup N \cup D) : belongs'[y] = belongs[y]
  <2> DEFINE e == [y \in N \cup D |-> IF y \in N THEN Membership(T, x) ELSE {}]
  <2> DEFINE f == Without(belongs, x)
  <2>1. belongs' = Over(Over(f, kept), e)
    BY <1>2, <1>6, <1>12
  <2>2. /\ DOMAIN e = N \cup D /\ \A y \in N : e[y] = Membership(T, x)
        /\ \A y \in D : e[y] = {}
    BY <1>13
  <2>3. DOMAIN f = DOMAIN belongs \ {x} /\ \A y \in DOMAIN belongs \ {x} : f[y] = belongs[y]
    BY DEF Without
  <2> HIDE DEF e, f
  <2>4. DOMAIN Over(f, kept) = DOMAIN f \cup K /\ \A y \in DOMAIN f \cup K :
           Over(f, kept)[y] = IF y \in K THEN kept[y] ELSE f[y]
    BY DEF Over, K
  <2> DEFINE h == Over(f, kept)
  <2> HIDE DEF h
  <2>5. DOMAIN Over(h, e) = DOMAIN h \cup DOMAIN e /\ \A y \in DOMAIN h \cup DOMAIN e :
           Over(h, e)[y] = IF y \in DOMAIN e THEN e[y] ELSE h[y]
    BY DEF Over
  <2> QED
    BY <2>1, <2>2, <2>3, <2>4, <2>5 DEF h
<1>18. Found(tracker', leaky', belongs')
  <2>1. ASSUME NEW y \in DOMAIN belongs' PROVE belongs'[y] \subseteq Climb(end, M, y)
    <3>1. CASE y \in N
      <4>1. Membership(T, x) \subseteq Climb(T, M, x)
        BY <1>4, MembershipFound DEF Job, M
      <4> QED
        BY <1>10, <1>17, <3>1, <4>1
    <3>2. CASE y \in D
      BY <1>17, <3>2
    <3>3. CASE y \in K /\ y \notin N \cup D
      <4>1. belongs'[y] = kept[y] /\ kept[y] \subseteq Climb(T, M, y)
        BY <1>17, <3>3 DEF Job, K, M
      <4>2. y # x \/ x \in K
        BY <3>3
      <4> QED
        BY <1>10, <4>1, <4>2
    <3>4. CASE y \notin K \cup N \cup D
      <4>1. y \in DOMAIN belongs /\ y # x /\ belongs'[y] = belongs[y]
        BY <1>17, <2>1, <3>4
      <4>2. belongs[y] \subseteq Climb(tracker, leaky, y)
        BY <4>1 DEF GroupsInv, Found
      <4>3. Climb(tracker, leaky, y) \subseteq Climb(T, M, y)
        BY DEF Job, Keeps, M
      <4> QED
        BY <1>10, <4>1, <4>2, <4>3
    <3> QED
      BY <3>1, <3>2, <3>3, <3>4
  <2> QED
    BY <1>2, <2>1 DEF Found, M
<1>19. Apart'
  <2>1. Range(queue') \cap Range(adding') = {}
    BY <1>4, <1>7, <1>13, <1>14, <1>15, Places DEF GroupsInv, Apart
  <2>2. heap' \cap (Range(queue') \cup Range(adding')) = {}
    <3>1. heap \cap (Range(queue) \cup Range(adding)) = {} /\ heap \cap (N \cup D) = {}
      BY <1>4, <1>7, <1>13 DEF GroupsInv, Apart
    <3>2. K \cap (N \cup D) = {} /\ K \cap (Range(queue) \ {x}) = {} /\ K \cap Range(adding) = {}
      <4>1. K \subseteq Bins \cup {x}
        BY DEF Job, K
      <4>2. Bins \cap (N \cup D) = {} /\ Tasks \cap (N \cup D) = {} /\ Bins \cap Tasks = {}
        BY <1>4, <1>7, <1>13
      <4>3. x \in Bins \cup Tasks /\ x \notin Range(adding)
            /\ Range(queue) \subseteq Tasks /\ Range(adding) \subseteq Tasks
        BY <1>4, <1>8
      <4> QED
        BY <4>1, <4>2, <4>3
    <3> QED
      BY <1>14, <1>15, <3>1, <3>2 DEF Job, K
  <2> QED
    BY <1>14, <1>15, <2>1, <2>2 DEF Apart
<1>20. TypeOK'
  <2>1. issued' \in Nat /\ Tasks' \subseteq 1..issued'
    BY <1>4, <1>13, <1>16
  <2>2. Range(kind') \subseteq Kinds
    BY <1>16 DEF Range
  <2>3. adding' \in Seq(Tasks') /\ queue' \in Seq(Tasks')
    <3>1. Range(adding') \subseteq Tasks' /\ Range(queue') \subseteq Tasks'
      BY <1>4, <1>14, <1>15, <1>16
    <3> QED
      BY <1>14, <1>15, <3>1 DEF IsSeq
  <2>4. heap' \subseteq Bins \cup Tasks'
    BY <1>4, <1>8, <1>16 DEF Job, K
  <2>5. /\ tracker'.groups \in Seq(Group)
        /\ \A g \in Gids' : tracker'.groups[g].parent \in Gids' \cup {0}
        /\ DOMAIN tracker'.named \subseteq Bins /\ Range(tracker'.named) \subseteq Gids'
        /\ Range(tracker'.owner) \subseteq Gids'
        /\ tracker'.reuses = {}
    BY <1>2, <1>10 DEF Sound, Range, Gids
  <2>6. DOMAIN tracker'.owner \subseteq heap' \cup Range(queue')
    BY <1>2, <1>4, <1>10, <1>14 DEF Job, K
  <2>7. DOMAIN belongs' = heap' \cup Range(queue') \cup Range(adding')
    BY <1>4, <1>14, <1>15, <1>17 DEF Job, K
  <2>8. leaky' \subseteq Gids'
    BY <1>2, <1>10 DEF Exact, M, Gids
  <2> QED
    BY <2>1, <2>2, <2>3, <2>4, <2>5, <2>6, <2>7, <2>8 DEF Job, TypeOK
<1> QED
  BY ZenonT(30), <1>2, <1>10, <1>16, <1>18, <1>19, <1>20 DEF GroupsInv, M

LEMMA AppendIs ==
    ASSUME NEW s, IsSeq(s), NEW v, NEW u, u = Append(s, v)
    PROVE  /\ IsSeq(u) /\ Range(u) = Range(s) \cup {v}
           /\ Once(s) /\ v \notin Range(s) => Once(u)
<1> DEFINE t == <<v>>
<1>1. DOMAIN t = {1} /\ t[1] = v /\ t \in Seq({v})
  OBVIOUS
<1>2. u = s \o t
  BY DEF IsSeq
<1> HIDE DEF t
<1>3. IsSeq(t) /\ Once(t) /\ Range(t) = {v}
  <2>1. Range(t) = {v} /\ Once(t)
    BY <1>1 DEF Range, Once
  <2> QED
    BY <1>1, <2>1 DEF IsSeq
<1>4. /\ IsSeq(u) /\ Range(u) = Range(s) \cup Range(t)
      /\ Once(s) /\ Once(t) /\ Range(s) \cap Range(t) = {} => Once(u)
  BY <1>2, <1>3, ThenIs
<1> QED
  BY <1>3, <1>4

LEMMA TailIs ==
    ASSUME NEW s, IsSeq(s), Once(s), s # << >>
    PROVE  /\ Head(s) \in Range(s) /\ IsSeq(Tail(s)) /\ Once(Tail(s))
           /\ Range(Tail(s)) = Range(s) \ {Head(s)}
<1> DEFINE A == Range(s)
<1> DEFINE t == Tail(s)
<1>1. s \in Seq(A)
  BY DEF IsSeq
<1> HIDE DEF A
<1>2. /\ Len(s) \in Nat /\ Len(s) >= 1 /\ DOMAIN s = 1..Len(s) /\ DOMAIN t = 1..(Len(s) - 1)
      /\ Head(s) = s[1] /\ t \in Seq(A)
      /\ \A i \in DOMAIN t : t[i] = s[i + 1]
  BY <1>1
<1> HIDE DEF t
<1>3. \A i \in DOMAIN t : i + 1 \in DOMAIN s /\ i + 1 # 1 /\ i \in Nat
  BY <1>2
<1>4. Once(t)
  BY <1>2, <1>3 DEF Once
<1>5. 1 \in DOMAIN s /\ Head(s) \in Range(s)
  BY <1>2 DEF Range
<1>6. \A i \in DOMAIN t : t[i] \in Range(s) \ {Head(s)}
  BY <1>2, <1>3, <1>5 DEF Range, Once
<1>7. ASSUME NEW v \in Range(s), v # Head(s) PROVE v \in Range(t)
  <2>1. PICK i \in DOMAIN s : v = s[i]
    BY DEF Range
  <2>2. i - 1 \in DOMAIN t /\ t[i - 1] = s[i]
    BY <1>2, <1>7, <2>1
  <2> QED
    BY <2>1, <2>2 DEF Range
<1>8. Range(t) = Range(s) \ {Head(s)}
  BY <1>6, <1>7 DEF Range
<1>9. IsSeq(t)
  <2>1. \A i \in DOMAIN t : t[i] \in Range(t)
    BY DEF Range
  <2> QED
    BY <1>2, <2>1 DEF IsSeq
<1> QED
  BY <1>4, <1>5, <1>8, <1>9 DEF t

\* The tracker as it is keeps itself, and two methods keep what each keeps.
LEMMA NothingKeeps ==
    ASSUME GroupsInv
    PROVE  Keeps(tracker, leaky, tracker, leaky) /\ tracker.reuses = {}
           /\ Sound(tracker) /\ Exact(tracker, leaky)
BY DEF GroupsInv, TypeOK, Keeps

LEMMA KeepsOn ==
    ASSUME NEW T, NEW U, NEW V, NEW L, NEW M, NEW N, Keeps(T, L, U, M), Keeps(U, M, V, N)
    PROVE  Keeps(T, L, V, N)
BY DEF Keeps

LEMMA QueueHead ==
    ASSUME GroupsInv, queue # << >>
    PROVE  LET x == Head(queue)
           IN /\ x \in Range(queue) /\ x \in Tasks /\ x \notin heap /\ x \notin Bins
              /\ x \in DOMAIN belongs /\ kind[x] \in Kinds
              /\ IsSeq(Tail(queue)) /\ Once(Tail(queue))
              /\ Range(Tail(queue)) = Range(queue) \ {x}
<1> DEFINE x == Head(queue)
<1>1. IsSeq(queue) /\ Once(queue)
  <2>1. queue \in Seq(Tasks)
    BY DEF GroupsInv, TypeOK
  <2>2. IsSeq(queue)
    BY <2>1 DEF IsSeq, Range
  <2> QED
    BY <2>2 DEF GroupsInv, Apart
<1>2. /\ x \in Range(queue) /\ IsSeq(Tail(queue)) /\ Once(Tail(queue))
      /\ Range(Tail(queue)) = Range(queue) \ {x}
  BY <1>1, TailIs
<1> HIDE DEF x
<1>3. x \in Tasks /\ x \notin heap /\ x \notin Bins /\ x \in DOMAIN belongs
  BY <1>2, Places
<1>4. kind[x] \in Kinds
  BY <1>3 DEF GroupsInv
<1> QED
  BY <1>2, <1>3, <1>4 DEF x

LEMMA KeepsRequest ==
    ASSUME GroupsInv, NEW k \in Requests, Request(k)
    PROVE  GroupsInv'
<1> DEFINE i == issued + 1
<1>1. /\ issued' = i /\ kind' = With(kind, i, k)
      /\ queue' = Append(queue, i) /\ belongs' = With(belongs, i, {})
      /\ UNCHANGED <<adding, heap, planned, tracker, leaky, notices>>
  BY DEF Request
<1>2. k \in Kinds /\ kind \in [Tasks -> Kinds] /\ Bins \cap Nat = {}
  BY TaskGroupsAssumption DEF GroupsInv
<1>3. issued \in Nat /\ Tasks \subseteq 1..issued
  BY Places
<1>4. i \in Nat /\ i \notin Tasks /\ Tasks \cup {i} \subseteq 1..i /\ i \notin Bins
  BY <1>2, <1>3
<1> HIDE DEF i
<1>5. Tasks' = Tasks \cup {i} /\ kind' \in [Tasks' -> Kinds]
  BY <1>1, <1>2 DEF With, Tasks
<1>6. Range(queue) \subseteq Tasks /\ Range(adding) \subseteq Tasks /\ heap \subseteq Bins \cup Tasks
      /\ DOMAIN belongs = heap \cup Range(queue) \cup Range(adding)
  BY Places
<1>7. IsSeq(queue') /\ Range(queue') = Range(queue) \cup {i} /\ Once(queue')
  <2>1. queue \in Seq(Tasks) /\ Once(queue)
    BY DEF GroupsInv, TypeOK, Apart
  <2>2. IsSeq(queue)
    BY <2>1 DEF IsSeq, Range
  <2>3. i \notin Range(queue)
    BY <1>4, <1>6
  <2> QED
    BY <1>1, <2>1, <2>2, <2>3, AppendIs
<1>8. /\ DOMAIN belongs' = DOMAIN belongs \cup {i} /\ belongs'[i] = {}
      /\ \A y \in DOMAIN belongs : y # i => belongs'[y] = belongs[y]
  BY <1>1 DEF With
<1>9. Found(tracker', leaky', belongs')
  <2>1. Found(tracker, leaky, belongs)
    BY DEF GroupsInv
  <2> QED
    BY <1>1, <1>8, <2>1 DEF Found
<1>10. Apart'
  <2>1. Range(queue) \cap Range(adding) = {} /\ heap \cap (Range(queue) \cup Range(adding)) = {} /\ Once(adding)
    BY DEF GroupsInv, Apart
  <2>2. Range(queue') \cap Range(adding) = {} /\ heap \cap (Range(queue') \cup Range(adding)) = {}
    BY <1>4, <1>6, <1>7, <2>1
  <2> QED
    BY <1>1, <1>7, <2>1, <2>2 DEF Apart
<1>11. TypeOK'
  <2>1. Range(kind') \subseteq Kinds
    BY <1>5 DEF Range
  <2>2. adding' \in Seq(Tasks') /\ queue' \in Seq(Tasks')
    <3>1. adding \in Seq(Tasks)
      BY DEF GroupsInv, TypeOK
    <3>2. Range(queue') \subseteq Tasks'
      BY <1>5, <1>6, <1>7
    <3> QED
      BY <1>1, <1>5, <1>7, <3>1, <3>2 DEF IsSeq
  <2>3. heap' \subseteq Bins \cup Tasks' /\ DOMAIN belongs' = heap' \cup Range(queue') \cup Range(adding')
    BY <1>1, <1>5, <1>6, <1>7, <1>8
  <2>4. issued' \in Nat /\ Tasks' \subseteq 1..issued'
    BY <1>1, <1>4, <1>5
  <2>5. DOMAIN tracker'.owner \subseteq heap' \cup Range(queue')
    BY <1>1, <1>7, Places
  <2> QED
    BY <1>1, <2>1, <2>2, <2>3, <2>4, <2>5 DEF GroupsInv, TypeOK, Gids
<1>12. Sound(tracker') /\ Exact(tracker', leaky')
  BY <1>1 DEF GroupsInv
<1> QED
  BY <1>5, <1>9, <1>10, <1>11, <1>12 DEF GroupsInv

LEMMA KeepsTaskAdded ==
    ASSUME GroupsInv, TaskAdded
    PROVE  GroupsInv'
<1> DEFINE i == Head(adding)
<1>1. /\ queue' = Append(queue, i) /\ adding' = Tail(adding) /\ adding # << >>
      /\ UNCHANGED <<issued, kind, heap, planned, tracker, belongs, leaky, notices>>
  BY DEF TaskAdded
<1>2. queue \in Seq(Tasks) /\ adding \in Seq(Tasks) /\ Once(queue) /\ Once(adding)
  BY DEF GroupsInv, TypeOK, Apart
<1>3. IsSeq(queue) /\ IsSeq(adding)
  BY <1>2 DEF IsSeq, Range
<1>4. i \in Range(adding) /\ IsSeq(adding') /\ Once(adding') /\ Range(adding') = Range(adding) \ {i}
  BY <1>1, <1>2, <1>3, TailIs
<1> HIDE DEF i
<1>5. /\ Range(queue) \subseteq Tasks /\ Range(adding) \subseteq Tasks
      /\ DOMAIN belongs = heap \cup Range(queue) \cup Range(adding)
      /\ DOMAIN tracker.owner \subseteq heap \cup Range(queue)
      /\ Range(queue) \cap Range(adding) = {} /\ heap \cap (Range(queue) \cup Range(adding)) = {}
  BY Places DEF GroupsInv, Apart
<1>6. IsSeq(queue') /\ Range(queue') = Range(queue) \cup {i} /\ Once(queue')
  <2>1. i \notin Range(queue)
    BY <1>4, <1>5
  <2> QED
    BY <1>1, <1>2, <1>3, <2>1, AppendIs
<1>7. Apart'
  <2>1. Range(queue') \cap Range(adding') = {} /\ heap \cap (Range(queue') \cup Range(adding')) = {}
    BY <1>4, <1>5, <1>6
  <2> QED
    BY <1>1, <1>4, <1>6, <2>1 DEF Apart
<1>8. TypeOK'
  <2>1. Tasks' = Tasks
    BY <1>1 DEF Tasks
  <2>2. adding' \in Seq(Tasks') /\ queue' \in Seq(Tasks')
    <3>1. Range(adding') \subseteq Tasks /\ Range(queue') \subseteq Tasks
      BY <1>4, <1>5, <1>6
    <3> QED
      BY <1>4, <1>6, <2>1, <3>1 DEF IsSeq
  <2>3. DOMAIN belongs' = heap' \cup Range(queue') \cup Range(adding')
        /\ DOMAIN tracker'.owner \subseteq heap' \cup Range(queue')
    BY <1>1, <1>4, <1>5, <1>6
  <2> QED
    BY <1>1, <2>1, <2>2, <2>3 DEF GroupsInv, TypeOK, Gids
<1> QED
  BY <1>1, <1>7, <1>8 DEF GroupsInv, Tasks

\* What a job in the queue, or in the heap, leaves behind if it keeps nothing.
LEMMA PlannedAway ==
    ASSUME GroupsInv, queue # << >>, NEW x, x = Head(queue), NEW T, NEW S, S \subseteq Kinds,
           Ends(x, T, S, "planned", Tail(queue), << >>),
           Keeps(tracker, leaky, T, leaky'), T.reuses = {},
           DOMAIN T.owner \subseteq DOMAIN tracker.owner \cup {x},
           heap' = heap, planned' \subseteq Bins, notices' \in 0..MaxNotices
    PROVE  GroupsInv'
<1> DEFINE none == << >>
<1>1. DOMAIN none = {}
  OBVIOUS
<1>2. /\ x \in Range(queue) /\ x \notin heap
      /\ IsSeq(Tail(queue)) /\ Once(Tail(queue)) /\ Range(Tail(queue)) = Range(queue) \ {x}
  BY QueueHead
<1> HIDE DEF none
<1>3. heap' = (heap \ {x}) \cup DOMAIN none
  BY <1>1, <1>2
<1>4. Job(x, T, S, "planned", Tail(queue), none)
  <2>1. Ends(x, T, S, "planned", Tail(queue), none)
    BY DEF none
  <2> QED
    BY <1>1, <1>2, <1>3, <2>1 DEF Job
<1> QED
  BY <1>4, JobKeeps

LEMMA ExecutedAway ==
    ASSUME GroupsInv, queue = << >>, NEW x \in heap, NEW T, NEW S, S \subseteq Kinds,
           Ends(x, T, S, "executed", queue, << >>),
           Keeps(tracker, leaky, T, leaky'), T.reuses = {},
           DOMAIN T.owner \subseteq DOMAIN tracker.owner \cup {x},
           heap' = heap \ {x}, planned' \subseteq Bins, notices' \in 0..MaxNotices
    PROVE  GroupsInv'
<1> DEFINE none == << >>
<1>1. DOMAIN none = {} /\ DOMAIN queue = {}
  OBVIOUS
<1>2. IsSeq(queue) /\ Once(queue) /\ Range(queue) = Range(queue) \ {x}
  <2>1. queue \in Seq(Tasks) /\ Range(queue) = {}
    BY <1>1 DEF GroupsInv, TypeOK, Range
  <2> QED
    BY <1>1, <2>1 DEF IsSeq, Range, Once
<1> HIDE DEF none
<1>3. heap' = (heap \ {x}) \cup DOMAIN none
  BY <1>1
<1>4. Job(x, T, S, "executed", queue, none)
  <2>1. Ends(x, T, S, "executed", queue, none)
    BY DEF none
  <2> QED
    BY <1>1, <1>2, <1>3, <2>1 DEF Job
<1> QED
  BY <1>4, JobKeeps

LEMMA NotifyKeeps ==
    ASSUME GroupsInv, NEW x, NEW T, Notify(tracker, x, T)
    PROVE  /\ Keeps(tracker, leaky, T, leaky) /\ T.reuses = {}
           /\ DOMAIN T.owner \subseteq DOMAIN tracker.owner \cup {x}
           /\ notices' \in 0..MaxNotices
<1>1. notices \in 0..MaxNotices /\ MaxNotices \in Nat
  BY TaskGroupsAssumption DEF GroupsInv, TypeOK
<1>2. Keeps(tracker, leaky, tracker, leaky) /\ tracker.reuses = {}
      /\ Sound(tracker) /\ Exact(tracker, leaky)
  BY NothingKeeps
<1>3. CASE T = tracker /\ UNCHANGED notices
  BY <1>1, <1>2, <1>3
<1>4. CASE /\ notices < MaxNotices /\ notices' = notices + 1
           /\ T = EnsureFollowOn(tracker, x)
  <2>1. notices' \in 0..MaxNotices
    BY <1>1, <1>4
  <2> DEFINE U == EnsureFollowOn(tracker, x)
  <2>2. /\ Keeps(tracker, leaky, U, leaky)
        /\ U.reuses = tracker.reuses /\ DOMAIN U.owner = DOMAIN tracker.owner \cup {x}
    BY <1>2, EnsureFollowOnKeeps
  <2> HIDE DEF U
  <2>3. T = U
    BY <1>4 DEF U
  <2> QED
    BY <1>2, <2>1, <2>2, <2>3
<1> QED
  BY <1>3, <1>4 DEF Notify

LEMMA KeepsPlanSimple ==
    ASSUME GroupsInv, PlanSimple
    PROVE  GroupsInv'
<1> DEFINE x == Head(queue)
<1> DEFINE T == OnWillExecute(tracker, x, x)
<1> DEFINE kept == [y \in {x} |-> belongs[y]]
<1>1. /\ queue # << >> /\ Ends(x, T, {}, "planned", Tail(queue), kept)
      /\ heap' = heap \cup {x} /\ UNCHANGED <<planned, leaky, notices>>
  BY DEF PlanSimple
<1>2. /\ x \in Range(queue) /\ x \notin heap /\ x \in DOMAIN belongs
      /\ IsSeq(Tail(queue)) /\ Once(Tail(queue)) /\ Range(Tail(queue)) = Range(queue) \ {x}
  BY <1>1, QueueHead
<1>3. DOMAIN kept = {x} /\ kept[x] = belongs[x]
  OBVIOUS
<1>4. Keeps(tracker, leaky, tracker, leaky) /\ tracker.reuses = {}
      /\ Sound(tracker) /\ Exact(tracker, leaky)
  BY NothingKeeps
<1>5. /\ Keeps(tracker, leaky, T, leaky) /\ DOMAIN T.owner = DOMAIN tracker.owner
      /\ T.reuses = {} \/ T.reuses = {x}
      /\ x \notin DOMAIN T.owner \/ T.reuses = {x}
  <2>1. CASE x \notin DOMAIN tracker.owner
    BY <1>4, <2>1 DEF OnWillExecute
  <2>2. CASE x \in DOMAIN tracker.owner
    <3>1. T = [tracker EXCEPT !.reuses = {x}]
      <4>1. T = [tracker EXCEPT !.reuses = tracker.reuses \cup {x}]
        BY <2>2 DEF OnWillExecute
      <4>2. tracker.reuses \cup {x} = {x}
        BY <1>4
      <4> QED
        BY <4>1, <4>2
    <3>2. /\ tracker.groups \in Seq(Group)
          /\ tracker = [groups |-> tracker.groups, named |-> tracker.named,
                        owner |-> tracker.owner, reuses |-> tracker.reuses]
      BY <1>4 DEF Sound
    <3> HIDE DEF x, T
    <3>3. T = [groups |-> tracker.groups, named |-> tracker.named,
               owner |-> tracker.owner, reuses |-> {x}]
      BY <3>1, <3>2
    <3>4. T.groups = tracker.groups /\ T.owner = tracker.owner /\ T.reuses = {x}
      BY <3>3
    <3>5. Alike(tracker, T)
      BY <3>2, <3>3, <3>4 DEF Alike
    <3> QED
      BY <1>4, <3>4, <3>5, AlikeKeeps
  <2> QED
    BY <2>1, <2>2
<1> HIDE DEF x, T, kept
<1>6. kept[x] \subseteq Climb(T, leaky, x)
  <2>1. belongs[x] \subseteq Climb(tracker, leaky, x)
    BY <1>2 DEF GroupsInv, Found
  <2> QED
    BY <1>3, <1>5, <2>1 DEF Keeps
<1>7. planned' \subseteq Bins /\ notices' \in 0..MaxNotices
  BY <1>1 DEF GroupsInv, TypeOK
<1>8. heap' = (heap \ {x}) \cup DOMAIN kept
  BY <1>1, <1>2, <1>3
<1>9. Job(x, T, {}, "planned", Tail(queue), kept)
  BY <1>1, <1>2, <1>3, <1>5, <1>6, <1>7, <1>8 DEF Job
<1> QED
  BY <1>9, JobKeeps

LEMMA KeepsPlanAlone ==
    ASSUME GroupsInv, PlanAlone
    PROVE  GroupsInv'
<1> DEFINE x == Head(queue)
<1>1. PICK T \in {tracker, EnsureFollowOn(tracker, x)} :
          /\ Notify(tracker, x, T)
          /\ \E S \in SUBSET Spawns[kind[x]] : Ends(x, T, S, "planned", Tail(queue), << >>)
  BY DEF PlanAlone
<1>2. PICK S \in SUBSET Spawns[kind[x]] : Ends(x, T, S, "planned", Tail(queue), << >>)
  BY <1>1
<1>3. queue # << >> /\ UNCHANGED <<heap, planned, leaky>>
  BY DEF PlanAlone
<1>4. S \subseteq Kinds
  BY <1>3, TaskGroupsAssumption, QueueHead
<1>5. /\ Keeps(tracker, leaky, T, leaky) /\ T.reuses = {}
      /\ DOMAIN T.owner \subseteq DOMAIN tracker.owner \cup {x} /\ notices' \in 0..MaxNotices
  BY <1>1, NotifyKeeps
<1>6. planned' \subseteq Bins
  BY <1>3 DEF GroupsInv, TypeOK
<1>7. Keeps(tracker, leaky, T, leaky')
  BY <1>3, <1>5
<1> QED
  BY <1>2, <1>3, <1>4, <1>5, <1>6, <1>7, PlannedAway

LEMMA KeepsPlanMoot ==
    ASSUME GroupsInv, PlanMoot
    PROVE  GroupsInv'
<1>1. queue # << >> /\ UNCHANGED <<heap, planned, leaky, notices>>
      /\ Ends(Head(queue), tracker, {}, "planned", Tail(queue), << >>)
  BY DEF PlanMoot
<1>2. Keeps(tracker, leaky, tracker, leaky) /\ tracker.reuses = {}
  BY NothingKeeps
<1>3. planned' \subseteq Bins /\ notices' \in 0..MaxNotices
  BY <1>1 DEF GroupsInv, TypeOK
<1> QED
  BY <1>1, <1>2, <1>3, PlannedAway

LEMMA KeepsPlanJoins ==
    ASSUME GroupsInv, PlanJoins
    PROVE  GroupsInv'
<1> DEFINE x == Head(queue)
<1> DEFINE b == kind[x]
<1> DEFINE T == EnsureNamed(tracker, b, x)
<1>1. /\ queue # << >> /\ b \in Bins /\ UNCHANGED <<heap, planned, notices>>
      /\ Ends(x, T, {}, "planned", Tail(queue), << >>)
      /\ leaky' = leaky \cup LeaksByJoining(tracker, b, x)
  BY DEF PlanJoins
<1>2. Sound(tracker) /\ Exact(tracker, leaky) /\ tracker.reuses = {}
  BY NothingKeeps
<1>3. /\ Keeps(tracker, leaky, T, leaky \cup LeaksByJoining(tracker, b, x))
      /\ T.reuses = tracker.reuses /\ DOMAIN T.owner = DOMAIN tracker.owner \cup {x}
  BY <1>1, <1>2, EnsureNamedKeeps
<1>4. planned' \subseteq Bins /\ notices' \in 0..MaxNotices
  BY <1>1 DEF GroupsInv, TypeOK
<1> HIDE DEF T
<1> QED
  BY <1>1, <1>2, <1>3, <1>4, PlannedAway

LEMMA KeepsPlanMarker ==
    ASSUME GroupsInv, PlanMarker
    PROVE  GroupsInv'
<1> DEFINE x == Head(queue)
<1> DEFINE b == kind[x]
<1> DEFINE T == EnsureNamed(tracker, b, x)
<1> DEFINE U == OnWillExecute(T, b, x)
<1> DEFINE M == leaky \cup LeaksByJoining(tracker, b, x)
<1> DEFINE kept == [y \in {b} |-> Membership(T, x) \cup (IF b \in heap THEN belongs[b] ELSE {})]
<1>1. /\ queue # << >> /\ b \in Bins /\ UNCHANGED notices
      /\ planned' = planned \cup {b} /\ heap' = heap \cup {b}
      /\ Ends(x, U, {}, "planned", Tail(queue), kept)
      /\ leaky' = M \cup LeaksByReissue(T, b)
  BY DEF PlanMarker
<1>2. Sound(tracker) /\ Exact(tracker, leaky) /\ tracker.reuses = {}
  BY NothingKeeps
<1>3. /\ Keeps(tracker, leaky, T, M)
      /\ T.reuses = {} /\ DOMAIN T.owner = DOMAIN tracker.owner \cup {x}
  BY <1>1, <1>2, EnsureNamedKeeps
<1>4. /\ x \in Range(queue) /\ x \notin heap /\ x \notin Bins /\ x \in DOMAIN belongs
      /\ IsSeq(Tail(queue)) /\ Once(Tail(queue)) /\ Range(Tail(queue)) = Range(queue) \ {x}
  BY <1>1, QueueHead
<1>5. DOMAIN kept = {b} /\ kept[b] = Membership(T, x) \cup (IF b \in heap THEN belongs[b] ELSE {})
  OBVIOUS
<1> HIDE DEF x, b, T, U, M, kept
<1>6. Sound(T) /\ Exact(T, M) /\ x \in DOMAIN T.owner /\ x # b
  BY <1>1, <1>3, <1>4 DEF Keeps
<1>7. /\ Keeps(T, M, U, leaky') /\ U.reuses = {}
      /\ Climb(T, M, x) \subseteq Climb(U, leaky', b)
      /\ DOMAIN U.owner \subseteq DOMAIN T.owner \cup {b}
  BY <1>1, <1>3, <1>6, OnWillExecuteKeeps DEF U
<1>8. Keeps(tracker, leaky, U, leaky')
  BY <1>3, <1>7, KeepsOn
<1>9. kept[b] \subseteq Climb(U, leaky', b)
  <2>1. Membership(T, x) \subseteq Climb(T, M, x)
    BY <1>3, <1>4, MembershipFound
  <2>2. b \in heap => belongs[b] \subseteq Climb(tracker, leaky, b)
    BY Places DEF GroupsInv, Found
  <2>3. Climb(tracker, leaky, b) \subseteq Climb(U, leaky', b)
    BY <1>8 DEF Keeps
  <2> QED
    BY <1>5, <1>7, <2>1, <2>2, <2>3
<1>10. planned' \subseteq Bins /\ notices' \in 0..MaxNotices
  BY <1>1 DEF GroupsInv, TypeOK
<1>11. heap' = (heap \ {x}) \cup DOMAIN kept
  BY <1>1, <1>4, <1>5
<1>12. Job(x, U, {}, "planned", Tail(queue), kept)
  BY <1>1, <1>3, <1>4, <1>5, <1>6, <1>7, <1>8, <1>9, <1>10, <1>11 DEF Job
<1> QED
  BY <1>12, JobKeeps

LEMMA KeepsExecute ==
    ASSUME GroupsInv, NEW x, Execute(x)
    PROVE  GroupsInv'
<1>1. PICK T \in {tracker, EnsureFollowOn(tracker, x)} :
          /\ Notify(tracker, x, T)
          /\ \E S \in SUBSET Spawns[KindOf(x)] : Ends(x, T, S, "executed", queue, << >>)
  BY DEF Execute
<1>2. PICK S \in SUBSET Spawns[KindOf(x)] : Ends(x, T, S, "executed", queue, << >>)
  BY <1>1
<1>3. queue = << >> /\ x \in heap /\ heap' = heap \ {x} /\ planned' = planned \ {x} /\ UNCHANGED leaky
  BY DEF Execute
<1>4. S \subseteq Kinds
  <2>1. x \in Bins \cup Tasks /\ kind \in [Tasks -> Kinds]
    BY <1>3, Places DEF GroupsInv
  <2>2. KindOf(x) \in Kinds
    BY <2>1 DEF KindOf, Kinds
  <2> QED
    BY <2>2, TaskGroupsAssumption
<1>5. /\ Keeps(tracker, leaky, T, leaky) /\ T.reuses = {}
      /\ DOMAIN T.owner \subseteq DOMAIN tracker.owner \cup {x} /\ notices' \in 0..MaxNotices
  BY <1>1, NotifyKeeps
<1>6. planned' \subseteq Bins
  BY <1>3 DEF GroupsInv, TypeOK
<1>7. Keeps(tracker, leaky, T, leaky')
  BY <1>3, <1>5
<1> QED
  BY <1>2, <1>3, <1>4, <1>5, <1>6, <1>7, ExecutedAway

LEMMA KeepsExecuteFails ==
    ASSUME GroupsInv, NEW x, ExecuteFails(x)
    PROVE  GroupsInv'
<1>1. /\ queue = << >> /\ x \in heap /\ heap' = heap \ {x}
      /\ Ends(x, tracker, {}, "executed", queue, << >>)
      /\ UNCHANGED <<planned, leaky, notices>>
  BY DEF ExecuteFails
<1>2. Keeps(tracker, leaky, tracker, leaky) /\ tracker.reuses = {}
  BY NothingKeeps
<1>3. planned' \subseteq Bins /\ notices' \in 0..MaxNotices
  BY <1>1 DEF GroupsInv, TypeOK
<1> QED
  BY <1>1, <1>2, <1>3, ExecutedAway

LEMMA GroupsInvInductive == GroupsInv /\ [Next]_vars => GroupsInv'
<1> SUFFICES ASSUME GroupsInv, [Next]_vars PROVE GroupsInv'
  OBVIOUS
<1>1. CASE TaskAdded
  BY <1>1, KeepsTaskAdded
<1>2. CASE Plan
  <2>1. CASE PlanSimple
    BY <2>1, KeepsPlanSimple
  <2>2. CASE PlanAlone
    BY <2>2, KeepsPlanAlone
  <2>3. CASE PlanMoot
    BY <2>3, KeepsPlanMoot
  <2>4. CASE PlanJoins
    BY <2>4, KeepsPlanJoins
  <2>5. CASE PlanMarker
    BY <2>5, KeepsPlanMarker
  <2> QED
    BY <1>2, <2>1, <2>2, <2>3, <2>4, <2>5 DEF Plan
<1>3. CASE Run
  <2>1. PICK x \in heap : Execute(x) \/ ExecuteFails(x)
    BY <1>3 DEF Run
  <2> QED
    BY <2>1, KeepsExecute, KeepsExecuteFails
<1>4. CASE \E k \in Requests : Request(k)
  BY <1>4, KeepsRequest
<1>5. CASE UNCHANGED vars
  BY <1>5 DEF vars, GroupsInv, TypeOK, Apart, Tasks, Gids
<1> QED
  BY <1>1, <1>2, <1>3, <1>4, <1>5 DEF Next

LEMMA GroupsInvInitially == Init => GroupsInv
<1> SUFFICES ASSUME Init PROVE GroupsInv
  OBVIOUS
<1> DEFINE none == << >>
<1>1. DOMAIN none = {} /\ none \in Seq({}) /\ Len(none) = 0
  OBVIOUS
<1>2. /\ tracker.groups = none /\ tracker.named = none /\ tracker.owner = none /\ tracker.reuses = {}
      /\ tracker = [groups |-> tracker.groups, named |-> tracker.named,
                    owner |-> tracker.owner, reuses |-> tracker.reuses]
      /\ issued = 0 /\ kind = none /\ adding = none /\ queue = none
      /\ planned \subseteq Bins /\ heap = planned /\ leaky = {} /\ notices = 0
      /\ belongs = [y \in planned |-> {}]
  BY TaskGroupsAssumption DEF Init
<1>3. DOMAIN belongs = planned /\ \A y \in DOMAIN belongs : belongs[y] = {}
  BY <1>2
<1> HIDE DEF none
<1>4. none \in Seq(Group) /\ none \in Seq(DOMAIN none) /\ Range(none) = {} /\ Once(none)
  BY <1>1 DEF none, Range, Once
<1>5. Sound(tracker)
  <2>1. IsFiniteSet({})
    BY FS_EmptySet
  <2>2. none \in [DOMAIN none -> DOMAIN none]
    BY <1>1 DEF none
  <2> QED
    BY <1>1, <1>2, <1>4, <2>1, <2>2 DEF Sound
<1>6. Exact(tracker, leaky) /\ Found(tracker, leaky, belongs)
  BY <1>1, <1>2, <1>3 DEF Exact, Found
<1>7. Apart
  BY <1>2, <1>4 DEF Apart
<1>8. kind \in [Tasks -> Kinds]
  BY <1>1, <1>2 DEF Tasks, none
<1>9. TypeOK
  BY <1>1, <1>2, <1>3, <1>4, TaskGroupsAssumption DEF TypeOK, Tasks, Gids
<1> QED
  BY <1>5, <1>6, <1>7, <1>8, <1>9 DEF GroupsInv

LEMMA GroupsInvAccounts == GroupsInv => GroupsAccount
<1> SUFFICES ASSUME GroupsInv PROVE GroupsAccount
  OBVIOUS
<1>1. Sound(tracker) /\ Exact(tracker, leaky)
  BY NothingKeeps
<1>2. NotEarly
  <2> SUFFICES ASSUME NEW x \in DOMAIN belongs, NEW g \in belongs[x] PROVE ~tracker.groups[g].resolved
    BY DEF NotEarly
  <2>1. leaky \subseteq Open(tracker) /\ OwnerOf(tracker, x) \in Open(tracker) \cup {0}
    BY <1>1, KnownAreOpen
  <2>2. Climb(tracker, leaky, x) \subseteq Open(tracker)
    BY <2>1, ClimbFacts
  <2>3. belongs[x] \subseteq Climb(tracker, leaky, x)
    BY DEF GroupsInv, Found
  <2> QED
    BY <2>2, <2>3 DEF Open
<1>3. CountIsExact
  BY <1>1 DEF GroupsInv, CountIsExact, Exact, Gids
<1> QED
  BY <1>2, <1>3 DEF GroupsAccount

\* The groups account for what is outstanding: no group is resolved while something
\* that is part of it is outstanding, by way of any number of groups within it; and
\* each waits for exactly what it will hear of, unless it lost track of something.
THEOREM GroupsAccountHolds == Spec => []GroupsAccount
<1>1. Init => GroupsInv
  BY GroupsInvInitially
<1>2. GroupsInv /\ [Next]_vars => GroupsInv'
  BY GroupsInvInductive
<1>3. GroupsInv => GroupsAccount
  BY GroupsInvAccounts
<1> QED
  BY <1>1, <1>2, <1>3, PTL DEF Spec

=============================================================================
