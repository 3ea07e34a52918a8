------------------------- MODULE AccessCheckProofs -------------------------
(***************************************************************************)
(* Proofs about what is read of the tables of AccessControl: the ways in   *)
(* which the code computes access agree on every group graph, an access    *)
(* check or listing that one write falls into answers for one of the two   *)
(* moments, and the tables implement DirectoryCheck.                       *)
(***************************************************************************)
EXTENDS AccessControlProofs

-----------------------------------------------------------------------------
(* Group graphs *)

ClosedAbove(C, edges) == \A e \in edges : e[2] \in C => e[1] \in C

\* Above(S, edges) is the least set around S that is closed upwards.
LEMMA AboveIsLeast ==
    ASSUME NEW edges \in Edges, NEW S \in SUBSET Groups
    PROVE  /\ Above(S, edges) \in SUBSET Groups
           /\ S \subseteq Above(S, edges)
           /\ ClosedAbove(Above(S, edges), edges)
           /\ \A C \in SUBSET Groups :
                 S \subseteq C /\ ClosedAbove(C, edges) => Above(S, edges) \subseteq C
  <1>1. Above(S, edges) \in SUBSET Groups /\ S \subseteq Above(S, edges)
    BY DEF Above
  <1>2. ASSUME NEW e \in edges, e[2] \in Above(S, edges) PROVE e[1] \in Above(S, edges)
    <2>1. e[1] \in Groups
      BY DEF Edges
    <2> SUFFICES ASSUME NEW C \in SUBSET Groups, S \subseteq C,
                        \A f \in edges : f[2] \in C => f[1] \in C
                 PROVE  e[1] \in C
      BY <2>1 DEF Above
    <2>2. e[2] \in C
      BY <1>2 DEF Above
    <2> QED
      BY <2>2
  <1>3. ASSUME NEW C \in SUBSET Groups, S \subseteq C, ClosedAbove(C, edges)
        PROVE  Above(S, edges) \subseteq C
    BY <1>3 DEF Above, ClosedAbove
  <1> QED
    BY <1>1, <1>2, <1>3 DEF ClosedAbove

\* Going up from S reaches g exactly when going down from g reaches S.
LEMMA UpAndDown ==
    ASSUME NEW edges \in Edges, NEW S \in SUBSET Groups, NEW g \in Groups
    PROVE  g \in Above(S, edges) <=> \E h \in S : h \in Below({g}, edges)
  <1> DEFINE A == Above(S, edges)
             D(x) == Below({x}, edges)
  <1>1. /\ A \in SUBSET Groups /\ S \subseteq A /\ ClosedAbove(A, edges)
        /\ \A C \in SUBSET Groups : S \subseteq C /\ ClosedAbove(C, edges) => A \subseteq C
    BY AboveIsLeast
  <1>2. \A x \in Groups :
           /\ D(x) \in SUBSET Groups /\ x \in D(x) /\ ClosedBelow(D(x), edges)
           /\ \A C \in SUBSET Groups : x \in C /\ ClosedBelow(C, edges) => D(x) \subseteq C
    <2> SUFFICES ASSUME NEW x \in Groups
                 PROVE  /\ D(x) \in SUBSET Groups /\ x \in D(x) /\ ClosedBelow(D(x), edges)
                        /\ \A C \in SUBSET Groups :
                              x \in C /\ ClosedBelow(C, edges) => D(x) \subseteq C
      OBVIOUS
    <2>1. {x} \in SUBSET Groups
      OBVIOUS
    <2> QED
      BY <2>1, BelowIsLeast
  <1>3. \A e \in edges : e[1] \in Groups /\ e[2] \in Groups
    BY DEF Edges
  <1> HIDE DEF A, D
  <1>4. ASSUME NEW h \in S, h \in D(g), g \notin A PROVE FALSE
    <2> DEFINE C == Groups \ A
    <2>1. ClosedBelow(C, edges) /\ g \in C /\ C \in SUBSET Groups
      BY <1>1, <1>3, <1>4 DEF ClosedAbove, ClosedBelow
    <2>2. D(g) \subseteq C
      BY <1>2, <2>1
    <2> QED
      BY <1>1, <1>4, <2>2
  <1>5. ASSUME g \in A PROVE \E h \in S : h \in D(g)
    <2> DEFINE C == {x \in Groups : \E h \in S : h \in D(x)}
    <2>1. S \subseteq C
      BY <1>2
    <2>2. ClosedAbove(C, edges)
      <3> SUFFICES ASSUME NEW e \in edges, e[2] \in C PROVE e[1] \in C
        BY DEF ClosedAbove
      <3>1. e[2] \in D(e[1])
        BY <1>2, <1>3 DEF ClosedBelow
      <3>2. D(e[2]) \subseteq D(e[1])
        BY <1>2, <1>3, <3>1
      <3> QED
        BY <1>3, <3>2
    <2>3. A \subseteq C
      BY <1>1, <2>1, <2>2
    <2> QED
      BY <1>5, <2>3
  <1> QED
    BY <1>4, <1>5 DEF A, D

\* The edges that do not start in what is reached may be left out.
LEMMA RelevantEdges ==
    ASSUME NEW edges \in Edges, NEW S \in SUBSET Groups, NEW fewer \in SUBSET edges,
           \A e \in edges : e[2] \in Above(S, edges) => e \in fewer
    PROVE  Above(S, fewer) = Above(S, edges)
  <1> DEFINE A == Above(S, edges)
             B == Above(S, fewer)
  <1>1. /\ A \in SUBSET Groups /\ S \subseteq A /\ ClosedAbove(A, edges)
        /\ \A C \in SUBSET Groups : S \subseteq C /\ ClosedAbove(C, edges) => A \subseteq C
    BY AboveIsLeast
  <1>2. fewer \in Edges
    BY DEF Edges
  <1>3. /\ B \in SUBSET Groups /\ S \subseteq B /\ ClosedAbove(B, fewer)
        /\ \A C \in SUBSET Groups : S \subseteq C /\ ClosedAbove(C, fewer) => B \subseteq C
    BY <1>2, AboveIsLeast
  <1>4. \A e \in edges : e[2] \in A => e \in fewer
    OBVIOUS
  <1> HIDE DEF A, B
  <1>5. B \subseteq A
    BY <1>1, <1>3 DEF ClosedAbove
  <1>6. A \subseteq B
    BY <1>1, <1>3, <1>4, <1>5 DEF ClosedAbove
  <1> QED
    BY <1>5, <1>6 DEF A, B

\* From more groups, more groups are reached.
LEMMA AboveMonotone ==
    ASSUME NEW edges \in Edges, NEW T \in SUBSET Groups, NEW S \in SUBSET T
    PROVE  Above(S, edges) \subseteq Above(T, edges)
  BY AboveIsLeast

-----------------------------------------------------------------------------
(* The ways to compute access *)

\* The groups of a user, nested ones included.
GroupsOf(t, u) == Above(DirectGroups(t, u), t.nesting)

LEMMA TableTypes ==
    ASSUME NEW t \in Tables, NEW u
    PROVE  /\ t.nesting \in Edges /\ MemberTuples(t, u) \in Edges
           /\ DirectGroups(t, u) \in SUBSET Groups /\ GroupsOf(t, u) \in SUBSET Groups
           /\ t.grants \in SUBSET (Subjects \X Repos \X Roles)
  BY DEF Tables, Edges, MemberTuples, DirectGroups, GroupsOf, Above

\* The membership tuples of a snapshot, which are the edges above the user
\* only, and the edges that the simulator follows give all his groups.
LEMMA SnapshotGroups ==
    ASSUME NEW t \in Tables, NEW u
    PROVE  /\ Above(DirectGroups(t, u), MemberTuples(t, u)) = GroupsOf(t, u)
           /\ PathGroups(t, u, GroupsOf(t, u)) = GroupsOf(t, u)
  <1> DEFINE S == DirectGroups(t, u)
  <1>1. t.nesting \in Edges /\ S \in SUBSET Groups
    BY TableTypes
  <1>2. Above(S, MemberTuples(t, u)) = Above(S, t.nesting)
    <2>1. /\ MemberTuples(t, u) \in SUBSET t.nesting
          /\ \A e \in t.nesting : e[2] \in Above(S, t.nesting) => e \in MemberTuples(t, u)
      BY DEF MemberTuples
    <2> QED
      BY <1>1, <2>1, RelevantEdges
  <1>3. PathGroups(t, u, GroupsOf(t, u)) = Above(S, t.nesting)
    <2> DEFINE E == {e \in t.nesting : e[1] \in GroupsOf(t, u)}
    <2>1. /\ S \subseteq GroupsOf(t, u) /\ ClosedAbove(GroupsOf(t, u), t.nesting)
      BY <1>1, AboveIsLeast DEF GroupsOf
    <2>2. S \cap GroupsOf(t, u) = S
      BY <2>1
    <2>3. \A e \in t.nesting : e[2] \in Above(S, t.nesting) => e \in E
      BY <2>1 DEF ClosedAbove, GroupsOf
    <2>4. Above(S, E) = Above(S, t.nesting)
      BY <1>1, <2>3, RelevantEdges
    <2> QED
      BY <2>2, <2>4 DEF PathGroups
  <1> QED
    BY <1>2, <1>3 DEF GroupsOf

-----------------------------------------------------------------------------
(* The resolver *)

\* With the role granted like this, does a user of these groups have it?
Holds(u, role, granted, groups) ==
    UserTuple(u, role, granted) \/ UsersetTuples(role, granted) \cap groups # {}

Depths == 0 .. MaxDepth

\* Visited(S, edges) is the least set that starts at S and follows the edges.
LEMMA VisitedIsLeast ==
    ASSUME NEW edges \in Edges, NEW S \in SUBSET Groups
    PROVE  /\ Visited(S, edges) \in SUBSET (Groups \X Depths)
           /\ \A g \in S : <<g, 0>> \in Visited(S, edges)
           /\ \A e \in edges, k \in Depths :
                 k < MaxDepth /\ <<e[1], k>> \in Visited(S, edges) =>
                    <<e[2], k + 1>> \in Visited(S, edges)
           /\ \A D \in SUBSET (Groups \X Depths) :
                 /\ \A g \in S : <<g, 0>> \in D
                 /\ \A e \in edges, k \in Depths :
                       k < MaxDepth /\ <<e[1], k>> \in D => <<e[2], k + 1>> \in D
                 => Visited(S, edges) \subseteq D
  <1> DEFINE Closed(D) == /\ \A g \in S : <<g, 0>> \in D
                          /\ \A e \in edges, k \in Depths :
                                k < MaxDepth /\ <<e[1], k>> \in D => <<e[2], k + 1>> \in D
             V == Visited(S, edges)
  <1>1. /\ MaxDepth \in Nat /\ 0 \in Depths
        /\ \A k \in Depths : k < MaxDepth => k + 1 \in Depths
    BY AccessAssumption DEF Depths
  <1>2. \A v : v \in V <=> v \in Groups \X Depths /\ \A D \in SUBSET (Groups \X Depths) :
                                                    Closed(D) => v \in D
    BY DEF Visited, Depths
  <1> HIDE DEF V
  <1>3. \A g \in S : <<g, 0>> \in V
    BY <1>1, <1>2
  <1>4. ASSUME NEW e \in edges, NEW k \in Depths, k < MaxDepth, <<e[1], k>> \in V
        PROVE  <<e[2], k + 1>> \in V
    <2>1. e[2] \in Groups /\ k + 1 \in Depths
      BY <1>1, <1>4 DEF Edges
    <2>2. ASSUME NEW D \in SUBSET (Groups \X Depths), Closed(D) PROVE <<e[2], k + 1>> \in D
      <3>1. <<e[1], k>> \in D
        BY <1>2, <1>4, <2>2
      <3> QED
        BY <1>4, <2>2, <3>1
    <2> HIDE DEF Closed
    <2> QED
      BY <1>2, <2>1, <2>2
  <1>5. ASSUME NEW D \in SUBSET (Groups \X Depths), Closed(D) PROVE V \subseteq D
    <2> HIDE DEF Closed
    <2> QED
      BY <1>2, <1>5
  <1>6. V \in SUBSET (Groups \X Depths)
    BY <1>2
  <1> QED
    BY <1>3, <1>4, <1>5, <1>6 DEF V

\* Going down from S meets only groups from which the user is not reached, when
\* S lies outside of his groups.
LEMMA VisitedOutside ==
    ASSUME NEW edges \in Edges, NEW S \in SUBSET Groups, NEW direct \in SUBSET Groups,
           S \cap Above(direct, edges) = {}
    PROVE  \A v \in Visited(S, edges) : v[1] \notin Above(direct, edges)
  <1> DEFINE A == Above(direct, edges)
             D == (Groups \ A) \X Depths
  <1>1. A \in SUBSET Groups /\ ClosedAbove(A, edges)
    BY AboveIsLeast
  <1> HIDE DEF A
  <1>2. \A g \in S : <<g, 0>> \in D
    BY AccessAssumption DEF Depths, A
  <1>3. ASSUME NEW e \in edges, NEW k \in Depths, k < MaxDepth, <<e[1], k>> \in D
        PROVE  <<e[2], k + 1>> \in D
    <2>1. e[2] \in Groups /\ e[2] \notin A
      BY <1>1, <1>3 DEF Edges, ClosedAbove
    <2>2. k + 1 \in Depths
      BY <1>3, AccessAssumption DEF Depths
    <2> QED
      BY <2>1, <2>2
  <1>4. D \in SUBSET (Groups \X Depths)
    OBVIOUS
  <1>5. Visited(S, edges) \subseteq D
    <2> HIDE DEF D
    <2> QED
      BY <1>2, <1>3, <1>4, VisitedIsLeast
  <1> QED
    BY <1>5 DEF A

\* A search that does not give up has been everywhere.
LEMMA VisitedAll ==
    ASSUME NEW edges \in Edges, NEW S \in SUBSET Groups, NEW direct \in SUBSET Groups,
           \A v \in Visited(S, edges) : v[1] \notin direct,
           ~ \E v \in Visited(S, edges), e \in edges : v[2] = MaxDepth /\ v[1] = e[1]
    PROVE  S \cap Above(direct, edges) = {}
  <1> DEFINE V == Visited(S, edges)
             C == {g \in Groups : \A k \in Depths : <<g, k>> \notin V}
  <1>1. /\ V \in SUBSET (Groups \X Depths) /\ \A g \in S : <<g, 0>> \in V
        /\ \A e \in edges, k \in Depths :
              k < MaxDepth /\ <<e[1], k>> \in V => <<e[2], k + 1>> \in V
    BY VisitedIsLeast
  <1>2. MaxDepth \in Nat /\ \A k \in Depths : k # MaxDepth => k < MaxDepth /\ k + 1 \in Depths
    BY AccessAssumption DEF Depths
  <1>a. \A v \in V : v[1] \notin direct
    OBVIOUS
  <1>b. \A v \in V, e \in edges : ~(v[2] = MaxDepth /\ v[1] = e[1])
    OBVIOUS
  <1> HIDE DEF V
  <1>3. direct \subseteq C
    <2> SUFFICES ASSUME NEW g \in direct, NEW k \in Depths, <<g, k>> \in V PROVE FALSE
      OBVIOUS
    <2> QED
      BY <1>a
  <1>4. ClosedAbove(C, edges)
    <2> SUFFICES ASSUME NEW e \in edges, e[2] \in C, NEW k \in Depths, <<e[1], k>> \in V
                 PROVE  FALSE
      BY DEF ClosedAbove, Edges
    <2>1. k # MaxDepth
      BY <1>b
    <2> QED
      BY <1>1, <1>2, <2>1
  <1>5. Above(direct, edges) \subseteq C
    BY <1>3, <1>4, AboveIsLeast
  <1>6. 0 \in Depths
    BY <1>2 DEF Depths
  <1> QED
    BY <1>1, <1>5, <1>6

\* Whatever tuples it is given, the resolver allows no role that the groups above
\* the user's memberships do not give, and denies none that they do.
LEMMA ResolveSound ==
    ASSUME NEW u, NEW role, NEW granted, NEW direct \in SUBSET Groups, NEW edges \in Edges
    PROVE  LET answers == Resolve(u, role, granted, direct, edges)
               holds == Holds(u, role, granted, Above(direct, edges))
           IN  /\ "allow" \in answers => holds
               /\ "deny" \in answers => ~holds /\ answers = {"deny"}
               /\ answers \subseteq {"allow", "deny", "error"}
  <1> DEFINE S == UsersetTuples(role, granted)
             answers == Resolve(u, role, granted, direct, edges)
             found == Found(u, role, granted, direct, edges)
             deep == GivesUp(role, granted, edges)
             holds == Holds(u, role, granted, Above(direct, edges))
  <1>1. S \in SUBSET Groups
    BY DEF UsersetTuples
  <1>2. /\ "allow" \in answers <=> found
        /\ "error" \in answers <=> deep
        /\ "deny" \in answers <=> ~found /\ ~deep
        /\ answers \subseteq {"allow", "deny", "error"}
    BY DEF Resolve
  <1>3. found => holds
    <2>1. direct \subseteq Above(direct, edges)
      BY AboveIsLeast
    <2> QED
      BY <1>1, <2>1, VisitedOutside DEF Found, Holds
  <1>4. ~found /\ ~deep => ~holds
    BY <1>1, VisitedAll DEF Found, GivesUp, Holds
  <1> HIDE DEF answers, found, deep, holds
  <1>5. "deny" \in answers => answers = {"deny"}
    BY <1>2
  <1>6. /\ "allow" \in answers => holds
        /\ "deny" \in answers => ~holds /\ answers = {"deny"}
        /\ answers \subseteq {"allow", "deny", "error"}
    BY <1>2, <1>3, <1>4, <1>5
  <1> QED
    BY <1>6 DEF answers, holds

\* On the tuples of one moment, it denies exactly what is not granted, and gives
\* up only on what is.
LEMMA ResolveMoment ==
    ASSUME NEW t \in Tables, NEW u, NEW role, NEW granted
    PROVE  LET answers == Resolve(u, role, granted, DirectGroups(t, u), MemberTuples(t, u))
               holds == Holds(u, role, granted, GroupsOf(t, u))
           IN  /\ "allow" \in answers => holds
               /\ "error" \in answers => holds
               /\ "deny" \in answers <=> ~holds
               /\ "deny" \in answers => answers = {"deny"}
               /\ answers \subseteq {"allow", "deny", "error"}
  <1> DEFINE S == UsersetTuples(role, granted)
             direct == DirectGroups(t, u)
             edges == MemberTuples(t, u)
             answers == Resolve(u, role, granted, direct, edges)
             found == Found(u, role, granted, direct, edges)
             deep == GivesUp(role, granted, edges)
             holds == Holds(u, role, granted, GroupsOf(t, u))
  <1>1. S \in SUBSET Groups /\ direct \in SUBSET Groups /\ edges \in Edges
    BY TableTypes DEF UsersetTuples
  <1>2. Above(direct, edges) = GroupsOf(t, u)
    BY SnapshotGroups
  <1>3. /\ "allow" \in answers => holds
        /\ "deny" \in answers => ~holds /\ answers = {"deny"}
        /\ answers \subseteq {"allow", "deny", "error"}
    BY <1>1, <1>2, ResolveSound
  <1>4. /\ "allow" \in answers <=> found
        /\ "error" \in answers <=> deep
        /\ "deny" \in answers <=> ~found /\ ~deep
    BY DEF Resolve
  <1>5. deep => holds
    <2> SUFFICES ASSUME deep, S \cap GroupsOf(t, u) = {} PROVE FALSE
      BY DEF Holds
    <2>1. PICK v \in Visited(S, edges), e \in edges : v[1] = e[1]
      BY DEF GivesUp
    <2>2. e \in t.nesting /\ e[2] \in GroupsOf(t, u) /\ t.nesting \in Edges
      BY <2>1, TableTypes DEF MemberTuples, GroupsOf
    <2>3. e[1] \in GroupsOf(t, u)
      BY <1>1, <2>2, AboveIsLeast DEF GroupsOf, ClosedAbove
    <2>4. v[1] \notin GroupsOf(t, u)
      BY <1>1, <1>2, <2>1, VisitedOutside
    <2> QED
      BY <2>1, <2>3, <2>4
  <1> HIDE DEF answers, found, deep, holds
  <1>6. /\ "allow" \in answers => holds
        /\ "error" \in answers => holds
        /\ "deny" \in answers <=> ~holds
        /\ "deny" \in answers => answers = {"deny"}
        /\ answers \subseteq {"allow", "deny", "error"}
    BY <1>3, <1>4, <1>5
  <1> QED
    BY <1>6 DEF answers, holds

-----------------------------------------------------------------------------
(* The ways to compute access agree *)

RelationSet(action) == {Relations(action)[i] : i \in DOMAIN Relations(action)}

\* The decision for a user of these groups.
With(u, action, granted, groups) ==
    \E role \in RelationSet(action) : Holds(u, role, granted, groups)

\* What the check decides, from any tuples and from those of one moment
LEMMA DecideSound ==
    ASSUME NEW u, NEW action, NEW granted, NEW direct \in SUBSET Groups, NEW edges \in Edges
    PROVE  LET answers == Decide(u, action, granted, direct, edges)
               with == With(u, action, granted, Above(direct, edges))
           IN  /\ "allow" \in answers => with
               /\ "deny" \in answers => ~with
  <1> DEFINE R == Relations(action)
             Answers(i) == Resolve(u, R[i], granted, direct, edges)
             H(i) == Holds(u, R[i], granted, Above(direct, edges))
             answers == Decide(u, action, granted, direct, edges)
             with == With(u, action, granted, Above(direct, edges))
  <1>1. \A i : /\ "allow" \in Answers(i) => H(i)
               /\ "deny" \in Answers(i) => ~H(i)
    BY ResolveSound
  <1>2. with <=> \E i \in DOMAIN R : H(i)
    BY DEF With, RelationSet
  <1>3. /\ "allow" \in answers => \E i \in DOMAIN R : "allow" \in Answers(i)
        /\ "deny" \in answers => \A i \in DOMAIN R : Answers(i) = {"deny"}
    BY DEF Decide
  <1> HIDE DEF answers, with, Answers, H, R
  <1>4. /\ "allow" \in answers => with
        /\ "deny" \in answers => ~with
    BY <1>1, <1>2, <1>3
  <1> QED
    BY <1>4 DEF answers, with

LEMMA DecideMoment ==
    ASSUME NEW t \in Tables, NEW u, NEW action, NEW granted
    PROVE  LET answers == Decide(u, action, granted, DirectGroups(t, u), MemberTuples(t, u))
               with == With(u, action, granted, GroupsOf(t, u))
           IN  /\ "allow" \in answers => with
               /\ "error" \in answers => with
               /\ "deny" \in answers <=> ~with
  <1> DEFINE R == Relations(action)
             Answers(i) == Resolve(u, R[i], granted, DirectGroups(t, u), MemberTuples(t, u))
             H(i) == Holds(u, R[i], granted, GroupsOf(t, u))
             answers == Decide(u, action, granted, DirectGroups(t, u), MemberTuples(t, u))
             with == With(u, action, granted, GroupsOf(t, u))
  <1>1. \A i : /\ "allow" \in Answers(i) => H(i)
               /\ "error" \in Answers(i) => H(i)
               /\ "deny" \in Answers(i) <=> ~H(i)
               /\ "deny" \in Answers(i) => Answers(i) = {"deny"}
    BY ResolveMoment
  <1>2. with <=> \E i \in DOMAIN R : H(i)
    BY DEF With, RelationSet
  <1>3. /\ "allow" \in answers => \E i \in DOMAIN R : "allow" \in Answers(i)
        /\ "error" \in answers => \E i \in DOMAIN R : "error" \in Answers(i)
        /\ "deny" \in answers <=> \A i \in DOMAIN R : Answers(i) = {"deny"}
    BY DEF Decide
  <1> HIDE DEF answers, with, Answers, H, R
  <1>4. /\ "allow" \in answers => with
        /\ "error" \in answers => with
        /\ "deny" \in answers <=> ~with
    BY <1>1, <1>2, <1>3
  <1> QED
    BY <1>4 DEF answers, with

LEMMA TheRelations ==
    /\ RelationSet("read") = {"reader", "writer", "admin"}
    /\ RelationSet("write") = {"writer", "admin"}
    /\ RelationSet("admin") = {"admin"}
  <1>1. /\ Relations("read") = <<"reader", "writer", "admin">>
        /\ Relations("write") = <<"writer", "admin">>
        /\ Relations("admin") = <<"admin">>
    BY DEF Relations
  <1>2. \A x, y, z : /\ DOMAIN <<x, y, z>> = {1, 2, 3} /\ DOMAIN <<x, y>> = {1, 2}
                     /\ DOMAIN <<x>> = {1}
    OBVIOUS
  <1> QED
    BY <1>1, <1>2 DEF RelationSet

\* What a listing says of one repository, from any tuples: each permission it
\* lists is given, and when it fails on none, each that it does not list is not.
LEMMA PermissionsSound ==
    ASSUME NEW u, NEW granted, NEW direct \in SUBSET Groups, NEW edges \in Edges,
           NEW action \in {"read", "write", "admin"},
           NEW permissions \in Permissions(u, granted, direct, edges)
    PROVE  LET with == With(u, action, granted, Above(direct, edges))
           IN  /\ action \in permissions => with
               /\ action \notin permissions /\ "error" \notin permissions => ~with
  <1> DEFINE H(role) == Holds(u, role, granted, Above(direct, edges))
             Answers(role) == Resolve(u, role, granted, direct, edges)
             with == With(u, action, granted, Above(direct, edges))
  <1>1. \A role : /\ "allow" \in Answers(role) => H(role)
                  /\ "deny" \in Answers(role) => ~H(role)
                  /\ Answers(role) \subseteq {"allow", "deny", "error"}
    BY ResolveSound
  <1>2. PICK admin \in Answers("admin"), read \in Answers("reader"), write \in Answers("writer") :
               permissions = PermissionsBy(admin, read, write)
    BY DEF Permissions
  <1>3. with <=> \E role \in RelationSet(action) : H(role)
    BY DEF With
  <1> HIDE DEF H, Answers, with
  <1>4. /\ action = "read"  => (with <=> H("reader") \/ H("writer") \/ H("admin"))
        /\ action = "write" => (with <=> H("writer") \/ H("admin"))
        /\ action = "admin" => (with <=> H("admin"))
    BY <1>3, TheRelations
  <1>5. /\ admin \in {"allow", "deny", "error"} /\ read \in {"allow", "deny", "error"}
        /\ write \in {"allow", "deny", "error"}
        /\ admin = "allow" => H("admin")
        /\ admin = "deny" => ~H("admin")
        /\ read = "allow" => H("reader")
        /\ read = "deny" => ~H("reader")
        /\ write = "allow" => H("writer")
        /\ write = "deny" => ~H("writer")
    BY <1>1, <1>2
  <1>6. CASE admin = "allow"
    <2>1. permissions = {"read", "write", "admin"}
      BY <1>2, <1>6 DEF PermissionsBy
    <2>2. action \in permissions /\ with
      BY <1>4, <1>5, <1>6, <2>1
    <2> QED
      BY <2>2 DEF with
  <1>7. CASE admin # "allow" /\ "error" \in {admin, read, write}
    <2>1. permissions = {"error"}
      BY <1>2, <1>7 DEF PermissionsBy
    <2> QED
      BY <2>1
  <1>8. CASE admin # "allow" /\ "error" \notin {admin, read, write}
    <2>1. permissions = {p \in {"read", "write"} : write = "allow" \/ (p = "read" /\ read = "allow")}
      BY <1>2, <1>8 DEF PermissionsBy
    <2>2. action \in permissions <=> with
      BY <1>4, <1>5, <1>8, <2>1
    <2> QED
      BY <2>2 DEF with
  <1> QED
    BY <1>6, <1>7, <1>8

\* From those of one moment, it fails only where there is access.
LEMMA PermissionsMoment ==
    ASSUME NEW t \in Tables, NEW u, NEW granted,
           NEW permissions \in Permissions(u, granted, DirectGroups(t, u), MemberTuples(t, u)),
           "error" \in permissions
    PROVE  With(u, "read", granted, GroupsOf(t, u))
  <1> DEFINE H(role) == Holds(u, role, granted, GroupsOf(t, u))
             Answers(role) == Resolve(u, role, granted, DirectGroups(t, u), MemberTuples(t, u))
  <1>1. \A role : "error" \in Answers(role) => H(role)
    BY ResolveMoment
  <1>2. PICK admin \in Answers("admin"), read \in Answers("reader"), write \in Answers("writer") :
               permissions = PermissionsBy(admin, read, write)
    BY DEF Permissions
  <1>3. "error" \in {admin, read, write}
    BY <1>2 DEF PermissionsBy
  <1> HIDE DEF H, Answers
  <1>4. H("admin") \/ H("reader") \/ H("writer")
    BY <1>1, <1>2, <1>3
  <1> QED
    BY <1>4, TheRelations DEF With, H

\* The relations that allow an action are the roles that have the permission.
LEMMA RolesOfAction ==
    ASSUME NEW action \in {"read", "write", "admin"}, NEW role \in Roles
    PROVE  role \in RelationSet(action) <=> action \in RolePermissions(role)
  <1>1. role \in {"reader", "writer", "admin"}
    BY AccessAssumption
  <1> QED
    BY <1>1, TheRelations DEF RolePermissions

\* Membership, seen from the user and seen from the group
LEMMA MemberOf ==
    ASSUME NEW t \in Tables, NEW u \in Users, NEW g \in Groups
    PROVE  TransitiveMember(t, u, g) <=> g \in GroupsOf(t, u)
  <1>1. t.nesting \in Edges /\ DirectGroups(t, u) \in SUBSET Groups
    BY TableTypes
  <1>2. g \in GroupsOf(t, u) <=> \E h \in DirectGroups(t, u) : h \in Below({g}, t.nesting)
    BY <1>1, UpAndDown DEF GroupsOf
  <1>3. Below({g}, t.nesting) \in SUBSET Groups
    BY DEF Below
  <1> QED
    BY <1>2, <1>3 DEF TransitiveMember, DirectGroups

\* The definition of access, and the evidence, by the groups of the user
LEMMA GrantedByGroups ==
    ASSUME NEW t \in Tables, NEW u \in Users, NEW r \in Repos,
           NEW action \in {"read", "write", "admin"}
    PROVE  /\ Granted(t, u, r, action) <=> With(u, action, GrantTuples(t, r), GroupsOf(t, u))
           /\ Granted(t, u, r, action) <=>
                 \E g \in GrantTuples(t, r) :
                    g[1] \in {u} \cup GroupsOf(t, u) /\ action \in RolePermissions(g[2])
  <1> DEFINE G == {u} \cup GroupsOf(t, u)
  <1>1. t.grants \in SUBSET (Subjects \X Repos \X Roles) /\ GroupsOf(t, u) \in SUBSET Groups
    BY TableTypes
  <1>2. G \subseteq Subjects
    BY <1>1 DEF Subjects
  <1>3. \A s, role : <<s, role>> \in GrantTuples(t, r) <=> <<s, r, role>> \in t.grants
    BY <1>1 DEF GrantTuples
  <1>4. \A s, role : <<s, r, role>> \in t.grants => s \in Subjects /\ role \in Roles
    BY <1>1
  <1>5. \A s \in Subjects : s \in G <=> s = u \/ (s \in Groups /\ TransitiveMember(t, u, s))
    BY <1>1, MemberOf
  <1> HIDE DEF G
  <1>6. Granted(t, u, r, action) <=> \E s \in G, role \in Roles :
           <<s, r, role>> \in t.grants /\ action \in RolePermissions(role)
    BY <1>2, <1>5 DEF Granted
  <1>7. \A role : Holds(u, role, GrantTuples(t, r), GroupsOf(t, u)) <=>
           \E s \in G : <<s, r, role>> \in t.grants
    <2> SUFFICES ASSUME NEW role
                 PROVE  Holds(u, role, GrantTuples(t, r), GroupsOf(t, u)) <=>
                           \E s \in G : <<s, r, role>> \in t.grants
      OBVIOUS
    <2>1. UserTuple(u, role, GrantTuples(t, r)) <=> <<u, r, role>> \in t.grants
      BY <1>3 DEF UserTuple
    <2>2. UsersetTuples(role, GrantTuples(t, r)) \cap GroupsOf(t, u) # {}
             <=> \E s \in GroupsOf(t, u) : <<s, r, role>> \in t.grants
      BY <1>1, <1>3 DEF UsersetTuples
    <2> QED
      BY <2>1, <2>2 DEF Holds, G
  <1>8. With(u, action, GrantTuples(t, r), GroupsOf(t, u)) <=>
           \E s \in G, role \in Roles : /\ <<s, r, role>> \in t.grants
                                        /\ action \in RolePermissions(role)
    <2>1. \A role \in Roles : role \in RelationSet(action) <=> action \in RolePermissions(role)
      BY RolesOfAction
    <2> QED
      BY <1>4, <1>7, <2>1 DEF With
  <1>9. (\E g \in GrantTuples(t, r) : g[1] \in G /\ action \in RolePermissions(g[2])) <=>
           \E s \in G, role \in Roles : /\ <<s, r, role>> \in t.grants
                                        /\ action \in RolePermissions(role)
    <2>1. ASSUME NEW g \in GrantTuples(t, r), g[1] \in G, action \in RolePermissions(g[2])
          PROVE  \E s \in G, role \in Roles : /\ <<s, r, role>> \in t.grants
                                              /\ action \in RolePermissions(role)
      BY <2>1 DEF GrantTuples
    <2>2. ASSUME NEW s \in G, NEW role \in Roles, <<s, r, role>> \in t.grants,
                 action \in RolePermissions(role)
          PROVE  \E g \in GrantTuples(t, r) : g[1] \in G /\ action \in RolePermissions(g[2])
      <3>1. <<s, role>> \in GrantTuples(t, r)
        BY <1>3, <2>2
      <3> QED
        BY <2>2, <3>1
    <2> QED
      BY <2>1, <2>2
  <1> QED
    BY <1>6, <1>8, <1>9 DEF G

\* Who is allowed something is a candidate, and candidates are live.
LEMMA CandidatesAllowed ==
    ASSUME NEW t \in Tables, NEW u \in Users, NEW r \in Repos,
           NEW action \in {"read", "write", "admin"}
    PROVE  /\ Allowed(t, u, r, action) => r \in Candidates(t, u)
           /\ r \in Candidates(t, u) => Live(t, r)
  BY GrantedByGroups DEF Allowed, Candidates, GroupsOf

\* The agreement is one of the functions, whatever the tables hold.
LEMMA TablesAgree == TypeOK => AccessAgrees
  <1> SUFFICES ASSUME TypeOK, NEW u \in Users, NEW r \in Repos,
                      NEW action \in {"read", "write", "admin"}
               PROVE  LET allowed == Allowed(db, u, r, action)
                          answers == CanAccess(db, u, r, action)
                      IN  /\ "allow" \in answers => allowed
                          /\ "deny" \in answers <=> Live(db, r) /\ ~allowed
                          /\ "error" \in answers => allowed \/ ~Live(db, r)
                          /\ \A permissions \in ListAccessible(db, u, r) :
                                IF "error" \in permissions THEN Allowed(db, u, r, "read")
                                ELSE action \in permissions <=> allowed
                          /\ (\E g \in Evidence(db, u, r) : action \in RolePermissions(g[2]))
                                <=> allowed
                          /\ \A g \in Evidence(db, u, r) :
                                g[1] \in {u} \cup PathGroups(db, u,
                                            Above(DirectGroups(db, u), db.nesting))
    BY DEF AccessAgrees
  <1> DEFINE granted == GrantTuples(db, r)
             with(a) == With(u, a, granted, GroupsOf(db, u))
             allowed(a) == Allowed(db, u, r, a)
             live == Live(db, r)
             answers == CanAccess(db, u, r, action)
             decided == Decide(u, action, granted, DirectGroups(db, u), MemberTuples(db, u))
             listed == Permissions(u, granted, DirectGroups(db, u), MemberTuples(db, u))
  <1>1. db \in Tables
    BY DEF TypeOK
  <1>2. /\ allowed(action) <=> live /\ with(action)
        /\ allowed("read") <=> live /\ with("read")
    BY <1>1, GrantedByGroups DEF Allowed
  <1>3. /\ "allow" \in decided => with(action)
        /\ "error" \in decided => with(action)
        /\ "deny" \in decided <=> ~with(action)
    BY <1>1, DecideMoment
  <1>4. answers = IF live THEN decided ELSE {"error"}
    BY DEF CanAccess
  <1>5. /\ "allow" \in answers => allowed(action)
        /\ "deny" \in answers <=> live /\ ~allowed(action)
        /\ "error" \in answers => allowed(action) \/ ~live
    <2> HIDE DEF answers, decided, live, allowed, with
    <2> QED
      BY <1>2, <1>3, <1>4
  <1>6. ASSUME NEW permissions \in ListAccessible(db, u, r)
        PROVE  IF "error" \in permissions THEN allowed("read")
               ELSE action \in permissions <=> allowed(action)
    <2>1. CASE r \in Candidates(db, u)
      <3>1. permissions \in listed /\ live
        BY <1>1, <2>1, CandidatesAllowed DEF ListAccessible
      <3>2. DirectGroups(db, u) \in SUBSET Groups /\ MemberTuples(db, u) \in Edges
        BY <1>1, TableTypes
      <3>3. /\ action \in permissions => with(action)
            /\ action \notin permissions /\ "error" \notin permissions => ~with(action)
        BY <1>1, <3>1, <3>2, PermissionsSound, SnapshotGroups
      <3>4. "error" \in permissions => with("read")
        BY <1>1, <3>1, PermissionsMoment
      <3> HIDE DEF live, allowed, with
      <3> QED
        BY <1>2, <3>1, <3>3, <3>4
    <2>2. CASE r \notin Candidates(db, u)
      <3>1. permissions = {} /\ ~allowed(action)
        BY <1>1, <2>2, CandidatesAllowed DEF ListAccessible
      <3> QED
        BY <3>1
    <2> QED
      BY <2>1, <2>2
  <1>7. (\E g \in Evidence(db, u, r) : action \in RolePermissions(g[2])) <=> allowed(action)
    BY <1>1, GrantedByGroups DEF Evidence, Allowed, GroupsOf
  <1>8. \A g \in Evidence(db, u, r) :
           g[1] \in {u} \cup PathGroups(db, u, Above(DirectGroups(db, u), db.nesting))
    <2>1. PathGroups(db, u, Above(DirectGroups(db, u), db.nesting))
             = Above(DirectGroups(db, u), db.nesting)
      BY <1>1, SnapshotGroups DEF GroupsOf
    <2> QED
      BY <2>1 DEF Evidence
  <1> HIDE DEF answers
  <1> QED
    BY <1>5, <1>6, <1>7, <1>8 DEF answers

\* On every content that the tables ever have, for every group graph and every
\* depth limit: the check before a token is signed, the listing and the evidence
\* of the simulator give the access that membership through nested groups
\* defines, but for the check and the listing failing where the nesting is too
\* deep, which happens only to somebody who has access; and the simulator has a
\* path for every group in its evidence.
THEOREM AccessesAgree == Spec => []AccessAgrees
  BY TypeCorrect, TablesAgree, PTL

-----------------------------------------------------------------------------
(* An access check or a listing with one write between its SELECTs *)

\* Over fewer edges no more groups are reached.
LEMMA FewerReached ==
    ASSUME NEW edges \in Edges, NEW S \in SUBSET Groups, NEW fewer \in SUBSET edges
    PROVE  Above(S, fewer) \subseteq Above(S, edges)
  <1>1. fewer \in Edges
    BY DEF Edges
  <1>2. /\ Above(S, edges) \in SUBSET Groups /\ S \subseteq Above(S, edges)
        /\ ClosedAbove(Above(S, edges), edges)
    BY AboveIsLeast
  <1>3. ClosedAbove(Above(S, edges), fewer)
    BY <1>2 DEF ClosedAbove
  <1> QED
    BY <1>1, <1>2, <1>3, AboveIsLeast

\* The decision for a set of groups between two others is one of theirs.
LEMMA Between ==
    ASSUME NEW u, NEW action, NEW granted, NEW A, NEW B, NEW X, A \subseteq X, X \subseteq B
    PROVE  \/ With(u, action, granted, X) <=> With(u, action, granted, A)
           \/ With(u, action, granted, X) <=> With(u, action, granted, B)
  <1>1. ASSUME NEW Y, NEW Z, Y \subseteq Z, With(u, action, granted, Y)
        PROVE  With(u, action, granted, Z)
    <2>1. PICK role \in RelationSet(action) : Holds(u, role, granted, Y)
      BY <1>1 DEF With
    <2>2. Holds(u, role, granted, Z)
      BY <1>1, <2>1 DEF Holds
    <2> QED
      BY <2>1, <2>2 DEF With
  <1> QED
    BY <1>1

\* What a write changes of the tables that decide on access.
LEMMA AppliedAccess ==
    ASSUME NEW t, NEW op \in Op
    PROVE  /\ op.act = "group.member.add" => Applied(t, op).members = t.members \cup {op.row}
           /\ op.act = "group.member.remove" => Applied(t, op).members = t.members \ {op.row}
           /\ op.act \in {"group.member.add", "group.member.remove"} =>
                 /\ Applied(t, op).nesting = t.nesting /\ Applied(t, op).grants = t.grants
                 /\ Applied(t, op).repos = t.repos
           /\ op.act \in {"group.nest.add", "group.nest.remove"} =>
                 /\ Applied(t, op).members = t.members /\ Applied(t, op).grants = t.grants
                 /\ Applied(t, op).repos = t.repos
           /\ op.act \in {"user.enable", "user.disable"} =>
                 /\ Applied(t, op).members = t.members /\ Applied(t, op).nesting = t.nesting
                 /\ Applied(t, op).grants = t.grants /\ Applied(t, op).repos = t.repos
           /\ op.act \notin {"group.member.add", "group.member.remove",
                             "group.nest.add", "group.nest.remove"} =>
                 /\ Applied(t, op).members = t.members /\ Applied(t, op).nesting = t.nesting
  BY DEF Applied, Written, RepoRows

\* Grants from before a write of a live repository, memberships from before or
\* after it, nesting from after it: the decision is the one from before or the
\* one from after.
LEMMA OneTornTable ==
    ASSUME NEW t \in Tables, NEW op \in Op, NEW u \in Users, NEW r \in Repos,
           NEW action \in {"read", "write", "admin"}, Live(t, r),
           NEW direct \in {DirectGroups(t, u), DirectGroups(Applied(t, op), u)}
    PROVE  LET new == Applied(t, op)
               decision == With(u, action, GrantTuples(t, r), Above(direct, MemberTuples(new, u)))
           IN  \/ decision <=> Allowed(t, u, r, action)
               \/ decision <=> Allowed(new, u, r, action)
  <1> DEFINE new == Applied(t, op)
             W(granted, groups) == With(u, action, granted, groups)
             X == Above(direct, MemberTuples(new, u))
  <1>1. new \in Tables
    BY AppliedType
  <1>3. \A s \in Tables : Allowed(s, u, r, action) <=>
           Live(s, r) /\ W(GrantTuples(s, r), GroupsOf(s, u))
    BY GrantedByGroups DEF Allowed
  <1>4. /\ t.nesting \in Edges /\ new.nesting \in Edges /\ MemberTuples(new, u) \in Edges
        /\ DirectGroups(t, u) \in SUBSET Groups /\ DirectGroups(new, u) \in SUBSET Groups
        /\ MemberTuples(new, u) \in SUBSET new.nesting
    BY <1>1, TableTypes DEF MemberTuples
  <1>5. Above(DirectGroups(new, u), MemberTuples(new, u)) = GroupsOf(new, u)
    BY <1>1, SnapshotGroups
  <1>6. CASE op.act \in {"group.member.add", "group.member.remove"}
    <2>1. /\ new.nesting = t.nesting /\ new.grants = t.grants /\ new.repos = t.repos
      BY <1>6, AppliedAccess
    <2>2. GrantTuples(new, r) = GrantTuples(t, r) /\ Live(new, r)
      BY <2>1 DEF GrantTuples, Live
    <2>3. CASE direct = DirectGroups(new, u)
      BY <1>1, <1>3, <1>5, <2>2, <2>3
    <2>4. CASE direct = DirectGroups(t, u) /\ op.act = "group.member.add"
      <3>1. DirectGroups(t, u) \subseteq DirectGroups(new, u)
        BY <2>4, AppliedAccess DEF DirectGroups
      <3>2. GroupsOf(t, u) \subseteq GroupsOf(new, u)
        BY <1>4, <2>1, <3>1, AboveMonotone DEF GroupsOf
      <3>3. \A e \in t.nesting :
               e[2] \in Above(DirectGroups(t, u), t.nesting) => e \in MemberTuples(new, u)
        BY <2>1, <3>2 DEF GroupsOf, MemberTuples
      <3>4. X = GroupsOf(t, u)
        BY <1>4, <2>1, <2>4, <3>3, RelevantEdges DEF GroupsOf
      <3> QED
        BY <1>3, <3>4
    <2>5. CASE direct = DirectGroups(t, u) /\ op.act = "group.member.remove"
      <3>1. DirectGroups(new, u) \subseteq DirectGroups(t, u)
        BY <2>5, AppliedAccess DEF DirectGroups
      <3>2. GroupsOf(new, u) \subseteq X
        BY <1>4, <1>5, <2>5, <3>1, AboveMonotone
      <3>3. X \subseteq GroupsOf(t, u)
        BY <1>4, <2>1, <2>5, FewerReached DEF GroupsOf
      <3> HIDE DEF X, new
      <3>4. \/ W(GrantTuples(t, r), X) <=> W(GrantTuples(t, r), GroupsOf(new, u))
            \/ W(GrantTuples(t, r), X) <=> W(GrantTuples(t, r), GroupsOf(t, u))
        BY <3>2, <3>3, Between
      <3>5. \/ W(GrantTuples(t, r), X) <=> Allowed(t, u, r, action)
            \/ W(GrantTuples(t, r), X) <=> Allowed(new, u, r, action)
        BY <1>1, <1>3, <2>2, <3>4
      <3> QED
        BY <3>5 DEF X, new
    <2> QED
      BY <1>6, <2>3, <2>4, <2>5
  <1>7. CASE op.act \in {"group.nest.add", "group.nest.remove"}
    <2>1. new.members = t.members /\ new.grants = t.grants /\ new.repos = t.repos
      BY <1>7, AppliedAccess
    <2>2. /\ GrantTuples(new, r) = GrantTuples(t, r) /\ Live(new, r)
          /\ direct = DirectGroups(new, u)
      BY <2>1 DEF GrantTuples, Live, DirectGroups
    <2> QED
      BY <1>1, <1>3, <1>5, <2>2
  <1>8. CASE op.act \notin {"group.member.add", "group.member.remove",
                            "group.nest.add", "group.nest.remove"}
    <2>1. new.members = t.members /\ new.nesting = t.nesting
      BY <1>8, AppliedAccess
    <2>2. direct = DirectGroups(t, u) /\ MemberTuples(new, u) = MemberTuples(t, u)
      BY <2>1 DEF DirectGroups, MemberTuples
    <2>3. X = GroupsOf(t, u)
      BY <2>2, SnapshotGroups
    <2> QED
      BY <1>3, <2>3
  <1> QED
    BY <1>6, <1>7, <1>8

\* Tables that a check cannot tell apart: writes of accounts change nothing else.
Alike(s, t) ==
    /\ s.members = t.members /\ s.nesting = t.nesting
    /\ s.grants = t.grants /\ s.repos = t.repos

\* What read_candidate_grant_tuples_conn reads
Seen(t, r) == IF Live(t, r) THEN GrantTuples(t, r) ELSE {}

LEMMA AlikeReads ==
    ASSUME NEW s, NEW t, Alike(s, t)
    PROVE  /\ \A r : Live(s, r) = Live(t, r) /\ GrantTuples(s, r) = GrantTuples(t, r)
                        /\ Seen(s, r) = Seen(t, r)
           /\ \A u : DirectGroups(s, u) = DirectGroups(t, u)
                        /\ MemberTuples(s, u) = MemberTuples(t, u)
                        /\ Candidates(s, u) = Candidates(t, u)
           /\ \A u, r, action : Allowed(s, u, r, action) = Allowed(t, u, r, action)
           /\ \A u, r, action : Granted(s, u, r, action) <=> Granted(t, u, r, action)
  <1> USE DEF Alike
  <1>1. \A r : Live(s, r) = Live(t, r) /\ GrantTuples(s, r) = GrantTuples(t, r)
    BY DEF Live, GrantTuples
  <1>2. \A r : Seen(s, r) = Seen(t, r)
    BY <1>1 DEF Seen
  <1>3. \A u : DirectGroups(s, u) = DirectGroups(t, u)
    BY DEF DirectGroups
  <1>4. \A u : MemberTuples(s, u) = MemberTuples(t, u) /\ Candidates(s, u) = Candidates(t, u)
    BY <1>1, <1>3 DEF MemberTuples, Candidates
  <1>5. \A u, r, action : Granted(s, u, r, action) = Granted(t, u, r, action)
    BY DEF Granted, TransitiveMember
  <1>6. \A u, r, action : Allowed(s, u, r, action) = Allowed(t, u, r, action)
    BY <1>1, <1>5 DEF Allowed
  <1> QED
    BY <1>1, <1>2, <1>3, <1>4, <1>5, <1>6

\* The right answer for the check in flight, on tables t.
Right(rd, t) == Allowed(t, rd.user, rd.repo, rd.action)

\* The first SELECT read tables t.
Since(rd, t) ==
    /\ ~rd.listing => Live(t, rd.repo)
    /\ rd.listing => (rd.candidate <=> rd.repo \in Candidates(t, rd.user))
    /\ Right(rd, t) \in rd.truth

\* So did the others so far.
Fresh(rd, t) ==
    /\ Since(rd, t)
    /\ rd.pc # "grants" => rd.granted = Seen(t, rd.repo)
    /\ rd.pc = "edges" => rd.direct = DirectGroups(t, rd.user)

\* One write was committed since, that led from tables t to tables new.
Split(rd, t, new) ==
    /\ Since(rd, t)
    /\ rd.pc # "grants" =>
          \/ /\ rd.granted = Seen(t, rd.repo)
             /\ rd.pc = "edges" => \/ rd.direct = DirectGroups(t, rd.user)
                                   \/ rd.direct = DirectGroups(new, rd.user)
          \/ /\ rd.listing
             /\ rd.granted = Seen(new, rd.repo)
             /\ rd.pc = "edges" => rd.direct = DirectGroups(new, rd.user)
    /\ Right(rd, new) \in rd.truth

FlightInv(rd, now) ==
    /\ rd.user \in Users /\ rd.repo \in Repos /\ rd.action \in {"read", "write", "admin"}
    /\ ~rd.listing => rd.pc # "grants"
    /\ rd.writes = 0 => Fresh(rd, now)
    /\ rd.writes = 1 => \E t \in Tables, op \in Op :
                           Alike(now, Applied(t, op)) /\ Split(rd, t, Applied(t, op))

\* What a check in flight has read comes from before or after the one write.
CheckInv ==
    /\ Reading => FlightInv(reader, db)
    /\ OneWriteHarmless
    /\ reader.pc # "done" => reader.answer = "none"

\* What a listing says of the repository, from any tuples
LEMMA ListedSound ==
    ASSUME NEW rd, NEW edges \in Edges, rd.direct \in SUBSET Groups,
           rd.action \in {"read", "write", "admin"}
    PROVE  LET with == With(rd.user, rd.action, rd.granted, Above(rd.direct, edges))
           IN  /\ "allow" \in Listed(rd, edges) => rd.candidate /\ with
               /\ "deny" \in Listed(rd, edges) => ~rd.candidate \/ ~with
  <1> DEFINE with == With(rd.user, rd.action, rd.granted, Above(rd.direct, edges))
             P == Permissions(rd.user, rd.granted, rd.direct, edges)
  <1>1. \A permissions \in P :
           /\ rd.action \in permissions => with
           /\ rd.action \notin permissions /\ "error" \notin permissions => ~with
    BY PermissionsSound
  <1> HIDE DEF with
  <1>2. "allow" \in Listed(rd, edges) =>
           rd.candidate /\ \E permissions \in P : rd.action \in permissions
    BY DEF Listed
  <1>3. "deny" \in Listed(rd, edges) =>
           \/ ~rd.candidate
           \/ \E permissions \in P : rd.action \notin permissions /\ "error" \notin permissions
    BY DEF Listed
  <1> HIDE DEF P
  <1>4. /\ "allow" \in Listed(rd, edges) => rd.candidate /\ with
        /\ "deny" \in Listed(rd, edges) => ~rd.candidate \/ ~with
    BY <1>1, <1>2, <1>3
  <1> QED
    BY <1>4 DEF with

\* The answer that the tuples of the check give, when one write at most was
\* committed, is right before it or after it.
LEMMA SplitAnswer ==
    ASSUME NEW rd, NEW now \in Tables, NEW t \in Tables, NEW op \in Op,
           rd.user \in Users, rd.repo \in Repos, rd.action \in {"read", "write", "admin"},
           rd.pc = "edges", rd.candidate \in BOOLEAN, rd.listing \in BOOLEAN,
           Alike(now, Applied(t, op)), Split(rd, t, Applied(t, op)),
           ~rd.listing \/ rd.candidate
    PROVE  LET with == With(rd.user, rd.action, rd.granted,
                            Above(rd.direct, MemberTuples(now, rd.user)))
           IN  \/ with <=> Right(rd, t)
               \/ with <=> Right(rd, Applied(t, op))
  <1> DEFINE new == Applied(t, op)
             with == With(rd.user, rd.action, rd.granted,
                          Above(rd.direct, MemberTuples(new, rd.user)))
  <1>1. new \in Tables /\ MemberTuples(now, rd.user) = MemberTuples(new, rd.user)
    BY AppliedType, AlikeReads
  <1>2. Live(t, rd.repo)
    BY CandidatesAllowed DEF Split, Since
  <1>3. CASE rd.granted = Seen(t, rd.repo) /\ (\/ rd.direct = DirectGroups(t, rd.user)
                                               \/ rd.direct = DirectGroups(new, rd.user))
    <2>1. rd.granted = GrantTuples(t, rd.repo)
      BY <1>2, <1>3 DEF Seen
    <2>2. rd.direct \in {DirectGroups(t, rd.user), DirectGroups(new, rd.user)}
      BY <1>3
    <2>3. \/ with <=> Allowed(t, rd.user, rd.repo, rd.action)
          \/ with <=> Allowed(new, rd.user, rd.repo, rd.action)
      BY <1>2, <2>1, <2>2, OneTornTable
    <2> QED
      BY <1>1, <2>3 DEF Right
  <1>4. CASE rd.granted = Seen(new, rd.repo) /\ rd.direct = DirectGroups(new, rd.user)
    <2>1. Above(rd.direct, MemberTuples(new, rd.user)) = GroupsOf(new, rd.user)
      BY <1>1, <1>4, SnapshotGroups
    <2>2. Right(rd, new) <=> /\ Live(new, rd.repo)
                             /\ With(rd.user, rd.action, GrantTuples(new, rd.repo),
                                     GroupsOf(new, rd.user))
      BY <1>1, GrantedByGroups DEF Right, Allowed
    <2>3. ~With(rd.user, rd.action, {}, GroupsOf(new, rd.user))
      BY DEF With, Holds, UserTuple, UsersetTuples
    <2>4. with <=> Right(rd, new)
      BY <1>4, <2>1, <2>2, <2>3 DEF Seen
    <2> QED
      BY <1>1, <2>4
  <1> QED
    BY <1>3, <1>4 DEF Split

LEMMA FreshAnswer ==
    ASSUME NEW rd, NEW now \in Tables,
           rd.user \in Users, rd.repo \in Repos, rd.action \in {"read", "write", "admin"},
           rd.pc = "edges", rd.candidate \in BOOLEAN, rd.listing \in BOOLEAN,
           Fresh(rd, now), ~rd.listing \/ rd.candidate
    PROVE  With(rd.user, rd.action, rd.granted, Above(rd.direct, MemberTuples(now, rd.user)))
              <=> Right(rd, now)
  <1>1. Live(now, rd.repo)
    BY CandidatesAllowed DEF Fresh, Since
  <1>2. rd.granted = GrantTuples(now, rd.repo) /\ rd.direct = DirectGroups(now, rd.user)
    BY <1>1 DEF Fresh, Seen
  <1>3. Above(rd.direct, MemberTuples(now, rd.user)) = GroupsOf(now, rd.user)
    BY <1>2, SnapshotGroups
  <1> QED
    BY <1>1, <1>2, <1>3, GrantedByGroups DEF Right, Allowed

\* Boolean bookkeeping of what was right at the moments of the check
LEMMA TruthNoted ==
    ASSUME NEW truth, NEW b, b \in BOOLEAN, b \in truth
    PROVE  (b => TRUE \in truth) /\ (~b => FALSE \in truth)
  <1>1. CASE b = TRUE
    BY <1>1, Zenon
  <1>2. CASE b = FALSE
    BY <1>2, Zenon
  <1> QED
    BY <1>1, <1>2, Zenon

LEMMA RightBoolean == \A rd, t : Right(rd, t) \in BOOLEAN
  BY DEF Right, Allowed, Live, Granted

\* A check or a listing that is not in flight does not care about the tables.
LEMMA CheckIdle ==
    ASSUME CheckInv, ~Reading, reader' = reader
    PROVE  CheckInv'
  BY DEF CheckInv, OneWriteHarmless, RightOnce, Reading

\* A write of accounts leaves a check in flight as it was.
LEMMA CheckAlike ==
    ASSUME CheckInv, reader' = reader, Alike(db', db)
    PROVE  CheckInv'
  <1>1. ASSUME Reading PROVE FlightInv(reader, db')
    <2>1. FlightInv(reader, db)
      BY <1>1 DEF CheckInv
    <2>2. Fresh(reader, db) => Fresh(reader, db')
      <3>1. Right(reader, db') = Right(reader, db)
        BY AlikeReads DEF Right
      <3>2. (Right(reader, db) \in reader.truth) => (Right(reader, db') \in reader.truth)
        BY <3>1, Zenon
      <3> QED
        BY <3>2, AlikeReads DEF Fresh, Since
    <2>3. \A t : Alike(db, t) => Alike(db', t)
      BY DEF Alike
    <2> QED
      BY <2>1, <2>2, <2>3 DEF FlightInv
  <1> QED
    BY <1>1 DEF CheckInv, OneWriteHarmless, RightOnce, Reading

\* A commit while a check is in flight: the first one splits it.
LEMMA CheckCommit ==
    ASSUME IInv, CheckInv, NEW a \in Actors, Commit(a)
    PROVE  CheckInv'
  <1>1. /\ tx[a] \in Op /\ db \in Tables /\ reader \in Reader /\ db' = Applied(db, tx[a])
        /\ Observe(tx[a])
    BY DEF Commit, IInv, TypeOK
  <1>2. CASE ~Reading
    BY <1>1, <1>2, CheckIdle DEF Observe
  <1>3. CASE tx[a].act \in {"user.enable", "user.disable"}
    <2>1. Alike(db', db)
      BY <1>1, <1>3, AppliedAccess DEF Alike
    <2> QED
      BY <1>1, <1>3, <2>1, CheckAlike DEF Observe
  <1>4. CASE Reading /\ tx[a].act \notin {"user.enable", "user.disable"}
    <2> DEFINE c == Allowed(db', reader.user, reader.repo, reader.action)
    <2>1. reader' = [reader EXCEPT !.truth = @ \cup {c}, !.writes = @ + 1]
      BY <1>1, <1>4 DEF Observe
    <2>2. reader.writes \in Nat /\ reader.pc # "done" /\ FlightInv(reader, db)
      BY <1>1, <1>4 DEF Reader, Reading, CheckInv
    <2> HIDE DEF c
    <2>3. /\ reader'.pc = reader.pc /\ reader'.user = reader.user /\ reader'.repo = reader.repo
          /\ reader'.action = reader.action /\ reader'.granted = reader.granted
          /\ reader'.direct = reader.direct /\ reader'.listing = reader.listing
          /\ reader'.candidate = reader.candidate /\ reader'.answer = reader.answer
          /\ reader'.truth = reader.truth \cup {c} /\ reader'.writes = reader.writes + 1
      BY <1>1, <2>1 DEF Reader
    <2>4. ASSUME reader'.writes = 1 PROVE Split(reader', db, db')
      <3>1. Fresh(reader, db)
        BY <2>2, <2>3, <2>4 DEF FlightInv
      <3>2. Right(reader', db) = Right(reader, db) /\ Right(reader', db') = c
        BY <2>3 DEF Right, c
      <3>3. Right(reader, db) \in reader.truth
        BY <3>1 DEF Fresh, Since
      <3>4. Right(reader', db) \in reader'.truth /\ Right(reader', db') \in reader'.truth
        BY <2>3, <3>2, <3>3, Zenon
      <3>5. Since(reader', db)
        BY <2>3, <3>1, <3>4 DEF Fresh, Since
      <3> QED
        BY <2>3, <3>1, <3>4, <3>5 DEF Fresh, Split
    <2>5. FlightInv(reader', db')
      <3>1. /\ reader'.user \in Users /\ reader'.repo \in Repos /\ reader'.writes # 0
            /\ reader'.action \in {"read", "write", "admin"}
            /\ ~reader'.listing => reader'.pc # "grants"
        BY <2>2, <2>3 DEF FlightInv
      <3>2. Alike(db', Applied(db, tx[a]))
        BY <1>1 DEF Alike
      <3> QED
        BY <1>1, <2>4, <3>1, <3>2 DEF FlightInv
    <2>6. OneWriteHarmless' /\ (reader'.pc # "done" => reader'.answer = "none")
      BY <2>2, <2>3 DEF OneWriteHarmless, CheckInv
    <2> QED
      BY <2>5, <2>6 DEF CheckInv
  <1> QED
    BY <1>2, <1>3, <1>4

\* The first SELECT.
LEMMA CheckStart ==
    ASSUME IInv, CheckInv, NEW u \in Users, NEW r \in Repos, NEW action \in Actions,
           ReadGrants(u, r, action) \/ ReadCandidates(u, r, action)
    PROVE  CheckInv'
  <1>1. action \in {"read", "write", "admin"}
    BY AccessAssumption
  <1>2. ASSUME NEW T, T = {Allowed(db, u, r, action)},
               reader'.user = u, reader'.repo = r, reader'.action = action, reader'.truth = T
        PROVE  Right(reader', db) \in reader'.truth
    <2>1. Right(reader', db) = Allowed(db, u, r, action)
      BY <1>2 DEF Right
    <2> QED
      BY <1>2, <2>1, Zenon
  <1>3. CASE ReadGrants(u, r, action)
    <2>1. /\ StartRead("direct", FALSE, u, r, action, FALSE, GrantTuples(db, r))
          /\ Live(db, r) /\ db' = db /\ GrantTuples(db, r) \in SUBSET (Subjects \X Roles)
      BY <1>3 DEF ReadGrants, StartRead, GrantTuples
    <2>2. /\ reader'.pc = "direct" /\ reader'.listing = FALSE /\ reader'.user = u
          /\ reader'.repo = r /\ reader'.action = action
          /\ reader'.granted = GrantTuples(db, r)
          /\ reader'.truth = {Allowed(db, u, r, action)} /\ reader'.writes = 0
          /\ reader'.answer = "none"
      BY <2>1, StartReader
    <2>3. Right(reader', db) \in reader'.truth
      BY <1>2, <2>2
    <2>4. Fresh(reader', db)
      BY <2>1, <2>2, <2>3 DEF Fresh, Since, Seen
    <2>5. FlightInv(reader', db')
      BY <1>1, <2>1, <2>2, <2>4 DEF FlightInv
    <2> QED
      BY <2>2, <2>5 DEF CheckInv, OneWriteHarmless, Reading
  <1>4. CASE ReadCandidates(u, r, action)
    <2> DEFINE G == {}
    <2>1. PICK c \in BOOLEAN : /\ StartRead("grants", TRUE, u, r, action, c, G)
                               /\ c <=> r \in Candidates(db, u)
      <3>1. \/ (r \in Candidates(db, u)) = TRUE
            \/ (r \in Candidates(db, u)) = FALSE
        OBVIOUS
      <3> QED
        BY <1>4, <3>1, Zenon DEF ReadCandidates
    <2>2. G \in SUBSET (Subjects \X Roles) /\ db' = db
      BY <2>1 DEF StartRead
    <2> HIDE DEF G
    <2>3. /\ reader'.pc = "grants" /\ reader'.listing = TRUE /\ reader'.user = u
          /\ reader'.repo = r /\ reader'.action = action /\ reader'.candidate = c
          /\ reader'.truth = {Allowed(db, u, r, action)} /\ reader'.writes = 0
          /\ reader'.answer = "none"
      <3>1. CASE c = TRUE
        <4>1. StartRead("grants", TRUE, u, r, action, TRUE, G)
          BY <2>1, <3>1, Zenon
        <4> QED
          BY <2>2, <3>1, <4>1, StartReader
      <3>2. CASE c = FALSE
        <4>1. StartRead("grants", TRUE, u, r, action, FALSE, G)
          BY <2>1, <3>2, Zenon
        <4> QED
          BY <2>2, <3>2, <4>1, StartReader
      <3> QED
        BY <2>1, <3>1, <3>2
    <2>4. Right(reader', db) \in reader'.truth
      BY <1>2, <2>3
    <2>5. Fresh(reader', db)
      BY <2>1, <2>3, <2>4 DEF Fresh, Since
    <2>6. FlightInv(reader', db')
      BY <1>1, <2>2, <2>3, <2>5 DEF FlightInv
    <2> QED
      BY <2>3, <2>6 DEF CheckInv, OneWriteHarmless, Reading
  <1> QED
    BY <1>3, <1>4

\* The second SELECT of a listing.
LEMMA CheckCandidateGrants ==
    ASSUME IInv, CheckInv, ReadCandidateGrants
    PROVE  CheckInv'
  <1>1. /\ reader \in Reader /\ reader.pc = "grants" /\ db' = db /\ Reading
        /\ reader' = [reader EXCEPT !.pc = "direct", !.granted = Seen(db, reader.repo)]
    BY DEF ReadCandidateGrants, IInv, TypeOK, Seen, Reading
  <1>2. /\ reader'.pc = "direct" /\ reader'.user = reader.user /\ reader'.repo = reader.repo
        /\ reader'.action = reader.action /\ reader'.granted = Seen(db, reader.repo)
        /\ reader'.listing = reader.listing /\ reader'.candidate = reader.candidate
        /\ reader'.truth = reader.truth /\ reader'.writes = reader.writes
        /\ reader'.answer = reader.answer
    BY <1>1 DEF Reader
  <1>3. FlightInv(reader, db) /\ reader.listing
    BY <1>1 DEF CheckInv, FlightInv
  <1>4. \A t : Right(reader', t) = Right(reader, t)
    BY <1>2 DEF Right
  <1>a. \A t : Since(reader, t) => Since(reader', t)
    BY <1>2, <1>4 DEF Since
  <1>5. Fresh(reader, db) => Fresh(reader', db)
    BY <1>2, <1>a DEF Fresh
  <1>6. ASSUME NEW t, NEW new, Alike(db, new), Split(reader, t, new)
        PROVE  Split(reader', t, new)
    <2>1. Seen(db, reader.repo) = Seen(new, reader.repo)
      BY <1>6, AlikeReads
    <2> QED
      BY <1>2, <1>3, <1>4, <1>6, <1>a, <2>1 DEF Split
  <1>7. FlightInv(reader', db')
    BY <1>1, <1>2, <1>3, <1>5, <1>6 DEF FlightInv
  <1> QED
    BY <1>1, <1>2, <1>7 DEF CheckInv, OneWriteHarmless, Reading

\* The SELECT of the memberships.
LEMMA CheckMembers ==
    ASSUME IInv, CheckInv, ReadMembers
    PROVE  CheckInv'
  <1>1. /\ reader \in Reader /\ reader.pc = "direct" /\ db' = db /\ Reading
        /\ reader' = [reader EXCEPT !.pc = "edges", !.direct = DirectGroups(db, reader.user)]
    BY DEF ReadMembers, IInv, TypeOK, Reading
  <1>2. /\ reader'.pc = "edges" /\ reader'.user = reader.user /\ reader'.repo = reader.repo
        /\ reader'.action = reader.action /\ reader'.granted = reader.granted
        /\ reader'.direct = DirectGroups(db, reader.user) /\ reader'.truth = reader.truth
        /\ reader'.listing = reader.listing /\ reader'.candidate = reader.candidate
        /\ reader'.writes = reader.writes /\ reader'.answer = reader.answer
    BY <1>1 DEF Reader
  <1>3. FlightInv(reader, db)
    BY <1>1 DEF CheckInv
  <1>4. \A t : Right(reader', t) = Right(reader, t)
    BY <1>2 DEF Right
  <1>a. \A t : Since(reader, t) => Since(reader', t)
    BY <1>2, <1>4 DEF Since
  <1>5. Fresh(reader, db) => Fresh(reader', db)
    BY <1>1, <1>2, <1>a DEF Fresh
  <1>6. ASSUME NEW t, NEW new, Alike(db, new), Split(reader, t, new)
        PROVE  Split(reader', t, new)
    <2>1. DirectGroups(db, reader.user) = DirectGroups(new, reader.user)
      BY <1>6, AlikeReads
    <2> QED
      BY <1>1, <1>2, <1>4, <1>6, <1>a, <2>1 DEF Split
  <1>7. FlightInv(reader', db')
    BY <1>1, <1>2, <1>3, <1>5, <1>6 DEF FlightInv
  <1> QED
    BY <1>1, <1>2, <1>7 DEF CheckInv, OneWriteHarmless, Reading

\* The SELECT of the nesting: an answer that one write at most fell into was
\* right once.
LEMMA AnswerRight ==
    ASSUME IInv, CheckInv, ReadNesting, reader.writes <= 1
    PROVE  /\ reader'.answer = "allow" => TRUE \in reader.truth
           /\ reader'.answer = "deny" => FALSE \in reader.truth
  <1> DEFINE edges == MemberTuples(db, reader.user)
             with == With(reader.user, reader.action, reader.granted,
                          Above(reader.direct, edges))
             decided == Decide(reader.user, reader.action, reader.granted, reader.direct, edges)
             listed == Listed(reader, edges)
  <1>1. /\ reader \in Reader /\ db \in Tables /\ reader.pc = "edges"
        /\ FlightInv(reader, db)
    BY DEF ReadNesting, IInv, TypeOK, CheckInv, Reading
  <1>2. /\ edges \in Edges /\ reader.direct \in SUBSET Groups /\ reader.writes \in Nat
        /\ reader.listing \in BOOLEAN /\ reader.candidate \in BOOLEAN
        /\ reader.user \in Users /\ reader.repo \in Repos
        /\ reader.action \in {"read", "write", "admin"}
    BY <1>1, TableTypes DEF Reader, FlightInv
  <1>3. PICK answer \in IF reader.listing THEN listed ELSE decided : reader'.answer = answer
    <2>1. \E answer \in IF reader.listing THEN listed ELSE decided :
             reader' = [reader EXCEPT !.pc = "done", !.answer = answer]
      BY DEF ReadNesting
    <2> HIDE DEF listed, decided
    <2> QED
      BY <1>1, <2>1 DEF Reader
  <1>4. /\ answer = "allow" => (~reader.listing \/ reader.candidate) /\ with
        /\ answer = "deny" => (reader.listing /\ ~reader.candidate) \/ ~with
    <2>1. CASE reader.listing
      BY <1>2, <1>3, <2>1, ListedSound
    <2>2. CASE ~reader.listing
      BY <1>2, <1>3, <2>2, DecideSound
    <2> QED
      BY <2>1, <2>2
  <1> HIDE DEF with, listed, decided
  <1>5. PICK t \in Tables : /\ Since(reader, t)
                            /\ (~reader.listing \/ reader.candidate) =>
                                  \/ with <=> Right(reader, t)
                                  \/ \E s \in Tables : /\ Right(reader, s) \in reader.truth
                                                       /\ with <=> Right(reader, s)
    <2>1. CASE reader.writes = 0
      <3>1. Fresh(reader, db)
        BY <1>1, <2>1 DEF FlightInv
      <3>2. (~reader.listing \/ reader.candidate) => (with <=> Right(reader, db))
        BY <1>1, <1>2, <3>1, FreshAnswer DEF with
      <3> QED
        BY <1>1, <3>1, <3>2 DEF Fresh
    <2>2. CASE reader.writes = 1
      <3>1. PICK t \in Tables, op \in Op :
                   Alike(db, Applied(t, op)) /\ Split(reader, t, Applied(t, op))
        BY <1>1, <2>2 DEF FlightInv
      <3>2. (~reader.listing \/ reader.candidate) =>
               \/ with <=> Right(reader, t)
               \/ with <=> Right(reader, Applied(t, op))
        BY <1>1, <1>2, <3>1, SplitAnswer DEF with
      <3>3. Applied(t, op) \in Tables /\ Right(reader, Applied(t, op)) \in reader.truth
        BY <3>1, AppliedType DEF Split
      <3> QED
        BY <3>1, <3>2, <3>3 DEF Split
    <2> QED
      BY <1>2, <2>1, <2>2
  <1>6. /\ Right(reader, t) => TRUE \in reader.truth
        /\ ~Right(reader, t) => FALSE \in reader.truth
    <2>1. Right(reader, t) \in reader.truth /\ Right(reader, t) \in BOOLEAN
      BY <1>5, RightBoolean DEF Since
    <2> QED
      BY <2>1, TruthNoted
  <1>7. ASSUME ~reader.listing \/ reader.candidate
        PROVE  (with => TRUE \in reader.truth) /\ (~with => FALSE \in reader.truth)
    <2>1. CASE with <=> Right(reader, t)
      BY <1>6, <2>1
    <2>2. ASSUME NEW s \in Tables, Right(reader, s) \in reader.truth, with <=> Right(reader, s)
          PROVE  (with => TRUE \in reader.truth) /\ (~with => FALSE \in reader.truth)
      <3>1. /\ Right(reader, s) => TRUE \in reader.truth
            /\ ~Right(reader, s) => FALSE \in reader.truth
        BY <2>2, RightBoolean, TruthNoted
      <3> QED
        BY <2>2, <3>1
    <2> QED
      BY <1>5, <1>7, <2>1, <2>2
  <1>8. ASSUME reader.listing, ~reader.candidate PROVE FALSE \in reader.truth
    <2>1. ~Right(reader, t)
      BY <1>2, <1>5, <1>8, CandidatesAllowed DEF Since, Right
    <2> QED
      BY <1>6, <2>1
  <1> QED
    BY <1>2, <1>3, <1>4, <1>7, <1>8

LEMMA CheckNesting ==
    ASSUME IInv, CheckInv, ReadNesting
    PROVE  CheckInv'
  <1>1. /\ reader \in Reader
        /\ \E answer : reader' = [reader EXCEPT !.pc = "done", !.answer = answer]
    BY DEF ReadNesting, IInv, TypeOK
  <1>2. /\ reader'.pc = "done" /\ reader'.truth = reader.truth
        /\ reader'.writes = reader.writes
    BY <1>1 DEF Reader
  <1>3. OneWriteHarmless'
    BY <1>2, AnswerRight DEF OneWriteHarmless, RightOnce
  <1> QED
    BY <1>2, <1>3 DEF CheckInv, Reading

\* Every step keeps what the check in flight relies on; the server's own writes
\* wait for the check, on its one connection.
LEMMA CheckNext == IInv /\ CheckInv /\ [Next]_vars => CheckInv'
  <1> SUFFICES ASSUME IInv, CheckInv, [Next]_vars PROVE CheckInv'
    OBVIOUS
  <1>1. ASSUME UNCHANGED <<db, reader>> PROVE CheckInv'
    BY <1>1, CheckAlike DEF Alike
  <1>2. ASSUME NEW a \in Actors, Write(a) \/ Rollback(a) PROVE CheckInv'
    BY <1>1, <1>2, NothingWritten
  <1>3. ASSUME NEW tables, Unaudited(tables) PROVE CheckInv'
    BY <1>3, CheckIdle DEF Unaudited, MayBegin
  <1>4. ASSUME NEW r \in Repos, NEW n \in Names, CreateResource(r, n) PROVE CheckInv'
    BY <1>3, <1>4 DEF CreateResource, RebacWrite
  <1>5. ASSUME NEW r \in Repos, DeleteResource(r) PROVE CheckInv'
    BY <1>3, <1>5 DEF DeleteResource, RebacWrite
  <1>6. ASSUME NEW u \in Users, LoginActivates(u) PROVE CheckInv'
    BY <1>3, <1>6 DEF LoginActivates
  <1>7. CASE UNCHANGED vars
    BY <1>1, <1>7 DEF vars
  <1> QED
    BY <1>2, <1>4, <1>5, <1>6, <1>7, CheckCommit, CheckStart, CheckCandidateGrants,
       CheckMembers, CheckNesting DEF Next

\* What CheckInv says of the check or listing in flight holds at every moment: the
\* SELECTs that can_access and list_accessible have made are explained by the
\* commits since the first of them.
THEOREM CheckInductive == Spec => []CheckInv
  <1>1. Init => CheckInv
    <2> SUFFICES ASSUME Init PROVE CheckInv
      OBVIOUS
    <2>1. reader.pc = "idle" /\ reader.answer = "none"
      BY DEF Init, IdleReader
    <2> QED
      BY <2>1 DEF CheckInv, OneWriteHarmless, Reading
  <1> QED
    BY <1>1, CheckNext, Inductive, PTL DEF Spec

\* An access check or a listing into which one write of another process falls,
\* wherever between its SELECTs, answers what was right before that write or
\* after it, or fails, for every group graph.  (Two writes may make it answer
\* what never was right.)
THEOREM OneWriteIsHarmless == Spec => []OneWriteHarmless
  <1>1. CheckInv => OneWriteHarmless
    BY DEF CheckInv
  <1> QED
    BY <1>1, CheckInductive, PTL

-----------------------------------------------------------------------------
(* Refinement of DirectoryCheck *)

\* The effective writers depend on grants, memberships and nesting only.
LEMMA WritersOnly ==
    ASSUME NEW t, NEW s, t.grants = s.grants, t.members = s.members,
           t.nesting = s.nesting
    PROVE  WritersOf(t) = WritersOf(s)
  BY DEF WritersOf, Granted, TransitiveMember

LEMMA WritersType ==
    ASSUME NEW t
    PROVE  WritersOf(t) \in SUBSET (Users \X Repos)
  BY DEF WritersOf

\* What Directory lets a user write is what the tables allow.
LEMMA AccessIsAllowed ==
    ASSUME NEW t, NEW u \in Users, NEW r \in Repos
    PROVE  Dir!Access(t.repos, WritersOf(t), u, r) =
              {q \in {r} : Allowed(t, u, r, "write")}
  BY DEF Dir!Access, Dir!Writable, WritersOf, Allowed, Live

InFlight(rd) == rd.pc \in {"grants", "direct", "edges"}

\* The check of DirectoryCheck, for a given reader
Bar(rd) ==
    IF rd.action = "write" /\ InFlight(rd)
    THEN [user |-> rd.user, repo |-> rd.repo, answer |-> "none",
          run |-> [ever    |-> {r \in {rd.repo} : TRUE \in rd.truth},
                   always  |-> {r \in {rd.repo} : FALSE \notin rd.truth},
                   commits |-> rd.writes]]
    ELSE [user |-> NoUser, repo |-> NoRepo, run |-> NoCheck,
          answer |-> IF rd.action = "write" THEN rd.answer ELSE "none"]

LEMMA CheckBar == checkBar = Bar(reader) /\ checkBar' = Bar(reader')
  BY DEF checkBar, Bar, InFlight, Reading

\* No check for "write" is in flight.
LEMMA BarIdle ==
    ASSUME reader.action # "write" \/ ~Reading
    PROVE  /\ ~Dir!Busy
           /\ Bar(reader) = Dir!Idle(IF reader.action = "write" THEN reader.answer ELSE "none")
  BY CheckBar DEF Dir!Busy, Dir!Idle, Dir!NoCheck, NoCheck, Bar, InFlight, Reading

LEMMA BarBusy ==
    ASSUME CheckInv, reader.action = "write", Reading
    PROVE  /\ Dir!Busy
           /\ checkBar.user = reader.user /\ checkBar.repo = reader.repo
           /\ reader.user \in Users /\ reader.repo \in Repos
  <1>1. reader.user \in Users /\ reader.repo \in Repos
    BY DEF CheckInv, FlightInv
  <1>2. checkBar.user = reader.user /\ checkBar.repo = reader.repo
    BY CheckBar DEF Bar, InFlight, Reading
  <1> QED
    BY <1>1, <1>2, AccessAssumption DEF Dir!Busy

\* The writes of accounts, repositories, grants, memberships and nesting
LEMMA CommitAdmin ==
    ASSUME IInv, NEW a \in Actors, Commit(a)
    PROVE  \/ Dir!AdminNext
           \/ /\ UNCHANGED Dir!dirVars
              /\ tx[a].act \in {"user.enable", "user.disable"}
  <1> DEFINE op == tx[a]
  <1>1. op \in Op /\ op # NoOp /\ db' = Applied(db, op)
    BY DEF Commit, IInv, TypeOK
  <1> HIDE DEF op
  <1>2. CASE op.act \in {"user.enable", "user.disable"}
    <2>1. op.row \in Users
      BY <1>1, <1>2, OpRows
    <2>2. db'.repos = db.repos /\ WritersOf(db') = WritersOf(db)
      BY <1>1, <1>2, AppliedAccess, WritersOnly
    <2>3. db'.active = db.active \cup {op.row} \/ db'.active = db.active \ {op.row}
      <3>1. CASE op.act = "user.enable"
        BY <1>1, <3>1 DEF Applied, Written
      <3>2. CASE op.act = "user.disable"
        BY <1>1, <3>2 DEF Applied, Written
      <3> QED
        BY <1>2, <3>1, <3>2
    <2>4. \/ Dir!EnableUser(op.row) \/ Dir!DisableUser(op.row)
          \/ UNCHANGED Dir!dirVars
      BY <2>2, <2>3 DEF Dir!EnableUser, Dir!DisableUser, Dir!dirVars
    <2> QED
      BY <1>2, <2>1, <2>4 DEF Dir!AdminNext, op
  <1>3. CASE op.act = "repository.add"
    <2>1. op.row[1] \in Repos /\ op.row[2] \in Names
      BY <1>1, <1>3, OpRows
    <2>2. /\ db'.active = db.active
          /\ db'.repos = [db.repos EXCEPT ![op.row[1]] =
                            [status |-> "active", name |-> op.row[2], source |-> "manual"]]
          /\ db'.grants = db.grants /\ db'.members = db.members /\ db'.nesting = db.nesting
      BY <1>1, <1>3 DEF Applied, Written, RepoRows
    <2>3. WritersOf(db') = WritersOf(db)
      BY <2>2, WritersOnly
    <2>4. db.repos[op.row[1]].source # "rebac" /\ NameFree(op.row[1], op.row[2])
      BY <1>1, <1>3 DEF IInv, TxInv, op
    <2>5. Dir!UpsertManual(op.row[1], op.row[2])
      BY <2>2, <2>3, <2>4 DEF Dir!UpsertManual, Dir!NameFree, NameFree
    <2> QED
      BY <2>1, <2>5 DEF Dir!AdminNext
  <1>4. CASE op.act = "repository.disable"
    <2>1. op.row \in Repos
      BY <1>1, <1>4, OpRows
    <2>2. /\ db'.active = db.active
          /\ db'.repos = [db.repos EXCEPT ![op.row].status = "deleted"]
          /\ db'.grants = db.grants /\ db'.members = db.members /\ db'.nesting = db.nesting
      BY <1>1, <1>4 DEF Applied, Written, RepoRows
    <2>3. WritersOf(db') = WritersOf(db)
      BY <2>2, WritersOnly
    <2>4. db.repos[op.row].status # "absent"
      BY <1>1, <1>4 DEF IInv, TxInv, op
    <2>5. Dir!DeleteResource(op.row)
      BY <2>2, <2>3, <2>4 DEF Dir!DeleteResource, Dir!Exists
    <2> QED
      BY <2>1, <2>5 DEF Dir!AdminNext
  <1>5. CASE op.act \notin {"user.enable", "user.disable",
                            "repository.add", "repository.disable"}
    <2>1. db'.active = db.active /\ db'.repos = db.repos
      BY <1>1, <1>5 DEF Applied, Written, RepoRows
    <2>2. Dir!ChangeAccess(WritersOf(db'))
      BY <2>1 DEF Dir!ChangeAccess
    <2> QED
      BY <2>2, WritersType DEF Dir!AdminNext
  <1> QED
    BY <1>2, <1>3, <1>4, <1>5

\* What a commit does to the check in flight
LEMMA CommitObserved ==
    ASSUME IInv, CheckInv, NEW a \in Actors, Commit(a)
    PROVE  IF tx[a].act \in {"user.enable", "user.disable"}
           THEN checkBar' = checkBar /\ (~Dir!Busy \/ db'.active # db.active => Dir!Observe)
           ELSE Dir!Observe
  <1>1. /\ tx[a] \in Op /\ tx[a] # NoOp /\ db' = Applied(db, tx[a]) /\ reader \in Reader
        /\ Observe(tx[a])
    BY DEF Commit, IInv, TypeOK
  <1>2. ASSUME reader' = reader
        PROVE  checkBar' = checkBar /\ (~Dir!Busy \/ db'.active # db.active => Dir!Observe)
    <2>1. checkBar' = checkBar
      BY <1>2, CheckBar
    <2> QED
      BY <2>1 DEF Dir!Observe
  <1>3. CASE tx[a].act \in {"user.enable", "user.disable"}
    BY <1>1, <1>2, <1>3 DEF Observe
  <1>4. CASE tx[a].act \notin {"user.enable", "user.disable"} /\ ~Reading
    BY <1>1, <1>2, <1>4, BarIdle DEF Observe
  <1>5. CASE tx[a].act \notin {"user.enable", "user.disable"} /\ Reading
    <2> DEFINE c == Allowed(db', reader.user, reader.repo, reader.action)
    <2>1. reader' = [reader EXCEPT !.truth = @ \cup {c}, !.writes = @ + 1]
      BY <1>1, <1>5 DEF Observe
    <2>2. c \in BOOLEAN
      BY DEF Allowed, Live, Granted
    <2> HIDE DEF c
    <2>3. /\ reader'.pc = reader.pc /\ reader'.user = reader.user /\ reader'.repo = reader.repo
          /\ reader'.action = reader.action /\ reader'.answer = reader.answer
          /\ reader'.truth = reader.truth \cup {c} /\ reader'.writes = reader.writes + 1
      BY <1>1, <2>1 DEF Reader
    <2>4. db'.active = db.active
      BY <1>1, <1>5 DEF Applied, Written
    <2>5. CASE reader.action # "write"
      <3>1. checkBar' = checkBar
        BY <2>3, <2>5, CheckBar DEF Bar
      <3> QED
        BY <1>5, <2>5, <3>1, BarIdle DEF Dir!Observe
    <2>6. CASE reader.action = "write"
      <3>1. /\ Dir!Busy /\ checkBar.user = reader.user /\ checkBar.repo = reader.repo
            /\ reader.user \in Users /\ reader.repo \in Repos
        BY <1>5, <2>6, BarBusy
      <3>2. Dir!Access(db'.repos, WritersOf(db'), reader.user, reader.repo) =
               {q \in {reader.repo} : c}
        BY <2>6, <3>1, AccessIsAllowed DEF c
      <3> DEFINE ever == {r \in {reader.repo} : TRUE \in reader.truth}
                 always == {r \in {reader.repo} : FALSE \notin reader.truth}
                 now == {q \in {reader.repo} : c}
                 later == [user |-> reader.user, repo |-> reader.repo, answer |-> "none",
                           run |-> [ever |-> ever \cup now, always |-> always \cap now,
                                    commits |-> reader.writes + 1]]
      <3>3. /\ TRUE \in reader'.truth <=> TRUE \in reader.truth \/ c
            /\ FALSE \in reader'.truth <=> FALSE \in reader.truth \/ ~c
        <4>1. CASE c = TRUE
          <5>1. reader'.truth = reader.truth \cup {TRUE}
            BY <2>3, <4>1, Zenon
          <5> QED
            BY <4>1, <5>1, Zenon
        <4>2. CASE c = FALSE
          <5>1. reader'.truth = reader.truth \cup {FALSE}
            BY <2>3, <4>2, Zenon
          <5> QED
            BY <4>2, <5>1, Zenon
        <4> QED
          BY <2>2, <4>1, <4>2, Zenon
      <3>4. /\ {r \in {reader.repo} : TRUE \in reader'.truth} = ever \cup now
            /\ {r \in {reader.repo} : FALSE \notin reader'.truth} = always \cap now
        BY <2>2, <3>3
      <3>5. Bar(reader) = [user |-> reader.user, repo |-> reader.repo, answer |-> "none",
                           run |-> [ever |-> ever, always |-> always,
                                    commits |-> reader.writes]]
        BY <1>5, <2>6 DEF Bar, InFlight, Reading
      <3>6. Bar(reader') = later
        <4>1. Bar(reader') =
                 [user |-> reader.user, repo |-> reader.repo, answer |-> "none",
                  run |-> [ever |-> {r \in {reader.repo} : TRUE \in reader'.truth},
                           always |-> {r \in {reader.repo} : FALSE \notin reader'.truth},
                           commits |-> reader.writes + 1]]
          BY <1>5, <2>3, <2>6 DEF Bar, InFlight, Reading
        <4> QED
          BY <3>4, <4>1
      <3> HIDE DEF ever, always, now
      <3>7. Dir!Noted(checkBar.run, now) =
               [ever |-> ever \cup now, always |-> always \cap now,
                commits |-> reader.writes + 1]
        <4>1. checkBar.run = [ever |-> ever, always |-> always, commits |-> reader.writes]
          BY <3>5, CheckBar
        <4> QED
          BY <4>1 DEF Dir!Noted
      <3>8. [checkBar EXCEPT !.run = Dir!Noted(@, now)] = later
        <4> DEFINE run == [ever |-> ever, always |-> always, commits |-> reader.writes]
                   next == [ever |-> ever \cup now, always |-> always \cap now,
                            commits |-> reader.writes + 1]
        <4>1. checkBar = [user |-> reader.user, repo |-> reader.repo, answer |-> "none",
                          run |-> run]
          BY <3>5, CheckBar
        <4>2. Dir!Noted(checkBar.run, now) = next
          BY <3>7
        <4>3. later = [user |-> reader.user, repo |-> reader.repo, answer |-> "none",
                       run |-> next]
          OBVIOUS
        <4> HIDE DEF run, next, later
        <4> QED
          BY <4>1, <4>2, <4>3
      <3>9. checkBar' = [checkBar EXCEPT !.run = Dir!Noted(@, now)]
        BY <3>6, <3>8, CheckBar
      <3>10. Dir!Access(db'.repos, WritersOf(db'), checkBar.user, checkBar.repo) = now
        BY <3>1, <3>2 DEF now
      <3> QED
        BY <1>5, <2>4, <3>1, <3>9, <3>10 DEF Dir!Observe
    <2> QED
      BY <2>5, <2>6
  <1> QED
    BY <1>3, <1>4, <1>5

\* A committed write is a write of Directory that the check in flight notes, or
\* leaves DirectoryCheck as it is.
LEMMA CommitRefines ==
    ASSUME IInv, CheckInv, NEW a \in Actors, Commit(a)
    PROVE  Dir!CheckedNext \/ UNCHANGED <<Dir!dirVars, checkBar>>
  <1>1. CASE tx[a].act \notin {"user.enable", "user.disable"}
    BY <1>1, CommitAdmin, CommitObserved DEF Dir!CheckedNext
  <1>2. CASE tx[a].act \in {"user.enable", "user.disable"} /\ db'.active # db.active
    <2>1. Dir!AdminNext
      BY <1>2, CommitAdmin DEF Dir!dirVars
    <2> QED
      BY <1>2, <2>1, CommitObserved DEF Dir!CheckedNext
  <1>3. CASE tx[a].act \in {"user.enable", "user.disable"} /\ db'.active = db.active
    <2>1. /\ tx[a] \in Op /\ db' = Applied(db, tx[a])
      BY DEF Commit, IInv, TypeOK
    <2>2. db'.repos = db.repos /\ WritersOf(db') = WritersOf(db)
      BY <1>3, <2>1, AppliedAccess, WritersOnly
    <2>3. checkBar' = checkBar
      BY <1>3, CommitObserved
    <2> QED
      BY <1>3, <2>2, <2>3 DEF Dir!dirVars
  <1> QED
    BY <1>1, <1>2, <1>3

\* The server's own writes come while no check is in flight.
LEMMA UnauditedRefines ==
    ASSUME IInv, NEW tables, Unaudited(tables)
    PROVE  db' = tables /\ ~Dir!Busy /\ checkBar' = checkBar
  <1>1. reader' = reader /\ db' = tables /\ ~Reading
    BY DEF Unaudited, MayBegin
  <1> QED
    BY <1>1, BarIdle, CheckBar

LEMMA RebacRefines ==
    ASSUME IInv, NEW rows, RebacWrite(rows)
    PROVE  /\ db'.active = db.active /\ db'.repos = rows /\ WritersOf(db') = WritersOf(db)
           /\ ~Dir!Busy /\ checkBar' = checkBar
  <1>1. /\ db' = [db EXCEPT !.repos = rows] /\ db \in Tables
        /\ ~Dir!Busy /\ checkBar' = checkBar
    BY UnauditedRefines DEF RebacWrite, IInv, TypeOK
  <1>2. /\ db'.active = db.active /\ db'.repos = rows /\ db'.grants = db.grants
        /\ db'.members = db.members /\ db'.nesting = db.nesting
    BY <1>1 DEF Tables
  <1> QED
    BY <1>1, <1>2, WritersOnly

LEMMA LoginRefines ==
    ASSUME IInv, NEW u \in Users, LoginActivates(u)
    PROVE  Dir!CheckedNext \/ UNCHANGED <<Dir!dirVars, checkBar>>
  <1>1. /\ db' = [db EXCEPT !.active = @ \cup {u}, !.invited = @ \ {u}] /\ db \in Tables
        /\ ~Dir!Busy /\ checkBar' = checkBar
    BY UnauditedRefines DEF LoginActivates, IInv, TypeOK
  <1>2. /\ db'.active = db.active \cup {u} /\ db'.repos = db.repos /\ db'.grants = db.grants
        /\ db'.members = db.members /\ db'.nesting = db.nesting
    BY <1>1 DEF Tables
  <1>3. WritersOf(db') = WritersOf(db)
    BY <1>2, WritersOnly
  <1>4. CASE u \in db.active
    BY <1>1, <1>2, <1>3, <1>4 DEF Dir!dirVars
  <1>5. CASE u \notin db.active
    <2>1. Dir!EnableUser(u) /\ Dir!Observe
      BY <1>1, <1>2, <1>3, <1>5 DEF Dir!EnableUser, Dir!Observe
    <2> QED
      BY <2>1 DEF Dir!CheckedNext, Dir!AdminNext
  <1> QED
    BY <1>4, <1>5

\* The first SELECT begins a check, when it is one for "write".
LEMMA StartRefines ==
    ASSUME IInv, NEW u \in Users, NEW r \in Repos, NEW action \in Actions,
           ReadGrants(u, r, action) \/ ReadCandidates(u, r, action)
    PROVE  Dir!CheckedNext
  <1>1. ~Reading /\ db' = db
    BY DEF ReadGrants, ReadCandidates, StartRead
  <1>2. /\ InFlight(reader') /\ reader'.user = u /\ reader'.repo = r
        /\ reader'.action = action /\ reader'.writes = 0
        /\ reader'.truth = {Allowed(db, u, r, action)}
    <2>1. CASE ReadGrants(u, r, action)
      <3>1. /\ StartRead("direct", FALSE, u, r, action, FALSE, GrantTuples(db, r))
            /\ GrantTuples(db, r) \in SUBSET (Subjects \X Roles)
        BY <2>1 DEF ReadGrants, GrantTuples
      <3> QED
        BY <3>1, StartReader DEF InFlight
    <2>2. CASE ReadCandidates(u, r, action)
      <3> DEFINE G == {}
      <3>1. \/ StartRead("grants", TRUE, u, r, action, TRUE, G)
            \/ StartRead("grants", TRUE, u, r, action, FALSE, G)
        <4>1. (r \in Candidates(db, u)) = TRUE \/ (r \in Candidates(db, u)) = FALSE
          OBVIOUS
        <4> QED
          BY <2>2, <4>1, Zenon DEF ReadCandidates
      <3>2. G \in SUBSET (Subjects \X Roles)
        OBVIOUS
      <3> HIDE DEF G
      <3> QED
        BY <3>1, <3>2, StartReader DEF InFlight
    <2> QED
      BY <2>1, <2>2
  <1>3. ~Dir!Busy
    BY <1>1, BarIdle
  <1>4. UNCHANGED Dir!dirVars
    BY <1>1 DEF Dir!dirVars
  <1>5. CASE action # "write"
    <2>1. checkBar' = Dir!Idle("none")
      BY <1>2, <1>5, CheckBar DEF Bar, Dir!Idle, Dir!NoCheck, NoCheck
    <2> QED
      BY <1>3, <1>4, <2>1 DEF Dir!CheckedNext, Dir!Forget
  <1>6. CASE action = "write"
    <2> DEFINE c == Allowed(db, u, r, "write")
               now == {q \in {r} : c}
    <2>1. c \in BOOLEAN
      BY DEF Allowed, Live, Granted
    <2>2. Dir!Access(db.repos, WritersOf(db), u, r) = now
      BY AccessIsAllowed
    <2> HIDE DEF c
    <2>3. (TRUE \in {c} <=> c) /\ (FALSE \in {c} <=> ~c)
      <3>1. CASE c = TRUE
        BY <3>1, Zenon
      <3>2. CASE c = FALSE
        BY <3>2, Zenon
      <3> QED
        BY <2>1, <3>1, <3>2
    <2>4. reader'.truth = {c}
      BY <1>2, <1>6, Zenon DEF c
    <2>5. /\ TRUE \in reader'.truth <=> c
          /\ FALSE \in reader'.truth <=> ~c
      BY <2>3, <2>4, Zenon
    <2>6. /\ {q \in {r} : TRUE \in reader'.truth} = now
          /\ {q \in {r} : FALSE \notin reader'.truth} = now
      BY <2>1, <2>5
    <2>7. Bar(reader') = [user |-> u, repo |-> r, answer |-> "none",
                          run |-> [ever |-> {q \in {r} : TRUE \in reader'.truth},
                                   always |-> {q \in {r} : FALSE \notin reader'.truth},
                                   commits |-> 0]]
      BY <1>2, <1>6 DEF Bar
    <2> HIDE DEF now
    <2>8. checkBar' = [user |-> u, repo |-> r, answer |-> "none",
                       run |-> [ever |-> now, always |-> now, commits |-> 0]]
      BY <2>6, <2>7, CheckBar
    <2>9. Dir!BeginCheck(u, r)
      BY <1>3, <1>4, <2>2, <2>8 DEF Dir!BeginCheck, Dir!Begun
    <2> QED
      BY <2>9 DEF Dir!CheckedNext
  <1> QED
    BY <1>5, <1>6

\* The SELECTs in between show nothing.
LEMMA MiddleRefines ==
    ASSUME IInv, ReadCandidateGrants \/ ReadMembers
    PROVE  UNCHANGED <<Dir!dirVars, checkBar>>
  <1>1. /\ db' = db /\ reader \in Reader /\ Reading
        /\ \/ reader' = [reader EXCEPT !.pc = "direct", !.granted =
                            IF Live(db, reader.repo) THEN GrantTuples(db, reader.repo) ELSE {}]
           \/ reader' = [reader EXCEPT !.pc = "edges", !.direct = DirectGroups(db, reader.user)]
    BY DEF ReadCandidateGrants, ReadMembers, IInv, TypeOK, Reading
  <1>2. /\ InFlight(reader') /\ InFlight(reader) /\ reader'.user = reader.user
        /\ reader'.repo = reader.repo /\ reader'.action = reader.action
        /\ reader'.truth = reader.truth /\ reader'.writes = reader.writes
    BY <1>1 DEF Reader, InFlight, Reading
  <1>3. Bar(reader') = Bar(reader)
    BY <1>2 DEF Bar
  <1> QED
    BY <1>1, <1>3, CheckBar DEF Dir!dirVars

\* The last SELECT ends the check, with an answer that CheckInFlight allows.
LEMMA EndRefines ==
    ASSUME IInv, CheckInv, ReadNesting
    PROVE  Dir!CheckedNext \/ UNCHANGED <<Dir!dirVars, checkBar>>
  <1> DEFINE E == MemberTuples(db, reader.user)
             L == Listed(reader, E)
             D == Decide(reader.user, reader.action, reader.granted, reader.direct, E)
  <1>1. PICK answer \in {"allow", "deny", "error"} :
               reader' = [reader EXCEPT !.pc = "done", !.answer = answer]
    <2>1. \E answer \in IF reader.listing THEN L ELSE D :
             reader' = [reader EXCEPT !.pc = "done", !.answer = answer]
      BY DEF ReadNesting
    <2>2. L \subseteq {"allow", "deny", "error"} /\ D \subseteq {"allow", "deny", "error"}
      BY AnswerTypes
    <2> HIDE DEF L, D
    <2> QED
      BY <2>1, <2>2
  <1>2. /\ db' = db /\ reader \in Reader /\ Reading /\ reader.writes \in Nat
    BY DEF ReadNesting, IInv, TypeOK, Reading, Reader
  <1>3. /\ ~InFlight(reader') /\ reader'.answer = answer /\ reader'.action = reader.action
    BY <1>1, <1>2 DEF Reader, InFlight
  <1>4. UNCHANGED Dir!dirVars
    BY <1>2 DEF Dir!dirVars
  <1>5. CASE reader.action # "write"
    <2>1. Bar(reader') = Bar(reader)
      BY <1>3, <1>5 DEF Bar
    <2> QED
      BY <1>4, <2>1, CheckBar
  <1>6. CASE reader.action = "write"
    <2>1. Dir!Busy /\ checkBar.repo = reader.repo
      BY <1>2, <1>6, BarBusy
    <2>2. checkBar' = Dir!Idle(answer)
      BY <1>3, <1>6, CheckBar DEF Bar, Dir!Idle, Dir!NoCheck, NoCheck
    <2>3. CASE answer = "error"
      BY <1>4, <2>1, <2>2, <2>3 DEF Dir!CheckedNext, Dir!FailCheck
    <2>4. CASE answer # "error"
      <3> DEFINE ever == {r \in {reader.repo} : TRUE \in reader.truth}
                 always == {r \in {reader.repo} : FALSE \notin reader.truth}
                 got == IF answer = "allow" THEN {reader.repo} ELSE {}
      <3>1. checkBar.run = [ever |-> ever, always |-> always, commits |-> reader.writes]
        BY <1>2, <1>6, CheckBar DEF Bar, InFlight, Reading
      <3>2. \/ reader.writes > 1
            \/ always \subseteq got /\ got \subseteq ever
        <4> SUFFICES ASSUME ~(reader.writes > 1)
                     PROVE  always \subseteq got /\ got \subseteq ever
          OBVIOUS
        <4>0. reader.writes <= 1
          BY <1>2
        <4>1. /\ answer = "allow" => TRUE \in reader.truth
              /\ answer = "deny" => FALSE \in reader.truth
          BY <1>3, <4>0, AnswerRight
        <4>2. CASE answer = "allow"
          <5>1. got = {reader.repo} /\ ever = {reader.repo}
            BY <4>1, <4>2
          <5> QED
            BY <5>1
        <4>3. CASE answer = "deny"
          <5>1. got = {} /\ always = {}
            BY <4>1, <4>3
          <5> QED
            BY <5>1
        <4> QED
          BY <1>1, <2>4, <4>2, <4>3
      <3>3. got \in SUBSET {reader.repo}
        OBVIOUS
      <3> HIDE DEF ever, always
      <3>4. got \in Dir!Outcomes(checkBar.run, {checkBar.repo})
        BY <2>1, <3>1, <3>2, <3>3 DEF Dir!Outcomes, Dir!Torn
      <3>5. answer = IF got = {} THEN "deny" ELSE "allow"
        BY <2>4
      <3> HIDE DEF got
      <3>6. Dir!EndCheck
        BY <1>4, <2>1, <2>2, <3>4, <3>5 DEF Dir!EndCheck
      <3> QED
        BY <3>6 DEF Dir!CheckedNext
    <2> QED
      BY <2>3, <2>4
  <1> QED
    BY <1>5, <1>6

\* The tables with their transactions, group graph and evaluation of grants
\* implement the directory that the flows read: every committed write of an
\* administrator, of loreserver or of a login is one of its writes, and every
\* access check or listing, with the commits that fall between its SELECTs, is
\* one of its checks.
THEOREM DirectoryRefinement == Spec => ImplementsDirectory
  <1>1. Init => Dir!CheckedInit
    <2> SUFFICES ASSUME Init PROVE Dir!CheckedInit
      OBVIOUS
    <2>1. reader.action = "none" /\ ~Reading
      BY DEF Init, IdleReader, Reading
    <2>2. checkBar = Dir!Idle("none")
      BY <2>1, BarIdle, CheckBar
    <2>3. db.active \in SUBSET Users /\ db.repos \in StartRepos
      BY AccessAssumption DEF Init, Tables
    <2> QED
      BY <2>2, <2>3, WritersType DEF Dir!CheckedInit, Dir!DirInit
  <1>2. IInv /\ CheckInv /\ [Next]_vars => [Dir!CheckedNext]_<<Dir!dirVars, checkBar>>
    <2> SUFFICES ASSUME IInv, CheckInv, [Next]_vars
                 PROVE  Dir!CheckedNext \/ UNCHANGED <<Dir!dirVars, checkBar>>
      OBVIOUS
    <2>1. ASSUME UNCHANGED <<db, reader>> PROVE UNCHANGED <<Dir!dirVars, checkBar>>
      BY <2>1, CheckBar DEF Dir!dirVars
    <2>2. ASSUME NEW a \in Actors, Write(a) \/ Rollback(a)
          PROVE  UNCHANGED <<Dir!dirVars, checkBar>>
      BY <2>1, <2>2, NothingWritten
    <2>3. ASSUME NEW r \in Repos, NEW n \in Names, CreateResource(r, n)
          PROVE  Dir!CheckedNext
      <3>1. Dir!CreateResource(r, n) /\ ~Dir!Busy /\ UNCHANGED checkBar
        BY <2>3, RebacRefines
        DEF CreateResource, NameFree, Dir!CreateResource, Dir!NameFree, Dir!Exists
      <3> QED
        BY <3>1 DEF Dir!CheckedNext, Dir!RebacNext
    <2>4. ASSUME NEW r \in Repos, DeleteResource(r) PROVE Dir!CheckedNext
      <3>1. Dir!DeleteResource(r) /\ ~Dir!Busy /\ UNCHANGED checkBar
        BY <2>4, RebacRefines DEF DeleteResource, Dir!DeleteResource, Dir!Exists
      <3> QED
        BY <3>1 DEF Dir!CheckedNext, Dir!RebacNext
    <2>5. CASE UNCHANGED vars
      BY <2>1, <2>5 DEF vars
    <2> QED
      BY <2>2, <2>3, <2>4, <2>5, CommitRefines, LoginRefines, StartRefines, MiddleRefines,
         EndRefines DEF Next
  <1> QED
    BY <1>1, <1>2, Inductive, CheckInductive, PTL DEF Spec, ImplementsDirectory, Dir!CheckedSpec

=============================================================================
