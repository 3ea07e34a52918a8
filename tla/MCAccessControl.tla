---- MODULE MCAccessControl ----
(* Instances of AccessControl for TLC. *)
EXTENDS AccessControl, TLC

CONSTANT n1

Row(status, name, source) == [status |-> status, name |-> name, source |-> source]
Everywhere(row) == [r \in Repos |-> row]

\* A repository of either origin, a deleted one, or none yet.
AnyRepo == {Everywhere(Row("active", n1, "manual")), Everywhere(Row("active", n1, "rebac")),
            Everywhere(Row("deleted", n1, "manual")), Everywhere(Row("absent", NoName, "none"))}

LiveRepo == {Everywhere(Row("active", n1, "manual"))}

\* Every membership and nesting, and these sets of grants, on a repository that
\* exists; accounts that were invited and have not logged in yet.
Graphs(grants) ==
    {t \in [groups : {Groups}, members : SUBSET (Groups \X Users),
            nesting : {e \in SUBSET (Groups \X Groups) : IsAcyclic(e)},
            grants : grants,
            active : {{}}, invited : {Users}, repos : StartRepos] : GrantsExist(t)}

Populated == Graphs(SUBSET (Subjects \X Repos \X Roles))

ThreeGrants == Graphs({s \in SUBSET (Subjects \X Repos \X Roles) : Cardinality(s) <= 3})

\* A populated live repository, or accounts and a repository, if any, only.
AnyGraph ==
    {t \in Populated : \A r \in Repos : Live(t, r)}
    \cup [groups : {{}}, members : {{}}, nesting : {{}}, grants : {{}},
          active : {{}}, invited : {Users}, repos : StartRepos]

Symmetric == Permutations(Actors \ {Server}) \cup Permutations(Groups)
====
