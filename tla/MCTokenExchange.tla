---- MODULE MCTokenExchange ----
(* Instances of TokenExchange for TLC. *)
EXTENDS TokenExchange, TLC

CONSTANTS s3, s4, g, dom

\* s1 and s2 are at provider g, s3 and s4 at h, which admits the hosted domain
\* of s3 only.  The trust policy of both lets invited addresses bind.
TwoAtG == [s \in Subjects |-> IF s \in {s3, s4} THEN CHOOSE p \in Providers : p # g ELSE g]
BindAll == [p \in Providers |-> Emails]
OneHosted == [s \in Subjects |-> IF s = s3 THEN dom ELSE NoDomain]
HostedAtH == [p \in Providers |-> IF p = g THEN {} ELSE {dom}]

Symmetric == Permutations(Calls) \cup Permutations(Kids) \cup Permutations(Procs) \cup Permutations(Repos)
                \cup Permutations(Dirs) \cup Permutations(Subjects \ {s3, s4})
====
