---- MODULE MCDeviceFlow ----
(* Instances of DeviceFlow for TLC. *)
EXTENDS DeviceFlow, TLC

CONSTANTS r1, r2, n1, n2

Row(status, name, source) == [status |-> status, name |-> name, source |-> source]

\* One repository that loreserver registered, one that was added by hand.
RebacAndManual ==
    {[r \in Repos |-> IF r = r1 THEN Row("active", n1, "rebac")
                      ELSE Row("active", n2, "manual")]}

\* Two repositories added by hand: their names can move.
TwoManual ==
    {[r \in Repos |-> IF r = r1 THEN Row("active", n1, "manual")
                      ELSE Row("active", n2, "manual")]}

\* One repository, and room for a second one.
OneRepo ==
    {[r \in Repos |-> IF r = r1 THEN Row("active", n1, "rebac")
                      ELSE Row("absent", NoName, "none")]}

Symmetric == Permutations(Polls) \cup Permutations(Approvals)
====
