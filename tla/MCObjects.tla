------------------------------ MODULE MCObjects ------------------------------
(* Model checking Objects in four setups: contention for a unique key, the *)
(* life of edges under every delete policy, covers under updates and       *)
(* relinks, and ids that are restored or reused after a restart.           *)
EXTENDS Objects, TLC

CONSTANTS MaxCalls, MaxFaults

Threads == Permutations(Session)

Fields(k) == [key |-> k, note |-> 0]
Cover(id, k) == [id |-> id, fields |-> Fields(k), v |-> 1, quiet |-> TRUE]

\* Two targets, the first with the key k.
TwoTargets ==
    (<<"o", Tgt(1)>> :> Fields("k")) @@ (<<"u", "target", "k">> :> 1)
        @@ (<<"i", "k", Tgt(1)>> :> Fields("k"))
        @@ (<<"o", Tgt(2)>> :> Fields(Null))

\* The same and a source created with inline links to both.
Pair ==
    TwoTargets @@ (<<"o", Src(3)>> :> Fields(Null))
        @@ (<<"e", 3, 1, 1>> :> "edge") @@ (<<"r", 1, 1, 3>> :> (2 :> Cover(2, Null)))
        @@ (<<"e", 3, 2, 2>> :> "edge") @@ (<<"r", 2, 2, 3>> :> (1 :> Cover(1, "k")))

Removing == [rel \in Rel |-> "remove"]

NewTarget(k) == [type |-> "target", key |-> k, links |-> <<>>]
NewSource(links) == [type |-> "source", key |-> Null, links |-> links]
SetKey(o, k) == <<"update", [o |-> o, field |-> "key", key |-> k, note |-> 0]>>
SetNote(o) == <<"update", [o |-> o, field |-> "note", key |-> Null, note |-> 1]>>

UniqueSetup ==
    [db |-> TwoTargets, policy |-> Removing, calls |-> MaxCalls, faults |-> MaxFaults,
     inputs |-> {<<"create", NewTarget("k")>>,
                 <<"create_batch", <<NewTarget("k"), NewTarget("k")>>>>,
                 <<"create_batch", <<NewTarget("k"), NewTarget(Null)>>>>,
                 SetKey(Tgt(1), Null), SetKey(Tgt(2), "k"), SetNote(Tgt(1)),
                 <<"delete", Tgt(1)>>}]

EdgeSetup(policy) ==
    [db |-> Pair, policy |-> policy, calls |-> MaxCalls, faults |-> 0,
     inputs |-> {<<"create", NewSource((1 :> 1) @@ (2 :> 2))>>,
                 SetNote(Src(3)), SetNote(Tgt(1)),
                 <<"link", <<3, 1, 2>>>>, <<"unlink", <<3, 2, 2>>>>,
                 <<"delete", Tgt(1)>>, <<"delete", Src(3)>>}]

CoverSetup ==
    [db |-> Pair, policy |-> Removing, calls |-> MaxCalls + 1, faults |-> MaxFaults,
     inputs |-> {SetNote(Tgt(1)), SetNote(Src(3)),
                 <<"link", <<3, 2, 2>>>>, <<"unlink", <<3, 1, 1>>>>,
                 <<"delete", Tgt(1)>>}]

RestoreSetup ==
    [db |-> Pair, policy |-> Removing, calls |-> MaxCalls, faults |-> MaxFaults,
     inputs |-> {<<"restore", [row |-> NewTarget("k"), id |-> 1]>>,
                 <<"restore", [row |-> NewTarget("k"), id |-> 4]>>,
                 <<"create", NewTarget(Null)>>,
                 <<"delete", Tgt(1)>>, SetNote(Tgt(1))}]

AllSetups ==
    {UniqueSetup, CoverSetup, RestoreSetup}
        \cup {EdgeSetup(p) : p \in [Rel -> {"deny", "remove", "cascade"}]}

\* A source whose to-many relation 1 has both targets, and cascades.
Tagged ==
    {[db |-> TwoTargets @@ (<<"o", Src(3)>> :> Fields(Null))
                 @@ (<<"e", 3, 1, 1>> :> "edge") @@ (<<"r", 1, 1, 3>> :> <<>>),
      policy |-> [rel \in Rel |-> "cascade"], calls |-> MaxCalls, faults |-> MaxFaults,
      inputs |-> {<<"link", <<3, 1, 2>>>>, <<"delete", Tgt(1)>>}]}

\* A link of a source to one target beside an update of its other target.
LinkAndUpdate ==
    {[db |-> Pair, policy |-> Removing, calls |-> MaxCalls, faults |-> MaxFaults,
      inputs |-> {SetNote(Tgt(1)), <<"link", <<3, 2, 2>>>>}]}
=============================================================================
