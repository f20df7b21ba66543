------------------------------ MODULE MCSchema ------------------------------
(* Model checking the evolution of a database's schema: each behaviour is one *)
(* of a migration plan that runs beside live writes (Migration), or of the    *)
(* catalog under opens, renames, type changes and lists of migrations         *)
(* (Catalog).  The parts use the variables v1 to v18 in turn, each for its    *)
(* own state.                                                                 *)
EXTENDS Integers, Sequences, Functions, TLC

CONSTANTS
    PlanSetups, Op, Driver, None, MaxId,                            \* Migration
    CatalogSetups, TypeOrder, MaxRenameHistory, MaxTypeChangeHistory, Migrators, NoOne  \* Catalog

VARIABLES what, v1, v2, v3, v4, v5, v6, v7, v8, v9, v10, v11, v12, v13, v14, v15, v16, v17, v18

v == <<v1, v2, v3, v4, v5, v6, v7, v8, v9, v10, v11, v12, v13, v14, v15, v16, v17, v18>>
Beyond9 == <<v10, v11, v12, v13, v14, v15, v16, v17, v18>>

Plans == INSTANCE Migration WITH
    Setups <- PlanSetups, setup <- v1, rows <- v2, nextId <- v3, plan <- v4, part <- v5, quar <- v6,
    catKind <- v7, mode <- v8, schema <- v9, hook <- v10, conv <- v11, reg <- v12, lock <- v13,
    thr <- v14, wk <- v15, left <- v16, last <- v17, odd <- v18

Names == INSTANCE Catalog WITH
    Setups <- CatalogSetups, setup <- v1, kv <- v2, handles <- v3, counters <- v4, lock <- v5,
    mig <- v6, ran <- v7, left <- v8, odd <- v9

\* What the setups are made with.
Empty == INSTANCE Catalog WITH
    Setups <- {}, setup <- v1, kv <- v2, handles <- v3, counters <- v4, lock <- v5,
    mig <- v6, ran <- v7, left <- v8, odd <- v9

Init ==
    \/ what = "plan" /\ Plans!Init
    \/ /\ what = "catalog" /\ Names!Init /\ v10 = None /\ v11 = None /\ v12 = None /\ v13 = None
       /\ v14 = None /\ v15 = None /\ v16 = None /\ v17 = None /\ v18 = None

Next ==
    /\ UNCHANGED what
    /\ \/ what = "plan" /\ Plans!Next
       \/ what = "catalog" /\ Names!Next /\ UNCHANGED Beyond9

Spec == Init /\ [][Next]_<<what, v>>

Symmetric == Permutations(Op)

-----------------------------------------------------------------------------
(* Plans: one setup per question.  Rows and writes hold the numbers 1 and 2, *)
(* so that an old value is told from a new one.                            *)

Bounds(writes, calls, crashes, errors) ==
    [writes |-> writes, calls |-> calls, crashes |-> crashes, errors |-> errors]

Plan ==
    [rows |-> <<1, 1>>, values |-> {1, 2}, bad |-> {}, wrong |-> {},
     policy |-> "Stop", dry |-> FALSE, degree |-> 1, chunk |-> 1, cap |-> 5,
     spawns |-> {TRUE}, verbs |-> {"start"}, left |-> Bounds(1, 1, 0, 0)]

\* Live writes against two partition workers.
Racing == [Plan EXCEPT !.degree = 2, !.left = Bounds(2, 1, 0, 0)]

\* Chunks of two over partitions of two, a restart and a resume; the driver
\* may fail to spawn.
Resuming ==
    [Plan EXCEPT !.rows = <<1, 1, 1>>, !.chunk = 2, !.degree = 2, !.spawns = {TRUE, FALSE},
                 !.verbs = {"start", "resume"}, !.left = Bounds(2, 2, 1, 0)]

\* Pause, cancel, wait and resume against the detached driver.
Cancelling ==
    [Plan EXCEPT !.verbs = {"start", "pause", "resume", "cancel", "wait"},
                 !.left = Bounds(1, 4, 0, 0)]

\* Restarts in every phase, with either schema.
Restarting ==
    [Plan EXCEPT !.verbs = {"start", "resume", "cancel"},
                 !.left = Bounds(1, 3, 2, 0)]

\* A terminal pass whose commit fails.
FailingPass ==
    [Plan EXCEPT !.verbs = {"start", "cancel", "resume"}, !.left = Bounds(1, 3, 0, 1)]

\* Rows the converter fails on, under each policy, with a cap on them.
Erring(policy, cap) ==
    [Plan EXCEPT !.policy = policy, !.rows = <<2, 1>>, !.bad = {2}, !.chunk = 2, !.cap = cap,
                 !.verbs = {"start", "resume", "retry", "clear", "cutover"},
                 !.left = Bounds(1, 4, 1, 0)]

\* A converter that returns a wrong kind halts the backfill under any policy.
WrongKind ==
    [Plan EXCEPT !.policy = "Quarantine", !.rows = <<1, 2>>, !.wrong = {2},
                 !.verbs = {"start", "cancel", "resume"}, !.left = Bounds(1, 3, 1, 0)]

DryRun ==
    [Plan EXCEPT !.dry = TRUE, !.verbs = {"start", "pause", "resume", "cancel"},
                 !.left = Bounds(1, 3, 1, 0)]

AllPlans ==
    {Racing, Resuming, Cancelling, Restarting, FailingPass, WrongKind, DryRun,
     Erring("Stop", 5), Erring("SkipAndLog", 0), Erring("SkipAndLog", 5),
     Erring("Quarantine", 0), Erring("Quarantine", 5)}

-----------------------------------------------------------------------------
(* Catalogs: a type U that R links to, their renames and changes.          *)

Scalar(n, kind, ix) == [name |-> n, kind |-> kind, indexed |-> ix, target |-> "none"]
Rel(n, t) == [name |-> n, kind |-> "rel", indexed |-> FALSE, target |-> t]

Links(t) == <<Rel("p", t), Rel("q", t)>>
Plain(n, m, kind) == <<Scalar(n, "int", TRUE), Scalar(m, kind, FALSE)>>

S0 == ("U" :> Plain("n", "m", "int")) @@ ("R" :> Links("U"))
SType == ("A" :> Plain("n", "m", "int")) @@ ("R" :> Links("A"))
SField == [S0 EXCEPT !.U = Plain("x", "m", "int")]
SSwap == [S0 EXCEPT !.U = Plain("m", "n", "int")]
SKind == [S0 EXCEPT !.U = Plain("n", "m", "str")]
SDrop == [S0 EXCEPT !.R = <<Rel("p", "U")>>]
SGrow == [S0 EXCEPT !.U = @ \o <<Scalar("k", "int", FALSE)>>]
SLink == [S0 EXCEPT !.R = <<Rel("l", "U"), Rel("q", "U")>>]

\* A database with two objects of U and one of R, linked through p.
Val(id, kind) == [id |-> id, kind |-> kind]
Row == ("n" :> Val(3, "int")) @@ ("m" :> Val(4, "int"))
Cat0 == Empty!backfill_into_txn(S0)
Filled ==
    Cat0 @@ [k \in {<<"o", 2, 1>>, <<"i", 3, 1>>} |-> Row]
         @@ (<<"o", 1, 2>> :> <<>>)
         @@ (<<"r", 1, 2>> :> [tgt |-> 1, own |-> ("p" :> Val(1, "rel")), side |-> <<>>])

TypeV == [verb |-> "type", old |-> "U", new |-> "A"]
Field(t, a, b) == [verb |-> "field", t |-> t, old |-> a, new |-> b]
Change(t, f) == [verb |-> "change", t |-> t, f |-> f, to |-> "str"]

Verb(vs, consume, post) == [call |-> "verb", verbs |-> vs, list |-> <<>>, consume |-> consume, post |-> post]
Reload(post) == [call |-> "reload", verbs |-> <<>>, list |-> <<>>, consume |-> TRUE, post |-> post]
List(l, consume, post) == [call |-> "list", verbs |-> <<>>, list |-> l, consume |-> consume, post |-> post]

Stored == [store |-> Filled, schemas |-> {S0}, shrink |-> {FALSE}, objects |-> {1, 2}, plans |-> {}, ops |-> {},
         left |-> [opens |-> 2, writes |-> 1, plans |-> 0, calls |-> 0, crashes |-> 0]]

\* Opening a fresh, a torn or a complete catalog under schemas that grow,
\* shrink, bring a dropped field back or change a kind.
Torn == Restrict(Cat0, DOMAIN Cat0 \ {<<"I">>, <<"R", "R", "q">>, <<"N">>})
Torn2 == Restrict(Cat0, DOMAIN Cat0 \ {<<"F">>})
Opening ==
    {[Stored EXCEPT !.store = st, !.schemas = {S0, SDrop, SGrow, SKind}, !.shrink = BOOLEAN,
                  !.left.opens = 4, !.left.crashes = 1] : st \in {<<>>, Torn, Torn2, Filled}}

\* Verbs on a handle that other threads share.
Sharing ==
    [Stored EXCEPT !.schemas = {S0, SType, SField}, !.objects = {1, 3},
        !.ops = {Verb(<<TypeV>>, TRUE, SType), Verb(<<TypeV>>, FALSE, SType),
                 Verb(<<Field("U", "n", "x")>>, TRUE, SField), Reload(SGrow), Reload(S0)},
        !.left.calls = 2, !.left.crashes = 1]

\* Plans whose verbs depend on one another, and names that were used before.
Planning ==
    [Stored EXCEPT !.schemas = {S0},
        !.ops = {Verb(<<Field("U", "n", "x"), Field("U", "m", "n"), Field("U", "x", "m")>>, c, SSwap) : c \in BOOLEAN}
                \cup {Verb(<<Field("R", "p", "l")>>, TRUE, SLink), Verb(<<Field("R", "l", "p")>>, TRUE, S0)},
        !.left.calls = 3, !.left.opens = 1]

\* Type changes, at once or by a plan, of objects that covers repeat.
Changing ==
    [Stored EXCEPT !.schemas = {S0, SKind}, !.plans = {Change("U", "m")},
        !.ops = {Verb(<<Change("U", "m")>>, c, SKind) : c \in BOOLEAN}
                \cup {Reload(SKind), Verb(<<Field("U", "m", "x")>>, FALSE, S0)},
        !.left.plans = 1, !.left.calls = 2, !.left.opens = 3, !.left.writes = 2]

M1 == [name |-> "m1", verbs |-> <<TypeV>>]
M2 == [name |-> "m2", verbs |-> <<Field("R", "p", "l"), Field("A", "m", "x")>>]
M3 == [name |-> "m3", verbs |-> <<Change("U", "m")>>]
SList == ("A" :> Plain("n", "x", "int")) @@ ("R" :> <<Rel("l", "A"), Rel("q", "A")>>)

\* Lists of migrations that grow, fail half-way, are cut short or disagree.
Listing ==
    [Stored EXCEPT !.schemas = {S0, SType, SList},
        !.ops = {List(<<M1, M2>>, c, SList) : c \in BOOLEAN} \cup {List(<<M1>>, TRUE, SType)}
                \cup {List(<<M3, M1>>, FALSE, SType), List(<<M2>>, FALSE, S0)},
        !.left.calls = 3, !.left.crashes = 1]

AllCatalogs == Opening \cup {Sharing, Planning, Changing, Listing}
TypesInOrder == <<"A", "R", "U">>

-----------------------------------------------------------------------------
(* The properties, each in the behaviours of its part.                     *)

\* No conversion loses a client's write: a row, promoted or not, holds the
\* number last written, and so does its shadow, through chunks that conflict with
\* live writes, restarts and a second plan after a cancelled one; and no shadow
\* is left where the double-write hook does not cover it.
LastWriteKept == what = "plan" => Plans!LastWriteKept /\ Plans!HookCoversShadows

\* A plan ends as it says: a completed one has converted every row, those written
\* while it ran and those of partitions that stopped and resumed, except the errors
\* its policy or its operator accepts; a cancelled one has promoted nothing,
\* whoever reaches migration_lock first, and while it is unsettled some thread is
\* on its way to the rollback.
OutcomesExact ==
    what = "plan" => Plans!CompletedConverted /\ Plans!CancelLossless /\ Plans!RollbackNotStranded

\* Whatever opens, renames, type changes, plans and crashes came before, the
\* catalog can be loaded, a handle that accepts writes has a schema the catalog
\* agrees with, every stored value and cover stands under the name that its field
\* has now, and a second-degree cover whose stamp is the generation in memory holds
\* its target's row, unless a field of a target was renamed.
NamesAgree ==
    what = "catalog" =>
        /\ Names!CatalogLoads /\ Names!SchemaAgrees
        /\ Names!RowsNamed /\ Names!CoversNamed /\ Names!TrustedSidecarCurrent

\* Every verb of a logged migration ran, and none twice unless a call stopped
\* between the verbs of a migration and its log entry.
LogExact == what = "catalog" => Names!LogExact

\* An id, once given, names the same kind of thing for ever, and no counter of ids
\* goes back.
IdentitiesPersist ==
    [][what = "catalog" /\ Names!Initialised(v2) => Names!Identified]_<<what, v>>
=============================================================================
