--------------------------- MODULE HotReloadProofs ---------------------------
(***************************************************************************)
(* Proofs about HotReload, for any number of tasks, plans and fields:      *)
(* the live database keeps its migration hooks across every reload, and a  *)
(* query never writes through a handle whose schema is not the live one.   *)
(*                                                                         *)
(* ReloadInv is the inductive invariant: the shape of the state (ShapeInv),*)
(* what each task may rely on at its program counter (TaskInv), and what   *)
(* makes a plan be driven (PlanInv).                                       *)
(***************************************************************************)
EXTENDS HotReload, TLAPS

Statuses == {"Running", "Failed", "Completed", "DryRunCompleted", "Cancelled"}
Kinds == setup.kinds
Schemas == [DOMAIN setup.schema -> Kinds]
Handles == [schema : Schemas, hooks : SUBSET Nat]
Starts == [field : DOMAIN setup.schema, to : Kinds, dry : BOOLEAN]

PlanRecs ==
    [field : DOMAIN setup.schema, to : Kinds, src : Kinds, dry : BOOLEAN,
     status : Statuses, cutting : BOOLEAN, driven : BOOLEAN]

IsTask(x) == DOMAIN x = {"pc", "plan", "spec", "schema", "status", "handle", "events"}

\* reload_lock is held for writing alone.
LockInv(lock) ==
    /\ DOMAIN lock = {"readers", "writer", "queue"}
    /\ lock.writer /= None => lock.readers = {}

StashInv(st) == \A p \in DOMAIN st : st[p] \in Schemas

\* The shape of the state.
ShapeInv ==
    /\ setup \in Setups
    /\ cat \in Schemas /\ file \in Schemas
    /\ plans \in Seq(PlanRecs)
    /\ rows = [f \in Field |-> rows[f]]
    /\ live \in Handles \cup {None}
    /\ LockInv(epoch)
    /\ StashInv(stash)
    /\ task = [t \in Task |-> task[t]]

\* What task t, now x, may rely on.  Who stores a handle holds reload_lock.write,
\* the handle has no hook and the live one has none to lose; a query that runs
\* holds reload_lock.read and has the schema of the live handle.
TaskInv(t, x, lock) ==
    /\ IsTask(x)
    /\ x.pc /= "idle" => live \in Handles
    /\ x.pc = "start" => x.spec \in Starts
    /\ x.pc = "reload" => x.schema \in Schemas
    /\ x.pc \in {"resume", "drive", "list", "arm"} => x.plan \in Plan
    /\ x.pc = "store" =>
          /\ lock.writer = t /\ live.hooks = {}
          /\ x.handle \in Handles /\ x.handle.hooks = {}
    /\ x.pc = "run" => t \in lock.readers /\ x.handle.schema = live.schema

\* A plan that is driven runs, or its cutover is being settled.
PlanInv(p) ==
    plans[p].driven =>
        /\ live \in Handles
        /\ plans[p].status = "Running" \/ (plans[p].status = "Completed" /\ mlock = p)

ReloadInv ==
    /\ ShapeInv
    /\ \A t \in Task : TaskInv(t, task[t], epoch)
    /\ \A p \in Plan : PlanInv(p)
    /\ HooksSurviveReload

-----------------------------------------------------------------------------
(* Plans, tasks and the lock.                                              *)

\* Kinds, schemas, handles and plans are of a setup, which stays.
LEMMA SameTypes ==
    ASSUME setup' = setup
    PROVE  /\ Kinds' = Kinds /\ Schemas' = Schemas /\ Handles' = Handles
           /\ Starts' = Starts /\ PlanRecs' = PlanRecs
BY DEF Kinds, Schemas, Handles, Starts, PlanRecs, Statuses

\* Plans are numbered from 1.
LEMMA PlanFacts ==
    ASSUME ShapeInv
    PROVE  /\ Len(plans) \in Nat /\ Plan = 1 .. Len(plans) /\ Plan \subseteq Nat
           /\ \A p \in Plan : plans[p] \in PlanRecs
BY DEF ShapeInv, Plan

\* One plan is replaced.
LEMMA PlanSet ==
    ASSUME ShapeInv, setup' = setup, NEW q \in Plan, NEW r \in PlanRecs,
           plans' = [plans EXCEPT ![q] = r]
    PROVE  /\ plans' \in Seq(PlanRecs') /\ Plan' = Plan /\ plans'[q] = r
           /\ \A p \in Plan : p /= q => plans'[p] = plans[p]
<1>1. PlanRecs' = PlanRecs
  BY SameTypes
<1>2. plans' \in Seq(PlanRecs) /\ Plan' = Plan
  BY DEF ShapeInv, Plan
<1>3. plans'[q] = r /\ \A p \in Plan : p /= q => plans'[p] = plans[p]
  BY DEF ShapeInv, Plan
<1> QED BY <1>1, <1>2, <1>3

\* Every plan is replaced.
LEMMA PlanMap ==
    ASSUME ShapeInv, setup' = setup, plans' = [p \in Plan |-> plans'[p]],
           \A p \in Plan : plans'[p] \in PlanRecs
    PROVE  plans' \in Seq(PlanRecs') /\ Plan' = Plan
<1>1. PlanRecs' = PlanRecs
  BY SameTypes
<1>2. Len(plans) \in Nat /\ Plan = 1 .. Len(plans)
  BY PlanFacts
<1>3. plans' \in [1 .. Len(plans) -> PlanRecs]
  BY <1>2
<1>4. plans' \in Seq(PlanRecs)
  BY <1>2, <1>3
<1> QED BY <1>1, <1>4 DEF Plan

\* Idle is a task.
LEMMA IdleIs == IsTask(Idle) /\ Idle.pc = "idle"
BY DEF Idle, IsTask

\* One task is replaced.
LEMMA TaskSet ==
    ASSUME ShapeInv, NEW u \in Task, NEW x, task' = [task EXCEPT ![u] = x]
    PROVE  /\ task' = [t \in Task |-> task'[t]] /\ task'[u] = x
           /\ \A t \in Task : t /= u => task'[t] = task[t]
BY DEF ShapeInv

\* Task t goes on as it was, but for the events it was sent.
TaskSame(t) ==
    /\ IsTask(task'[t])
    /\ task'[t].pc = task[t].pc /\ task'[t].plan = task[t].plan /\ task'[t].spec = task[t].spec
    /\ task'[t].schema = task[t].schema /\ task'[t].handle = task[t].handle

\* A step of the tasks U: the others keep what they rely on if the live handle
\* changes neither its schema under a reader nor its hooks under a writer.
LEMMA TasksKept ==
    ASSUME ReloadInv, setup' = setup, Plan \subseteq Plan', NEW U,
           \A t \in Task \ U : TaskSame(t),
           live \in Handles => live' \in Handles,
           epoch.readers \ U /= {} => live'.schema = live.schema,
           epoch.readers \ U \subseteq epoch'.readers,
           \A t \in Task \ U : epoch.writer = t =>
               epoch'.writer = t /\ (live.hooks = {} => live'.hooks = {})
    PROVE  \A t \in Task \ U : TaskInv(t, task[t], epoch)'
<1>1. TAKE t \in Task \ U
<1>2. TaskInv(t, task[t], epoch) /\ TaskSame(t)
  BY DEF ReloadInv
<1>3. Handles' = Handles /\ Starts' = Starts /\ Schemas' = Schemas
  BY SameTypes
<1> QED BY <1>2, <1>3 DEF TaskInv, TaskSame, IsTask

\* What is published is sent to watchers, whose other fields stay.
LEMMA PublishedSame ==
    ASSUME ReloadInv, NEW p, NEW event, task' = Published(task, p, event)
    PROVE  task' = [t \in Task |-> task'[t]] /\ \A t \in Task : TaskSame(t)
<1>1. task' = [t \in Task |-> task'[t]]
  BY DEF Published
<1>2. ASSUME NEW t \in Task PROVE TaskSame(t)
  <2>1. IsTask(task[t])
    BY DEF ReloadInv, TaskInv
  <2>2. \/ task'[t] = task[t]
        \/ task'[t] = [task[t] EXCEPT !.events = Append(@, event)]
    BY DEF Published
  <2>3. ASSUME task'[t] = [task[t] EXCEPT !.events = Append(@, event)] PROVE TaskSame(t)
    BY <2>1, <2>3 DEF TaskSame, IsTask
  <2> QED BY <2>1, <2>2, <2>3 DEF TaskSame
<1> QED BY <1>1, <1>2

-----------------------------------------------------------------------------
(* Steps.                                                                  *)

\* A step of one task, u, that touches neither the plans nor the handle.
LEMMA TaskStep ==
    ASSUME ReloadInv, UNCHANGED <<setup, cat, plans, live, mlock, file>>,
           NEW u \in Task, NEW x, task' = [task EXCEPT ![u] = x], TaskInv(u, x, epoch'),
           LockInv(epoch'), StashInv(stash'), rows' = [f \in Field |-> rows'[f]],
           epoch.readers \ {u} \subseteq epoch'.readers,
           epoch.writer \in Task \ {u} => epoch'.writer = epoch.writer
    PROVE  ReloadInv'
<1>1. Handles' = Handles /\ Starts' = Starts /\ Schemas' = Schemas /\ PlanRecs' = PlanRecs
      /\ Plan' = Plan /\ Field' = Field
  BY SameTypes DEF Plan, Field
<1>2. /\ task' = [t \in Task |-> task'[t]] /\ task'[u] = x
      /\ \A t \in Task : t /= u => task'[t] = task[t]
  BY TaskSet, Zenon DEF ReloadInv
<1>3. ShapeInv'
  BY <1>1, <1>2 DEF ReloadInv, ShapeInv, StashInv, LockInv
<1>4. \A t \in Task \ {u} : TaskSame(t)
  BY <1>2 DEF TaskSame, ReloadInv, TaskInv
<1>5. \A t \in Task \ {u} : TaskInv(t, task[t], epoch)'
  BY <1>1, <1>4, TasksKept, Zenon
<1>6. TaskInv(u, task[u], epoch)'
  BY <1>1, <1>2 DEF TaskInv, IsTask
<1>7. \A p \in Plan' : PlanInv(p)'
  BY <1>1 DEF ReloadInv, PlanInv
<1>8. HooksSurviveReload'
  BY <1>1 DEF ReloadInv, HooksSurviveReload, Quiesces
<1> QED BY <1>3, <1>5, <1>6, <1>7, <1>8 DEF ReloadInv

\* A step of a plan: the tasks are sent events at most, and the handle loses
\* hooks at most.
LEMMA PlanStep ==
    ASSUME ReloadInv, UNCHANGED <<setup, epoch, stash, file>>,
           plans' \in Seq(PlanRecs'), Plan' = Plan, cat' \in Schemas,
           rows' = [f \in Field |-> rows'[f]],
           task' = [t \in Task |-> task'[t]], \A t \in Task : TaskSame(t),
           \/ live' = live
           \/ /\ live \in Handles /\ live' \in Handles
              /\ live'.schema = live.schema /\ live'.hooks \subseteq live.hooks,
           \A p \in Plan : PlanInv(p)', HooksSurviveReload'
    PROVE  ReloadInv'
<1>1. Handles' = Handles /\ Schemas' = Schemas
  BY SameTypes
<1>2. Field' = Field
  BY DEF Field, ReloadInv, ShapeInv, Schemas
<1>3. ShapeInv'
  BY <1>1, <1>2 DEF ReloadInv, ShapeInv, StashInv, LockInv
<1>4. \A t \in Task \ {} : TaskInv(t, task[t], epoch)'
  BY <1>1, TasksKept, Zenon
<1> QED BY <1>3, <1>4 DEF ReloadInv

\* A hook is disarmed in the live handle, if there is one.
LEMMA DisarmedIs ==
    ASSUME ReloadAssumption, ReloadInv, NEW p, live' = Disarmed(p)
    PROVE  \/ live' = live /\ live = None
           \/ /\ live \in Handles /\ live' \in Handles
              /\ live'.schema = live.schema /\ live'.hooks = live.hooks \ {p}
BY DEF Disarmed, ReloadInv, ShapeInv, Handles

\* A step of a plan that leaves the tasks and the handle alone.
LEMMA SameInv ==
    ASSUME ReloadInv, UNCHANGED <<setup, live, epoch, stash, task, file>>,
           plans' \in Seq(PlanRecs'), Plan' = Plan,
           cat' \in Schemas \/ cat' = cat, rows' = [f \in Field |-> rows'[f]] \/ rows' = rows,
           \A p \in Plan : PlanInv(p)', HooksSurviveReload'
    PROVE  ReloadInv'
<1>1. cat' \in Schemas /\ rows' = [f \in Field |-> rows'[f]]
  BY DEF ReloadInv, ShapeInv
<1>2. task' = [t \in Task |-> task'[t]] /\ \A t \in Task : TaskSame(t)
  BY DEF ReloadInv, ShapeInv, TaskInv, TaskSame
<1> QED BY <1>1, <1>2, PlanStep

-----------------------------------------------------------------------------
(* Every action.                                                           *)

\* A client waits for the lock.
LEMMA QueryInv ==
    ASSUME ReloadAssumption, ReloadInv, NEW c \in Client, run_query(c)
    PROVE  ReloadInv'
<1> DEFINE x == [task[c] EXCEPT !.pc = "read"]
<1>1. c \in Task /\ IsTask(task[c]) /\ LockInv(epoch) /\ live \in Handles
  BY Zenon DEF Task, ReloadInv, TaskInv, ShapeInv, run_query
<1>2. IsTask(x) /\ x.pc = "read"
  BY <1>1 DEF IsTask
<1>3. task' = [task EXCEPT ![c] = x]
  BY DEF run_query
<1> HIDE DEF x
<1>4. LockInv(epoch') /\ epoch'.readers = epoch.readers /\ epoch'.writer = epoch.writer
  BY <1>1 DEF run_query, Enqueue, LockInv
<1>5. TaskInv(c, x, epoch')
  BY <1>1, <1>2 DEF TaskInv
<1>6. StashInv(stash') /\ rows' = [f \in Field |-> rows'[f]]
      /\ UNCHANGED <<setup, cat, plans, live, mlock, file>>
  BY DEF run_query, ReloadInv, ShapeInv
<1> QED BY <1>1, <1>3, <1>4, <1>5, <1>6, TaskStep, Zenon

\* It has the lock and the handle.
LEMMA ExecuteInv ==
    ASSUME ReloadAssumption, ReloadInv, NEW c \in Client, execute_parsed(c)
    PROVE  ReloadInv'
<1> DEFINE x == [task[c] EXCEPT !.pc = "run", !.handle = live]
<1>1. c \in Task /\ IsTask(task[c]) /\ LockInv(epoch) /\ live \in Handles /\ epoch.writer = None
  BY Zenon DEF Task, ReloadInv, TaskInv, ShapeInv, execute_parsed, CanRead
<1>2. IsTask(x) /\ x.pc = "run" /\ x.handle = live
  BY <1>1 DEF IsTask
<1>3. task' = [task EXCEPT ![c] = x]
  BY Zenon DEF execute_parsed
<1> HIDE DEF x
<1>4. LockInv(epoch') /\ epoch'.readers = epoch.readers \cup {c} /\ epoch'.writer = epoch.writer
  BY <1>1 DEF execute_parsed, Read, LockInv
<1>5. TaskInv(c, x, epoch')
  BY <1>1, <1>2, <1>4 DEF TaskInv
<1>6. StashInv(stash') /\ rows' = [f \in Field |-> rows'[f]]
      /\ UNCHANGED <<setup, cat, plans, live, mlock, file>>
  BY DEF execute_parsed, ReloadInv, ShapeInv
<1> QED BY <1>1, <1>3, <1>4, <1>5, <1>6, TaskStep, Zenon

\* A task that ends.
LEMMA IdleInv == ASSUME NEW t, NEW lock PROVE TaskInv(t, Idle, lock)
BY IdleIs DEF TaskInv

\* It has written and answers.
LEMMA AnswerInv ==
    ASSUME ReloadAssumption, ReloadInv, NEW c \in Client, Answer(c)
    PROVE  ReloadInv'
<1>1. c \in Task /\ LockInv(epoch)
  BY DEF Task, ReloadInv, ShapeInv
<1>2. LockInv(epoch') /\ epoch'.readers = epoch.readers \ {c} /\ epoch'.writer = epoch.writer
  BY <1>1 DEF Answer, ReleaseRead, LockInv
<1>3. /\ StashInv(stash') /\ rows' = [f \in Field |-> rows'[f]]
      /\ UNCHANGED <<setup, cat, plans, live, mlock, file>> /\ task' = [task EXCEPT ![c] = Idle]
  BY DEF Answer, ReloadInv, ShapeInv
<1> QED BY <1>1, <1>2, <1>3, TaskStep, IdleInv, Zenon

\* The operator's request waits for the lock.
LEMMA RequestInv ==
    ASSUME ReloadAssumption, ReloadInv, NEW x, Request(x), IsTask(x),
           x.pc \in {"start", "resume", "reload"},
           x.pc = "start" => x.spec \in Starts,
           x.pc = "reload" => x.schema \in Schemas,
           x.pc = "resume" => x.plan \in Plan
    PROVE  ReloadInv'
<1>1. Op \in Task /\ LockInv(epoch) /\ live \in Handles
  BY DEF Task, ReloadInv, ShapeInv, Request
<1>2. LockInv(epoch') /\ epoch'.readers = epoch.readers /\ epoch'.writer = epoch.writer
  BY <1>1 DEF Request, Enqueue, LockInv
<1>3. TaskInv(Op, x, epoch')
  BY <1>1 DEF TaskInv
<1>4. /\ StashInv(stash') /\ rows' = [f \in Field |-> rows'[f]]
      /\ UNCHANGED <<setup, cat, plans, live, mlock, file>> /\ task' = [task EXCEPT ![Op] = x]
  BY DEF Request, ReloadInv, ShapeInv
<1> QED BY <1>1, <1>2, <1>3, <1>4, TaskStep, Zenon

\* The three requests.
LEMMA RequestsInv ==
    ASSUME ReloadAssumption, ReloadInv, RequestStart \/ RequestResume \/ reload
    PROVE  ReloadInv'
<1>1. Field = DOMAIN setup.schema /\ setup \in Setups /\ setup.dry \subseteq BOOLEAN
  BY DEF Field, ReloadInv, ShapeInv, Schemas, ReloadAssumption
<1>2. CASE RequestStart
  <2>1. PICK f \in Field, k \in setup.kinds, dry \in setup.dry :
          Request([Idle EXCEPT !.pc = "start", !.spec = [field |-> f, to |-> k, dry |-> dry]])
    BY <1>2, Zenon DEF RequestStart
  <2> DEFINE spec == [field |-> f, to |-> k, dry |-> dry]
             x == [Idle EXCEPT !.pc = "start", !.spec = spec]
  <2>2. spec \in Starts
    BY <1>1 DEF Starts, Kinds
  <2> HIDE DEF spec
  <2>3. IsTask(x) /\ x.pc = "start" /\ x.spec = spec
    BY DEF Idle, IsTask
  <2>4. Request(x)
    BY <2>1 DEF spec
  <2> HIDE DEF x
  <2> QED BY <2>2, <2>3, <2>4, RequestInv
<1>3. CASE RequestResume
  <2>1. PICK p \in Plan : Request([Idle EXCEPT !.pc = "resume", !.plan = p])
    BY <1>3, Zenon DEF RequestResume
  <2> DEFINE x == [Idle EXCEPT !.pc = "resume", !.plan = p]
  <2>2. IsTask(x) /\ x.pc = "resume" /\ x.plan = p
    BY DEF Idle, IsTask
  <2> HIDE DEF x
  <2> QED BY <2>1, <2>2, RequestInv, Zenon DEF x
<1>4. CASE reload
  <2>1. PICK schema \in [Field -> setup.kinds] :
          Request([Idle EXCEPT !.pc = "reload", !.schema = schema])
    BY <1>4, Zenon DEF reload
  <2> DEFINE x == [Idle EXCEPT !.pc = "reload", !.schema = schema]
  <2>2. IsTask(x) /\ x.pc = "reload" /\ x.schema = schema
    BY DEF Idle, IsTask
  <2>3. schema \in Schemas
    BY <1>1, <2>1 DEF Schemas, Kinds
  <2> HIDE DEF x
  <2> QED BY <2>1, <2>2, <2>3, RequestInv, Zenon DEF x
<1> QED BY <1>2, <1>3, <1>4

\* The terminal pass begins, of a driver or of the operator.
LEMMA BeginCutoverInv ==
    ASSUME ReloadAssumption, ReloadInv, NEW q \in Plan, BeginCutover(q) \/ cutover_migration(q)
    PROVE  ReloadInv'
<1> DEFINE r == [plans[q] EXCEPT !.cutting = TRUE]
<1>1. plans[q] \in PlanRecs /\ ShapeInv
  BY PlanFacts DEF ReloadInv
<1>2. r \in PlanRecs /\ r.driven = plans[q].driven /\ r.status = plans[q].status /\ r.dry = plans[q].dry
  BY <1>1, Zenon DEF PlanRecs
<1>3. /\ plans' = [plans EXCEPT ![q] = r] /\ mlock = 0 /\ mlock' = q
      /\ UNCHANGED <<setup, cat, rows, live, epoch, stash, task, file>>
  BY DEF BeginCutover, cutover_migration
<1> HIDE DEF r
<1>4. /\ plans' \in Seq(PlanRecs') /\ Plan' = Plan /\ plans'[q] = r
      /\ \A p \in Plan : p /= q => plans'[p] = plans[p]
  BY <1>1, <1>2, <1>3, PlanSet, Zenon
<1>5. \A p \in Plan : PlanInv(p)'
  <2>1. Plan \subseteq Nat \ {0} /\ Handles' = Handles
    BY <1>1, <1>3, PlanFacts, SameTypes
  <2> QED BY <1>2, <1>3, <1>4, <2>1 DEF ReloadInv, PlanInv
<1>6. HooksSurviveReload'
  BY <1>2, <1>3, <1>4 DEF ReloadInv, HooksSurviveReload, Quiesces
<1> QED BY <1>1, <1>3, <1>4, <1>5, <1>6, SameInv

\* The rows are promoted: a plan that is cut over keeps its hook until it settles.
LEMMA FinalizeInv ==
    ASSUME ReloadAssumption, ReloadInv, NEW q \in Plan, finalize_migration_cutover(q)
    PROVE  ReloadInv'
<1> DEFINE r == [plans[q] EXCEPT !.status = "Completed"]
<1>1. plans[q] \in PlanRecs /\ ShapeInv
  BY PlanFacts DEF ReloadInv
<1>2. r \in PlanRecs /\ r.driven = plans[q].driven /\ r.status = "Completed"
  BY <1>1 DEF PlanRecs, Statuses
<1>3. /\ plans' = [plans EXCEPT ![q] = r] /\ mlock = q
      /\ cat' = [cat EXCEPT ![plans[q].field] = plans[q].to]
      /\ rows' = [rows EXCEPT ![plans[q].field] = {plans[q].to}]
      /\ UNCHANGED <<setup, live, mlock, epoch, stash, task, file>>
  BY DEF finalize_migration_cutover
<1> HIDE DEF r
<1>4. /\ plans' \in Seq(PlanRecs') /\ Plan' = Plan /\ plans'[q] = r
      /\ \A p \in Plan : p /= q => plans'[p] = plans[p]
  BY <1>1, <1>2, <1>3, PlanSet, Zenon
<1>5. \A p \in Plan : PlanInv(p)'
  <2>1. Handles' = Handles
    BY <1>3, SameTypes
  <2> QED BY <1>2, <1>3, <1>4, <2>1 DEF ReloadInv, PlanInv
<1>6. HooksSurviveReload'
  BY <1>2, <1>3, <1>4 DEF ReloadInv, HooksSurviveReload, Quiesces
<1>7. plans[q].to \in Kinds
  BY <1>1 DEF PlanRecs
<1>8. cat' \in Schemas /\ rows' = [f \in Field |-> rows'[f]]
  BY <1>1, <1>3, <1>7, Zenon DEF ShapeInv, Schemas, Field
<1> QED BY <1>3, <1>4, <1>5, <1>6, <1>8, SameInv

\* A plan that ends or pauses is driven no longer; its hook is disarmed only when
\* it completed or was cancelled.
LEMMA StopsInv ==
    ASSUME ReloadAssumption, ReloadInv, NEW q \in Plan, NEW r \in PlanRecs,
           plans' = [plans EXCEPT ![q] = r], ~ r.driven, r.dry = plans[q].dry,
           mlock' = mlock \/ mlock = q,
           UNCHANGED <<setup, cat, rows, epoch, stash, file>>,
           task' = task \/ \E event : task' = Published(task, q, event),
           \/ live' = live /\ (r.status \in {"Running", "Failed"} => Quiesces(q))
           \/ live' = live /\ r.dry
           \/ live' = Disarmed(q) /\ r.status \notin {"Running", "Failed"}
    PROVE  ReloadInv'
<1>1. ShapeInv
  BY DEF ReloadInv
<1>2. /\ plans' \in Seq(PlanRecs') /\ Plan' = Plan /\ plans'[q] = r
      /\ \A p \in Plan : p /= q => plans'[p] = plans[p]
  BY <1>1, PlanSet, Zenon
<1>3. Handles' = Handles
  BY SameTypes
<1>4. \/ live' = live
      \/ /\ live \in Handles /\ live' \in Handles
         /\ live'.schema = live.schema /\ live'.hooks = live.hooks \ {q}
  BY DisarmedIs
<1>5. \A p \in Plan : PlanInv(p)'
  <2>1. TAKE p \in Plan
  <2>2. PlanInv(p)
    BY DEF ReloadInv
  <2> QED BY <1>2, <1>3, <1>4, <2>2 DEF PlanInv
<1>6. HooksSurviveReload'
  <2>1. CASE live' = live /\ (r.dry \/ (r.status \in {"Running", "Failed"} => Quiesces(q)))
    BY <1>2, <2>1 DEF ReloadInv, HooksSurviveReload, Quiesces
  <2>2. CASE live' = Disarmed(q) /\ r.status \notin {"Running", "Failed"}
    <3>1. \/ live' = live /\ live = None
          \/ live \in Handles /\ live'.hooks = live.hooks \ {q} /\ live /= None
      BY <1>1, <2>2, DisarmedIs DEF ReloadAssumption, ShapeInv, Handles, Schemas, Kinds
    <3> QED BY <1>2, <2>2, <3>1 DEF ReloadInv, HooksSurviveReload, Quiesces
  <2> QED BY <2>1, <2>2
<1>7. task' = [t \in Task |-> task'[t]] /\ \A t \in Task : TaskSame(t)
  <2>1. CASE task' = task
    BY <2>1 DEF ReloadInv, ShapeInv, TaskInv, TaskSame
  <2> QED BY <2>1, PublishedSame
<1>8. cat' \in Schemas /\ rows' = [f \in Field |-> rows'[f]]
  BY <1>1 DEF ShapeInv
<1> QED BY <1>2, <1>4, <1>5, <1>6, <1>7, <1>8, PlanStep

\* Settle, DryRunDone, Fail, pause_migration and cancel_migration.
LEMMA EndsInv ==
    ASSUME ReloadAssumption, ReloadInv, NEW q \in Plan,
           Settle(q) \/ DryRunDone(q) \/ Fail(q) \/ pause_migration(q) \/ cancel_migration(q)
    PROVE  ReloadInv'
<1>1. plans[q] \in PlanRecs /\ PlanInv(q)
  BY PlanFacts DEF ReloadInv
<1>2. CASE Settle(q)
  <2> DEFINE r == [plans[q] EXCEPT !.driven = FALSE]
  <2>1. r \in PlanRecs /\ ~ r.driven /\ r.dry = plans[q].dry /\ r.status = "Completed"
    BY <1>1, <1>2, Zenon DEF PlanRecs, Settle
  <2>2. /\ plans' = [plans EXCEPT ![q] = r] /\ mlock = q /\ live' = Disarmed(q)
        /\ task' = Published(task, q, "Completed")
        /\ UNCHANGED <<setup, cat, rows, epoch, stash, file>>
    BY <1>2 DEF Settle
  <2> HIDE DEF r
  <2> QED BY <2>1, <2>2, StopsInv, Zenon
<1>3. CASE DryRunDone(q)
  <2> DEFINE r == [plans[q] EXCEPT !.status = "DryRunCompleted", !.driven = FALSE]
  <2>1. r \in PlanRecs /\ ~ r.driven /\ r.dry = plans[q].dry /\ r.dry
    BY <1>1, <1>3, Zenon DEF PlanRecs, DryRunDone, Statuses
  <2>2. /\ plans' = [plans EXCEPT ![q] = r] /\ mlock' = mlock /\ live' = live
        /\ task' = Published(task, q, "DryRunCompleted")
        /\ UNCHANGED <<setup, cat, rows, epoch, stash, file>>
    BY <1>3, Zenon DEF DryRunDone
  <2> HIDE DEF r
  <2> QED BY <2>1, <2>2, StopsInv, Zenon
<1>4. CASE Fail(q)
  <2> DEFINE r == [plans[q] EXCEPT !.status = "Failed", !.driven = FALSE]
  <2>1. r \in PlanRecs /\ ~ r.driven /\ r.dry = plans[q].dry /\ Quiesces(q)
    BY <1>1, <1>4, Zenon DEF PlanRecs, Fail, Statuses, PlanInv, Quiesces
  <2>2. /\ plans' = [plans EXCEPT ![q] = r] /\ mlock' = mlock /\ live' = live
        /\ task' = Published(task, q, "Failed")
        /\ UNCHANGED <<setup, cat, rows, epoch, stash, file>>
    BY <1>4, Zenon DEF Fail
  <2> HIDE DEF r
  <2> QED BY <2>1, <2>2, StopsInv, Zenon
<1>5. CASE pause_migration(q)
  <2> DEFINE r == [plans[q] EXCEPT !.driven = FALSE]
  <2>1. r \in PlanRecs /\ ~ r.driven /\ r.dry = plans[q].dry /\ Quiesces(q)
    BY <1>1, <1>5, Zenon DEF PlanRecs, pause_migration, PlanInv, Quiesces
  <2>2. /\ plans' = [plans EXCEPT ![q] = r] /\ mlock' = mlock /\ live' = live /\ task' = task
        /\ UNCHANGED <<setup, cat, rows, epoch, stash, file>>
    BY <1>5 DEF pause_migration
  <2> HIDE DEF r
  <2> QED BY <2>1, <2>2, StopsInv, Zenon
<1>6. CASE cancel_migration(q)
  <2> DEFINE r == [plans[q] EXCEPT !.status = "Cancelled", !.driven = FALSE]
  <2>1. r \in PlanRecs /\ ~ r.driven /\ r.dry = plans[q].dry /\ r.status = "Cancelled"
    BY <1>1, Zenon DEF PlanRecs, Statuses
  <2>2. /\ plans' = [plans EXCEPT ![q] = r] /\ mlock' = mlock /\ live' = Disarmed(q)
        /\ task' = Published(task, q, "Cancelled")
        /\ UNCHANGED <<setup, cat, rows, epoch, stash, file>>
    BY <1>6, Zenon DEF cancel_migration
  <2> HIDE DEF r
  <2> QED BY <2>1, <2>2, StopsInv, Zenon
<1> QED BY <1>2, <1>3, <1>4, <1>5, <1>6

\* A step of the operator's request that adds a hook, under reload_lock.read.
LEMMA ArmsInv ==
    ASSUME ReloadAssumption, ReloadInv, UNCHANGED <<setup, cat, rows, mlock, stash, file>>,
           live \in Handles, CanRead(Op), epoch' = Read(Op), NEW x, IsTask(x),
           x.pc \in {"list", "drive"}, task' = [task EXCEPT ![Op] = x],
           plans' \in Seq(PlanRecs'), NEW q \in Plan', Plan' = Plan \cup {q}, x.plan = q,
           \A p \in Plan : p /= q => plans'[p] = plans[p],
           plans'[q].status = "Running",
           \/ plans'[q].dry /\ live' = live
           \/ live' = [live EXCEPT !.hooks = @ \cup {q}]
    PROVE  ReloadInv'
<1>1. Handles' = Handles /\ Starts' = Starts /\ Schemas' = Schemas /\ PlanRecs' = PlanRecs
      /\ Field' = Field
  BY SameTypes DEF Field
<1>2. ShapeInv /\ Op \in Task /\ q \in Nat
  <2>1. Plan' \subseteq Nat
    BY DEF Plan
  <2> QED BY <2>1 DEF ReloadInv, Task
<1>3. /\ live' \in Handles /\ live'.schema = live.schema /\ live.hooks \subseteq live'.hooks
      /\ plans'[q].dry \/ q \in live'.hooks
  BY <1>2 DEF Handles
<1>4. epoch.writer = None /\ epoch'.writer = None /\ LockInv(epoch') /\ epoch.readers \subseteq epoch'.readers
  BY <1>2 DEF CanRead, Read, ShapeInv, LockInv
<1>5. /\ task' = [t \in Task |-> task'[t]] /\ task'[Op] = x
      /\ \A t \in Task : t /= Op => task'[t] = task[t]
  BY <1>2, TaskSet, Zenon
<1>6. ShapeInv'
  BY <1>1, <1>2, <1>3, <1>4, <1>5 DEF ShapeInv, StashInv, LockInv
<1>7. \A t \in Task \ {Op} : TaskSame(t)
  BY <1>5 DEF TaskSame, ReloadInv, TaskInv
<1>8. /\ \A t \in Task \ {Op} : epoch.writer = t =>
            epoch'.writer = t /\ (live.hooks = {} => live'.hooks = {})
      /\ epoch.readers \ {Op} \subseteq epoch'.readers /\ Plan \subseteq Plan'
  BY <1>4 DEF ReloadAssumption
<1>9. \A t \in Task \ {Op} : TaskInv(t, task[t], epoch)'
  BY <1>3, <1>7, <1>8, TasksKept, Zenon
<1>10. TaskInv(Op, task[Op], epoch)'
  BY <1>1, <1>3, <1>5 DEF TaskInv, IsTask
<1>11. \A p \in Plan' : PlanInv(p)'
  BY <1>1, <1>3 DEF ReloadInv, PlanInv
<1>12. HooksSurviveReload'
  <2>1. live /= None
    BY <1>2 DEF ReloadAssumption, ShapeInv, Handles, Schemas, Kinds
  <2> QED BY <1>3, <2>1 DEF ReloadInv, HooksSurviveReload, Quiesces
<1> QED BY <1>6, <1>9, <1>10, <1>11, <1>12 DEF ReloadInv

\* A step of the operator's request that changes nothing but the request and its
\* place in reload_lock.
LEMMA HandlerInv ==
    ASSUME ReloadAssumption, ReloadInv, UNCHANGED <<setup, cat, plans, rows, live, mlock, stash, file>>,
           task[Op].pc /= "idle", NEW x, IsTask(x), x.pc \in {"idle", "list", "drive", "arm"},
           x.pc /= "idle" => x.plan \in Plan,
           task' = [task EXCEPT ![Op] = x],
           \/ CanRead(Op) /\ epoch' \in {Read(Op), Refused}
           \/ epoch' \in {ReleaseRead(Op), epoch}
    PROVE  ReloadInv'
<1>1. ShapeInv /\ Op \in Task /\ live \in Handles
  BY DEF ReloadInv, Task, TaskInv
<1>2. /\ LockInv(epoch') /\ epoch'.writer = epoch.writer
      /\ epoch.readers \ {Op} \subseteq epoch'.readers
  BY <1>1, Zenon DEF CanRead, Read, Refused, ReleaseRead, ShapeInv, LockInv
<1>3. TaskInv(Op, x, epoch')
  BY <1>1 DEF TaskInv
<1>4. StashInv(stash') /\ rows' = [f \in Field |-> rows'[f]]
  BY <1>1 DEF ShapeInv
<1> QED BY <1>1, <1>2, <1>3, <1>4, TaskStep, Zenon

\* A plan is made and armed, or refused.
LEMMA StartInv ==
    ASSUME ReloadAssumption, ReloadInv, start
    PROVE  ReloadInv'
<1> DEFINE spec == task[Op].spec
           r == [field |-> spec.field, to |-> spec.to, src |-> cat[spec.field],
                 dry |-> spec.dry, status |-> "Running", cutting |-> FALSE, driven |-> TRUE]
<1>1. /\ ShapeInv /\ IsTask(task[Op]) /\ live \in Handles /\ spec \in Starts
      /\ task[Op].pc = "start" /\ CanRead(Op)
      /\ UNCHANGED <<setup, cat, rows, mlock, stash, file>>
  BY DEF ReloadInv, Task, TaskInv, start
<1>2. CASE CanStart(spec)
  <2> DEFINE x == [task[Op] EXCEPT !.pc = "list", !.plan = Len(plans')]
             q == Len(plans')
  <2>1. /\ plans' = Append(plans, r) /\ task' = [task EXCEPT ![Op] = x] /\ epoch' = Read(Op)
        /\ live' = IF spec.dry THEN live ELSE [live EXCEPT !.hooks = @ \cup {q}]
    BY <1>2, Zenon DEF start
  <2>2. IsTask(x) /\ x.pc = "list" /\ x.plan = q
    BY <1>1 DEF IsTask
  <2>3. r \in PlanRecs /\ r.dry = spec.dry /\ r.status = "Running"
    BY <1>1 DEF PlanRecs, Starts, ShapeInv, Schemas, Statuses
  <2> HIDE DEF spec, r
  <2>4. /\ plans' \in Seq(PlanRecs) /\ q \in Plan' /\ Plan' = Plan \cup {q} /\ plans'[q] = r
        /\ \A p \in Plan : p /= q => plans'[p] = plans[p]
    BY <1>1, <2>1, <2>3 DEF ShapeInv, Plan
  <2>5. PlanRecs' = PlanRecs
    BY <1>1, SameTypes
  <2> HIDE DEF x, q
  <2> QED BY <1>1, <2>1, <2>2, <2>3, <2>4, <2>5, ArmsInv, Zenon
<1>3. CASE ~ CanStart(spec)
  <2>1. task' = [task EXCEPT ![Op] = Idle] /\ epoch' = Refused /\ UNCHANGED <<plans, live>>
    BY <1>3 DEF start
  <2> QED BY <1>1, <2>1, IdleIs, HandlerInv, Zenon
<1> QED BY <1>2, <1>3

\* An unsettled plan is driven and armed again, or the request is refused.
LEMMA ResumeInv ==
    ASSUME ReloadAssumption, ReloadInv, resume
    PROVE  ReloadInv'
<1> DEFINE p == task[Op].plan
<1>1. /\ ShapeInv /\ IsTask(task[Op]) /\ live \in Handles /\ p \in Plan
      /\ task[Op].pc = "resume" /\ CanRead(Op)
      /\ UNCHANGED <<setup, cat, rows, mlock, stash, file>>
  BY DEF ReloadInv, Task, TaskInv, resume
<1>2. CASE ~ Quiesces(p)
  <2> DEFINE x == [task[Op] EXCEPT !.pc = "list"]
  <2>1. task' = [task EXCEPT ![Op] = x] /\ epoch' = Read(Op) /\ UNCHANGED <<plans, live>>
    BY <1>2 DEF resume
  <2>2. IsTask(x) /\ x.pc = "list" /\ x.plan \in Plan
    BY <1>1 DEF IsTask
  <2> HIDE DEF x
  <2> QED BY <1>1, <2>1, <2>2, HandlerInv, Zenon
<1>3. CASE Quiesces(p) /\ (plans[p].dry \/ GuardResumeSchema(p))
  <2> DEFINE x == [task[Op] EXCEPT !.pc = "drive"]
             r == [plans[p] EXCEPT !.driven = TRUE, !.status = "Running"]
  <2>1. /\ plans' = [plans EXCEPT ![p] = r] /\ task' = [task EXCEPT ![Op] = x] /\ epoch' = Read(Op)
        /\ live' = IF plans[p].dry THEN live ELSE [live EXCEPT !.hooks = @ \cup {p}]
    BY <1>3, Zenon DEF resume
  <2>2. IsTask(x) /\ x.pc = "drive" /\ x.plan = p
    BY <1>1 DEF IsTask
  <2> HIDE DEF x, p
  <2>3. r \in PlanRecs /\ r.dry = plans[p].dry /\ r.status = "Running"
    <3>1. plans[p] \in PlanRecs
      BY <1>1, PlanFacts
    <3> QED BY <3>1, Zenon DEF PlanRecs, Statuses
  <2> HIDE DEF r
  <2>4. /\ plans' \in Seq(PlanRecs') /\ Plan' = Plan /\ plans'[p] = r
        /\ \A q \in Plan : q /= p => plans'[q] = plans[q]
    BY <1>1, <2>1, <2>3, PlanSet, Zenon
  <2> QED BY <1>1, <2>1, <2>2, <2>3, <2>4, ArmsInv, Zenon
<1>4. CASE Quiesces(p) /\ ~ (plans[p].dry \/ GuardResumeSchema(p))
  <2>1. task' = [task EXCEPT ![Op] = Idle] /\ epoch' = Refused /\ UNCHANGED <<plans, live>>
    BY <1>4 DEF resume
  <2> QED BY <1>1, <2>1, IdleIs, HandlerInv, Zenon
<1> QED BY <1>2, <1>3, <1>4

\* The verb that drove a plan returns, or looks at the plans.
LEMMA ListInv ==
    ASSUME ReloadAssumption, ReloadInv, ResumeReturns \/ ensure_reload_watcher
    PROVE  ReloadInv'
<1>1. /\ IsTask(task[Op]) /\ task[Op].pc /= "idle" /\ task[Op].plan \in Plan
      /\ UNCHANGED <<setup, cat, plans, rows, live, mlock, stash, file>>
  BY DEF ReloadInv, Task, TaskInv, ResumeReturns, ensure_reload_watcher
<1>2. CASE ensure_reload_watcher
  <2> DEFINE x == [task[Op] EXCEPT !.pc = "arm", !.status = plans[task[Op].plan].status]
  <2>1. task' = [task EXCEPT ![Op] = x] /\ epoch' = epoch
    BY <1>2, Zenon DEF ensure_reload_watcher
  <2>2. IsTask(x) /\ x.pc = "arm" /\ x.plan \in Plan
    BY <1>1 DEF IsTask
  <2> HIDE DEF x
  <2> QED BY <1>1, <2>1, <2>2, HandlerInv, Zenon
<1>3. CASE ResumeReturns
  <2> DEFINE x == [task[Op] EXCEPT !.pc = "list"]
  <2>1. \/ task' = [task EXCEPT ![Op] = Idle] /\ epoch' = ReleaseRead(Op)
        \/ task' = [task EXCEPT ![Op] = x] /\ epoch' = epoch
    BY <1>3 DEF ResumeReturns
  <2>2. IsTask(x) /\ x.pc = "list" /\ x.plan \in Plan
    BY <1>1 DEF IsTask
  <2> HIDE DEF x
  <2> QED BY <1>1, <2>1, <2>2, IdleIs, HandlerInv
<1> QED BY <1>2, <1>3

\* Whatever task m names, it is replaced by a good one.
LEMMA ArmStep ==
    ASSUME ReloadAssumption, ReloadInv, UNCHANGED <<setup, cat, plans, rows, live, mlock, file>>,
           task[Op].pc /= "idle", epoch' = ReleaseRead(Op), StashInv(stash'),
           NEW m, NEW x, IsTask(x), x.pc = "recheck",
           task' = [[task EXCEPT ![Op] = Idle] EXCEPT ![m] = x]
    PROVE  ReloadInv'
<1>1. ShapeInv /\ Op \in Task /\ live \in Handles
  BY DEF ReloadInv, Task, TaskInv
<1>2. Handles' = Handles /\ Starts' = Starts /\ Schemas' = Schemas /\ PlanRecs' = PlanRecs
      /\ Plan' = Plan /\ Field' = Field
  BY SameTypes DEF Plan, Field
<1>3. /\ task' = [t \in Task |-> task'[t]]
      /\ \A t \in Task \ {Op, m} : task'[t] = task[t]
      /\ \A t \in Task \cap {Op, m} : task'[t] = Idle \/ task'[t] = x
  BY <1>1, Zenon DEF ShapeInv
<1>4. /\ LockInv(epoch') /\ epoch'.writer = epoch.writer
      /\ epoch.readers \ {Op, m} \subseteq epoch'.readers
  BY <1>1 DEF ReleaseRead, ShapeInv, LockInv
<1>5. ShapeInv'
  BY <1>1, <1>2, <1>3, <1>4 DEF ShapeInv, StashInv, LockInv
<1>6. \A t \in Task \ {Op, m} : TaskSame(t)
  BY <1>3, Zenon DEF TaskSame, ReloadInv, TaskInv
<1>7. \A t \in Task \ {Op, m} : TaskInv(t, task[t], epoch)'
  BY <1>2, <1>4, <1>6, TasksKept, Zenon
<1>8. \A t \in Task \cap {Op, m} : TaskInv(t, task[t], epoch)'
  BY <1>1, <1>2, <1>3, IdleIs, Zenon DEF TaskInv, IsTask
<1>9. \A p \in Plan' : PlanInv(p)'
  BY <1>2 DEF ReloadInv, PlanInv
<1>10. HooksSurviveReload'
  BY <1>2 DEF ReloadInv, HooksSurviveReload, Quiesces
<1> QED BY <1>5, <1>7, <1>8, <1>9, <1>10, Zenon DEF ReloadInv

\* The schema a plan asks for.
LEMMA TargetIn ==
    ASSUME ShapeInv, NEW p, NEW schema \in Schemas, p \in Plan
    PROVE  Target(p, schema) \in Schemas
<1>1. plans[p] \in PlanRecs
  BY PlanFacts
<1> QED BY <1>1 DEF Target, Schemas, PlanRecs

\* A stash with one entry more or less.
LEMMA StashMore ==
    ASSUME StashInv(stash), NEW p, NEW schema \in Schemas
    PROVE  StashInv(Stashed(p, schema))
BY DEF StashInv, Stashed

\* Taking a plan's entry out of the stash leaves schemas in it.
LEMMA StashLess == ASSUME StashInv(stash), NEW p PROVE StashInv(Unstashed(p))
BY DEF StashInv, Unstashed, Restrict

\* The watcher is spawned, or there is nothing to watch for.
LEMMA ArmInv ==
    ASSUME ReloadAssumption, ReloadInv, arm_reload_watcher
    PROVE  ReloadInv'
<1> DEFINE p == task[Op].plan
<1>1. /\ task[Op].pc = "arm" /\ epoch' = ReleaseRead(Op) /\ live \in Handles /\ ShapeInv
      /\ UNCHANGED <<setup, cat, plans, rows, live, mlock, file>> /\ p \in Plan
  BY DEF ReloadInv, Task, TaskInv, arm_reload_watcher
<1>2. CASE NothingToWatch(p, task[Op].status, live.schema)
  <2>1. task' = [task EXCEPT ![Op] = Idle] /\ UNCHANGED stash
    BY <1>2 DEF arm_reload_watcher
  <2> QED BY <1>1, <2>1, IdleIs, HandlerInv, Zenon
<1>3. CASE ~ NothingToWatch(p, task[Op].status, live.schema)
  <2> DEFINE m == FreeWatcher
             x == Watching(p)
  <2>1. /\ stash' = Stashed(p, Target(p, live.schema))
        /\ task' = [[task EXCEPT ![Op] = Idle] EXCEPT ![m] = x]
    BY <1>3 DEF arm_reload_watcher
  <2>2. IsTask(x) /\ x.pc = "recheck"
    BY DEF Watching, Idle, IsTask
  <2> HIDE DEF x, m, p
  <2>3. Target(p, live.schema) \in Schemas
    BY <1>1, TargetIn DEF Handles
  <2>4. StashInv(stash')
    BY <1>1, <2>1, <2>3, StashMore DEF ShapeInv
  <2> QED BY <1>1, <2>1, <2>2, <2>4, ArmStep, Zenon
<1> QED BY <1>2, <1>3

\* A watcher looks at its plan or takes an event.
LEMMA WatchInv ==
    ASSUME ReloadAssumption, ReloadInv, NEW w \in Watcher, Watch(w)
    PROVE  ReloadInv'
<1> DEFINE p == task[w].plan
           y == [task[w] EXCEPT !.pc = "wait"]
           z == [task[w] EXCEPT !.pc = "reload", !.schema = stash[p]]
<1>1. /\ w \in Task /\ live \in Handles /\ ShapeInv /\ IsTask(task[w])
      /\ UNCHANGED <<setup, cat, plans, rows, live, mlock, file>>
  BY DEF ReloadInv, Task, TaskInv, Watch, Recheck, Receive
<1>2. \/ task' = [task EXCEPT ![w] = Idle] /\ stash' = Unstashed(p) /\ epoch' = epoch
      \/ task' = [task EXCEPT ![w] = y] /\ stash' = stash /\ epoch' = epoch
      \/ /\ p \in DOMAIN stash /\ task' = [task EXCEPT ![w] = z]
         /\ stash' = Unstashed(p) /\ epoch' = Enqueue(w)
  BY Zenon DEF Watch, Recheck, Receive, try_reload_from_stash
<1>3. IsTask(y) /\ y.pc = "wait" /\ IsTask(z) /\ z.pc = "reload" /\ z.schema = stash[p]
  BY <1>1 DEF IsTask
<1>4. StashInv(stash')
  BY <1>1, <1>2, StashLess DEF ShapeInv
<1>5. LockInv(epoch') /\ epoch'.readers = epoch.readers /\ epoch'.writer = epoch.writer
  BY <1>1, <1>2 DEF ShapeInv, LockInv, Enqueue
<1>6. rows' = [f \in Field |-> rows'[f]]
  BY <1>1 DEF ShapeInv
<1>7. p \in DOMAIN stash => stash[p] \in Schemas
  BY <1>1 DEF ShapeInv, StashInv
<1> HIDE DEF y, z, p
<1>8. TaskInv(w, y, epoch') /\ (p \in DOMAIN stash => TaskInv(w, z, epoch'))
  BY <1>1, <1>3, <1>7 DEF TaskInv
<1> QED BY <1>1, <1>2, <1>4, <1>5, <1>6, <1>8, IdleInv, TaskStep

\* A reload has the lock alone, no hook is armed, and the handle is built; or it
\* is refused.
LEMMA ReloadStepInv ==
    ASSUME ReloadAssumption, ReloadInv, NEW u \in Watcher \cup {Op}, do_reload(u)
    PROVE  ReloadInv'
<1> DEFINE x == [task[u] EXCEPT !.pc = "store", !.handle = [schema |-> task[u].schema, hooks |-> {}]]
<1>1. /\ u \in Task /\ live \in Handles /\ ShapeInv /\ IsTask(task[u]) /\ task[u].schema \in Schemas
      /\ epoch.writer = None /\ epoch.readers = {}
      /\ UNCHANGED <<setup, cat, plans, rows, live, mlock, file>>
  BY DEF ReloadInv, Task, TaskInv, do_reload, CanWrite, CanRead
<1>2. rows' = [f \in Field |-> rows'[f]]
  BY <1>1 DEF ShapeInv
<1>3. None \notin Task
  BY DEF ReloadAssumption
<1>4. CASE reload_handle(task[u].schema)
  <2>1. task' = [task EXCEPT ![u] = x] /\ epoch' = Wrote(u) /\ stash' = stash /\ live.hooks = {}
    BY <1>4, Zenon DEF do_reload, reload_handle
  <2>2. IsTask(x) /\ x.pc = "store" /\ x.handle \in Handles /\ x.handle.hooks = {}
    BY <1>1 DEF IsTask, Handles
  <2> HIDE DEF x
  <2>3. LockInv(epoch') /\ epoch'.readers = epoch.readers /\ epoch'.writer = u
    BY <1>1, <2>1 DEF ShapeInv, LockInv, Wrote
  <2>4. TaskInv(u, x, epoch') /\ StashInv(stash')
    BY <1>1, <2>1, <2>2, <2>3 DEF TaskInv, ShapeInv
  <2> QED BY <1>1, <1>2, <1>3, <2>1, <2>3, <2>4, TaskStep, Zenon
<1>5. CASE ~ reload_handle(task[u].schema)
  <2>1. task' = [task EXCEPT ![u] = Idle] /\ epoch' = Refused /\ Reloaded(u)
    BY <1>5 DEF do_reload
  <2>2. StashInv(stash')
    BY <1>1, <2>1, StashLess DEF ShapeInv, Reloaded
  <2>3. LockInv(epoch') /\ epoch'.readers = epoch.readers /\ epoch'.writer = epoch.writer
    BY <1>1, <2>1 DEF ShapeInv, LockInv, Refused
  <2> QED BY <1>1, <1>2, <2>1, <2>2, <2>3, IdleInv, TaskStep, Zenon
<1> QED BY <1>4, <1>5

\* The new handle is stored: nobody reads, and no hook is lost.
LEMMA StoreInv ==
    ASSUME ReloadAssumption, ReloadInv, NEW u \in Watcher \cup {Op}, Store(u)
    PROVE  ReloadInv'
<1>1. /\ u \in Task /\ live \in Handles /\ live.hooks = {} /\ ShapeInv
      /\ epoch.writer = u /\ task[u].handle \in Handles /\ task[u].handle.hooks = {}
      /\ live' = task[u].handle /\ task' = [task EXCEPT ![u] = Idle] /\ Reloaded(u)
      /\ epoch' = [epoch EXCEPT !.writer = None]
      /\ UNCHANGED <<setup, cat, plans, rows, mlock, file>>
  BY DEF ReloadInv, Task, TaskInv, Store
<1>2. Handles' = Handles /\ Starts' = Starts /\ Schemas' = Schemas /\ PlanRecs' = PlanRecs
      /\ Plan' = Plan /\ Field' = Field
  BY <1>1, SameTypes DEF Plan, Field
<1>3. epoch.readers = {} /\ LockInv(epoch') /\ epoch'.readers = {}
  BY <1>1 DEF ShapeInv, LockInv, ReloadAssumption
<1>4. StashInv(stash')
  BY <1>1, StashLess DEF ShapeInv, Reloaded
<1>5. /\ task' = [t \in Task |-> task'[t]] /\ task'[u] = Idle
      /\ \A t \in Task : t /= u => task'[t] = task[t]
  BY <1>1, TaskSet, Zenon
<1>6. ShapeInv'
  BY <1>1, <1>2, <1>3, <1>4, <1>5 DEF ShapeInv, StashInv, LockInv
<1>7. \A t \in Task \ {u} : TaskSame(t)
  BY <1>5 DEF TaskSame, ReloadInv, TaskInv
<1>8. \A t \in Task \ {u} : TaskInv(t, task[t], epoch)'
  BY <1>1, <1>2, <1>3, <1>7, TasksKept, Zenon
<1>9. TaskInv(u, task[u], epoch)'
  BY <1>5, IdleIs DEF TaskInv, IsTask
<1>10. \A p \in Plan' : PlanInv(p)'
  BY <1>1, <1>2 DEF ReloadInv, PlanInv
<1>11. HooksSurviveReload'
  <2>1. live /= None
    BY <1>1 DEF ReloadAssumption, ShapeInv, Handles, Schemas, Kinds
  <2> QED BY <1>1, <1>2, <2>1 DEF ReloadInv, HooksSurviveReload, Quiesces
<1> QED BY <1>6, <1>8, <1>9, <1>10, <1>11 DEF ReloadInv

\* A stop ends every task and driver.
LEMMA StopInv ==
    ASSUME ReloadAssumption, ReloadInv, Stop
    PROVE  ReloadInv'
<1> DEFINE F(p) == [plans[p] EXCEPT !.driven = FALSE]
<1>1. /\ ShapeInv /\ live' = None /\ epoch' = FreeLock /\ stash' = <<>>
      /\ task' = [t \in Task |-> Idle] /\ plans' = [p \in Plan |-> F(p)]
      /\ UNCHANGED <<setup, cat, rows, file>>
  BY DEF ReloadInv, Stop
<1>2. \A p \in Plan : F(p) \in PlanRecs /\ ~ F(p).driven
  BY <1>1, PlanFacts, Zenon DEF PlanRecs
<1> HIDE DEF F
<1>3. plans' \in Seq(PlanRecs') /\ Plan' = Plan /\ \A p \in Plan : plans'[p] = F(p)
  <2>1. plans' = [p \in Plan |-> plans'[p]] /\ \A p \in Plan : plans'[p] = F(p)
    BY <1>1
  <2> QED BY <1>1, <1>2, <2>1, PlanMap
<1>4. Handles' = Handles /\ Schemas' = Schemas /\ PlanRecs' = PlanRecs /\ Field' = Field
  BY <1>1, SameTypes DEF Field
<1>5. LockInv(epoch') /\ StashInv(stash')
  BY <1>1 DEF FreeLock, LockInv, StashInv
<1>6. ShapeInv'
  BY <1>1, <1>3, <1>4, <1>5 DEF ShapeInv, LockInv, StashInv
<1>7. \A t \in Task : TaskInv(t, task[t], epoch)'
  BY <1>1, IdleIs DEF TaskInv, IsTask
<1>8. \A p \in Plan' : PlanInv(p)'
  BY <1>2, <1>3 DEF PlanInv
<1>9. HooksSurviveReload'
  BY <1>1 DEF HooksSurviveReload
<1> QED BY <1>6, <1>7, <1>8, <1>9 DEF ReloadInv

\* An interrupted cutover has one outcome: what the schema file says.
LEMMA FinishedIs ==
    ASSUME ShapeInv, CanOpen, NEW f \in Field
    PROVE  /\ Finished(f) \subseteq {file[f]} /\ Finished(f) \subseteq Kinds
BY PlanFacts DEF Finished, CanOpen, Interrupted, PlanRecs

\* The start finishes interrupted cutovers, arms the hooks of the plans that are
\* unsettled and watches them.
LEMMA RunInv ==
    ASSUME ReloadAssumption, ReloadInv, run
    PROVE  ReloadInv'
<1>1. /\ ShapeInv /\ live = None /\ CanOpen
      /\ plans' = [p \in Plan |-> Opened(p)]
      /\ cat' = [f \in Field |-> IF Finished(f) = {} THEN cat[f] ELSE CHOOSE k \in Finished(f) : TRUE]
      /\ rows' = [f \in Field |-> IF Finished(f) = {} THEN rows[f] ELSE Finished(f)]
      /\ live' = [schema |-> file, hooks |-> {p \in Plan : Quiesces(p) /\ ~plans[p].dry} \ Interrupted]
      /\ stash' = [p \in ToWatch |-> Target(p, file)]
      /\ task' = [t \in Task |-> IF t \in ToWatch THEN Watching(t) ELSE Idle]
      /\ UNCHANGED <<setup, mlock, epoch, file>>
  BY DEF ReloadInv, run
<1>2. Handles' = Handles /\ Schemas' = Schemas /\ PlanRecs' = PlanRecs
  BY <1>1, SameTypes
<1>3. ASSUME NEW p \in Plan
      PROVE  /\ Opened(p) \in PlanRecs
             /\ Opened(p).dry = plans[p].dry
             /\ Opened(p).status \in {"Running", "Failed"} => Quiesces(p) /\ p \notin Interrupted
             /\ Opened(p).driven => Opened(p).status = "Running"
  <2>1. plans[p] \in PlanRecs
    BY <1>1, PlanFacts
  <2>2. ~ plans[p].driven
    BY <1>1, <2>1 DEF ReloadInv, PlanInv, ReloadAssumption, ShapeInv, Handles, Schemas, Kinds
  <2>3. CASE p \in Interrupted
    BY <2>1, <2>2, <2>3 DEF Opened, PlanRecs, Statuses
  <2>4. CASE p \notin Interrupted
    BY <2>1, <2>4, Zenon DEF Opened, PlanRecs, Quiesces
  <2> QED BY <2>3, <2>4
<1>4. plans' \in Seq(PlanRecs') /\ Plan' = Plan /\ \A p \in Plan : plans'[p] = Opened(p)
  <2>1. plans' = [p \in Plan |-> plans'[p]] /\ \A p \in Plan : plans'[p] = Opened(p)
    BY <1>1
  <2> QED BY <1>1, <1>3, <2>1, PlanMap
<1>5. cat' \in Schemas /\ Field' = Field
  <2>1. \A f \in Field : Finished(f) /= {} => (CHOOSE k \in Finished(f) : TRUE) \in Finished(f)
    OBVIOUS
  <2>2. \A f \in Field : Finished(f) \subseteq Kinds
    BY <1>1, FinishedIs
  <2>3. cat' \in [Field -> Kinds]
    BY <1>1, <2>1, <2>2 DEF ShapeInv, Schemas, Field
  <2> QED BY <1>1, <2>3 DEF ShapeInv, Schemas, Field
<1>6. live' \in Handles
  BY <1>1, PlanFacts DEF ShapeInv, Handles
<1>7. StashInv(stash')
  <2>1. \A p \in ToWatch : Target(p, file) \in Schemas
    BY <1>1, TargetIn DEF ToWatch, ShapeInv
  <2> QED BY <1>1, <2>1 DEF StashInv
<1>8. ShapeInv'
  BY <1>1, <1>2, <1>4, <1>5, <1>6, <1>7 DEF ShapeInv, StashInv, LockInv
<1>9. \A t \in Task : TaskInv(t, task[t], epoch)'
  <2>1. \A t : IsTask(Watching(t)) /\ Watching(t).pc = "recheck"
    BY DEF Watching, Idle, IsTask
  <2>2. \A t \in Task : task'[t] = Watching(t) \/ task'[t] = Idle
    BY <1>1
  <2> QED BY <1>2, <1>6, <2>1, <2>2, IdleIs DEF TaskInv, IsTask
<1>10. \A p \in Plan' : PlanInv(p)'
  BY <1>2, <1>3, <1>4, <1>6 DEF PlanInv
<1>11. HooksSurviveReload'
  <2>1. \A p \in Plan : Quiesces(p) /\ ~ plans[p].dry /\ p \notin Interrupted => p \in live'.hooks
    BY <1>1
  <2> QED BY <1>3, <1>4, <2>1 DEF HooksSurviveReload, Quiesces
<1> QED BY <1>8, <1>9, <1>10, <1>11 DEF ReloadInv

\* The operator edits the schema file.
LEMMA FileInv ==
    ASSUME ReloadAssumption, ReloadInv, EditFile \/ RepairFile
    PROVE  ReloadInv'
<1>1. ShapeInv /\ UNCHANGED <<setup, cat, plans, rows, live, mlock, epoch, stash, task>>
  BY DEF ReloadInv, EditFile, RepairFile
<1>2. Handles' = Handles /\ Starts' = Starts /\ Schemas' = Schemas /\ PlanRecs' = PlanRecs
      /\ Plan' = Plan /\ Field' = Field
  BY <1>1, SameTypes DEF Plan, Field
<1>3. file' \in Schemas
  <2>1. CASE EditFile
    BY <1>1, <2>1, Zenon DEF EditFile, ShapeInv, Schemas, Kinds
  <2>2. CASE RepairFile
    <3> DEFINE K(f) == Finished(f) \cup {cat[f]}
               C(f) == CHOOSE k \in K(f) : Finished(f) = {} \/ k \in Finished(f)
    <3>1. \A f \in Field : K(f) \subseteq Kinds
      BY <1>1, PlanFacts DEF Finished, Interrupted, PlanRecs, ShapeInv, Schemas, Field
    <3>2. \A f \in Field : \E k \in K(f) : Finished(f) = {} \/ k \in Finished(f)
      OBVIOUS
    <3>3. \A f \in Field : C(f) \in K(f)
      BY <3>2
    <3>4. file' = [f \in Field |-> C(f)]
      BY <2>2 DEF RepairFile
    <3> HIDE DEF C, K
    <3>5. file' \in [Field -> Kinds]
      BY <3>1, <3>3, <3>4
    <3> QED BY <1>1, <3>5 DEF ShapeInv, Schemas, Field
  <2> QED BY <2>1, <2>2
<1>4. ShapeInv'
  BY <1>1, <1>2, <1>3 DEF ShapeInv, StashInv, LockInv
<1>5. \A t \in Task : TaskInv(t, task[t], epoch)'
  BY <1>1, <1>2 DEF ReloadInv, TaskInv, IsTask
<1>6. (\A p \in Plan : PlanInv(p))' /\ HooksSurviveReload'
  BY <1>1, <1>2 DEF ReloadInv, PlanInv, HooksSurviveReload, Quiesces
<1> QED BY <1>4, <1>5, <1>6 DEF ReloadInv

-----------------------------------------------------------------------------
(* The theorems.                                                           *)

\* A server that was started has the invariant.
LEMMA InitInv == ASSUME ReloadAssumption, Init PROVE ReloadInv
<1>1. /\ setup \in Setups /\ cat = setup.schema /\ file = setup.schema /\ plans = <<>>
      /\ rows = [f \in DOMAIN setup.schema |-> {setup.schema[f]}]
      /\ live = [schema |-> setup.schema, hooks |-> {}] /\ epoch = FreeLock /\ stash = <<>>
      /\ task = [t \in Task |-> Idle]
  BY DEF Init
<1>2. setup.schema \in Schemas
  BY <1>1 DEF ReloadAssumption, Schemas, Kinds
<1>3. live \in Handles
  BY <1>1, <1>2 DEF Handles
<1>4. LockInv(epoch) /\ StashInv(stash)
  BY <1>1 DEF FreeLock, LockInv, StashInv
<1>5. ShapeInv
  BY <1>1, <1>2, <1>3, <1>4 DEF ShapeInv, Field
<1>6. \A t \in Task : TaskInv(t, task[t], epoch)
  BY <1>1, <1>3, IdleIs DEF TaskInv
<1>7. Plan = {}
  BY <1>1 DEF Plan
<1> QED BY <1>5, <1>6, <1>7 DEF ReloadInv, HooksSurviveReload

\* Every step keeps it.
LEMMA NextInv == ASSUME ReloadAssumption, ReloadInv, [Next]_vars PROVE ReloadInv'
<1>1. CASE UNCHANGED vars
  <2>1. UNCHANGED <<setup, cat, plans, rows, live, mlock, epoch, stash, task, file>>
    BY <1>1 DEF vars
  <2>2. Handles' = Handles /\ Starts' = Starts /\ Schemas' = Schemas /\ PlanRecs' = PlanRecs
        /\ Plan' = Plan /\ Field' = Field
    BY <2>1, SameTypes DEF Plan, Field
  <2>3. ShapeInv'
    BY <2>1, <2>2 DEF ReloadInv, ShapeInv, StashInv, LockInv
  <2>4. \A t \in Task : TaskInv(t, task[t], epoch)'
    BY <2>1, <2>2 DEF ReloadInv, TaskInv, IsTask
  <2>5. (\A p \in Plan : PlanInv(p))' /\ HooksSurviveReload'
    BY <2>1, <2>2 DEF ReloadInv, PlanInv, HooksSurviveReload, Quiesces
  <2> QED BY <2>3, <2>4, <2>5 DEF ReloadInv
<1>2. CASE \E c \in Client : run_query(c) \/ Serve(c)
  BY <1>2, QueryInv, ExecuteInv, AnswerInv DEF Serve
<1>3. CASE \E p \in Plan : Driver(p)
  BY <1>3, BeginCutoverInv, FinalizeInv, EndsInv DEF Driver
<1>4. CASE Handler
  BY <1>4, StartInv, ResumeInv, ListInv, ArmInv DEF Handler
<1>5. CASE \E w \in Watcher : Watch(w)
  BY <1>5, WatchInv
<1>6. CASE \E t \in Watcher \cup {Op} : Swap(t)
  BY <1>6, ReloadStepInv, StoreInv DEF Swap
<1>7. CASE Startup
  BY <1>7, RunInv, FileInv DEF Startup
<1>8. CASE Operator
  BY <1>8, RequestsInv, FileInv, StopInv, EndsInv, BeginCutoverInv DEF Operator
<1> QED BY <1>1, <1>2, <1>3, <1>4, <1>5, <1>6, <1>7, <1>8 DEF Next

\* The invariant holds of every behaviour.
LEMMA ReloadInvHolds == ASSUME ReloadAssumption PROVE Spec => []ReloadInv
<1>1. Init => ReloadInv
  BY InitInv
<1>2. ReloadInv /\ [Next]_vars => ReloadInv'
  BY NextInv
<1> QED BY <1>1, <1>2, PTL DEF Spec

\* A reload never drops the double-write hook of a plan that is not settled
\* (reload_handle, resume_inflight), for any clients, watchers and migrations.
THEOREM HooksAlwaysSurvive ==
    ASSUME ReloadAssumption PROVE Spec => []HooksSurviveReload
<1>1. ReloadInv => HooksSurviveReload
  BY DEF ReloadInv
<1> QED BY <1>1, ReloadInvHolds, PTL

\* A step writes a kind only if the catalog then has it or the live handle
\* declares it.
LEMMA StepWritesCurrent == ASSUME ReloadAssumption, ReloadInv, [Next]_vars PROVE WritesCurrent \/ rows' = rows
<1>1. SUFFICES ASSUME Next, rows' /= rows PROVE WritesCurrent
  BY DEF vars
<1>2. ShapeInv
  BY DEF ReloadInv
<1>3. \/ \E c \in Client : Answer(c)
      \/ \E p \in Plan : finalize_migration_cutover(p)
      \/ run
  BY <1>1, Zenon DEF Next, Serve, run_query, execute_parsed, Driver, BeginCutover, Settle, DryRunDone, Handler,
              start, resume, ResumeReturns, ensure_reload_watcher, arm_reload_watcher, Watch, Recheck, Receive,
              Swap, do_reload, Store, Startup, RepairFile, Operator, RequestStart, RequestResume, reload, Request,
              EditFile, Stop, Fail, pause_migration, cancel_migration, cutover_migration
<1>4. ASSUME NEW c \in Client, Answer(c) PROVE WritesCurrent
  <2>1. PICK fs \in {{}} \cup {{f} : f \in Field} :
          rows' = [f \in Field |-> rows[f] \cup {task[c].handle.schema[g] : g \in fs \cap {f}}]
    BY <1>4 DEF Answer
  <2>2. task[c].handle.schema = live.schema
    BY <1>4 DEF Answer, ReloadInv, TaskInv, Task
  <2> QED BY <2>1, <2>2 DEF WritesCurrent
<1>5. ASSUME NEW p \in Plan, finalize_migration_cutover(p) PROVE WritesCurrent
  <2>1. /\ cat' = [cat EXCEPT ![plans[p].field] = plans[p].to]
        /\ rows' = [rows EXCEPT ![plans[p].field] = {plans[p].to}]
    BY <1>5 DEF finalize_migration_cutover
  <2> QED BY <1>2, <2>1 DEF WritesCurrent, ShapeInv, Field
<1>6. ASSUME run PROVE WritesCurrent
  <2>1. \A f \in Field : Finished(f) \subseteq {file[f]}
    BY <1>2, <1>6, FinishedIs DEF run
  <2>2. \A f \in Field : \A k \in Finished(f) : cat'[f] = k
    BY <1>6, <2>1 DEF run
  <2>3. \A f \in Field : rows'[f] = rows[f] \/ rows'[f] = Finished(f)
    BY <1>6 DEF run
  <2> QED BY <2>2, <2>3 DEF WritesCurrent
<1> QED BY <1>3, <1>4, <1>5, <1>6

\* No query straddles a swap: none writes a kind the catalog has left behind once
\* the live handle declares the new one (run_query and do_reload under
\* reload_lock), for any clients, watchers and migrations.
THEOREM NeverStraddles ==
    ASSUME ReloadAssumption PROVE Spec => NoStraddle
<1>1. ReloadInv /\ [Next]_vars => [WritesCurrent]_vars
  <2>1. rows' = rows => WritesCurrent
    BY DEF WritesCurrent
  <2> QED BY <2>1, StepWritesCurrent
<1> QED BY <1>1, ReloadInvHolds, PTL DEF Spec, NoStraddle
==============================================================================
