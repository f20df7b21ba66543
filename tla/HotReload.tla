------------------------------ MODULE HotReload ------------------------------
(***************************************************************************)
(* The server's live handle and how it is swapped (crates/rhypedb-server:  *)
(* lib.rs, admin.rs, converters.rs).  A handle holds the schema it was     *)
(* built for and the armed double-write hooks; the catalog's kinds change  *)
(* under it when a field-type migration cuts over.  Queries and the verbs  *)
(* that arm a hook hold reload_lock.read, a reload holds reload_lock.write *)
(* and the engine's migration_lock.  A watcher per plan reloads the handle *)
(* when the plan completes.                                                *)
(*                                                                         *)
(* Every field is of a type of its own.  A plan is the subject of          *)
(* Migration: here it runs until it is cut over, fails, is paused or       *)
(* cancelled, and rows[f] is the set of kinds the rows hold in field f.    *)
(***************************************************************************)
EXTENDS Integers, Sequences, Functions

CONSTANTS
    Setups,     \* first schema, permitted calls and bounds
    Client,     \* connections that run queries
    Op,         \* the operator's request
    Watcher,    \* slots for reload watchers, numbers
    None

VARIABLES
    setup,
    cat,        \* the catalog's kind of each field
    plans,      \* c:P: records, in order of their ids
    rows,       \* kinds found in the rows, per field
    live,       \* AppState.db: [schema, hooks]; None while the server is down
    mlock,      \* the plan whose terminal pass holds migration_lock, 0 if none
    epoch,      \* reload_lock: [readers, writer, queue]
    stash,      \* pending_reload_schemas
    task,       \* clients, the operator's request and the watchers
    file,       \* the schema file a start reads
    left,       \* what remains of the setup's bounds
    odd         \* history: fields of plans that overlapped

vars == <<setup, cat, plans, rows, live, mlock, epoch, stash, task, file, left, odd>>

Task == Client \cup {Op} \cup Watcher

\* None is no task and no handle; a first schema is made of kinds.
ReloadAssumption ==
    /\ None \notin Task
    /\ \A x \in Setups :
          /\ x.schema \in [DOMAIN x.schema -> x.kinds] /\ x.dry \subseteq BOOLEAN
          /\ None \notin [schema : [DOMAIN x.schema -> x.kinds], hooks : SUBSET Nat]

Field == DOMAIN cat
Plan == DOMAIN plans

\* A task: what it does next, the plan, migration or schema it was asked for,
\* the status it read, the handle it uses or built, the events it was sent.
Idle == [pc |-> "idle", plan |-> 0, spec |-> None, schema |-> None, status |-> "",
         handle |-> None, events |-> <<>>]
FreeLock == [readers |-> {}, writer |-> None, queue |-> <<>>]

Quiesces(p) == plans[p].status \in {"Running", "Failed"}

-----------------------------------------------------------------------------
(* reload_lock: first come, first served.                                  *)

Enqueue(t) == [epoch EXCEPT !.queue = Append(@, t)]

\* t is at the head of the queue and nobody writes.
CanRead(t) ==
    /\ epoch.queue /= <<>> /\ Head(epoch.queue) = t
    /\ epoch.writer = None

\* Mutant: a reload does not wait for the operations in flight.
CanWriteUndrained(t) == CanRead(t)

CanWrite(t) == CanRead(t) /\ epoch.readers = {}

Read(t) == [epoch EXCEPT !.queue = Tail(@), !.readers = @ \cup {t}]
Wrote(t) == [epoch EXCEPT !.queue = Tail(@), !.writer = t]
Refused == [epoch EXCEPT !.queue = Tail(@)]
ReleaseRead(t) == [epoch EXCEPT !.readers = @ \ {t}]

-----------------------------------------------------------------------------
(* Queries.                                                                *)

run_query(c) ==
    /\ task[c].pc = "idle" /\ live /= None /\ left.queries > 0
    /\ task' = [task EXCEPT ![c].pc = "read"]
    /\ epoch' = Enqueue(c)
    /\ left' = [left EXCEPT !.queries = @ - 1]
    /\ UNCHANGED <<setup, cat, plans, rows, live, mlock, stash, file, odd>>

\* The handle is loaded once, under the lock.
execute_parsed(c) ==
    /\ task[c].pc = "read" /\ CanRead(c)
    /\ epoch' = Read(c)
    /\ task' = [task EXCEPT ![c].pc = "run", ![c].handle = live]
    /\ UNCHANGED <<setup, cat, plans, rows, live, mlock, stash, file, left, odd>>

\* It writes a field, or none: the value is of the kind its handle declares.
Answer(c) ==
    /\ task[c].pc = "run" /\ mlock = 0
    /\ \E fs \in {{}} \cup {{f} : f \in Field} :
        rows' = [f \in Field |-> rows[f] \cup {task[c].handle.schema[g] : g \in fs \cap {f}}]
    /\ epoch' = ReleaseRead(c)
    /\ task' = [task EXCEPT ![c] = Idle]
    /\ UNCHANGED <<setup, cat, plans, live, mlock, stash, file, left, odd>>

-----------------------------------------------------------------------------
(* Plans.                                                                  *)

Published(tasks, p, event) ==
    [t \in Task |->
        IF t \in Watcher /\ tasks[t].pc /= "idle" /\ tasks[t].plan = p
        THEN [tasks[t] EXCEPT !.events = Append(@, event)]
        ELSE tasks[t]]

Disarmed(p) == IF live = None THEN None ELSE [live EXCEPT !.hooks = @ \ {p}]

\* The terminal pass: its phase is durable before the first row changes.
BeginCutover(p) ==
    /\ plans[p].driven /\ ~plans[p].dry /\ mlock = 0
    /\ plans' = [plans EXCEPT ![p].cutting = TRUE]
    /\ mlock' = p
    /\ UNCHANGED <<setup, cat, rows, live, epoch, stash, task, file, left, odd>>

\* The rows are promoted and the catalog's kind and the status commit together.
finalize_migration_cutover(p) ==
    /\ mlock = p /\ plans[p].status /= "Completed"
    /\ cat' = [cat EXCEPT ![plans[p].field] = plans[p].to]
    /\ rows' = [rows EXCEPT ![plans[p].field] = {plans[p].to}]
    /\ plans' = [plans EXCEPT ![p].status = "Completed"]
    /\ UNCHANGED <<setup, live, mlock, epoch, stash, task, file, left, odd>>

\* disarm_field_hook, then the event, then migration_lock is released.
Settle(p) ==
    /\ mlock = p /\ plans[p].status = "Completed"
    /\ live' = Disarmed(p)
    /\ task' = Published(task, p, "Completed")
    /\ plans' = [plans EXCEPT ![p].driven = FALSE]
    /\ mlock' = 0
    /\ UNCHANGED <<setup, cat, rows, epoch, stash, file, left, odd>>

DryRunDone(p) ==
    /\ plans[p].driven /\ plans[p].dry
    /\ plans' = [plans EXCEPT ![p].status = "DryRunCompleted", ![p].driven = FALSE]
    /\ task' = Published(task, p, "DryRunCompleted")
    /\ UNCHANGED <<setup, cat, rows, live, mlock, epoch, stash, file, left, odd>>

\* The hook of a plan that failed stays armed.
Fail(p) ==
    /\ plans[p].driven /\ mlock /= p /\ left.fails > 0
    /\ plans' = [plans EXCEPT ![p].status = "Failed", ![p].driven = FALSE]
    /\ task' = Published(task, p, "Failed")
    /\ left' = [left EXCEPT !.fails = @ - 1]
    /\ UNCHANGED <<setup, cat, rows, live, mlock, epoch, stash, file, odd>>

pause_migration(p) ==
    /\ plans[p].driven /\ mlock /= p /\ left.pauses > 0
    /\ plans' = [plans EXCEPT ![p].driven = FALSE]
    /\ left' = [left EXCEPT !.pauses = @ - 1]
    /\ UNCHANGED <<setup, cat, rows, live, mlock, epoch, stash, task, file, odd>>

\* The rollback too ends with the hook disarmed, then the event.
cancel_migration(p) ==
    /\ live /= None /\ mlock = 0 /\ left.cancels > 0
    /\ Quiesces(p) /\ ~plans[p].cutting
    /\ plans' = [plans EXCEPT ![p].status = "Cancelled", ![p].driven = FALSE]
    /\ live' = Disarmed(p)
    /\ task' = Published(task, p, "Cancelled")
    /\ left' = [left EXCEPT !.cancels = @ - 1]
    /\ UNCHANGED <<setup, cat, rows, mlock, epoch, stash, file, odd>>

\* guard_resume_schema: the handle must declare the target.
GuardResumeSchema(p) == live.schema[plans[p].field] = plans[p].to

cutover_migration(p) ==
    /\ live /= None /\ mlock = 0 /\ left.cutovers > 0
    /\ Quiesces(p) /\ ~plans[p].dry /\ ~plans[p].driven
    /\ GuardResumeSchema(p)
    /\ plans' = [plans EXCEPT ![p].cutting = TRUE]
    /\ mlock' = p
    /\ left' = [left EXCEPT !.cutovers = @ - 1]
    /\ UNCHANGED <<setup, cat, rows, live, epoch, stash, task, file, odd>>

-----------------------------------------------------------------------------
(* The verbs that arm a hook hold reload_lock.read until they answer.      *)

Request(t) ==
    /\ task[Op].pc = "idle" /\ live /= None
    /\ task' = [task EXCEPT ![Op] = t]
    /\ epoch' = Enqueue(Op)
    /\ UNCHANGED <<setup, cat, plans, rows, live, mlock, stash, file, odd>>

RequestStart ==
    /\ left.starts > 0
    /\ \E f \in Field, k \in setup.kinds, dry \in setup.dry :
        Request([Idle EXCEPT !.pc = "start", !.spec = [field |-> f, to |-> k, dry |-> dry]])
    /\ left' = [left EXCEPT !.starts = @ - 1]

RequestResume ==
    /\ left.resumes > 0
    /\ \E p \in Plan : Request([Idle EXCEPT !.pc = "resume", !.plan = p])
    /\ left' = [left EXCEPT !.resumes = @ - 1]

\* POST /admin/reload, with any schema.
reload ==
    /\ left.reloads > 0
    /\ \E schema \in [Field -> setup.kinds] :
        Request([Idle EXCEPT !.pc = "reload", !.schema = schema])
    /\ left' = [left EXCEPT !.reloads = @ - 1]

\* create_migration_plan's refusals: a plan of the type is unsettled, or the
\* catalog has the target already.
CanStart(spec) ==
    /\ \A p \in Plan : plans[p].field = spec.field => ~Quiesces(p)
    /\ cat[spec.field] /= spec.to

\* Migrations that are under way or that no reload has followed yet.
Unserved ==
    {plans[p].field : p \in {q \in Plan :
        /\ ~plans[q].dry
        /\ Quiesces(q) \/ live.schema[plans[q].field] /= cat[plans[q].field]}}

\* The plan and its hook are made under migration_lock, and a driver runs it.
start ==
    /\ task[Op].pc = "start" /\ CanRead(Op) /\ mlock = 0
    /\ LET spec == task[Op].spec IN
        IF CanStart(spec)
        THEN /\ plans' = Append(plans, [field |-> spec.field, to |-> spec.to, src |-> cat[spec.field],
                                        dry |-> spec.dry, status |-> "Running", cutting |-> FALSE, driven |-> TRUE])
             /\ live' = IF spec.dry THEN live ELSE [live EXCEPT !.hooks = @ \cup {Len(plans')}]
             /\ odd' = IF spec.dry \/ Unserved = {} THEN odd ELSE odd \cup Unserved \cup {spec.field}
             /\ task' = [task EXCEPT ![Op].pc = "list", ![Op].plan = Len(plans')]
             /\ epoch' = Read(Op)
        ELSE /\ task' = [task EXCEPT ![Op] = Idle]
             /\ epoch' = Refused
             /\ UNCHANGED <<plans, live, odd>>
    /\ UNCHANGED <<setup, cat, rows, mlock, stash, file, left>>

\* A plan that is settled is left alone; an unsettled one is driven by this
\* request, if the handle declares its target.
resume ==
    /\ task[Op].pc = "resume" /\ CanRead(Op) /\ mlock = 0
    /\ LET p == task[Op].plan IN
        CASE ~Quiesces(p) ->
                /\ task' = [task EXCEPT ![Op].pc = "list"]
                /\ epoch' = Read(Op)
                /\ UNCHANGED <<plans, live>>
          [] Quiesces(p) /\ (plans[p].dry \/ GuardResumeSchema(p)) ->
                /\ plans' = [plans EXCEPT ![p].driven = TRUE, ![p].status = "Running"]
                /\ live' = IF plans[p].dry THEN live ELSE [live EXCEPT !.hooks = @ \cup {p}]
                /\ task' = [task EXCEPT ![Op].pc = "drive"]
                /\ epoch' = Read(Op)
          [] OTHER ->
                /\ task' = [task EXCEPT ![Op] = Idle]
                /\ epoch' = Refused
                /\ UNCHANGED <<plans, live>>
    /\ UNCHANGED <<setup, cat, rows, mlock, stash, file, left, odd>>

\* resume_field_type_migration returns when the plan stops.
ResumeReturns ==
    /\ task[Op].pc = "drive" /\ ~plans[task[Op].plan].driven
    /\ IF Quiesces(task[Op].plan)
       THEN task' = [task EXCEPT ![Op] = Idle] /\ epoch' = ReleaseRead(Op)
       ELSE task' = [task EXCEPT ![Op].pc = "list"] /\ UNCHANGED epoch
    /\ UNCHANGED <<setup, cat, plans, rows, live, mlock, stash, file, left, odd>>

\* list_migrations
ensure_reload_watcher ==
    /\ task[Op].pc = "list"
    /\ task' = [task EXCEPT ![Op].pc = "arm", ![Op].status = plans[task[Op].plan].status]
    /\ UNCHANGED <<setup, cat, plans, rows, live, mlock, epoch, stash, file, left, odd>>

\* arm_reload_watcher has nothing to watch for.
NothingToWatch(p, status, schema) ==
    \/ plans[p].dry
    \/ status \in {"Cancelled", "DryRunCompleted"}
    \/ schema[plans[p].field] = plans[p].to

Target(p, schema) == [schema EXCEPT ![plans[p].field] = plans[p].to]

\* A watcher is subscribed before it looks at the plan.
Watching(p) == [Idle EXCEPT !.pc = "recheck", !.plan = p]

Stashed(p, schema) == [q \in DOMAIN stash \cup {p} |-> IF q = p THEN schema ELSE stash[q]]

FreeWatchers == {w \in Watcher : task[w].pc = "idle"}

FreeWatcher == CHOOSE w \in FreeWatchers : \A x \in FreeWatchers : w <= x

arm_reload_watcher ==
    /\ task[Op].pc = "arm"
    /\ LET p == task[Op].plan IN
        IF NothingToWatch(p, task[Op].status, live.schema)
        THEN task' = [task EXCEPT ![Op] = Idle] /\ UNCHANGED stash
        ELSE /\ FreeWatchers /= {}
             /\ stash' = Stashed(p, Target(p, live.schema))
             /\ task' = [task EXCEPT ![Op] = Idle, ![FreeWatcher] = Watching(p)]
    /\ epoch' = ReleaseRead(Op)
    /\ UNCHANGED <<setup, cat, plans, rows, live, mlock, file, left, odd>>

-----------------------------------------------------------------------------
(* The watchers.                                                           *)

Unstashed(p) == Restrict(stash, DOMAIN stash \ {p})

\* try_reload_from_stash: the stash is taken, so one reload is made of it.
try_reload_from_stash(w) ==
    LET p == task[w].plan IN
    /\ stash' = Unstashed(p)
    /\ IF p \in DOMAIN stash
       THEN /\ task' = [task EXCEPT ![w].pc = "reload", ![w].schema = stash[p]]
            /\ epoch' = Enqueue(w)
       ELSE task' = [task EXCEPT ![w] = Idle] /\ UNCHANGED epoch

\* The hub does not replay: after subscribing, the status is read again.
Recheck(w) ==
    /\ task[w].pc = "recheck"
    /\ IF plans[task[w].plan].status = "Completed"
       THEN try_reload_from_stash(w)
       ELSE task' = [task EXCEPT ![w].pc = "wait"] /\ UNCHANGED <<epoch, stash>>
    /\ UNCHANGED <<setup, cat, plans, rows, live, mlock, file, left, odd>>

\* Every event modelled is terminal.
Receive(w) ==
    /\ task[w].pc = "wait" /\ task[w].events /= <<>>
    /\ IF Head(task[w].events) = "Completed"
       THEN try_reload_from_stash(w)
       ELSE /\ stash' = Unstashed(task[w].plan)
            /\ task' = [task EXCEPT ![w] = Idle]
            /\ UNCHANGED epoch
    /\ UNCHANGED <<setup, cat, plans, rows, live, mlock, file, left, odd>>

-----------------------------------------------------------------------------
(* The swap.                                                               *)

\* PASS 2 of the catalog's reconciliation: a kind may differ only where an
\* unsettled plan makes exactly that change.
Reconciles(schema) ==
    \A f \in Field : schema[f] /= cat[f] =>
        \E p \in Plan : /\ Quiesces(p) /\ plans[p].field = f
                        /\ plans[p].src = cat[f] /\ plans[p].to = schema[f]

\* Mutant: a reload does not look at the armed hooks.
reload_handleUnguarded(schema) == Reconciles(schema)

\* reload_handle's refusals.
reload_handle(schema) == live.hooks = {} /\ Reconciles(schema)

\* What a watcher does after its reload.
Reloaded(t) == IF t \in Watcher THEN stash' = Unstashed(task[t].plan) ELSE UNCHANGED stash

MigrationLockFree == mlock = 0

do_reload(t) ==
    /\ task[t].pc = "reload" /\ CanWrite(t) /\ MigrationLockFree
    /\ IF reload_handle(task[t].schema)
       THEN /\ task' = [task EXCEPT ![t].pc = "store", ![t].handle = [schema |-> task[t].schema, hooks |-> {}]]
            /\ epoch' = Wrote(t)
            /\ UNCHANGED stash
       ELSE /\ task' = [task EXCEPT ![t] = Idle]
            /\ epoch' = Refused
            /\ Reloaded(t)
    /\ UNCHANGED <<setup, cat, plans, rows, live, mlock, file, left, odd>>

Store(t) ==
    /\ task[t].pc = "store"
    /\ live' = task[t].handle
    /\ epoch' = [epoch EXCEPT !.writer = None]
    /\ task' = [task EXCEPT ![t] = Idle]
    /\ Reloaded(t)
    /\ UNCHANGED <<setup, cat, plans, rows, mlock, file, left, odd>>

-----------------------------------------------------------------------------
(* Stop, and start on the schema file.                                     *)

Stop ==
    /\ live /= None /\ left.stops > 0
    /\ live' = None /\ mlock' = 0 /\ epoch' = FreeLock /\ stash' = <<>>
    /\ task' = [t \in Task |-> Idle]
    /\ plans' = [p \in Plan |-> [plans[p] EXCEPT !.driven = FALSE]]
    /\ left' = [left EXCEPT !.stops = @ - 1]
    /\ UNCHANGED <<setup, cat, rows, file, odd>>

\* A cutover that was interrupted is finished by the open, so the schema must
\* have its target.
Interrupted == {p \in Plan : Quiesces(p) /\ plans[p].cutting}

CanOpen ==
    /\ Reconciles(file)
    /\ \A p \in Interrupted : file[plans[p].field] = plans[p].to

Opened(p) ==
    IF p \in Interrupted THEN [plans[p] EXCEPT !.status = "Completed"]
    ELSE [plans[p] EXCEPT !.driven =       \* resume_inflight
             plans[p].status = "Running" /\ (plans[p].dry \/ file[plans[p].field] = plans[p].to)]

Finished(f) == {plans[p].to : p \in {q \in Interrupted : plans[q].field = f}}

\* resume_reload_watchers looks at every plan.
ToWatch == {p \in Plan : ~NothingToWatch(p, Opened(p).status, file)}

run ==
    /\ live = None /\ CanOpen
    /\ plans' = [p \in Plan |-> Opened(p)]
    /\ cat' = [f \in Field |-> IF Finished(f) = {} THEN cat[f] ELSE CHOOSE k \in Finished(f) : TRUE]
    /\ rows' = [f \in Field |-> IF Finished(f) = {} THEN rows[f] ELSE Finished(f)]
    /\ live' = [schema |-> file, hooks |-> {p \in Plan : Quiesces(p) /\ ~plans[p].dry} \ Interrupted]
    /\ stash' = [p \in ToWatch |-> Target(p, file)]
    /\ task' = [t \in Task |-> IF t \in ToWatch THEN Watching(t) ELSE Idle]
    /\ UNCHANGED <<setup, mlock, epoch, file, left, odd>>

\* The operator edits the file: as they like, or until the server starts.
EditFile ==
    /\ left.edits > 0
    /\ \E f \in Field : \E k \in setup.kinds \ {file[f]} : file' = [file EXCEPT ![f] = k]
    /\ left' = [left EXCEPT !.edits = @ - 1]
    /\ UNCHANGED <<setup, cat, plans, rows, live, mlock, epoch, stash, task, odd>>

RepairFile ==
    /\ live = None /\ ~CanOpen
    /\ file' = [f \in Field |-> CHOOSE k \in Finished(f) \cup {cat[f]} : Finished(f) = {} \/ k \in Finished(f)]
    /\ UNCHANGED <<setup, cat, plans, rows, live, mlock, epoch, stash, task, left, odd>>

-----------------------------------------------------------------------------
Init ==
    /\ setup \in Setups
    /\ cat = setup.schema /\ file = setup.schema
    /\ plans = <<>>
    /\ rows = [f \in DOMAIN setup.schema |-> {setup.schema[f]}]
    /\ live = [schema |-> setup.schema, hooks |-> {}]
    /\ mlock = 0 /\ epoch = FreeLock /\ stash = <<>>
    /\ task = [t \in Task |-> Idle]
    /\ left = setup.left
    /\ odd = {}

Serve(c) == execute_parsed(c) \/ Answer(c)
Driver(p) == BeginCutover(p) \/ finalize_migration_cutover(p) \/ Settle(p) \/ DryRunDone(p)
Handler == start \/ resume \/ ResumeReturns \/ ensure_reload_watcher \/ arm_reload_watcher
Watch(w) == Recheck(w) \/ Receive(w)
Swap(t) == do_reload(t) \/ Store(t)
Startup == run \/ RepairFile

Operator ==
    \/ RequestStart \/ RequestResume \/ reload \/ EditFile \/ Stop
    \/ \E p \in Plan : Fail(p) \/ pause_migration(p) \/ cancel_migration(p) \/ cutover_migration(p)

Next ==
    \/ \E c \in Client : run_query(c) \/ Serve(c)
    \/ \E p \in Plan : Driver(p)
    \/ Handler
    \/ \E w \in Watcher : Watch(w)
    \/ \E t \in Watcher \cup {Op} : Swap(t)
    \/ Startup
    \/ Operator

\* Tasks of the runtime and threads run; queries end at the governor's
\* deadline; the lock is fair; an operator starts a stopped server again.
Fairness ==
    /\ \A c \in Client : WF_vars(Serve(c))
    /\ WF_vars(\E p \in Plan : Driver(p))
    /\ WF_vars(Handler)
    /\ \A w \in Watcher : WF_vars(Watch(w))
    /\ \A t \in Watcher \cup {Op} : WF_vars(Swap(t))
    /\ WF_vars(Startup)

Spec == Init /\ [][Next]_vars /\ Fairness

-----------------------------------------------------------------------------
(* Properties.                                                             *)

\* A reload never drops the double-write hook of a plan that is not settled:
\* writes go on carrying the migration forward through the new handle.
HooksSurviveReload ==
    live /= None => \A p \in Plan : Quiesces(p) /\ ~plans[p].dry => p \in live.hooks

\* No query writes a kind the catalog has left behind once the live handle
\* declares the new one: none straddles a swap.  (While the handle itself is
\* behind, between a cutover and its reload, queries do write the old kind.)
WritesCurrent == \A f \in Field : \A k \in rows'[f] \ rows[f] : k = cat'[f] \/ live.schema[f] = k
NoStraddle == [][WritesCurrent]_vars

\* What the live handle declares comes to be what the catalog says, unless a
\* migration of the field is under way or a stop intervened.
Serves(f) ==
    \/ live = None
    \/ live.schema[f] = cat[f]
    \/ \E p \in Plan : plans[p].field = f /\ Quiesces(p)

\* After a cutover the server reloads by itself, whatever the order in which
\* the plan completes and its watcher subscribes; provided no other migration
\* started before that reload.
CutoverServedAlone == []<>(\A f \in Field \ odd : Serves(f))

\* The same, of any two migrations.
CutoverServed == []<>(\A f \in Field : Serves(f))
====
