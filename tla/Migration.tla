------------------------------ MODULE Migration ------------------------------
(***************************************************************************)
(* Online change of a field's type (crates/rhypedb-engine: catalog.rs,     *)
(* database.rs).  A plan backfills a converted shadow beside the field of  *)
(* every old row, a hook makes live writes carry one, and a terminal pass  *)
(* under migration_lock promotes the shadows (cutover) or strips them      *)
(* (cancel).  One type, one migrating field, one unsettled plan.           *)
(*                                                                         *)
(* A row is the field's kind and number and the number of its shadow (0:   *)
(* no shadow, which is always of the target kind and of the pinned         *)
(* converter version: a plan resolves its converter by version and a       *)
(* cancelled one strips what it wrote).  The converter keeps the number;   *)
(* it fails on setup.bad and returns a wrong kind on setup.wrong.          *)
(*                                                                         *)
(* A client's write, a worker's chunk and a chunk of a terminal pass are   *)
(* transactions of Mvcc.  A worker runs without the lock: it scans, and    *)
(* commits unless what it writes is dirty by then.  The others are one     *)
(* step: all they read is written, locked or re-read on conflict.  Covers  *)
(* and indexes are the subject of Objects.                                 *)
(***************************************************************************)
EXTENDS Integers, FiniteSetsExt, Functions, TLC

CONSTANTS
    Setups,     \* rows, plan options, permitted calls and bounds
    Op,         \* threads that call the operator's verbs
    Driver,     \* the detached driver thread, not one of Op
    None,
    MaxId       \* bound on object ids

VARIABLES
    setup,
    rows,       \* o: blobs, a function on the live ids
    nextId,     \* next_object_id
    plan,       \* c:P: record
    part,       \* c:S: cursors, per partition
    quar,       \* c:Q: sidecars, a set of ids
    catKind,    \* the catalog's kind of the field
    mode,       \* of the handle: closed, opening, open
    schema,     \* the kind the handle's schema declares
    hook,       \* migrating_fields: off, reject (no converter), armed
    conv,       \* the pinned converter is registered
    reg,        \* migration_drivers entry of the plan
    lock,       \* holder of migration_lock.write
    thr,        \* the threads
    wk,         \* the partition workers of the running backfill
    left,       \* what remains of the setup's bounds
    last,       \* history: number last written by a client, 0 for null
    odd         \* history: the ways a plan left the beaten path

store == <<rows, nextId, plan, part, quar, catKind>>
handle == <<mode, schema, hook, conv>>
vars == <<setup, store, handle, reg, lock, thr, wk, left, last, odd>>

Thread == Op \cup {Driver}

NoReg == [on |-> FALSE, owner |-> None, fin |-> FALSE]
Idle == [pc |-> "idle", ctl |-> "run", disp |-> "done", owner |-> None, status |-> "None"]
FreshCursor == [cursor |-> 0, errors |-> 0, done |-> FALSE]
NoWorker == [pc |-> "off", mem |-> FreshCursor, puts |-> <<>>, errs |-> {},
             high |-> 0, more |-> FALSE, dirty |-> {}]
NoPlan == [status |-> "None", phase |-> "Converting", cursor |-> 0, upper |-> 1]
NothingOdd == [nulled |-> {}, cleared |-> {}, overlap |-> FALSE, early |-> FALSE,
               rearmed |-> FALSE, failed |-> FALSE, deaf |-> FALSE]

Partition == 0 .. setup.degree - 1

Quiesces == plan.status \in {"Running", "Failed"}
Drivable == plan.status = "Running"

\* Null carries no shadow and is never converted.
Unconverted(row) == row.kind = "src" /\ row.sh = 0

-----------------------------------------------------------------------------
(* What a transaction that commits does to the workers' conflict checks.   *)

Dirties(keys) ==
    [t \in Thread |-> [p \in Partition |->
        IF wk[t][p].pc = "scanned"
        THEN [wk[t][p] EXCEPT !.dirty = @ \cup keys]
        ELSE wk[t][p]]]

O(ids) == {<<"o", i>> : i \in ids}
Q(ids) == {<<"q", i>> : i \in ids}
S(ps) == {<<"s", p>> : p \in ps}

\* migration_lock, which a terminal pass holds for several steps, can be taken.
LockFree == lock = None

-----------------------------------------------------------------------------
(* Live writes, under migration_lock.read.                                 *)

\* After the plan is settled, writes go to a handle of the new schema.
CanWrite ==
    /\ mode = "open" /\ LockFree /\ left.writes > 0
    /\ hook = "off" => schema = catKind

\* apply_migrating_field_hook accepts a value of this kind and number.
HookAccepts(kind, n) ==
    \/ hook = "off"
    \/ kind = "null"
    \/ hook = "armed" /\ kind = "src" /\ n \notin setup.bad \cup setup.wrong

HookShadow(kind, n, old) == IF hook = "off" \/ kind = "null" THEN old ELSE n

\* The values a client of this handle can write.
Written == {[kind |-> schema, n |-> n] : n \in setup.values} \cup {[kind |-> "null", n |-> 0]}

Write(i, v, sh) ==
    /\ HookAccepts(v.kind, v.n)
    /\ rows' = [j \in DOMAIN rows \cup {i} |->
                   IF j = i THEN [kind |-> v.kind, n |-> v.n, sh |-> HookShadow(v.kind, v.n, sh)]
                   ELSE rows[j]]
    /\ wk' = Dirties(O({i}))
    /\ left' = [left EXCEPT !.writes = @ - 1]
    /\ last' = [last EXCEPT ![i] = v.n]

create ==
    /\ CanWrite /\ nextId <= MaxId
    /\ \E v \in Written : Write(nextId, v, 0)
    /\ nextId' = nextId + 1
    /\ UNCHANGED <<setup, plan, part, quar, catKind, handle, reg, lock, thr, odd>>

\* An update writes the merged fields: the field it sets or, when it sets
\* another one, the stored value; and whatever shadow the blob had.
update ==
    /\ CanWrite
    /\ \E i \in DOMAIN rows :
        \E v \in Written \cup {[kind |-> rows[i].kind, n |-> rows[i].n]} :
            /\ Write(i, v, rows[i].sh)
            /\ odd' = [odd EXCEPT !.nulled =
                          IF v.kind = "null" /\ rows[i].sh /= 0 THEN @ \cup {i}
                          ELSE IF v.kind = "null" THEN @ ELSE @ \ {i}]
    /\ UNCHANGED <<setup, nextId, plan, part, quar, catKind, handle, reg, lock, thr>>

delete ==
    /\ CanWrite
    /\ \E i \in DOMAIN rows :
        /\ rows' = Restrict(rows, DOMAIN rows \ {i})
        /\ wk' = Dirties(O({i}))
        /\ odd' = [odd EXCEPT !.nulled = @ \ {i}]
    /\ left' = [left EXCEPT !.writes = @ - 1]
    /\ UNCHANGED <<setup, nextId, plan, part, quar, catKind, handle, reg, lock, thr, last>>

-----------------------------------------------------------------------------
(* The scan of a chunk: the first ids from start on.  Tombstones, which    *)
(* only make a chunk shorter, are the subject of ChunkScan.                *)

From(start) == {i \in DOMAIN rows : i >= start}
Chunk(start) == {i \in From(start) :
                    Cardinality({j \in From(start) : j < i}) < setup.chunk}
More(start) == From(start) /= Chunk(start)

CeilDiv(a, b) == (a + b - 1) \div b

\* partition_range
Lo(p) == LET span == CeilDiv(plan.upper - 1, setup.degree)
         IN  Min({p * span + 1, plan.upper})
Hi(p) == LET span == CeilDiv(plan.upper - 1, setup.degree)
         IN  Min({(p + 1) * span + 1, plan.upper})

-----------------------------------------------------------------------------
(* run_migration_partition: worker p of the backfill that t drives.        *)

\* convert_row_for_backfill: the rows of a chunk to shadow, and to fail on.
Shadow(row) == [row EXCEPT !.sh = row.n]
Needs(ids) == {i \in ids : Unconverted(rows[i])}
Failing(ids) == {i \in Needs(ids) : rows[i].n \in setup.bad}
Halting(ids) ==
    {i \in Needs(ids) :
        \/ rows[i].n \in setup.wrong
        \/ rows[i].n \in setup.bad /\ setup.policy = "Stop"}

\* Between chunks a worker polls the control byte of its own driver.
WorkerStops(t, p) ==
    /\ wk[t][p].pc = "run" /\ thr[t].ctl /= "run"
    /\ wk' = [wk EXCEPT ![t][p] = [NoWorker EXCEPT !.pc = "paused"]]
    /\ UNCHANGED <<setup, store, handle, reg, lock, thr, left, last, odd>>

Scanning(t, p) ==
    \/ wk[t][p].pc = "rescan"
    \/ wk[t][p].pc = "run" /\ thr[t].ctl = "run"
Start(t, p) == Max({wk[t][p].mem.cursor, Lo(p) - 1}) + 1

WorkerExhausts(t, p) ==
    /\ Scanning(t, p)
    /\ Start(t, p) >= Hi(p) \/ From(Start(t, p)) = {}
    /\ part' = [part EXCEPT ![p] = [wk[t][p].mem EXCEPT !.done = TRUE]]
    /\ wk' = [Dirties(S({p})) EXCEPT ![t][p] = [NoWorker EXCEPT !.pc = "done"]]
    /\ UNCHANGED <<setup, rows, nextId, plan, quar, catKind, handle, reg, lock, thr, left, last, odd>>

WorkerScans(t, p) ==
    /\ Scanning(t, p)
    /\ Start(t, p) < Hi(p) /\ From(Start(t, p)) /= {}
    /\ LET chunk == Chunk(Start(t, p))
           ids == {i \in chunk : i < Hi(p)}
       IN  wk' = [wk EXCEPT ![t][p] =
                IF Halting(ids) /= {}
                THEN [NoWorker EXCEPT !.pc = "err"]
                ELSE [@ EXCEPT !.pc = "scanned", !.dirty = {},
                          !.puts = [i \in Needs(ids) \ Failing(ids) |-> Shadow(rows[i])],
                          !.errs = Failing(ids),
                          !.high = Max(chunk), !.more = More(Start(t, p))]]
    /\ UNCHANGED <<setup, store, handle, reg, lock, thr, left, last, odd>>

\* What a chunk writes besides its cursor; a dry run writes nothing else.
Puts(t, p) == IF setup.dry THEN <<>> ELSE wk[t][p].puts
Sidecars(t, p) ==
    IF setup.policy = "Quarantine" /\ ~ setup.dry THEN wk[t][p].errs ELSE {}
PutKeys(t, p) == S({p}) \cup O(DOMAIN Puts(t, p)) \cup Q(Sidecars(t, p))

\* Mutant: a chunk commits over what changed since its scan.
ConflictsIgnored(t, p) == FALSE

Conflicts(t, p) == wk[t][p].dirty \cap PutKeys(t, p) /= {}

\* A conflict is retried, a bounded number of times.
WorkerRetries(t, p) ==
    /\ wk[t][p].pc = "scanned" /\ Conflicts(t, p)
    /\ \/ wk' = [wk EXCEPT ![t][p].pc = "rescan"]
       \/ wk' = [wk EXCEPT ![t][p] = [NoWorker EXCEPT !.pc = "err"]]
    /\ UNCHANGED <<setup, store, handle, reg, lock, thr, left, last, odd>>

\* The shared error counter: what the partitions have committed.
Errors(parts) == MapThenSumSet(LAMBDA p : parts[p].errors, Partition)

WorkerCommits(t, p) ==
    /\ wk[t][p].pc = "scanned" /\ ~ Conflicts(t, p)
    /\ LET w == wk[t][p]
           mem == [cursor |-> Min({w.high, Hi(p) - 1}),
                   errors |-> w.mem.errors + Cardinality(w.errs),
                   done |-> ~ w.more \/ w.high >= Hi(p)]
           parts == [part EXCEPT ![p] = mem]
           over == setup.policy /= "Stop" /\ Errors(parts) > setup.cap
       IN  /\ part' = parts
           /\ rows' = Puts(t, p) @@ rows
           /\ quar' = quar \cup Sidecars(t, p)
           /\ wk' = [Dirties(PutKeys(t, p)) EXCEPT ![t][p] =
                        [NoWorker EXCEPT !.mem = mem,
                            !.pc = IF over THEN "cap" ELSE IF mem.done THEN "done" ELSE "run"]]
    /\ UNCHANGED <<setup, nextId, plan, catKind, handle, reg, lock, thr, left, last, odd>>

Worker(t) ==
    \E p \in Partition :
        \/ WorkerStops(t, p) \/ WorkerExhausts(t, p) \/ WorkerScans(t, p)
        \/ WorkerRetries(t, p) \/ WorkerCommits(t, p)

-----------------------------------------------------------------------------
(* Driving a plan: the detached driver and the inline drives of a call.    *)

\* The call or the driver returns.  A driver leaves its entry, finished; an
\* inline drive removes the entry it registered; a failed open closes.
Returns(t, ok) ==
    /\ thr' = [thr EXCEPT ![t] = Idle]
    /\ reg' = IF t = Driver THEN [reg EXCEPT !.fin = reg.owner = t \/ reg.fin]
              ELSE IF thr[t].owner = t THEN NoReg ELSE reg
    /\ mode' = IF mode = "opening" THEN (IF ok THEN "open" ELSE "closed") ELSE mode

Goto(t, pc) == thr' = [thr EXCEPT ![t].pc = pc]

Park == plan' = [plan EXCEPT !.status = "Failed"]

\* load_migration_plan; a Converting plan starts its workers, an inline
\* drive only after registering (gate_locked refuses a second driver).
Loads(t) ==
    /\ thr[t].pc = "load"
    /\ \/ /\ plan.phase = "Converting"
          /\ t = Driver \/ ~ reg.on \/ reg.fin
          /\ thr' = [thr EXCEPT ![t].pc = "fill", ![t].owner = t]
          /\ reg' = IF t = Driver THEN reg ELSE [on |-> TRUE, owner |-> t, fin |-> FALSE]
          /\ wk' = [wk EXCEPT ![t] = [p \in Partition |->
                       [NoWorker EXCEPT !.mem = part[p],
                                        !.pc = IF part[p].done THEN "done" ELSE "run"]]]
          /\ UNCHANGED mode
       \/ /\ plan.phase = "Converting"
          /\ t /= Driver /\ reg.on /\ ~ reg.fin
          /\ Returns(t, FALSE)
          /\ UNCHANGED wk
       \/ /\ plan.phase /= "Converting"
          /\ Goto(t, IF t = Driver THEN "post" ELSE "term")
          /\ UNCHANGED <<reg, mode, wk>>
    /\ UNCHANGED <<setup, store, schema, hook, conv, lock, left, last, odd>>

\* sum_partition_counts
AllDone == \A p \in Partition : part[p].done \/ Lo(p) >= Hi(p)

Outcomes(t) == {wk[t][p].pc : p \in Partition}

\* The end of run_parallel_backfill, all workers joined.
Joins(t) ==
    /\ thr[t].pc = "fill"
    /\ Outcomes(t) \subseteq {"done", "paused", "cap", "err"}
    /\ LET bad == \/ Outcomes(t) \cap {"cap", "err"} /= {}
                  \/ "paused" \notin Outcomes(t) /\ ~ AllDone
       IN  /\ IF bad THEN Park ELSE UNCHANGED plan
           /\ thr' = [thr EXCEPT ![t].pc = "post",
                          ![t].disp = IF bad THEN "err"
                                      ELSE IF "paused" \in Outcomes(t) THEN "paused"
                                      ELSE "done"]
    /\ wk' = [wk EXCEPT ![t] = [p \in Partition |-> NoWorker]]
    /\ UNCHANGED <<setup, rows, nextId, part, quar, catKind, handle, reg, lock, left, last, odd>>

\* Mutant: the plan is not loaded again; a cancel during the backfill is lost.
RollsBackBlind(t) == FALSE

\* The plan is loaded again: a cancel wins over any outcome of the backfill.
RollsBack(t) == plan.phase = "RollingBack"

Reloads(t) ==
    /\ thr[t].pc = "post"
    /\ \/ /\ RollsBack(t) \/ thr[t].disp = "done"
          /\ Goto(t, IF setup.dry /\ ~ RollsBack(t) THEN "dry" ELSE "term")
          /\ UNCHANGED <<reg, mode>>
       \/ /\ ~ RollsBack(t) /\ thr[t].disp /= "done"
          /\ Returns(t, thr[t].disp = "paused")
    /\ UNCHANGED <<setup, store, schema, hook, conv, lock, wk, left, last, odd>>

FreshCursors == [p \in Partition |-> FreshCursor]

finalize_dry_run(t) ==
    /\ thr[t].pc = "dry"
    /\ plan' = [plan EXCEPT !.status = "DryRunCompleted"]
    /\ part' = FreshCursors
    /\ Returns(t, TRUE)
    /\ UNCHANGED <<setup, rows, nextId, quar, catKind, schema, hook, conv, lock, wk, left, last, odd>>

-----------------------------------------------------------------------------
(* The terminal pass, under migration_lock.write.                          *)

\* cutover_quarantine_gate keeps the sidecars of rows still unconverted.
Unresolved == {i \in quar : i \in DOMAIN rows /\ Unconverted(rows[i])}

Overlaps(t) == \E u \in Thread \ {t} : thr[u].pc = "fill"

GatePasses == setup.policy = "Quarantine" => Unresolved = {}

\* The head of run_cutover_locked: the gate, then the durable mark.
BeginCutover(t) ==
    /\ quar' = IF setup.policy = "Quarantine" THEN Unresolved ELSE quar
    /\ odd' = [odd EXCEPT !.overlap = @ \/ Overlaps(t), !.early = @ \/ ~ AllDone]
    /\ \/ /\ GatePasses
          /\ plan' = [plan EXCEPT !.phase = "CuttingOver"]
          /\ lock' = t
          /\ thr' = [thr EXCEPT ![t].pc = "cut", ![t].status = plan.status]
          /\ wk' = Dirties(Q(quar \ quar'))
          /\ UNCHANGED <<reg, mode>>
       \/ /\ ~ GatePasses
          /\ Park
          /\ Returns(t, FALSE)
          /\ UNCHANGED <<lock, wk>>

\* run_terminal_pass routes by the phase it loads under the lock.
TerminalPass(t) ==
    /\ thr[t].pc = "term" /\ LockFree
    /\ \/ /\ plan.phase = "RollingBack"
          /\ lock' = t
          /\ thr' = [thr EXCEPT ![t].pc = "roll", ![t].status = plan.status]
          /\ odd' = [odd EXCEPT !.overlap = @ \/ Overlaps(t)]
          /\ UNCHANGED <<plan, quar, reg, mode, wk>>
       \/ plan.phase /= "RollingBack" /\ BeginCutover(t)
    /\ UNCHANGED <<setup, rows, nextId, part, catKind, schema, hook, conv, left, last>>

\* Rows a cutover refuses: the converter never reached them.
Refused(ids) == IF setup.policy = "Stop" THEN Needs(ids) ELSE {}

Shadowed(ids) == {i \in ids : rows[i].sh /= 0}

Promote(row) == [kind |-> "tgt", n |-> row.sh, sh |-> 0]
Strip(row) == [row EXCEPT !.sh = 0]

\* Rewrite the shadowed rows of the next chunk and advance the pass's cursor
\* in the plan it loaded at the start.
PassChunk(t, ids, rewritten) ==
    /\ ids /= {}
    /\ rows' = rewritten @@ rows
    /\ plan' = [plan EXCEPT !.cursor = Max(ids), !.status = thr[t].status]
    /\ wk' = Dirties(O(Shadowed(ids)))
    /\ UNCHANGED <<setup, nextId, part, quar, catKind, handle, reg, lock, thr, left, last, odd>>

CutoverChunk(t) ==
    /\ thr[t].pc = "cut"
    /\ LET ids == Chunk(plan.cursor + 1)
       IN  /\ Refused(ids) = {}
           /\ PassChunk(t, ids, [i \in Shadowed(ids) |-> Promote(rows[i])])

\* park_migration_failed_rewind: back to a backfill from the start.
CutoverRefuses(t) ==
    /\ thr[t].pc = "cut" /\ Refused(Chunk(plan.cursor + 1)) /= {}
    /\ plan' = [plan EXCEPT !.status = "Failed", !.phase = "Converting", !.cursor = 0]
    /\ part' = FreshCursors
    /\ wk' = Dirties(S(Partition))
    /\ lock' = None
    /\ Returns(t, FALSE)
    /\ UNCHANGED <<setup, rows, nextId, quar, catKind, schema, hook, conv, left, last, odd>>

\* finalize_migration_cutover and disarm_field_hook
CutoverFinishes(t) ==
    /\ thr[t].pc = "cut" /\ Chunk(plan.cursor + 1) = {}
    /\ catKind' = "tgt"
    /\ plan' = [plan EXCEPT !.status = "Completed"]
    /\ hook' = "off"
    /\ lock' = None
    /\ Returns(t, TRUE)
    /\ UNCHANGED <<setup, rows, nextId, part, quar, schema, conv, wk, left, last, odd>>

RollbackChunk(t) ==
    /\ thr[t].pc = "roll"
    /\ LET ids == Chunk(plan.cursor + 1)
       IN  PassChunk(t, ids, [i \in Shadowed(ids) |-> Strip(rows[i])])

\* finalize_migration_cancelled and disarm_field_hook
RollbackFinishes(t) ==
    /\ thr[t].pc = "roll" /\ Chunk(plan.cursor + 1) = {}
    /\ part' = FreshCursors
    /\ quar' = {}
    /\ plan' = [plan EXCEPT !.status = "Cancelled"]
    /\ hook' = "off"
    /\ wk' = Dirties(S(Partition) \cup Q(quar))
    /\ lock' = None
    /\ Returns(t, TRUE)
    /\ UNCHANGED <<setup, rows, nextId, catKind, schema, conv, left, last, odd>>

\* A commit of the pass fails; the plan stays where the last chunk left it.
PassFails(t) ==
    /\ thr[t].pc \in {"cut", "roll"} /\ left.errors > 0
    /\ left' = [left EXCEPT !.errors = @ - 1]
    /\ odd' = [odd EXCEPT !.failed = TRUE]
    /\ lock' = None
    /\ Returns(t, FALSE)
    /\ UNCHANGED <<setup, store, schema, hook, conv, wk, last>>

Drive(t) ==
    \/ Loads(t) \/ Worker(t) \/ Joins(t) \/ Reloads(t) \/ finalize_dry_run(t)
    \/ TerminalPass(t) \/ CutoverChunk(t) \/ CutoverRefuses(t) \/ CutoverFinishes(t)
    \/ RollbackChunk(t) \/ RollbackFinishes(t) \/ PassFails(t)

-----------------------------------------------------------------------------
(* The operator's verbs.                                                   *)

Calls(t, name) ==
    /\ mode = "open" /\ thr[t].pc = "idle"
    /\ name \in setup.verbs /\ left.calls > 0
    /\ left' = [left EXCEPT !.calls = @ - 1]

\* The plan, its id bound and the hook appear together, under the lock.  A
\* plan follows a settled one only when that one's calls have returned.
create_field_type_migration(t) ==
    /\ Calls(t, "start")
    /\ conv /\ LockFree
    /\ ~ Quiesces /\ catKind = "src"
    /\ \A u \in Thread : thr[u].pc = "idle"
    /\ plan' = [status |-> "Running", phase |-> "Converting", cursor |-> 0, upper |-> nextId]
    /\ part' = FreshCursors
    /\ quar' = {}
    /\ hook' = IF setup.dry THEN hook ELSE "armed"
    /\ \E spawned \in setup.spawns :
        IF spawned
        THEN /\ thr' = [thr EXCEPT ![Driver].pc = "load"]
             /\ reg' = [on |-> TRUE, owner |-> Driver, fin |-> FALSE]
        ELSE Goto(t, "load") /\ reg' = NoReg
    /\ UNCHANGED <<setup, rows, nextId, catKind, mode, schema, conv, lock, wk, last, odd>>

Signal(ctl) ==
    thr' = IF reg.on /\ ~ reg.fin THEN [thr EXCEPT ![reg.owner].ctl = ctl] ELSE thr

pause_migration(t) ==
    /\ Calls(t, "pause")
    /\ reg.on
    /\ Signal("pause")
    /\ UNCHANGED <<setup, store, handle, reg, lock, wk, last, odd>>

Cancellable == Quiesces /\ plan.phase /= "CuttingOver"

\* cancel_migration marks the plan, then signals the registered driver, or
\* drives the rollback itself when there is no entry.
cancel_migration(t) ==
    /\ Calls(t, "cancel")
    /\ LockFree /\ Cancellable
    /\ plan' = IF plan.phase = "RollingBack" THEN plan
               ELSE [plan EXCEPT !.phase = "RollingBack", !.cursor = 0]
    /\ IF reg.on THEN Signal("cancel") ELSE Goto(t, "term")
    /\ odd' = [odd EXCEPT !.deaf = @ \/ reg.fin]
    /\ UNCHANGED <<setup, rows, nextId, part, quar, catKind, handle, reg, lock, wk, last>>

\* guard_resume_schema
TargetSchema == schema = "tgt"

cutover_migration(t) ==
    /\ Calls(t, "cutover")
    /\ LockFree
    /\ plan.status \notin {"None", "Cancelled"} /\ plan.phase /= "RollingBack"
    /\ TargetSchema
    /\ BeginCutover(t)
    /\ UNCHANGED <<setup, rows, nextId, part, catKind, schema, hook, conv, last>>

\* resume_field_type_migration: look at the plan, ...
resume_field_type_migration(t) ==
    /\ Calls(t, "resume")
    /\ Quiesces
    /\ IF plan.phase = "RollingBack" THEN schema = "src"
       ELSE /\ plan.phase = "Converting" => conv
            /\ setup.dry \/ TargetSchema
    /\ Goto(t, IF setup.dry /\ plan.phase /= "RollingBack" THEN "load" ELSE "arm")
    /\ UNCHANGED <<setup, store, handle, reg, lock, wk, last, odd>>

\* ... re-arm the hook under the lock, then drive.
ResumeArms(t) ==
    /\ thr[t].pc = "arm" /\ LockFree
    /\ hook' = IF conv THEN "armed" ELSE "reject"
    /\ odd' = [odd EXCEPT !.rearmed = @ \/ ~ Quiesces]
    /\ Goto(t, "load")
    /\ UNCHANGED <<setup, store, mode, schema, conv, reg, lock, wk, left, last>>

\* wait_for_migration takes the entry's signal, ...
wait_for_migration(t) ==
    /\ Calls(t, "wait")
    /\ reg.on
    /\ thr' = [thr EXCEPT ![t].pc = "wait", ![t].owner = reg.owner]
    /\ UNCHANGED <<setup, store, handle, reg, lock, wk, last, odd>>

\* ... is woken when the driver has stopped, ...
WaitWakes(t) ==
    /\ thr[t].pc = "wait" /\ thr[thr[t].owner].pc = "idle"
    /\ thr' = [thr EXCEPT ![t] = [Idle EXCEPT !.pc = "reap"]]
    /\ UNCHANGED <<setup, store, handle, reg, lock, wk, left, last, odd>>

\* ... and removes whatever entry the plan has by then.
WaitReaps(t) ==
    /\ thr[t].pc = "reap"
    /\ reg' = NoReg
    /\ thr' = [thr EXCEPT ![t] = Idle]
    /\ UNCHANGED <<setup, store, handle, lock, wk, left, last, odd>>

\* retry_quarantined: a converter that was fixed for this row.
retry_quarantined(t) ==
    /\ Calls(t, "retry")
    /\ LockFree /\ conv
    /\ \E i \in quar :
        LET ids == Needs({i} \cap DOMAIN rows) IN
        /\ rows' = [j \in ids |-> Shadow(rows[j])] @@ rows
        /\ quar' = quar \ {i}
        /\ wk' = Dirties(O(ids) \cup Q({i}))
    /\ UNCHANGED <<setup, nextId, plan, part, catKind, handle, reg, lock, thr, last, odd>>

clear_quarantine(t) ==
    /\ Calls(t, "clear")
    /\ LockFree /\ quar /= {}
    /\ quar' = {}
    /\ wk' = Dirties(Q(quar))
    /\ odd' = [odd EXCEPT !.cleared = @ \cup quar]
    /\ UNCHANGED <<setup, rows, nextId, plan, part, catKind, handle, reg, lock, thr, last>>

register_converter ==
    /\ mode = "open" /\ ~ conv
    /\ conv' = TRUE
    /\ UNCHANGED <<setup, store, mode, schema, hook, reg, lock, thr, wk, left, last, odd>>

-----------------------------------------------------------------------------
(* The process dies or the handle is dropped, and the directory is opened. *)

Crash ==
    /\ mode /= "closed" /\ left.crashes > 0
    /\ left' = [left EXCEPT !.crashes = @ - 1]
    /\ mode' = "closed"
    /\ hook' = "off" /\ conv' = FALSE
    /\ reg' = NoReg /\ lock' = None
    /\ thr' = [t \in Thread |-> Idle]
    /\ wk' = [t \in Thread |-> [p \in Partition |-> NoWorker]]
    /\ UNCHANGED <<setup, store, schema, last, odd>>

\* reconcile accepts the catalog's kind, or the target of an unsettled plan.
Accepted == {catKind} \cup (IF Quiesces THEN {"tgt"} ELSE {})

\* auto_resume_migrations: no converter is registered yet, so only a
\* terminal pass is driven, for the schema its direction demands.
Resumes == Quiesces /\ ~ setup.dry
Drives ==
    /\ Resumes
    /\ \/ plan.phase = "RollingBack"
       \/ plan.phase = "CuttingOver" /\ Drivable

open ==
    /\ mode = "closed"
    /\ \E s \in Accepted :
        /\ Drives => s = IF plan.phase = "RollingBack" THEN "src" ELSE "tgt"
        /\ schema' = s
    /\ hook' = IF Resumes THEN "reject" ELSE "off"
    /\ IF Drives
       THEN mode' = "opening" /\ \E t \in Op : Goto(t, "load")
       ELSE mode' = "open" /\ UNCHANGED thr
    /\ UNCHANGED <<setup, store, conv, reg, lock, wk, left, last, odd>>

-----------------------------------------------------------------------------
Init ==
    /\ setup \in Setups
    /\ rows = [i \in DOMAIN setup.rows |-> [kind |-> "src", n |-> setup.rows[i], sh |-> 0]]
    /\ nextId = Max(DOMAIN setup.rows) + 1
    /\ plan = NoPlan
    /\ part = FreshCursors
    /\ quar = {}
    /\ catKind = "src"
    /\ mode = "open" /\ schema = "src" /\ hook = "off" /\ conv = TRUE
    /\ reg = NoReg /\ lock = None
    /\ thr = [t \in Thread |-> Idle]
    /\ wk = [t \in Thread |-> [p \in Partition |-> NoWorker]]
    /\ left = setup.left
    /\ last = [i \in 1 .. MaxId |-> IF i \in DOMAIN setup.rows THEN setup.rows[i] ELSE 0]
    /\ odd = NothingOdd

Call(t) ==
    \/ create_field_type_migration(t) \/ pause_migration(t) \/ cancel_migration(t)
    \/ cutover_migration(t) \/ resume_field_type_migration(t) \/ ResumeArms(t)
    \/ wait_for_migration(t) \/ WaitWakes(t) \/ WaitReaps(t)
    \/ retry_quarantined(t) \/ clear_quarantine(t)

Next ==
    \/ create \/ update \/ delete
    \/ \E t \in Thread : Drive(t)
    \/ \E t \in Op : Call(t)
    \/ register_converter \/ Crash \/ open

Spec == Init /\ [][Next]_vars

-----------------------------------------------------------------------------
\* The shapes of the state; migration_lock is held exactly by the thread in a
\* terminal pass, and a worker runs only under a thread that backfills.
TypeOK ==
    /\ \A i \in DOMAIN rows :
        rows[i].kind \in {"src", "tgt", "null"} /\ rows[i].n \in Nat /\ rows[i].sh \in Nat
    /\ plan.status \in {"None", "Running", "Failed", "Completed", "Cancelled", "DryRunCompleted"}
    /\ plan.phase \in {"Converting", "CuttingOver", "RollingBack"}
    /\ quar \subseteq 1 .. MaxId /\ DOMAIN rows \subseteq 1 .. nextId - 1
    /\ catKind \in {"src", "tgt"} /\ schema \in {"src", "tgt"}
    /\ mode \in {"closed", "opening", "open"} /\ hook \in {"off", "reject", "armed"}
    /\ \A t \in Thread :
        /\ thr[t].pc \in {"idle", "load", "fill", "post", "dry", "term", "cut", "roll",
                          "arm", "wait", "reap"}
        /\ lock = t <=> thr[t].pc \in {"cut", "roll"}
        /\ thr[t].pc /= "fill" => \A p \in Partition : wk[t][p] = NoWorker

\* The terminal pass, if any, ran alone and to its end, and no hook outlived
\* its plan.
Regular == ~ odd.overlap /\ ~ odd.rearmed /\ ~ odd.failed

\* No conversion loses a client's write: a row, promoted or not, holds the
\* number last written, and so does its shadow, through chunks that conflict
\* with live writes, restarts and a second plan after a cancelled one (the
\* double-write hook, the retry of run_migration_partition, migration_lock).
\* Excepted: null over a shadow, and the irregular plans.
LastWriteKept ==
    Regular =>
        \A i \in DOMAIN rows \ odd.nulled :
            rows[i].n = last[i] /\ rows[i].sh \in {0, last[i]}

\* Rows whose conversion error the policy, or the operator, accepts.
AcceptedError(i) ==
    /\ rows[i].n \in setup.bad
    /\ \/ setup.policy = "SkipAndLog"
       \/ setup.policy = "Quarantine" /\ i \in odd.cleared

\* A completed plan has converted every row, those written while it ran and
\* those of partitions that stopped and resumed, except accepted errors
\* (id_upper_bound and the hook, the done flags, cutover_quarantine_gate).
\* Excepted: cutover_migration called before the backfill is done, which it
\* does not check, and a failed pass.
CompletedConverted ==
    plan.status = "Completed" /\ ~ odd.early /\ ~ odd.failed =>
        \A i \in DOMAIN rows : rows[i].kind = "src" => AcceptedError(i)

\* On an open handle the hook covers exactly the unsettled plan, and there is
\* no shadow without it: a settled plan leaves none behind and every restart
\* re-arms the hook before the first write (auto_resume_migrations, the order
\* of the terminal passes).
HookCoversShadows ==
    Regular /\ mode = "open" /\ ~ setup.dry =>
        IF hook = "off"
        THEN ~ Quiesces /\ Shadowed(DOMAIN rows) = {}
        ELSE Quiesces

\* A cancelled plan has promoted nothing: cancel and cutover never both take
\* effect, whoever reaches migration_lock first and whatever restarts between
\* them (cancel_migration, run_terminal_pass).
CancelLossless ==
    plan.phase = "RollingBack" =>
        catKind = "src" /\ \A i \in DOMAIN rows : rows[i].kind /= "tgt"

\* An accepted cancel is never forgotten: while its plan is unsettled, some
\* thread is on its way to the rollback (cancel_migration, the reload after
\* the backfill, auto_resume_migrations).  Excepted: the cancel that found the
\* entry of a driver that had finished, a failed pass, and dry runs, which
\* auto_resume_migrations does not drive.
RollbackNotStranded ==
    mode = "open" /\ Quiesces /\ plan.phase = "RollingBack" =>
        \/ \E t \in Thread : thr[t].pc \notin {"idle", "wait", "reap"}
        \/ odd.deaf \/ odd.failed \/ setup.dry

\* "A double-write hook is installed so every live write to the field is also
\* carried forward into the new encoding" (docs/src/migrations.md): a promoted
\* row holds what was last written to it.
EveryWriteCarriedForward ==
    Regular => \A i \in DOMAIN rows : rows[i].kind = "tgt" => rows[i].n = last[i]
=============================================================================
