------------------------------- MODULE Restore -------------------------------
(* Physical backup, restore-on-boot, the offline restore and import tools,   *)
(* and the server that opens the data directory they leave behind.           *)
(*                                                                           *)
(* A directory is what a process sees of it (dir), the image of it that a    *)
(* power loss is sure to leave (entry) and the files whose contents have     *)
(* been fsynced (synced).  A file's content is the snapshot it comes from;   *)
(* the WAL's also counts the client writes appended since.                   *)
EXTENDS Naturals, FiniteSets

CONSTANTS
  Snapshot,   \* the backups an operator may name
  Fresh,      \* the origin of a database created by opening an empty directory
  Dump,       \* the origin of a database built by the offline import
  Data,       \* the data directory
  Ssts,       \* SST file names
  Torn,       \* a file whose writing was cut short
  None,
  Setups

Loads == Ssts \cup {"wal", "hnsw", "schema"}
File == Loads \cup {"RESTORE_IN_PROGRESS", "RESTORE_DONE", "MANIFEST"}
Dirs == Snapshot \cup {Data}

VARIABLES
  setup,    \* what the operator and the faults may do
  dir, entry, synced,
  flags,    \* [from, force]: --restore-from and --restore-force, kept across restarts
  server,   \* [pc, todo]: the server process
  backup,   \* the snapshot the server is writing, or None
  tool,     \* [pc, of, force, todo]: rhypedb-cli restore or rhypedb-import
  aside,    \* the directory the import moved aside, or None
  acked,    \* what clients were promised: [of, n], or None
  forced,   \* the snapshots whose interrupted restore was begun with force
  odd,      \* the exceptions met so far
  left

vars == <<setup, dir, entry, synced, flags, server, backup, tool, aside, acked, forced, odd, left>>
files == <<dir, entry, synced>>

\* The files of snapshot s (its SSTs, WAL, schema and vector index).
Image(s) == [f \in Loads |-> IF f \in Ssts /\ f \notin setup.holds[s] THEN None
                             ELSE IF f = "wal" THEN <<s, 0>>
                             ELSE IF s = Fresh /\ f /= "wal" THEN None
                             ELSE s]
Empty == [f \in File |-> None]
Stored(s) == [f \in File |-> IF f \in Loads THEN Image(s)[f]
                             ELSE IF f = "MANIFEST" /\ s \in Snapshot THEN s ELSE None]

-----------------------------------------------------------------------------
\* The file system, modelled from how the code uses it.

write(d, f, c) ==
  /\ dir' = [dir EXCEPT ![d][f] = c]
  /\ synced' = [synced EXCEPT ![d] = @ \ {f}]
  /\ UNCHANGED entry

remove(d, f) == dir' = [dir EXCEPT ![d][f] = None] /\ UNCHANGED <<entry, synced>>

fsync_file(d, f) == synced' = [synced EXCEPT ![d] = @ \cup {f}] /\ UNCHANGED <<dir, entry>>

fsync_dir(d) == entry' = [entry EXCEPT ![d] = dir[d]] /\ UNCHANGED <<dir, synced>>

\* Every file of the directory, then the directory itself.
sync_restored_files(d) ==
  /\ synced' = [synced EXCEPT ![d] = @ \cup Loads]
  /\ entry' = [entry EXCEPT ![d] = dir[d]]
  /\ UNCHANGED dir

Unsettled(d) == {f \in File : entry[d][f] /= dir[d][f] \/ f \notin synced[d]}

\* What a power loss may leave of directory d: each unsettled file as it was
\* last made durable, as it is now, or torn.
AfterLoss(d) ==
  { [f \in File |-> IF f \in torn THEN Torn ELSE IF f \in kept THEN dir[d][f] ELSE entry[d][f]] :
      torn \in SUBSET (Unsettled(d) \ synced[d]), kept \in SUBSET Unsettled(d) }

-----------------------------------------------------------------------------
\* Taking a backup: admin.rs backup_into_dir, into the directory of snapshot s.

BackupCopy(f) ==
  /\ backup /= None
  /\ f \in Loads /\ Image(backup)[f] /= None /\ dir[backup][f] = None
  /\ write(backup, f, Image(backup)[f])
  /\ UNCHANGED <<setup, forced, flags, server, backup, tool, aside, acked, odd, left>>

Copied(s) == \A f \in Loads : dir[s][f] = Image(s)[f]

sync_backup_data ==
  /\ backup /= None /\ Copied(backup) /\ dir[backup]["MANIFEST"] = None
  /\ sync_restored_files(backup)
  /\ UNCHANGED <<setup, forced, flags, server, backup, tool, aside, acked, odd, left>>

ManifestDue(s) == Copied(s) /\ Loads \subseteq synced[s]

WriteManifest ==
  /\ backup /= None /\ ManifestDue(backup) /\ dir[backup]["MANIFEST"] = None
  /\ write(backup, "MANIFEST", backup)
  /\ UNCHANGED <<setup, forced, flags, server, backup, tool, aside, acked, odd, left>>

SyncManifest ==
  /\ backup /= None /\ dir[backup]["MANIFEST"] = backup
  /\ synced' = [synced EXCEPT ![backup] = @ \cup {"MANIFEST"}]
  /\ entry' = [entry EXCEPT ![backup] = dir[backup]]
  /\ backup' = None
  /\ UNCHANGED <<setup, forced, dir, flags, server, tool, aside, acked, odd, left>>

-----------------------------------------------------------------------------
\* Restore on boot: restore.rs restore_from_snapshot.

backup_missing_files(s) ==
  {f \in setup.holds[s] \cup {"wal", "schema"} : dir[s][f] = None}

Valid(s) == dir[s]["MANIFEST"] = s /\ backup_missing_files(s) = {}

data_dir_non_empty == \E f \in Loads : dir[Data][f] /= None

already_restored(s) == dir[Data]["RESTORE_DONE"] = s

\* Mutant: any interrupted restore grants the bypass.
ResumingAny(s) == dir[Data]["RESTORE_IN_PROGRESS"] /= None
Resuming(s) == dir[Data]["RESTORE_IN_PROGRESS"] = s

At(pc) == server.pc = pc
Goto(pc) == server' = [server EXCEPT !.pc = pc]

\* The server is started; an operator who stops it for an offline tool starts
\* it again once the tool is done.
Started == At("off") /\ (setup.tools = "stopped" => tool.pc = "idle")

\* Steps 1 to 5: validate, take the guard, and refuse, skip or go on.
restore_from_snapshot ==
  /\ Started /\ flags.from /= None /\ Valid(flags.from)
  /\ \/ /\ already_restored(flags.from)
        /\ dir' = [dir EXCEPT ![Data]["RESTORE_IN_PROGRESS"] = None]
        /\ entry' = [entry EXCEPT ![Data] = dir'[Data]]
        /\ Goto("open")
        /\ UNCHANGED synced
     \/ /\ ~ already_restored(flags.from)
        /\ data_dir_non_empty => flags.force \/ Resuming(flags.from)
        /\ Goto("mark")
        /\ UNCHANGED files
  /\ UNCHANGED <<setup, forced, flags, backup, tool, aside, acked, odd, left>>

\* Step 6: the marker, durably, and the old sentinel removed.
WriteMarker ==
  /\ At("mark") /\ Goto("syncmark")
  /\ write(Data, "RESTORE_IN_PROGRESS", flags.from)
  /\ forced' = IF flags.force THEN forced \cup {flags.from} ELSE forced
  /\ UNCHANGED <<setup, flags, backup, tool, aside, acked, odd, left>>

SyncMarker ==
  /\ At("syncmark") /\ Goto("undone")
  /\ fsync_file(Data, "RESTORE_IN_PROGRESS")
  /\ UNCHANGED <<setup, forced, flags, backup, tool, aside, acked, odd, left>>

RemoveSentinel ==
  /\ At("undone") /\ Goto("dirsync")
  /\ remove(Data, "RESTORE_DONE")
  /\ UNCHANGED <<setup, forced, flags, backup, tool, aside, acked, odd, left>>

\* Mutant: the directory is not synced before the clear.
PersistMarkerUnsynced == UNCHANGED files
PersistMarker == fsync_dir(Data)

BeginClear ==
  /\ At("dirsync")
  /\ PersistMarker
  /\ server' = [pc |-> "clear", todo |-> Ssts \cup {"wal", "hnsw"}]
  /\ acked' = None
  /\ UNCHANGED <<setup, forced, flags, backup, tool, aside, odd, left>>

\* The SSTs in any order, then the WAL, then the vector index.
First(todo) == IF todo \cap Ssts /= {} THEN todo \cap Ssts
               ELSE IF "wal" \in todo THEN {"wal"}
               ELSE IF "schema" \in todo THEN {"schema"} ELSE todo

remove_dir_all(f) ==
  /\ At("clear") /\ f \in First(server.todo)
  /\ remove(Data, f)
  /\ server' = IF server.todo = {f} THEN [pc |-> "copy", todo |-> Loads]
               ELSE [server EXCEPT !.todo = @ \ {f}]
  /\ UNCHANGED <<setup, forced, flags, backup, tool, aside, acked, odd, left>>

\* Step 7: the load-bearing files of the snapshot, a missing one skipped.
Copy(f) ==
  /\ At("copy") /\ f \in First(server.todo)
  /\ IF dir[flags.from][f] = None THEN UNCHANGED files
     ELSE write(Data, f, dir[flags.from][f])
  /\ server' = IF server.todo = {f} THEN [pc |-> "sync", todo |-> {}]
               ELSE [server EXCEPT !.todo = @ \ {f}]
  /\ UNCHANGED <<setup, forced, flags, backup, tool, aside, acked, odd, left>>

\* Step 8: everything durable, then the sentinel.
SyncRestored == sync_restored_files(Data)

SyncCopied ==
  /\ At("sync") /\ Goto("done")
  /\ SyncRestored
  /\ UNCHANGED <<setup, forced, flags, backup, tool, aside, acked, odd, left>>

WriteSentinel ==
  /\ At("done") /\ Goto("syncdone")
  /\ write(Data, "RESTORE_DONE", flags.from)
  /\ UNCHANGED <<setup, forced, flags, backup, tool, aside, acked, odd, left>>

SyncSentinel ==
  /\ At("syncdone") /\ Goto("unmark")
  /\ synced' = [synced EXCEPT ![Data] = @ \cup {"RESTORE_DONE"}]
  /\ entry' = [entry EXCEPT ![Data] = dir[Data]]
  /\ UNCHANGED <<setup, forced, dir, flags, backup, tool, aside, acked, odd, left>>

\* Step 9: the marker goes, and the guard with it.
RemoveMarker ==
  /\ At("unmark") /\ Goto("open")
  /\ forced' = {}
  /\ dir' = [dir EXCEPT ![Data]["RESTORE_IN_PROGRESS"] = None]
  /\ entry' = [entry EXCEPT ![Data] = dir'[Data]]
  /\ UNCHANGED <<setup, synced, flags, backup, tool, aside, acked, odd, left>>

-----------------------------------------------------------------------------
\* Opening and serving: lib.rs run, LsmTree::open.

\* LsmTree::open loads whatever SSTs are present and replays the WAL it finds;
\* a torn SST stops it.
Opens == \A f \in Ssts : dir[Data][f] /= Torn

Replayed == IF dir[Data]["wal"] \in {None, Torn}
            THEN <<IF acked = None THEN Fresh ELSE acked.of, 0>> ELSE dir[Data]["wal"]

Interrupted == dir[Data]["RESTORE_IN_PROGRESS"] /= None

Open ==
  /\ At("open") \/ (Started /\ flags.from = None)
  /\ Opens
  /\ Goto("serving")
  /\ dir' = [dir EXCEPT ![Data]["wal"] = Replayed]
  /\ entry' = [entry EXCEPT ![Data]["wal"] = Replayed]
  /\ synced' = [synced EXCEPT ![Data] = @ \cup {"wal"}]
  /\ acked' = IF acked /= None THEN acked
              ELSE [of |-> IF flags.from /= None THEN flags.from ELSE Replayed[1], n |-> 0]
  /\ odd' = odd \cup (IF At("off") /\ Interrupted THEN {"opened over an interrupted restore"} ELSE {})
                \cup (IF aside /= None THEN {"opened between the renames"} ELSE {})
  /\ UNCHANGED <<setup, forced, flags, backup, tool, aside, left>>

\* A committed write: in the WAL and fsynced before it is acknowledged.
Write ==
  /\ At("serving") /\ left.writes > 0
  /\ dir[Data]["wal"] /= None
  /\ dir' = [dir EXCEPT ![Data]["wal"][2] = @ + 1]
  /\ entry' = [entry EXCEPT ![Data]["wal"] = dir'[Data]["wal"]]
  /\ acked' = [acked EXCEPT !.n = @ + 1]
  /\ left' = [left EXCEPT !.writes = @ - 1]
  /\ UNCHANGED <<setup, forced, synced, flags, server, backup, tool, aside, odd>>

BeginBackup(s) ==
  /\ At("serving") /\ backup = None /\ s \in setup.backups /\ dir[s] = Empty
  /\ backup' = s
  /\ UNCHANGED <<setup, forced, dir, entry, synced, flags, server, tool, aside, acked, odd, left>>

\* The file a process dies in the middle of writing.
Writing ==
  CASE At("mark") -> {"RESTORE_IN_PROGRESS"}
    [] At("copy") -> First(server.todo)
    [] At("done") -> {"RESTORE_DONE"}
    [] OTHER -> {}

Died(d) ==
  /\ server' = [pc |-> "off", todo |-> {}]
  /\ backup' = None
  /\ odd' = odd \cup (IF Torn \in {d["RESTORE_IN_PROGRESS"], d["RESTORE_DONE"]}
                         THEN {"torn marker or sentinel"} ELSE {})
                \cup (IF tool.pc /= "idle" THEN {"an offline tool cut short"} ELSE {})

Kill ==
  /\ ~ At("off") /\ left.kills > 0
  /\ left' = [left EXCEPT !.kills = @ - 1]
  /\ \E torn \in {{}} \cup {{f} : f \in Writing} :
       /\ dir' = [dir EXCEPT ![Data] = [f \in File |-> IF f \in torn THEN Torn ELSE @[f]]]
       /\ synced' = [synced EXCEPT ![Data] = @ \ torn]
  /\ Died(dir'[Data])
  /\ UNCHANGED <<setup, forced, entry, flags, tool, aside, acked>>

\* Every process dies, and unsettled files are lost or torn.
PowerLoss ==
  /\ left.losses > 0
  /\ left' = [left EXCEPT !.losses = @ - 1]
  /\ \E d \in AfterLoss(Data), b \in IF backup = None THEN {Empty} ELSE AfterLoss(backup) :
       dir' = [x \in Dirs |-> IF x = Data THEN d ELSE IF x = backup THEN b ELSE dir[x]]
  /\ entry' = dir'
  /\ synced' = [x \in Dirs |-> File]
  /\ Died(dir'[Data])
  /\ tool' = [tool EXCEPT !.pc = "idle"]
  /\ UNCHANGED <<setup, forced, flags, aside, acked>>

\* The operator changes the restore flags of the next boot.
SetFlags(from, force) ==
  /\ At("off") /\ left.changes > 0
  /\ <<from, force>> \in setup.flagsets /\ flags /= [from |-> from, force |-> force]
  /\ flags' = [from |-> from, force |-> force]
  /\ left' = [left EXCEPT !.changes = @ - 1]
  /\ UNCHANGED <<setup, forced, dir, entry, synced, server, backup, tool, aside, acked, odd>>

-----------------------------------------------------------------------------
\* The offline tools.  Neither takes the data directory's lock; unless the
\* setup says otherwise, the operator only runs them on a stopped server.

ToolMay == tool.pc = "idle" /\ left.tools > 0 /\ (setup.tools = "stopped" => At("off"))
NonEmpty == dir[Data] /= Empty

\* rhypedb-cli restore.
run_restore(s, force) ==
  /\ ToolMay /\ Valid(s) /\ (NonEmpty => force)
  /\ tool' = [pc |-> "clear", of |-> s, force |-> force, todo |-> Ssts \cup {"wal", "hnsw"}]
  /\ left' = [left EXCEPT !.tools = @ - 1]
  /\ acked' = None
  /\ UNCHANGED <<setup, forced, dir, entry, synced, flags, server, backup, aside, odd>>

ToolClear(f) ==
  /\ tool.pc = "clear" /\ f \in First(tool.todo)
  /\ remove(Data, f)
  /\ tool' = IF tool.todo = {f} THEN [tool EXCEPT !.pc = "copy", !.todo = Loads]
             ELSE [tool EXCEPT !.todo = @ \ {f}]
  /\ UNCHANGED <<setup, forced, flags, server, backup, aside, acked, odd, left>>

\* What the offline restore leaves of an earlier restore on boot.
StaleRecords(s) == dir[Data]["RESTORE_DONE"] \notin {None, s} \/ Interrupted

ToolCopy(f) ==
  /\ tool.pc = "copy" /\ f \in First(tool.todo)
  /\ IF dir[tool.of][f] = None THEN UNCHANGED files ELSE write(Data, f, dir[tool.of][f])
  /\ IF tool.todo = {f}
     THEN /\ tool' = [tool EXCEPT !.pc = "idle"]
          /\ acked' = [of |-> tool.of, n |-> 0]
          /\ odd' = odd \cup (IF StaleRecords(tool.of) THEN {"records of another restore"} ELSE {})
     ELSE /\ tool' = [tool EXCEPT !.todo = @ \ {f}]
          /\ UNCHANGED <<acked, odd>>
  /\ UNCHANGED <<setup, forced, flags, server, backup, aside, left>>

\* rhypedb-import: the staging directory is complete; guard_target, then the
\* two renames of swap_into_place.  A rename is durable at once.
MoveAside(force) ==
  /\ ToolMay /\ aside = None /\ (NonEmpty => force)
  /\ aside' = dir[Data]
  /\ dir' = [dir EXCEPT ![Data] = Empty]
  /\ entry' = [entry EXCEPT ![Data] = Empty]
  /\ synced' = [synced EXCEPT ![Data] = File]
  /\ tool' = [pc |-> "swap", of |-> Dump, force |-> force, todo |-> {}]
  /\ left' = [left EXCEPT !.tools = @ - 1]
  /\ acked' = None
  /\ UNCHANGED <<setup, forced, flags, server, backup, odd>>

swap_into_place ==
  /\ tool.pc = "swap"
  /\ IF NonEmpty
     THEN UNCHANGED <<dir, entry, aside, acked>>
     ELSE /\ dir' = [dir EXCEPT ![Data] = Stored(Dump)]
          /\ entry' = [entry EXCEPT ![Data] = Stored(Dump)]
          /\ aside' = None
          /\ acked' = [of |-> Dump, n |-> 0]
  /\ tool' = [tool EXCEPT !.pc = "idle"]
  /\ UNCHANGED <<setup, forced, synced, flags, server, backup, odd, left>>

ToolDies ==
  /\ tool.pc /= "idle" /\ left.kills > 0
  /\ left' = [left EXCEPT !.kills = @ - 1]
  /\ tool' = [tool EXCEPT !.pc = "idle"]
  /\ odd' = odd \cup {"an offline tool cut short"}
  /\ UNCHANGED <<setup, forced, dir, entry, synced, flags, server, backup, aside, acked>>

-----------------------------------------------------------------------------
Init ==
  /\ setup \in Setups
  /\ dir = [d \in Dirs |-> IF d = Data THEN (IF setup.live THEN Stored(Fresh) ELSE Empty)
                            ELSE IF d \in setup.backups THEN Empty ELSE Stored(d)]
  /\ entry = dir
  /\ synced = [d \in Dirs |-> File]
  /\ flags = [from |-> setup.from, force |-> setup.force]
  /\ server = [pc |-> "off", todo |-> {}]
  /\ backup = None
  /\ tool = [pc |-> "idle", of |-> None, force |-> FALSE, todo |-> {}]
  /\ aside = None
  /\ acked = IF setup.live THEN [of |-> Fresh, n |-> 0] ELSE None
  /\ forced = {}
  /\ odd = {}
  /\ left = setup.left

Restoring ==
  \/ restore_from_snapshot \/ WriteMarker \/ SyncMarker \/ RemoveSentinel \/ BeginClear
  \/ \E f \in File : remove_dir_all(f) \/ Copy(f)
  \/ SyncCopied \/ WriteSentinel \/ SyncSentinel \/ RemoveMarker \/ Open

Next ==
  \/ Restoring
  \/ \E f \in File : BackupCopy(f) \/ ToolClear(f) \/ ToolCopy(f)
  \/ sync_backup_data \/ WriteManifest \/ SyncManifest
  \/ Write \/ Kill \/ PowerLoss
  \/ \E s \in Snapshot : BeginBackup(s) \/ \E force \in BOOLEAN : run_restore(s, force)
  \/ \E from \in Snapshot \cup {None}, force \in BOOLEAN : SetFlags(from, force)
  \/ \E force \in BOOLEAN : MoveAside(force)
  \/ swap_into_place \/ ToolDies

\* A managed platform restarts a server that exits, and a running process
\* keeps running; nothing is assumed of the operator.
Spec == Init /\ [][Next]_vars /\ WF_vars(Restoring)

-----------------------------------------------------------------------------
Whole(s, n) ==
  /\ \A f \in Ssts : dir[Data][f] = Image(s)[f]
  /\ dir[Data]["wal"] = <<s, n>>
  /\ dir[Data]["hnsw"] \in {None, s}
  /\ s /= Fresh => dir[Data]["schema"] = s

\* A server that serves holds exactly one database: the whole image it was
\* last given, from a snapshot, an import or an empty directory, and every
\* write acknowledged since; and a server started with --restore-from serves
\* that snapshot.
ServedWhole ==
  At("serving") /\ odd = {} =>
    /\ Whole(acked.of, acked.n)
    /\ flags.from /= None => acked.of = flags.from

\* A database is only ever discarded by a restore or an import that was given
\* its force flag: the gate of step 5 and its bypass for an interrupted
\* restore never let go of one that clients were promised.
ForcedLoss ==
  acked /= None /\ acked' = None /\ odd = {} =>
    (At("dirsync") /\ flags.from \in forced) \/ tool'.force

\* The sentinel means complete and durable: while RESTORE_DONE names a
\* snapshot, the data files are that snapshot's with the writes since, and no
\* power loss can take any of them away.
DoneIsDurable ==
  \A s \in Snapshot : dir[Data]["RESTORE_DONE"] = s /\ odd = {} =>
    /\ Whole(s, IF acked = None THEN 0 ELSE acked.n)
    /\ Unsettled(Data) \cap Loads = {}

\* The offline tools never touch a directory a live server holds.
ToolsRefuseLive == tool.pc /= "idle" => ~ At("serving")

=============================================================================
