----------------------------- MODULE MCServices -----------------------------
(* Model checking what runs beside the server's queries: each behaviour is *)
(* one of the compaction worker (CompactionWorker), hot reload (HotReload), *)
(* change notification (Subscriptions), a client's calls (ClientCalls), its *)
(* event stream (ClientEvents), or backup and restore (Restore).  The parts *)
(* but hot reload use the variables v1 to v13 in turn, each for its own     *)
(* state, and leave those of hot reload at rest.                            *)
EXTENDS HotReload

CONSTANTS
    Owner, Worker, MaxSignal,
    Conn, Handle, Obj, EVENT_CHANNEL_CAP, MAX_SUBSCRIPTIONS_PER_CONN,
        MAX_SUBSCRIPTIONS_TOTAL, OutCap,
    Unsubs,
    A, B, Fresh, Dump, Data, Torn, RestoreSetups

VARIABLES part, v1, v2, v3, v4, v5, v6, v7, v8, v9, v10, v11, v12, v13

v == <<v1, v2, v3, v4, v5, v6, v7, v8, v9, v10, v11, v12, v13>>
all == <<part, v, vars>>

-----------------------------------------------------------------------------
(* Hot reload: up to two migrations, of one field or of two.               *)

OneMigration ==
    [schema |-> [f |-> "a"], kinds |-> {"a", "b"}, dry |-> {FALSE},
     left |-> [queries |-> 2, starts |-> 1, resumes |-> 0, reloads |-> 0, fails |-> 0,
               pauses |-> 0, cancels |-> 0, cutovers |-> 0, stops |-> 0, edits |-> 0]]

ReloadSetups ==
    {OneMigration,
     [OneMigration EXCEPT !.left.reloads = 1],
     [OneMigration EXCEPT !.left.starts = 2, !.left.queries = 1, !.dry = BOOLEAN, !.left.cancels = 1],
     [OneMigration EXCEPT !.left.queries = 1, !.left.stops = 1, !.left.edits = 1, !.left.resumes = 1,
                          !.left.fails = 1, !.left.pauses = 1, !.left.cutovers = 1],
     [OneMigration EXCEPT !.schema = [f |-> "a", g |-> "a"], !.left.starts = 2, !.left.queries = 0,
                          !.left.reloads = 1]}

-----------------------------------------------------------------------------
(* Change notification: buffers of one event and sockets of two frames.    *)

All == [objs |-> Obj, kinds |-> {}, exclude |-> None]
Deletes == [All EXCEPT !.kinds = {"delete"}]
Others == [All EXCEPT !.exclude = "me"]
Hidden == [All EXCEPT !.objs = {2}]
Plain == [kind |-> "update", origin |-> None, readable |-> TRUE, big |-> FALSE]

OneSubscriber ==
    [filters |-> {All}, denied |-> {}, shapes |-> {Plain}, rules |-> FALSE, reuse |-> FALSE,
     local |-> FALSE, conns |-> {1}, handles |-> {1}, objs |-> {1}, drops |-> FALSE, shutdown |-> FALSE,
     left |-> [commits |-> 2, subs |-> 1, unsubs |-> 0, queries |-> 0]]

SubscriptionSetups ==
    {[OneSubscriber EXCEPT !.left.commits = 3, !.objs = {1, 2}],
     [OneSubscriber EXCEPT !.left.commits = 3, !.left.subs = 2, !.handles = {1, 2}],
     [OneSubscriber EXCEPT !.left.subs = 2, !.left.unsubs = 1, !.reuse = TRUE, !.filters = {All, Deletes}],
     [OneSubscriber EXCEPT !.filters = {All, Hidden}, !.denied = {Hidden}, !.rules = TRUE,
                           !.shapes = {Plain, [Plain EXCEPT !.readable = FALSE, !.origin = "me"],
                                       [Plain EXCEPT !.big = TRUE, !.kind = "delete"]}],
     [OneSubscriber EXCEPT !.filters = {All, Others}, !.shapes = {Plain, [Plain EXCEPT !.origin = "me"]},
                           !.local = TRUE],
     [OneSubscriber EXCEPT !.left.commits = 0, !.left.subs = 3, !.conns = {1, 2}, !.handles = {1, 2},
                           !.drops = TRUE],
     [OneSubscriber EXCEPT !.left.commits = 1, !.left.subs = 2, !.conns = {1, 2}, !.drops = TRUE],
     [OneSubscriber EXCEPT !.left.commits = 1, !.shutdown = TRUE, !.left.queries = 1, !.left.unsubs = 1]}

-----------------------------------------------------------------------------
(* Clients: three calls on one connection or two, with timeouts or with    *)
(* losses; streams of up to five frames.                                   *)

Program(a, x, b, y, c, z) ==
    <<[client |-> a, op |-> x], [client |-> b, op |-> y], [client |-> c, op |-> z]>>

CallSetups ==
    {[kind |-> k, program |-> p, timeouts |-> t, closes |-> ~t, loses |-> ~t] :
        k \in {"blocking", "async", "ts"}, t \in BOOLEAN,
        p \in {Program(1, "prepare", 2, "prepare", 2, "execute"), Program(1, "query", 1, "ping", 1, "query"),
               Program(1, "prepare", 1, "batch", 1, "execute"), Program(1, "prepare", 1, "prepare", 1, "execute")}}

Frame(k, n) == [kind |-> k, n |-> n]
Ack == Frame("subscribed", 0)

EventSetups ==
    {[kind |-> k, script |-> s, calls |-> 4, unsubs |-> Unsubs, drops |-> d] :
        k \in {"ts", "rust"}, d \in BOOLEAN,
        s \in {<<Ack, Frame("event", 1), Frame("mine", 2), Frame("event", 3)>>,
               <<Ack, Frame("bad", 1), Frame("lagged", 2), Frame("error", 3), Frame("event", 4)>>,
               <<Frame("error", 0)>>}}

-----------------------------------------------------------------------------
(* Restore: two SST files, snapshots A with both of them and B with one.   *)

Ssts == {"1", "2"}
Snapshot == {A, B}
NoFaults == [kills |-> 0, losses |-> 0, writes |-> 1, changes |-> 0, tools |-> 0]
OneBoot == [live |-> FALSE, from |-> A, force |-> FALSE, fixed |-> FALSE, tools |-> "stopped",
         backups |-> {}, flagsets |-> {},
         holds |-> [s \in {A, B, Fresh, Dump} |->
                      IF s = A THEN {"1", "2"} ELSE IF s = Fresh THEN {} ELSE {"1"}],
         left |-> NoFaults]
Crashes == [NoFaults EXCEPT !.kills = 1, !.losses = 1]
Flags == {<<A, TRUE>>, <<B, FALSE>>, <<B, TRUE>>, <<None, FALSE>>}
AllRestores ==
    {\* an unattended instance, restarted with the same flags
    [OneBoot EXCEPT !.fixed = TRUE, !.left = Crashes],
    [OneBoot EXCEPT !.fixed = TRUE, !.left = [NoFaults EXCEPT !.kills = 2]],
    [OneBoot EXCEPT !.fixed = TRUE, !.live = TRUE, !.force = TRUE, !.left = Crashes],
    \* flags changed between boots
    [OneBoot EXCEPT !.left = [Crashes EXCEPT !.changes = 1, !.kills = 0],
                    !.flagsets = Flags],
    [OneBoot EXCEPT !.left = [NoFaults EXCEPT !.kills = 1, !.changes = 2],
                    !.flagsets = Flags],
    [OneBoot EXCEPT !.live = TRUE, !.from = None, !.left = [Crashes EXCEPT !.changes = 2, !.kills = 0],
                    !.flagsets = Flags],
    \* a backup taken by the server, then restored
    [OneBoot EXCEPT !.live = TRUE, !.from = None, !.backups = {B},
                    !.left = [Crashes EXCEPT !.changes = 1], !.flagsets = {<<B, TRUE>>}],
    \* the offline tools
    [OneBoot EXCEPT !.live = TRUE, !.from = None, !.flagsets = {<<A, FALSE>>},
                    !.left = [Crashes EXCEPT !.losses = 0, !.changes = 1, !.tools = 2]]}

LiveTools ==
    {[OneBoot EXCEPT !.live = TRUE, !.from = None, !.tools = "any", !.left = [NoFaults EXCEPT !.tools = 1]]}

-----------------------------------------------------------------------------
(* The parts.                                                              *)

Compaction == INSTANCE CompactionWorker WITH
    pending <- v1, running <- v2, shutdown <- v3, parked <- v4, pc <- v5, strong <- v6,
    merge_lock <- v7, signals <- v8

ASSUME ReloadAssumption

Notify == INSTANCE Subscriptions WITH
    Setups <- SubscriptionSetups, setup <- v1, db <- v2, events <- v3, unpublished <- v4, hub <- v5,
    next_id <- v6, network_subs <- v7, conn <- v8, local <- v9, down <- v10, left <- v11, odd <- v12

Calls == INSTANCE ClientCalls WITH
    Client <- {1, 2}, Call <- 1 .. 3, MAX_PREPARED_PER_CONN <- 1, Setups <- CallSetups, setup <- v1, call <- v2, conn <- v3, stmts <- v4

Events == INSTANCE ClientEvents WITH
    Setups <- EventSetups, setup <- v1, sub <- v2, calls <- v3, promise <- v4, net <- v5, sent <- v6

Restoration == INSTANCE Restore WITH
    Setups <- RestoreSetups, setup <- v1, dir <- v2, entry <- v3, synced <- v4, flags <- v5, server <- v6,
    backup <- v7, tool <- v8, aside <- v9, acked <- v10, forced <- v11, odd <- v12, left <- v13

Beyond8 == <<v9, v10, v11, v12, v13>>
Beyond6 == <<v7, v8, Beyond8>>
Beyond4 == <<v5, v6, Beyond6>>

Rest9 == v9 = None /\ v10 = None /\ v11 = None /\ v12 = None /\ v13 = None
Rest7 == v7 = None /\ v8 = None /\ Rest9
Rest5 == v5 = None /\ v6 = None /\ Rest7

\* There is no server to reload.
NoServer ==
    /\ setup = None /\ cat = <<>> /\ plans = <<>> /\ rows = <<>> /\ live = None /\ mlock = 0
    /\ epoch = FreeLock /\ stash = <<>> /\ task = <<>> /\ file = <<>> /\ left = None /\ odd = {}

PartsInit ==
    \/ part = "reload" /\ Init /\ v1 = None /\ v2 = None /\ v3 = None /\ v4 = None /\ Rest5
    \/ part = "compaction" /\ NoServer /\ Compaction!Init /\ Rest9
    \/ part = "notify" /\ NoServer /\ Notify!Init /\ v13 = None
    \/ part = "calls" /\ NoServer /\ Calls!Init /\ Rest5
    \/ part = "events" /\ NoServer /\ Events!Init /\ Rest7
    \/ part = "restore" /\ NoServer /\ Restoration!Init

InReload(Act) == part = "reload" /\ Act /\ UNCHANGED <<part, v>>
InCompaction(Act) == part = "compaction" /\ Act /\ UNCHANGED <<part, vars, Beyond8>>
InNotify(Act) == part = "notify" /\ Act /\ UNCHANGED <<part, vars, v13>>
InCalls(Act) == part = "calls" /\ Act /\ UNCHANGED <<part, vars, Beyond4>>
InEvents(Act) == part = "events" /\ Act /\ UNCHANGED <<part, vars, Beyond6>>
InRestore(Act) == part = "restore" /\ Act /\ UNCHANGED <<part, vars>>

PartsNext ==
    \/ InCompaction(Compaction!Next) \/ InReload(Next) \/ InNotify(Notify!Next)
    \/ InCalls(Calls!Next) \/ InEvents(Events!Next) \/ InRestore(Restoration!Next)

\* The fairness of each part, in its own behaviours.
PartsFairness ==
    /\ WF_all(InCompaction(Compaction!WorkerStep))
    /\ SF_all(InCompaction(Compaction!WorkerLock))
    /\ \A t \in Owner :
        /\ WF_all(InCompaction(v5[t] = "waiting" /\ Compaction!WaitForCompaction(t)))
        /\ WF_all(InCompaction(Compaction!CompactDone(t)))
        /\ WF_all(InCompaction(Compaction!Join(t)))
    /\ \A c \in Client : WF_all(InReload(Serve(c)))
    /\ WF_all(InReload(\E p \in Plan : Driver(p)))
    /\ WF_all(InReload(Handler))
    /\ \A w \in Watcher : WF_all(InReload(Watch(w)))
    /\ \A t \in Watcher \cup {Op} : WF_all(InReload(Swap(t)))
    /\ WF_all(InReload(Startup))
    /\ WF_all(InNotify(\E e \in v4 : Notify!publish(e)))
    /\ \A c \in Conn :
        /\ WF_all(InNotify(Notify!Serve(c)))
        /\ WF_all(InNotify(Notify!Push(c)))
        /\ WF_all(InNotify(Notify!write_sublagged(c)))
        /\ WF_all(InNotify(Notify!next_event(c)))
        /\ WF_all(InNotify(Notify!ShutdownClose(c)))
    /\ \A c \in 1 .. 3 :
        /\ WF_all(InCalls(Calls!round_trip(c)))
        /\ WF_all(InCalls(Calls!Write(c)))
        /\ WF_all(InCalls(Calls!Read(c)))
        /\ WF_all(InCalls(Calls!IoError(c)))
        /\ WF_all(InCalls(Calls!roundTrip(c)))
    /\ \A k \in {1, 2} :
        /\ WF_all(InCalls(Calls!onData(k)))
        /\ WF_all(InCalls(Calls!SocketClosed(k)))
        /\ WF_all(InCalls(Calls!handle_connection_stream(k)))
    /\ WF_all(InRestore(Restoration!Restoring))

PartsSpec == PartsInit /\ [][PartsNext]_all /\ PartsFairness

-----------------------------------------------------------------------------
(* The properties of the other parts, each in its own behaviours.          *)

\* A client that keeps the highest version it is told and reads anew on a
\* SubLagged misses nothing that its filter matches and its read rule allows, and
\* hands on nothing else, its own writes included, which the server still sends it,
\* in whatever order writers publish and however full the buffer is; the hub holds exactly what the open connections think they have, and
\* the process-wide count is theirs and never above its cap, whichever way a
\* connection ends and however SUBSCRIBEs race.
SubscriptionsExact ==
    part = "notify" => Notify!NoSilentGap /\ Notify!PushesSubscribed /\ Notify!RegistrationsExact

\* A client is answered with what is its own, once.  What a call returns is the
\* reply to its own request, and an execute runs the query its statement was
\* prepared from, whatever timeouts, dropped futures, lost connections and other
\* clients' statements come between.  Calls to next get the stream's notifications
\* in order, each once and none left out, then the terminal error once, then the
\* end; and a subscription that is over leaves no call open.
AnswersOwn ==
    /\ part = "calls" => Calls!AnswersOwn
    /\ part = "events" => Events!EventsOnce /\ Events!SubscriberSettled

\* A server that serves holds exactly one database: the whole image it was last
\* given and every write acknowledged since; and while RESTORE_DONE names a
\* snapshot, no power loss can take any of its files away.
ServedWhole == part = "restore" => Restoration!ServedWhole /\ Restoration!DoneIsDurable

\* A database that clients were promised is only ever discarded by a restore or an
\* import that was given its force flag.
LossNeedsForce == [][part = "restore" => Restoration!ForcedLoss]_all

\* The subscriptions of notify's setups, but for one that is like the third.
Sub(i) == <<<<1, 1>>, <<1, 2>>, <<2, 1>>>>[i]
Lagging(c, h) == h \in DOMAIN v8[c].subs /\ v8[c].subs[h].lagged

\* What the i-th waiter of a part waits in, and what ends its wait.
Waits(i) ==
    CASE part = "compaction" -> (i = 1 /\ v1) \/ (i = 2 /\ \E t \in Owner : v5[t] = "joining")
      [] part = "reload" -> i = 1
      [] part = "notify" -> Lagging(Sub(i)[1], Sub(i)[2])
      [] part = "calls" -> v2[i].at /= "idle"
      [] part = "restore" -> i = 1 /\ v1.fixed
      [] OTHER -> FALSE

Settled(i) ==
    CASE part = "compaction" -> (i = 1 /\ (~v1 \/ v3)) \/ (i = 2 /\ \A t \in Owner : v5[t] /= "joining")
      [] part = "reload" -> \A f \in Field \ odd : Serves(f)
      [] part = "notify" -> ~Lagging(Sub(i)[1], Sub(i)[2])
      [] part = "calls" -> v2[i].at = "done"
      [] part = "restore" -> Restoration!At("serving") \/ v12 /= {}
      [] OTHER -> TRUE

\* Nobody waits for ever.  A signal for compaction is served, or the tree is torn
\* down, and the destructor's join returns, whichever thread runs it.  After a
\* cutover the server reloads by itself, unless another migration started before.
\* Word of a dropped event does not wait for another event.  Every call of a
\* client settles.  With its flags left as they are, a server that crashed in a
\* restore ends up serving, unless the crash tore the marker or the sentinel.
ServicesSettle == \A i \in 1 .. 3 : Waits(i) ~> Settled(i)

\* "Cleanly close: send `UNSUBSCRIBE`, then resolve once the server's `DONE` ack
\* arrives ... Rejects if the connection fails first" (subscription.ts): once the
\* subscription is over, every unsubscribe() has been settled.
UnsubscribeSettles == part = "events" => Events!UnsubscribeSettles
=============================================================================
