---------------------------- MODULE Subscriptions ----------------------------
(***************************************************************************)
(* Change notification: the hub that commits publish to (crates/           *)
(* rhypedb-subscribe), the server's connections that push its events       *)
(* through a bounded buffer (crates/rhypedb-server: lib.rs) and the client *)
(* that reads them (crates/rhypedb-client: subscription.rs).               *)
(*                                                                         *)
(* An event is the object and version its commit wrote, its kind, whether  *)
(* the read rule allows the snapshot it carries and whether it fits a      *)
(* frame.  A writer commits first and publishes later, so events of two    *)
(* commits may be published in either order; a publication holds the hub's *)
(* lock and is one step.  The client keeps the highest version it has been *)
(* told of each object and reads the database anew when it is told that it *)
(* lagged, as the protocol asks of it.  A filter's origin stays with the   *)
(* client: a subscription over the network is sent its own writes, and the *)
(* client drops them.                                                      *)
(***************************************************************************)
EXTENDS Integers, SequencesExt, FiniteSetsExt, Functions, TLC

CONSTANTS
    Setups,                     \* filters, kinds of events, calls and bounds
    Conn, Handle, Obj,
    None,
    EVENT_CHANNEL_CAP,
    MAX_SUBSCRIPTIONS_PER_CONN,
    MAX_SUBSCRIPTIONS_TOTAL,
    OutCap                      \* frames a socket holds before a write waits

VARIABLES
    setup,
    db,             \* the version of each object
    events,         \* every event committed
    unpublished,    \* those whose publish is still to come
    hub,            \* subscriptions, in order of registration
    next_id,
    network_subs,
    conn,           \* the connections, both ends
    local,          \* an in-process subscriber: its hub id and its queue
    down,           \* the shutdown signal
    left,           \* what remains of the setup's bounds
    odd             \* history: handles that were used again

vars == <<setup, db, events, unpublished, hub, next_id, network_subs, conn, local, down, left, odd>>

\* subs: by handle; chan, permit: the buffer and lag_signal; slot: the step of
\* a SUBSCRIBE being served; in, out: the socket; asked: the filters of the
\* client's requests without a reply yet, in order; view: its handles.
FreshConn == [open |-> TRUE, mode |-> FALSE, subs |-> <<>>, chan |-> <<>>, permit |-> FALSE,
              slot |-> None, in |-> <<>>, out |-> <<>>, asked |-> <<>>, view |-> <<>>]

NoLocal == [id |-> 0, queue |-> <<>>, alive |-> FALSE]

Frame(kind, h) == [kind |-> kind, h |-> h, event |-> None]

-----------------------------------------------------------------------------
(* Commits and the hub.                                                    *)

Commit(o) ==
    /\ left.commits > 0
    /\ \E shape \in setup.shapes :
        LET e == [obj |-> o, version |-> db[o] + 1, kind |-> shape.kind, origin |-> shape.origin,
                  readable |-> shape.readable, big |-> shape.big] IN
        /\ events' = events \cup {e}
        /\ unpublished' = unpublished \cup {e}
    /\ db' = [db EXCEPT ![o] = @ + 1]
    /\ left' = [left EXCEPT !.commits = @ - 1]
    /\ UNCHANGED <<setup, hub, next_id, network_subs, conn, local, down, odd>>

Own(filter, e) == filter.exclude /= None /\ e.origin = filter.exclude

matches(filter, e) ==
    /\ e.obj \in filter.objs
    /\ filter.kinds /= {} => e.kind \in filter.kinds
    /\ ~Own(filter, e)

\* Mutant: a full buffer drops the event and says nothing.
deliverSilent(c, sub, e) ==
    IF Len(c.chan) < EVENT_CHANNEL_CAP
    THEN [c EXCEPT !.chan = Append(@, [h |-> sub.h, event |-> e])]
    ELSE c

\* ConnEventSink: never waits; a full buffer drops the event and flags it.
deliver(c, sub, e) ==
    IF Len(c.chan) < EVENT_CHANNEL_CAP
    THEN [c EXCEPT !.chan = Append(@, [h |-> sub.h, event |-> e])]
    ELSE [c EXCEPT !.subs[sub.h].lagged = TRUE, !.permit = TRUE]

\* The connection c after the hub has gone through its subscriptions.
Notified(c, e) ==
    FoldLeft(LAMBDA acc, sub : IF sub.conn = c /\ matches(sub.filter, e) THEN deliver(acc, sub, e) ELSE acc,
             conn[c], hub)

\* An in-process receiver that is gone takes its subscription with it.
publish(e) ==
    /\ e \in unpublished
    /\ unpublished' = unpublished \ {e}
    /\ conn' = [c \in Conn |-> Notified(c, e)]
    /\ LET mine == {i \in DOMAIN hub : hub[i].id = local.id /\ matches(hub[i].filter, e)} IN
        /\ local' = IF local.alive /\ mine /= {} THEN [local EXCEPT !.queue = Append(@, e)] ELSE local
        /\ hub' = IF local.alive THEN hub ELSE SelectSeq(hub, LAMBDA sub : sub.conn /= None \/ ~matches(sub.filter, e))
    /\ UNCHANGED <<setup, db, events, next_id, network_subs, down, left, odd>>

subscribe ==
    /\ setup.local /\ local.id = 0
    /\ \E f \in setup.filters : hub' = Append(hub, [id |-> next_id, conn |-> None, h |-> None, filter |-> f])
    /\ local' = [NoLocal EXCEPT !.id = next_id, !.alive = TRUE]
    /\ next_id' = next_id + 1
    /\ UNCHANGED <<setup, db, events, unpublished, network_subs, conn, down, left, odd>>

DropReceiver ==
    /\ local.alive
    /\ local' = [local EXCEPT !.alive = FALSE, !.queue = <<>>]
    /\ UNCHANGED <<setup, db, events, unpublished, hub, next_id, network_subs, conn, down, left, odd>>

-----------------------------------------------------------------------------
(* The client.                                                             *)

Send(c, frame, filter) == [conn EXCEPT ![c].in = Append(@, frame), ![c].asked = Append(@, filter)]

\* The wire filter cannot carry an origin.
encode_subscribe_filter(f) == [f EXCEPT !.exclude = None]

\* The Rust client subscribes once per connection; the protocol allows more.
SendSubscribe(c, h) ==
    /\ conn[c].open /\ conn[c].in = <<>> /\ left.subs > 0
    /\ setup.reuse \/ h \notin odd[c].used
    /\ \E f \in setup.filters : 
        conn' = Send(c, [kind |-> "subscribe", h |-> h, filter |-> encode_subscribe_filter(f)], f)
    /\ left' = [left EXCEPT !.subs = @ - 1]
    /\ UNCHANGED <<setup, db, events, unpublished, hub, next_id, network_subs, local, down, odd>>

SendUnsubscribe(c, h) ==
    /\ conn[c].open /\ conn[c].in = <<>> /\ left.unsubs > 0
    /\ conn' = Send(c, [kind |-> "unsubscribe", h |-> h], None)
    /\ left' = [left EXCEPT !.unsubs = @ - 1]
    /\ UNCHANGED <<setup, db, events, unpublished, hub, next_id, network_subs, local, down, odd>>

SendQuery(c) ==
    /\ conn[c].open /\ conn[c].in = <<>> /\ left.queries > 0
    /\ conn' = Send(c, [kind |-> "query", h |-> None], None)
    /\ left' = [left EXCEPT !.queries = @ - 1]
    /\ UNCHANGED <<setup, db, events, unpublished, hub, next_id, network_subs, local, down, odd>>

\* What a frame tells the client.  It starts from what it reads when it is
\* subscribed, with the filter it asked with; events only ever raise what it
\* knows, and those of its own origin it drops.  last is the event handed on.
Told(view, f, filter) ==
    CASE f.kind = "subscribed" -> (f.h :> [filter |-> filter, ver |-> db, last |-> None]) @@ view
      [] f.kind = "lagged" /\ f.h \in DOMAIN view -> [view EXCEPT ![f.h].ver = db]
      [] f.kind = "event" /\ f.h \in DOMAIN view /\ ~Own(view[f.h].filter, f.event) ->
            [view EXCEPT ![f.h].ver[f.event.obj] = IF f.event.version > @ THEN f.event.version ELSE @,
                         ![f.h].last = f.event]
      [] f.kind = "done" -> Restrict(view, DOMAIN view \ {f.h})
      [] OTHER -> view

\* Requests are answered in order, each by one of these.
Reply(f) == f.kind \in {"subscribed", "done", "result", "error"}

next_event(c) ==
    /\ conn[c].out /= <<>>
    /\ LET f == Head(conn[c].out) IN
        conn' = [conn EXCEPT ![c].out = Tail(@),
                             ![c].asked = IF Reply(f) THEN Tail(@) ELSE @,
                             ![c].view = Told(@, f, IF Reply(f) THEN Head(conn[c].asked) ELSE None)]
    /\ UNCHANGED <<setup, db, events, unpublished, hub, next_id, network_subs, local, down, left, odd>>

-----------------------------------------------------------------------------
(* The connection's loop: one of a frame, a push, a lag signal, shutdown.  *)

\* The loop is at its select and the socket takes what it may write.
Ready(c) == conn[c].open /\ conn[c].slot = None /\ Len(conn[c].out) < OutCap

Write(c, frames) == [conn EXCEPT ![c].out = @ \o frames]

TakesFrame(c, kind) == Ready(c) /\ conn[c].in /= <<>> /\ Head(conn[c].in).kind = kind

\* REQ_SUBSCRIBE up to the load of network_subs.
SubscribeRefused(c, f) ==
    \/ f.filter \in setup.denied
    \/ Cardinality(DOMAIN conn[c].subs) >= MAX_SUBSCRIPTIONS_PER_CONN
    \/ f.h \in DOMAIN conn[c].subs

Subscribe(c) ==
    /\ TakesFrame(c, "subscribe")
    /\ LET f == Head(conn[c].in) IN
        conn' = IF SubscribeRefused(c, f) \/ network_subs >= MAX_SUBSCRIPTIONS_TOTAL
                THEN [conn EXCEPT ![c].in = Tail(@), ![c].out = Append(@, Frame("error", f.h))]
                ELSE [conn EXCEPT ![c].in = Tail(@), ![c].slot = [h |-> f.h, filter |-> f.filter, cur |-> network_subs, held |-> FALSE]]
    /\ UNCHANGED <<setup, db, events, unpublished, hub, next_id, network_subs, local, down, left, odd>>

SlotTaken(cur) == network_subs = cur

\* compare_exchange on network_subs, with the retry and its refusal.
ReserveSlot(c) ==
    /\ conn[c].slot /= None /\ ~conn[c].slot.held
    /\ IF SlotTaken(conn[c].slot.cur)
       THEN /\ network_subs' = network_subs + 1
            /\ conn' = [conn EXCEPT ![c].slot.held = TRUE]
       ELSE /\ UNCHANGED network_subs
            /\ conn' = IF network_subs >= MAX_SUBSCRIPTIONS_TOTAL
                       THEN [conn EXCEPT ![c].slot = None, ![c].out = Append(@, Frame("error", conn[c].slot.h))]
                       ELSE [conn EXCEPT ![c].slot.cur = network_subs]
    /\ UNCHANGED <<setup, db, events, unpublished, hub, next_id, local, down, left, odd>>

\* The hub knows the sink before the client is told.
subscribe_sink(c) ==
    /\ conn[c].slot /= None /\ conn[c].slot.held
    /\ LET s == conn[c].slot IN
        /\ hub' = Append(hub, [id |-> next_id, conn |-> c, h |-> s.h, filter |-> s.filter])
        /\ conn' = [conn EXCEPT ![c].slot = None, ![c].mode = TRUE,
                                ![c].subs = (s.h :> [id |-> next_id, lagged |-> FALSE]) @@ @,
                                ![c].out = Append(@, [Frame("subscribed", s.h) EXCEPT !.event = s.filter])]
        /\ odd' = [odd EXCEPT ![c].reused = IF s.h \in odd[c].used THEN @ \cup {s.h} ELSE @,
                              ![c].used = @ \cup {s.h}]
    /\ next_id' = next_id + 1
    /\ UNCHANGED <<setup, db, events, unpublished, network_subs, local, down, left>>

\* ConnSubscriptions: what a connection's entries leave behind in the hub.
Unregistered(ids) == SelectSeq(hub, LAMBDA sub : sub.id \notin ids)
Ids(c) == {conn[c].subs[h].id : h \in DOMAIN conn[c].subs}

remove(c) ==
    /\ TakesFrame(c, "unsubscribe")
    /\ LET h == Head(conn[c].in).h
           served == [conn EXCEPT ![c].in = Tail(@)] IN
        IF h \in DOMAIN conn[c].subs
        THEN /\ hub' = Unregistered({conn[c].subs[h].id})
             /\ network_subs' = network_subs - 1
             /\ conn' = [served EXCEPT ![c].subs = Restrict(@, DOMAIN @ \ {h}), ![c].out = Append(@, Frame("done", h))]
        ELSE /\ conn' = [served EXCEPT ![c].out = Append(@, Frame("error", h))]
             /\ UNCHANGED <<hub, network_subs>>
    /\ UNCHANGED <<setup, db, events, unpublished, next_id, local, down, left, odd>>

\* A connection that has subscribed answers no queries any more.
Query(c) ==
    /\ TakesFrame(c, "query")
    /\ conn' = [conn EXCEPT ![c].in = Tail(@),
                            ![c].out = Append(@, Frame(IF conn[c].mode THEN "error" ELSE "result", None))]
    /\ UNCHANGED <<setup, db, events, unpublished, hub, next_id, network_subs, local, down, left, odd>>

event_read_allowed(e) == setup.rules => e.readable

\* An event too large for a frame is told as a lag.
write_event_push(h, e) == IF e.big THEN Frame("lagged", h) ELSE [Frame("event", h) EXCEPT !.event = e]

\* The frames a push makes: none once its handle is gone; a gap is told first.
Pushes(c, push) ==
    IF push.h \notin DOMAIN conn[c].subs THEN <<>>
    ELSE (IF conn[c].subs[push.h].lagged THEN <<Frame("lagged", push.h)>> ELSE <<>>)
         \o (IF event_read_allowed(push.event) THEN <<write_event_push(push.h, push.event)>> ELSE <<>>)

Push(c) ==
    /\ Ready(c) /\ conn[c].chan /= <<>>
    /\ LET push == Head(conn[c].chan) IN
        conn' = [conn EXCEPT ![c].chan = Tail(@), ![c].out = @ \o Pushes(c, push),
                             ![c].subs = [h \in DOMAIN @ |-> IF h = push.h THEN [@[h] EXCEPT !.lagged = FALSE] ELSE @[h]]]
    /\ UNCHANGED <<setup, db, events, unpublished, hub, next_id, network_subs, local, down, left, odd>>

\* lag_signal: every flagged subscription is told, and its flag cleared.
write_sublagged(c) ==
    /\ Ready(c) /\ conn[c].permit
    /\ LET flagged == {h \in DOMAIN conn[c].subs : conn[c].subs[h].lagged} IN
        conn' = [conn EXCEPT ![c].permit = FALSE,
                             ![c].out = @ \o SetToSeq({Frame("lagged", h) : h \in flagged}),
                             ![c].subs = [h \in DOMAIN @ |-> [@[h] EXCEPT !.lagged = FALSE]]]
    /\ UNCHANGED <<setup, db, events, unpublished, hub, next_id, network_subs, local, down, left, odd>>

Released(c) == Cardinality(DOMAIN conn[c].subs)

\* Drop: on every way out the hub and the count forget the connection.
Close(c, frames) ==
    /\ hub' = Unregistered(Ids(c))
    /\ network_subs' = network_subs - Released(c)
    /\ conn' = [conn EXCEPT ![c] = [FreshConn EXCEPT !.open = FALSE, !.view = conn[c].view,
                                                 !.asked = conn[c].asked,
                                                 !.out = conn[c].out \o frames]]
    /\ UNCHANGED <<setup, db, events, unpublished, next_id, local, down, left, odd>>

\* The signal: each subscription is told, as far as the socket takes it.
ShutdownClose(c) ==
    /\ down /\ Ready(c)
    /\ Close(c, SetToSeq({Frame("lagged", h) : h \in DOMAIN conn[c].subs}))

\* A read or a write fails.
Disconnect(c) == setup.drops /\ conn[c].open /\ conn[c].slot = None /\ Close(c, <<>>)

Shutdown ==
    /\ setup.shutdown /\ ~down
    /\ down' = TRUE
    /\ UNCHANGED <<setup, db, events, unpublished, hub, next_id, network_subs, conn, local, left, odd>>

-----------------------------------------------------------------------------
Init ==
    /\ setup \in Setups
    /\ db = [o \in Obj |-> 0]
    /\ events = {} /\ unpublished = {}
    /\ hub = <<>> /\ next_id = 1 /\ network_subs = 0
    /\ conn = [c \in Conn |-> FreshConn]
    /\ local = NoLocal
    /\ down = FALSE
    /\ left = setup.left
    /\ odd = [c \in Conn |-> [used |-> {}, reused |-> {}]]

Serve(c) == Subscribe(c) \/ ReserveSlot(c) \/ subscribe_sink(c) \/ remove(c) \/ Query(c)

Next ==
    \/ \E o \in setup.objs : Commit(o)
    \/ \E e \in unpublished : publish(e)
    \/ subscribe \/ DropReceiver \/ Shutdown
    \/ \E c \in setup.conns :
        \/ \E h \in setup.handles : SendSubscribe(c, h) \/ SendUnsubscribe(c, h)
        \/ SendQuery(c) \/ next_event(c)
        \/ Serve(c) \/ Push(c) \/ write_sublagged(c) \/ ShutdownClose(c) \/ Disconnect(c)

\* select! picks among the ready arms at random and the client reads on.
Fairness ==
    /\ WF_vars(\E e \in unpublished : publish(e))
    /\ \A c \in Conn :
        /\ WF_vars(Serve(c)) /\ WF_vars(Push(c)) /\ WF_vars(write_sublagged(c))
        /\ WF_vars(next_event(c)) /\ WF_vars(ShutdownClose(c))

Spec == Init /\ [][Next]_vars /\ Fairness

-----------------------------------------------------------------------------
(* Properties.                                                             *)

InSeq(x, s) == \E i \in DOMAIN s : s[i] = x

\* A client that keeps the highest version it is told and reads anew on a
\* SubLagged misses nothing: what a commit wrote that its filter matches and
\* its read rule allows, it knows, or the event, or word of a gap, is on its
\* way; in whatever order writers publish and however full the buffer is.
NoSilentGap ==
    \A c \in Conn : \A h \in DOMAIN conn[c].view \cap DOMAIN conn[c].subs : \A e \in events :
        matches(conn[c].view[h].filter, e) /\ event_read_allowed(e) =>
            \/ \E i \in DOMAIN conn[c].out : conn[c].out[i].h = h /\ conn[c].out[i].kind \in {"subscribed", "done"}
            \/ conn[c].view[h].ver[e.obj] >= e.version
            \/ e \in unpublished
            \/ InSeq([h |-> h, event |-> e], conn[c].chan)
            \/ conn[c].subs[h].lagged
            \/ \E i \in DOMAIN conn[c].out : conn[c].out[i].h = h /\ conn[c].out[i].kind \in {"event", "lagged"}
                    /\ (conn[c].out[i].kind = "event" => conn[c].out[i].event = e)

\* The wire filter of h as the client knows it when it comes to read out[i].
Holds(c, i) ==
    LET h == conn[c].out[i].h
        acks == {j \in 1 .. i - 1 : conn[c].out[j].h = h /\ conn[c].out[j].kind \in {"subscribed", "done"}}
        last == conn[c].out[Max(acks)]
    IN  IF acks = {} THEN (IF h \in DOMAIN conn[c].view THEN {encode_subscribe_filter(conn[c].view[h].filter)} ELSE {})
        ELSE IF last.kind = "subscribed" THEN {last.event} ELSE {}

\* An event reaches a client only under a handle it has been told is
\* subscribed and not yet that it is unsubscribed, if it matches the filter
\* that went over the wire and the read rule allows it; what the client hands
\* on matches the filter it asked with, and so does what an in-process
\* subscriber is sent.  (A handle that is used again may still get what its
\* first subscription left in the buffer.)
PushesSubscribed ==
    /\ \A c \in Conn : \A i \in DOMAIN conn[c].out : conn[c].out[i].kind = "event" =>
        /\ event_read_allowed(conn[c].out[i].event)
        /\ \/ conn[c].out[i].h \in odd[c].reused
           \/ \E f \in Holds(c, i) : matches(f, conn[c].out[i].event)
    /\ \A c \in Conn : \A h \in DOMAIN conn[c].view \ odd[c].reused :
        LET last == conn[c].view[h].last IN last /= None => matches(conn[c].view[h].filter, last)
    /\ \A i \in DOMAIN hub : hub[i].id = local.id =>
        \A j \in DOMAIN local.queue : matches(hub[i].filter, local.queue[j])

\* The hub holds exactly what the open connections think they have, and the
\* process-wide count is theirs and never above its cap, whichever way a
\* connection ends and however SUBSCRIBEs race.
RegistrationsExact ==
    /\ {<<hub[i].conn, hub[i].h, hub[i].id>> : i \in {j \in DOMAIN hub : hub[j].conn /= None}}
       = UNION {{<<c, h, conn[c].subs[h].id>> : h \in DOMAIN conn[c].subs} : c \in Conn}
    /\ network_subs = MapThenSumSet(LAMBDA c : Cardinality(DOMAIN conn[c].subs)
                                      + (IF conn[c].slot /= None /\ conn[c].slot.held THEN 1 ELSE 0), Conn)
    /\ network_subs <= MAX_SUBSCRIPTIONS_TOTAL

\* Word of a dropped event does not wait for another event.
LagTold ==
    \A c \in Conn : \A h \in Handle :
        (h \in DOMAIN conn[c].subs /\ conn[c].subs[h].lagged)
            ~> ~(h \in DOMAIN conn[c].subs /\ conn[c].subs[h].lagged)
====
