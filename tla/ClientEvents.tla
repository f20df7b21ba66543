----------------------------- MODULE ClientEvents -----------------------------
(***************************************************************************)
(* A subscriber's end of the event stream.  "ts" is the AsyncSubscription  *)
(* of clients/typescript: next() calls may be made ahead of the events,    *)
(* socket callbacks queue items and serve the waiting calls.  "rust" is    *)
(* AsyncSubscription of crates/rhypedb-client: one next_event at a time,   *)
(* which reads the socket itself and may be dropped between two reads; the *)
(* blocking Subscription is the same without the drops.                    *)
(*                                                                         *)
(* A frame crosses the socket in two parts, so that a read can end inside  *)
(* one.  What the server sends is the setup's script; module Subscriptions *)
(* has the server's side.                                                  *)
(***************************************************************************)
EXTENDS Integers, SequencesExt, FiniteSetsExt

CONSTANTS
    Setups,         \* [kind, script, calls, unsubs, drops]
    None

VARIABLES
    setup,
    sub,            \* the subscription's fields; seen: notifications read (history)
    calls,          \* what each next() came to, in call order
    promise,        \* the opening handshake and each unsubscribe()
    net,            \* [up, parts]: the socket towards the client
    sent            \* [n: frames sent, asked: UNSUBSCRIBEs, over]: the server

vars == <<setup, sub, calls, promise, net, sent>>

Waiting == [kind |-> "waiting", n |-> 0]
Done == [kind |-> "done", n |-> 0]
Fatal == [kind |-> "fatal", n |-> 0]

Parts(frame) == <<[frame |-> frame, last |-> FALSE], [frame |-> frame, last |-> TRUE]>>

\* open: SUBSCRIBE is written; the ack is the server's first frame.
Init ==
    /\ setup \in Setups
    /\ sub = [items |-> <<>>, waiters |-> <<>>, ended |-> FALSE, terminated |-> FALSE, fatal |-> FALSE,
              awaitingAck |-> TRUE, unsub |-> None, half |-> FALSE, seen |-> 0]
    /\ calls = <<>>
    /\ promise = [open |-> "waiting", unsubs |-> <<>>]
    /\ net = [up |-> TRUE, parts |-> <<>>]
    /\ sent = [n |-> 0, asked |-> 0, over |-> FALSE]

\* Fields, call results and promises change together.
Now == [sub |-> sub, calls |-> calls, promise |-> promise]
Become(s) == sub' = s.sub /\ calls' = s.calls /\ promise' = s.promise

-----------------------------------------------------------------------------
(* The TypeScript subscription.                                            *)

\* The loop of #pump: waiting calls get items while there are some.
pumpItems(s) ==
    LET w == s.sub.waiters
        n == Min({Len(w), Len(s.sub.items)})
    IN [s EXCEPT !.calls = [c \in DOMAIN @ |-> IF \E i \in 1 .. n : w[i] = c
                                               THEN s.sub.items[CHOOSE i \in 1 .. n : w[i] = c] ELSE @[c]],
                 !.sub.waiters = SubSeq(w, n + 1, Len(w)),
                 !.sub.items = SubSeq(@, n + 1, Len(@))]

\* #pump: items in order, then the terminal error once, then done.
pump(s) ==
    LET t == pumpItems(s)
        w == t.sub.waiters
        ended == t.sub.ended \/ (w /= <<>> /\ t.sub.fatal)
        Rest(c) == IF t.sub.fatal /\ c = Head(w) THEN Fatal ELSE Done
    IN IF w = <<>> \/ ~ended THEN t
       ELSE [t EXCEPT !.calls = [c \in DOMAIN @ |-> IF c \in ToSet(w) THEN Rest(c) ELSE @[c]],
                      !.sub.waiters = <<>>, !.sub.fatal = FALSE, !.sub.ended = TRUE]

\* The promise of an unsubscribe() that is waiting, and the handshake's.
Unsubscribed(s, as) ==
    IF s.sub.unsub = None THEN s
    ELSE [s EXCEPT !.promise.unsubs[s.sub.unsub] = as, !.sub.unsub = None]

Acked(s, as) ==
    IF s.sub.awaitingAck THEN [s EXCEPT !.promise.open = as, !.sub.awaitingAck = FALSE] ELSE s

\* #terminate
terminate(s) ==
    IF s.sub.terminated \/ s.sub.ended THEN s
    ELSE pump([Acked(Unsubscribed(s, "rejected"), "rejected") EXCEPT
                !.sub.terminated = TRUE, !.sub.fatal = TRUE])

\* #endClean
endClean(s) == pump([s EXCEPT !.sub.ended = TRUE, !.sub.terminated = TRUE])

\* #classify: an event whose payload is malformed is an item as well.
classify(s, f) ==
    CASE s.sub.terminated -> s
      [] ~s.sub.terminated /\ s.sub.awaitingAck ->
            IF f.kind = "subscribed" THEN Acked(s, "resolved") ELSE endClean(Acked(s, "rejected"))
      [] ~s.sub.terminated /\ ~s.sub.awaitingAck /\ f.kind = "mine" -> s
      [] ~s.sub.terminated /\ ~s.sub.awaitingAck /\ f.kind \in {"event", "bad", "lagged"} ->
            [s EXCEPT !.sub.items = Append(@, f), !.sub.seen = @ + 1]
      [] ~s.sub.terminated /\ ~s.sub.awaitingAck /\ f.kind = "done" ->
            IF s.sub.unsub /= None THEN endClean(Unsubscribed(s, "resolved")) ELSE terminate(s)
      [] OTHER -> terminate(s)

\* FrameParser: the frames a chunk completes; the rest stays buffered.
Completed(parts) ==
    LET ends == SelectSeq(parts, LAMBDA p : p.last) IN [i \in DOMAIN ends |-> ends[i].frame]

onData(n) ==
    /\ setup.kind = "ts" /\ n \in 1 .. Len(net.parts) /\ ~sub.terminated
    /\ LET got == SubSeq(net.parts, 1, n) IN
        Become(pump([FoldLeft(classify, Now, Completed(got)) EXCEPT !.sub.half = ~got[n].last]))
    /\ net' = [net EXCEPT !.parts = SubSeq(@, n + 1, Len(@))]
    /\ UNCHANGED <<setup, sent>>

\* The socket's "error" and "close" events.
SocketClosed ==
    /\ setup.kind = "ts" /\ ~net.up /\ net.parts = <<>> /\ ~sub.terminated
    /\ Become(terminate(Now))
    /\ UNCHANGED <<setup, net, sent>>

next ==
    /\ setup.kind = "ts" /\ promise.open = "resolved" /\ Len(calls) < setup.calls
    /\ LET Got(r) == Append(calls, r) IN
        \/ /\ sub.items /= <<>>
           /\ calls' = Got(Head(sub.items)) /\ sub' = [sub EXCEPT !.items = Tail(@)]
        \/ /\ sub.items = <<>> /\ sub.fatal
           /\ calls' = Got(Fatal) /\ sub' = [sub EXCEPT !.fatal = FALSE, !.ended = TRUE]
        \/ /\ sub.items = <<>> /\ ~sub.fatal /\ sub.ended
           /\ calls' = Got(Done) /\ UNCHANGED sub
        \/ /\ sub.items = <<>> /\ ~sub.fatal /\ ~sub.ended
           /\ calls' = Got(Waiting) /\ sub' = [sub EXCEPT !.waiters = Append(@, Len(calls) + 1)]
    /\ UNCHANGED <<setup, promise, net, sent>>

unsubscribe ==
    /\ setup.kind = "ts" /\ promise.open = "resolved" /\ Len(promise.unsubs) < setup.unsubs
    /\ IF sub.ended \/ sub.terminated
       THEN promise' = [promise EXCEPT !.unsubs = Append(@, "resolved")] /\ UNCHANGED <<sub, sent>>
       ELSE /\ promise' = [promise EXCEPT !.unsubs = Append(@, "waiting")]
            /\ sub' = [sub EXCEPT !.unsub = Len(promise.unsubs) + 1]
            /\ sent' = [sent EXCEPT !.asked = @ + 1]
    /\ UNCHANGED <<setup, calls, net>>

\* close, and return, which a broken-off for await calls.
close ==
    /\ setup.kind = "ts" /\ setup.drops /\ promise.open = "resolved" /\ ~sub.terminated
    /\ Become(pump([Acked(Unsubscribed(Now, "rejected"), "rejected") EXCEPT
                !.sub.terminated = TRUE, !.sub.ended = TRUE, !.sub.fatal = FALSE]))
    /\ UNCHANGED <<setup, net, sent>>

-----------------------------------------------------------------------------
(* The Rust subscription.                                                  *)

Polling == calls /= <<>> /\ calls[Len(calls)].kind = "waiting"

\* next_event: nothing is read once the stream has ended.
next_event ==
    /\ setup.kind = "rust" /\ promise.open = "resolved" /\ ~Polling /\ Len(calls) < setup.calls
    /\ calls' = Append(calls, IF sub.ended THEN Done ELSE Waiting)
    /\ UNCHANGED <<setup, sub, promise, net, sent>>

Return(r) == calls' = [calls EXCEPT ![Len(calls)] = r]

\* One read of the socket by FrameReader, then classify and is_excluded.
poll_next ==
    /\ setup.kind = "rust" /\ (Polling \/ sub.awaitingAck) /\ net.parts /= <<>>
    /\ LET p == Head(net.parts)
           f == p.frame
           broken == p.last /= sub.half
           ends == broken \/ f.kind \notin {"event", "bad", "lagged", "mine"}
       IN IF ~p.last /\ ~broken
          THEN sub' = [sub EXCEPT !.half = TRUE] /\ UNCHANGED <<calls, promise>>
          ELSE IF sub.awaitingAck
          THEN /\ promise' = [promise EXCEPT !.open = IF f.kind = "subscribed" THEN "resolved" ELSE "rejected"]
               /\ sub' = [sub EXCEPT !.half = FALSE, !.awaitingAck = FALSE, !.ended = f.kind /= "subscribed"]
               /\ UNCHANGED calls
          ELSE /\ IF f.kind = "mine" /\ ~broken THEN UNCHANGED calls ELSE Return(IF ends THEN Fatal ELSE f)
               /\ sub' = [sub EXCEPT !.half = FALSE, !.ended = ends,
                                     !.seen = IF ends \/ f.kind = "mine" THEN @ ELSE @ + 1]
               /\ UNCHANGED promise
    /\ net' = [net EXCEPT !.parts = Tail(@)]
    /\ UNCHANGED <<setup, sent>>

\* End of file, inside a frame or between two.
ReadFails ==
    /\ setup.kind = "rust" /\ ~net.up /\ net.parts = <<>>
    /\ IF sub.awaitingAck
       THEN /\ promise' = [promise EXCEPT !.open = "rejected"]
            /\ sub' = [sub EXCEPT !.awaitingAck = FALSE, !.ended = TRUE] /\ UNCHANGED calls
       ELSE Polling /\ Return(Fatal) /\ sub' = [sub EXCEPT !.ended = TRUE] /\ UNCHANGED promise
    /\ UNCHANGED <<setup, net, sent>>

\* The future of next_event is dropped: FrameReader keeps what it has read.
DropPoll ==
    /\ setup.kind = "rust" /\ setup.drops /\ Polling
    /\ calls' = Front(calls)
    /\ UNCHANGED <<setup, sub, promise, net, sent>>

-----------------------------------------------------------------------------
(* The server and the network.                                             *)

Push ==
    /\ net.up /\ sent.n < Len(setup.script) /\ ~sent.over
    /\ net' = [net EXCEPT !.parts = @ \o Parts(setup.script[sent.n + 1])]
    /\ sent' = [sent EXCEPT !.n = @ + 1]
    /\ UNCHANGED <<setup, sub, calls, promise>>

\* Each UNSUBSCRIBE is answered; after the first the subscription is gone.
AnswerUnsubscribe ==
    /\ net.up /\ sent.asked > 0
    /\ net' = [net EXCEPT !.parts = @ \o Parts([kind |-> "done", n |-> 0])]
    /\ sent' = [sent EXCEPT !.asked = @ - 1, !.over = TRUE]
    /\ UNCHANGED <<setup, sub, calls, promise>>

\* The connection ends, perhaps inside a frame.
Lost ==
    /\ net.up
    /\ \E n \in {Len(net.parts), Len(net.parts) - 1} \cap Nat : net' = [up |-> FALSE, parts |-> SubSeq(net.parts, 1, n)]
    /\ UNCHANGED <<setup, sub, calls, promise, sent>>

Next ==
    \/ \E n \in 1 .. Len(net.parts) : onData(n)
    \/ SocketClosed \/ next \/ unsubscribe \/ close
    \/ next_event \/ poll_next \/ ReadFails \/ DropPoll
    \/ Push \/ AnswerUnsubscribe \/ Lost

Spec == Init /\ [][Next]_vars

-----------------------------------------------------------------------------
(* Properties.                                                             *)

\* What reaches the caller, by the script: all but the subscriber's own events.
Deliverable == SelectSeq(setup.script, LAMBDA f : f.kind \in {"event", "bad", "lagged"})

\* Calls to next are answered in order with the stream's notifications, each
\* once and none left out, then with the terminal error at most once, and only
\* if the server or the network ended the stream, then with the end: whatever the chunks they arrive in, the calls made ahead of them, a
\* dropped future in the middle of a frame, or an end of the connection.
EventsOnce ==
    \A c \in {d \in DOMAIN calls : calls[d].kind /= "waiting"} :
        \/ c <= Len(Deliverable) /\ calls[c] = Deliverable[c]
        \/ /\ calls[c].kind \in {"fatal", "done"}
           /\ {d \in 1 .. c - 1 : calls[d].kind \notin {"fatal", "done"}} = 1 .. sub.seen
           /\ calls[c].kind = "fatal" =>
                c = sub.seen + 1 /\ (~net.up \/ \E i \in 1 .. sent.n : setup.script[i].kind = "error")

\* A terminated subscription leaves no promise open, and no next() waits while
\* there is something to give it.
SubscriberSettled ==
    /\ sub.terminated => sub.waiters = <<>> /\ promise.open /= "waiting" /\ sub.unsub = None
    /\ sub.items /= <<>> \/ sub.fatal => sub.waiters = <<>>

\* "Cleanly close: send `UNSUBSCRIBE`, then resolve once the server's `DONE` ack
\* arrives ... Rejects if the connection fails first" (subscription.ts): once the
\* subscription is over, every unsubscribe() has been settled.
UnsubscribeSettles == sub.terminated => \A i \in DOMAIN promise.unsubs : promise.unsubs[i] /= "waiting"
=============================================================================
