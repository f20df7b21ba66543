----------------------------- MODULE ClientCalls -----------------------------
(***************************************************************************)
(* Requests and replies on a client's one connection: the blocking Rust    *)
(* client, the async Rust client, whose futures may be dropped, and the    *)
(* TypeScript client, which pipelines (crates/rhypedb-client and           *)
(* clients/typescript); and the connection's task in the server, which     *)
(* answers frame by frame and keeps prepared statements for itself.        *)
(*                                                                         *)
(* Nothing in a reply says which request it answers but its place in the   *)
(* stream.  A frame is a record; a write that fails may have put a part of *)
(* a frame on the stream, which ends it for the server.  Each call is made *)
(* once, by one task.                                                      *)
(***************************************************************************)
EXTENDS Integers, SequencesExt, Functions

CONSTANTS
    Setups,             \* [kind, program, timeouts, closes, loses]
    Client, MAX_PREPARED_PER_CONN,
    Call,               \* 1 .. n, begun in this order
    None

VARIABLES
    setup,
    call,               \* each call: where it is, its client, what it asks
    conn,               \* each client's connection, both ends
    stmts               \* Prepared values callers hold

vars == <<setup, call, conn, stmts>>

\* What a call has come to other than a reply.
Told(what) == [kind |-> what, to |-> None]

Idle == [at |-> "idle", client |-> None, ask |-> None, got |-> Told("nothing")]

\* holder: the task in the mutex; in, out: the two directions of the socket;
\* pending: calls waiting for a reply, oldest first; prepared: the server's
\* statements, by id.
connect == [dead |-> FALSE, holder |-> None, pending |-> <<>>, up |-> TRUE,
            in |-> <<>>, out |-> <<>>, prepared |-> <<>>]

Init ==
    /\ setup \in Setups
    /\ call = [c \in Call |-> Idle]
    /\ conn = [k \in Client |-> connect]
    /\ stmts = {}

-----------------------------------------------------------------------------
(* What is asked.  A query is known by the call that made it.              *)

\* The program of a setup says what each call is; a statement is any one held.
Asks(op) ==
    CASE op = "execute" -> {[op |-> op, stmt |-> s] : s \in stmts}
      [] op = "batch" -> {[op |-> op, fits |-> f] : f \in BOOLEAN}
      [] OTHER -> {[op |-> op]}

\* ingest_vectors and run_prepared refuse before any I/O.
Refused(k, ask) ==
    \/ ask.op = "batch" /\ ~ask.fits
    \/ ask.op = "execute" /\ ask.stmt.client /= k

Settled(c, got) == call' = [call EXCEPT ![c].at = "done", ![c].got = got]

\* A call starts; the async and the blocking clients queue for the mutex.
Begin(c) ==
    /\ call[c].at = "idle" /\ \A d \in 1 .. c - 1 : call[d].at /= "idle"
    /\ LET k == setup.program[c].client IN
       \E ask \in Asks(setup.program[c].op) :
        call' = [call EXCEPT ![c] =
                    IF Refused(k, ask) THEN [at |-> "done", client |-> k, ask |-> ask, got |-> Told("refused")]
                    ELSE [at |-> "queued", client |-> k, ask |-> ask, got |-> Told("nothing")]]
    /\ UNCHANGED <<setup, conn, stmts>>

Request(c) == [call |-> c, ask |-> call[c].ask]

\* A reply to prepare becomes a Prepared, branded with its client.
Take(c, frame) ==
    /\ Settled(c, frame)
    /\ stmts' = IF frame.kind = "prepared"
                THEN stmts \cup {[id |-> frame.id, client |-> call[c].client, of |-> c]} ELSE stmts

-----------------------------------------------------------------------------
(* The Rust clients: one task at a time owns the connection.               *)

Rust == setup.kind \in {"blocking", "async"}

\* Mutant: the async client marks the connection dead on an error only, so that
\* a dropped future leaves it open.
round_tripUnmarked(c) ==
    /\ Rust /\ call[c].at = "queued"
    /\ LET k == call[c].client IN
        /\ conn[k].holder = None
        /\ IF conn[k].dead
           THEN Settled(c, Told("closed")) /\ UNCHANGED conn
           ELSE /\ call' = [call EXCEPT ![c].at = "writing"]
                /\ conn' = [conn EXCEPT ![k].holder = c]
    /\ UNCHANGED <<setup, stmts>>

\* round_trip: the async client marks the connection dead before its first await.
round_trip(c) ==
    /\ Rust /\ call[c].at = "queued"
    /\ LET k == call[c].client IN
        /\ conn[k].holder = None
        /\ IF conn[k].dead
           THEN Settled(c, Told("closed")) /\ UNCHANGED conn
           ELSE /\ call' = [call EXCEPT ![c].at = "writing"]
                /\ conn' = [conn EXCEPT ![k].holder = c, ![k].dead = setup.kind = "async"]
    /\ UNCHANGED <<setup, stmts>>

\* write_frame
Write(c) ==
    /\ Rust /\ call[c].at = "writing"
    /\ conn[call[c].client].up
    /\ call' = [call EXCEPT ![c].at = "reading"]
    /\ conn' = [conn EXCEPT ![call[c].client].in = Append(@, Request(c))]
    /\ UNCHANGED <<setup, stmts>>

\* The one frame that comes back is the reply.
Read(c) ==
    /\ Rust /\ call[c].at = "reading"
    /\ LET k == call[c].client IN
        /\ conn[k].out /= <<>>
        /\ Take(c, Head(conn[k].out))
        /\ conn' = [conn EXCEPT ![k].out = Tail(@), ![k].holder = None, ![k].dead = FALSE]
    /\ UNCHANGED setup

\* A failed write leaves the whole frame, a part of it or nothing behind.
Remains(c) ==
    LET in == conn[call[c].client].in IN
    IF call[c].at = "writing" THEN {in, Append(in, Request(c)), Append(in, [call |-> None])} ELSE {in}

\* An error or a timeout of the write or the read: the connection is dead.
IoError(c) ==
    /\ Rust /\ call[c].at \in {"writing", "reading"}
    /\ LET k == call[c].client IN
        /\ setup.timeouts \/ (~conn[k].up /\ conn[k].out = <<>>)
        /\ Settled(c, Told("io"))
        /\ \E in \in IF conn[k].up THEN Remains(c) ELSE {<<>>} :
            conn' = [conn EXCEPT ![k].in = in, ![k].holder = None, ![k].dead = TRUE]
    /\ UNCHANGED <<setup, stmts>>

\* The future is dropped at an await: nothing of the client runs any more.
Drop(c) ==
    /\ setup.kind = "async" /\ call[c].at \in {"queued", "writing", "reading"}
    /\ Settled(c, Told("dropped"))
    /\ LET k == call[c].client IN
        IF conn[k].holder = c
        THEN \E in \in IF conn[k].up THEN Remains(c) ELSE {<<>>} :
                conn' = [conn EXCEPT ![k].in = in, ![k].holder = None]
        ELSE UNCHANGED conn
    /\ UNCHANGED <<setup, stmts>>

-----------------------------------------------------------------------------
(* The TypeScript client: replies are matched to requests first in, first  *)
(* out.                                                                    *)

\* #roundTrip
roundTrip(c) ==
    /\ setup.kind = "ts" /\ call[c].at = "queued"
    /\ LET k == call[c].client IN
        IF conn[k].dead
        THEN Settled(c, Told("closed")) /\ UNCHANGED conn
        ELSE /\ call' = [call EXCEPT ![c].at = "reading"]
             /\ conn' = [conn EXCEPT ![k].pending = Append(@, c),
                                     ![k].in = IF conn[k].up THEN Append(@, Request(c)) ELSE @]
    /\ UNCHANGED <<setup, stmts>>

\* #onData: one frame of a chunk.
onData(k) ==
    /\ setup.kind = "ts" /\ ~conn[k].dead /\ conn[k].out /= <<>> /\ conn[k].pending /= <<>>
    /\ Take(Head(conn[k].pending), Head(conn[k].out))
    /\ conn' = [conn EXCEPT ![k].out = Tail(@), ![k].pending = Tail(@)]
    /\ UNCHANGED setup

\* #fail: every waiting request is rejected and the socket destroyed.
fail(k, got) ==
    /\ call' = [c \in Call |-> IF c \in ToSet(conn[k].pending)
                               THEN [call[c] EXCEPT !.at = "done", !.got = got] ELSE call[c]]
    /\ conn' = [conn EXCEPT ![k].dead = TRUE, ![k].pending = <<>>, ![k].up = FALSE, ![k].in = <<>>, ![k].out = <<>>]

\* The socket's error and close events; close().
SocketClosed(k) ==
    /\ setup.kind = "ts" /\ ~conn[k].dead /\ ~conn[k].up /\ conn[k].out = <<>>
    /\ fail(k, Told("io"))
    /\ UNCHANGED <<setup, stmts>>

close(k) ==
    /\ setup.kind = "ts" /\ setup.closes /\ ~conn[k].dead
    /\ fail(k, Told("closed"))
    /\ UNCHANGED <<setup, stmts>>

-----------------------------------------------------------------------------
(* The server's end.                                                       *)

\* What each request may be answered with; by: the query that ran.
Failed(r) == [kind |-> "error", to |-> r.call]

Ping(r) == {[kind |-> "pong", to |-> r.call]}

\* A query may not parse, and its run may fail.
RunQuery(r, q) == {[kind |-> "rows", to |-> r.call, by |-> q], Failed(r)}

VectorBatch(r) == {[kind |-> "done", to |-> r.call], Failed(r)}

Prepare(k, r) ==
    {[kind |-> "prepared", to |-> r.call, id |-> id] :
        id \in {Len(conn[k].prepared) + 1} \cap 1 .. MAX_PREPARED_PER_CONN} \cup {Failed(r)}

Execute(k, r) ==
    LET p == conn[k].prepared IN
    IF r.ask.stmt.id \in DOMAIN p THEN RunQuery(r, p[r.ask.stmt.id]) ELSE {[Failed(r) EXCEPT !.kind = "unknown"]}

Replies(k, r) ==
    CASE r.ask.op = "ping" -> Ping(r)
      [] r.ask.op = "query" -> RunQuery(r, r.call)
      [] r.ask.op = "prepare" -> Prepare(k, r)
      [] r.ask.op = "execute" -> Execute(k, r)
      [] r.ask.op = "batch" -> VectorBatch(r)

\* One frame: a part of one ends the connection.
handle_connection_stream(k) ==
    /\ conn[k].up /\ conn[k].in /= <<>>
    /\ LET r == Head(conn[k].in) IN
        IF r.call = None
        THEN conn' = [conn EXCEPT ![k].up = FALSE, ![k].in = <<>>]
        ELSE \E reply \in Replies(k, r) :
                conn' = [conn EXCEPT ![k].in = Tail(@), ![k].out = Append(@, reply),
                                     ![k].prepared = IF reply.kind = "prepared" THEN Append(@, r.call) ELSE @]
    /\ UNCHANGED <<setup, call, stmts>>

\* The server stops or the network fails: replies on their way may still arrive.
Lost(k) ==
    /\ setup.loses /\ conn[k].up
    /\ \E n \in 0 .. Len(conn[k].out) :
        conn' = [conn EXCEPT ![k].up = FALSE, ![k].in = <<>>, ![k].out = SubSeq(@, 1, n)]
    /\ UNCHANGED <<setup, call, stmts>>

Next ==
    \/ \E c \in Call : Begin(c) \/ round_trip(c) \/ Write(c) \/ Read(c) \/ IoError(c) \/ Drop(c) \/ roundTrip(c)
    \/ \E k \in Client : onData(k) \/ SocketClosed(k) \/ close(k) \/ handle_connection_stream(k) \/ Lost(k)

\* Tasks that can run do, sockets report their end, the server's task serves.
Fairness ==
    /\ \A c \in Call : WF_vars(round_trip(c)) /\ WF_vars(Write(c)) /\ WF_vars(Read(c)) /\ WF_vars(IoError(c))
                         /\ WF_vars(roundTrip(c))
    /\ \A k \in Client : WF_vars(onData(k)) /\ WF_vars(SocketClosed(k)) /\ WF_vars(handle_connection_stream(k))

Spec == Init /\ [][Next]_vars /\ Fairness

-----------------------------------------------------------------------------
(* Properties.                                                             *)

\* What a call returns is the reply to its own request, and an execute runs the
\* query its statement was prepared from or fails in it, and is never told that
\* the statement is unknown: no timeout, dropped future, lost
\* connection or other client's statement makes a caller take a frame meant for
\* someone else.
AnswersOwn ==
    \A c \in Call :
        call[c].got.kind \notin {"nothing", "refused", "closed", "io", "dropped"} =>
            /\ call[c].got.to = c
            /\ call[c].ask.op = "execute" =>
                /\ call[c].got.kind \in {"rows", "error"}
                /\ call[c].got.kind = "rows" => call[c].got.by = call[c].ask.stmt.of

\* Every call settles: a lost connection rejects all that wait on it.
CallsSettle == \A c \in Call : (call[c].at /= "idle") ~> (call[c].at = "done")
=============================================================================
