------------------------------ MODULE H2Client ------------------------------
(* Concurrent requests over one HTTP/2 connection, as in                      *)
(* bleeding/requests/lib/h2/h2_client.ml over h2_connection.ml: a reader      *)
(* fiber dispatches the peer's frames to one bounded Eio.Stream per request,  *)
(* and each request fiber sends its headers and body within the peer's flow-  *)
(* control windows and then consumes its events.  The peer is any server that *)
(* follows the protocol, and the faults named in Faults.  The handshake is    *)
(* over: H2_connection.state is Open.                                         *)
(*                                                                            *)
(* A step runs from one suspension point to the next: a write or read of the  *)
(* flow, Eio.Stream.add on a full queue, Eio.Stream.take on an empty one, a   *)
(* handlers_mutex that the reader holds while it notifies the handlers.  The  *)
(* fork of the reader is one for the request that starts it: the reader runs  *)
(* first, for as long as its reads find data.                                 *)
EXTENDS H2Stream, Sequences, FiniteSets, FiniteSetsExt, Functions

CONSTANTS
    Requests,       \* request fibers, each with its own stream
    Body,           \* [Requests -> Int]: body length, or NoBody
    ReplyData,      \* DATA frames in a response
    MaxFrame,       \* peer's max_frame_size
    InitWindow,     \* peer's first initial_window_size
    ConnWindow,     \* initial connection-level send window
    Settings,       \* initial_window_size values the peer may set later
    QueueCap,       \* capacity of a handler's event queue (64 in the code)
    Faults,         \* which of FaultKinds may happen
    WireCap,        \* bound: frames in flight from the peer
    MaxUnasked      \* bound: SETTINGS, bad frames and unasked credit together

NoBody == -1        \* req.body = None; Some "" has length 0

\* "bad": a frame that dispatch_frame or the parser rejects; "hpack": HEADERS
\* that do not decode; "early": a response before the end of the request;
\* "deaf": the reader's own writes raise once the peer is gone.
FaultKinds == {"rst", "goaway", "eof", "bad", "hpack", "cancel", "info",
               "trailers", "early", "deaf"}

NoRequest == "none"     \* stream 0

ASSUME ClientAssumption ==
    /\ IsFiniteSet(Requests) /\ NoRequest \notin Requests
    /\ Body \in [Requests -> Nat \cup {NoBody}]
    /\ ReplyData \in Nat /\ MaxFrame \in Nat \ {0}
    /\ InitWindow \in 0 .. MaxWindow /\ ConnWindow \in 0 .. MaxWindow
    /\ Settings \subseteq 0 .. MaxWindow
    /\ QueueCap \in Nat \ {0}
    /\ Faults \subseteq FaultKinds
    /\ WireCap \in Nat /\ MaxUnasked \in Nat

\* :status values: none yet, interim, final, and what a header block without
\* :status is taken for (200).
NoStatus == 0
Info == 103
Final == 404
Default == 200
Statuses == {NoStatus, Info, Final, Default}

\* A frame from the peer; a handler's event is its type, val and end. A DATA
\* frame has one part of the body.
Frame(type, r, val, end) == [type |-> type, on |-> r, val |-> val, end |-> end]

VARIABLES
    pc,         \* where each request fiber stands
    off,        \* body bytes written
    chunk,      \* bytes of the DATA frame being written
    window,     \* H2_stream.flow.send_window
    initial,    \* H2_stream.flow.initial_send_window, or NoStream
    drifted,    \* streams resized from another size than the one in force
    stream,     \* H2_stream.state
    status,     \* pending.status
    got,        \* length of pending.body_parts
    outcome,    \* what request returns: "ok", "error", or "none" yet
    handlers,   \* requests with a registered handler
    events,     \* the handlers' event queues
    connWindow, \* H2_connection.send_window
    peerInit,   \* peer_settings.initial_window_size
    connState,  \* H2_connection.state: "open" or "closing"
    connError,  \* connection_error is set
    reader,     \* the reader fiber: see Reader
    todo,       \* handlers the reader has still to notify
    wire,       \* frames from the peer, in order
    srv         \* the peer: see Init

sending == <<off, chunk, window, initial, drifted>>
reply == <<stream, status, got, outcome>>
table == <<handlers, events>>
conn == <<connWindow, peerInit, connState, connError>>
vars == <<pc, sending, reply, table, conn, reader, todo, wire, srv>>

\* The reader is not started, reading, in Stream.add on a full queue (adding ev
\* for request on, in mode from), notifying handlers (in mode next after that),
\* stopped by the end of the connection, or dead of an exception.
ReaderModes == {"none", "run", "block", "notify", "stopped", "dead"}
NoEvent == Frame("none", NoRequest, 0, FALSE)
ConnectionError(r) == Frame("error", r, 0, FALSE)
Plain(mode) == [mode |-> mode, on |-> NoRequest, ev |-> NoEvent, from |-> "run",
                next |-> "run"]
Blocked(r, e, from, next) ==
    [mode |-> "block", on |-> r, ev |-> e, from |-> from, next |-> next]

NoStream == -1
Streams == {r \in Requests : initial[r] # NoStream}     \* never removed

Init ==
    /\ pc = [r \in Requests |-> "idle"]
    /\ off = [r \in Requests |-> 0]
    /\ chunk = [r \in Requests |-> 0]
    /\ window = [r \in Requests |-> 0]
    /\ initial = [r \in Requests |-> NoStream]
    /\ drifted = {}
    /\ stream = [r \in Requests |-> "idle"]
    /\ status = [r \in Requests |-> NoStatus]
    /\ got = [r \in Requests |-> 0]
    /\ outcome = [r \in Requests |-> "none"]
    /\ handlers = {}
    /\ events = [r \in Requests |-> << >>]
    /\ connWindow = ConnWindow
    /\ peerInit = InitWindow
    /\ connState = "open"
    /\ connError = FALSE
    /\ reader = Plain("none")
    /\ todo = {}
    /\ wire = << >>
    /\ srv = [recv |-> [r \in Requests |-> 0],      \* body bytes received
              ended |-> [r \in Requests |-> FALSE], \* it expects no more of r
              grant |-> [r \in Requests |-> 0],     \* stream credit given
              connGrant |-> 0,                      \* connection credit given
              unasked |-> 0,                        \* see MaxUnasked
              reply |-> [r \in Requests |-> "none"],
              sent |-> [r \in Requests |-> 0],      \* DATA frames sent
              goaway |-> FALSE,                     \* GOAWAY sent
              gone |-> FALSE]                       \* it closed the connection

----------------------------------------------------------------------------
(* Request fibers.                                                            *)

\* handlers_mutex is held across a suspension only by a notifying reader.
MutexFree == "notify" \notin {reader.mode, reader.from}

\* No fiber waits for the fork of the reader to return: until it does, only
\* the reader runs.
NoneForking == \A r \in Requests : pc[r] # "fork"

\* request is refused: the connection has an error (which is looked at only
\* before the reader is started), or create_stream finds it closing.
Refuse(r) ==
    /\ \/ pc[r] = "idle" /\ NoneForking /\ (connError \/ connState # "open")
       \/ pc[r] = "fork" /\ connState # "open"
    /\ pc' = [pc EXCEPT ![r] = "done"]
    /\ outcome' = [outcome EXCEPT ![r] = "error"]
    /\ UNCHANGED <<sending, stream, status, got, table, conn, reader, todo,
                   wire, srv>>

\* The first request starts the reader.
StartReader(r) ==
    /\ pc[r] = "idle" /\ ~connError
    /\ reader.mode = "none"
    /\ reader' = Plain("run")
    /\ pc' = [pc EXCEPT ![r] = "fork"]
    /\ UNCHANGED <<sending, reply, table, conn, todo, wire, srv>>

\* Up to the first write: a stream is created with the peer's current window,
\* and its handler registered.  The handlers_mutex is free: the reader holds it
\* across a suspension only to tell handlers that the connection is over.
Start(r) ==
    /\ \/ pc[r] = "idle" /\ NoneForking /\ ~connError /\ reader.mode # "none"
       \/ pc[r] = "fork"
    /\ connState = "open"
    /\ window' = [window EXCEPT ![r] = peerInit]
    /\ initial' = [initial EXCEPT ![r] = peerInit]
    /\ handlers' = handlers \cup {r}
    /\ pc' = [pc EXCEPT ![r] = "headers"]
    /\ UNCHANGED <<off, chunk, drifted, reply, events, conn, reader, todo, wire,
                   srv>>

\* request raises where it stands; nothing unregisters its handler.
Raises(r) ==
    /\ pc' = [pc EXCEPT ![r] = "raised"]
    /\ UNCHANGED <<sending, reply, table, conn, reader, todo, wire, srv>>

\* A write of the flow may fail once the peer is gone.
WriteRaises(r) == pc[r] \in {"headers", "writing"} /\ srv.gone /\ Raises(r)

\* The caller's timeout cancels the fiber where it is suspended (use_rw
\* protects the rest of a critical section, not the wait for the mutex).
Cancel(r) ==
    /\ "cancel" \in Faults
    /\ pc[r] \in {"headers", "writing", "awaitWindow", "await"}
    /\ Raises(r)

\* The HEADERS frame is written, with END_STREAM when req.body is None.
WriteHeaders(r) ==
    LET end == Body[r] = NoBody IN
    /\ pc[r] = "headers"
    /\ stream' = [stream EXCEPT ![r] = ApplyEvent(@, "send_headers", end)]
    /\ pc' = [pc EXCEPT ![r] = IF Body[r] > 0 THEN "body" ELSE "await"]
    /\ srv' = [srv EXCEPT !.reply[r] = "open", !.ended[r] = end]
    /\ UNCHANGED <<sending, status, got, outcome, table, conn, reader, todo, wire>>

\* Mutant: the connection window is not looked at.
ChunkOfStream(r) == Min({Body[r] - off[r], MaxFrame, window[r]})

\* chunk_size: no more than either window allows (which may be negative).
ChunkSize(r) == Min({Body[r] - off[r], MaxFrame, window[r], connWindow})

\* Mutant: the windows are not consumed.
SendChunkUnpaid(r) ==
    /\ pc[r] = "body" /\ ChunkSize(r) > 0
    /\ chunk' = [chunk EXCEPT ![r] = ChunkSize(r)]
    /\ pc' = [pc EXCEPT ![r] = "writing"]
    /\ UNCHANGED <<off, window, initial, drifted, reply, table, conn, reader, todo,
                   wire, srv>>

\* There is room: both windows are consumed, then the write suspends.
SendChunk(r) ==
    LET n == ChunkSize(r) IN
    /\ pc[r] = "body" /\ n > 0
    /\ chunk' = [chunk EXCEPT ![r] = n]
    /\ window' = [window EXCEPT ![r] = @ - n]
    /\ connWindow' = connWindow - n
    /\ pc' = [pc EXCEPT ![r] = "writing"]
    /\ UNCHANGED <<off, initial, drifted, reply, table, peerInit, connState,
                   connError, reader, todo, wire, srv>>

\* The DATA frame is written.
ChunkWritten(r) ==
    LET n == off[r] + chunk[r]
        end == n >= Body[r] IN
    /\ pc[r] = "writing"
    /\ off' = [off EXCEPT ![r] = n]
    /\ chunk' = [chunk EXCEPT ![r] = 0]
    /\ stream' = [stream EXCEPT ![r] = ApplyEvent(@, "send_data", end)]
    /\ pc' = [pc EXCEPT ![r] = IF end THEN "await" ELSE "body"]
    /\ srv' = [srv EXCEPT !.recv[r] = @ + chunk[r], !.ended[r] = @ \/ end]
    /\ UNCHANGED <<window, initial, drifted, status, got, outcome, table, conn,
                   reader, todo, wire>>

\* No room: the fiber waits for an event of its own queue.
AwaitWindow(r) ==
    /\ pc[r] = "body" /\ ChunkSize(r) <= 0
    /\ pc' = [pc EXCEPT ![r] = "awaitWindow"]
    /\ UNCHANGED <<sending, reply, table, conn, reader, todo, wire, srv>>

Fatal == {"rst", "error"}

\* The event taken while sending: a window update or any event of the response
\* (which is dropped) makes the fiber look at the windows again; a reset or a
\* connection error is raised, and the handler stays registered.
TakeWhileSending(r) ==
    /\ pc[r] = "awaitWindow" /\ events[r] # << >>
    /\ events' = [events EXCEPT ![r] = Tail(@)]
    /\ pc' = [pc EXCEPT ![r] = IF Head(events[r]).type \in Fatal THEN "raised"
                                                                  ELSE "body"]
    /\ UNCHANGED <<sending, reply, handlers, conn, reader, todo, wire, srv>>

\* wait_for_response: HEADERS (each one overwrites the status) and DATA until
\* END_STREAM, a reset or a connection error; window updates are ignored.  The
\* handler is then removed at once, unless the handlers_mutex is busy.
StreamEvent == [headers |-> "recv_headers", data |-> "recv_data",
                rst |-> "recv_rst_stream"]

TakeResponse(r) ==
    LET e == Head(events[r])
        failed == e.type \in Fatal
        over == e.end \/ failed IN
    /\ pc[r] = "await" /\ events[r] # << >>
    /\ events' = [events EXCEPT ![r] = Tail(@)]
    /\ status' = IF e.type = "headers" THEN [status EXCEPT ![r] = e.val] ELSE status
    /\ got' = IF e.type = "data" THEN [got EXCEPT ![r] = @ + 1] ELSE got
    /\ stream' = IF e.type \in DOMAIN StreamEvent
                 THEN [stream EXCEPT ![r] = ApplyEvent(@, StreamEvent[e.type], e.end)]
                 ELSE stream
    /\ outcome' = [outcome EXCEPT ![r] =
                     CASE ~over -> @
                       [] over -> IF failed \/ status'[r] = NoStatus THEN "error"
                                                                     ELSE "ok"]
    /\ handlers' = IF over /\ MutexFree THEN handlers \ {r} ELSE handlers
    /\ pc' = [pc EXCEPT ![r] = CASE ~over -> @
                                 [] over -> IF MutexFree THEN "done" ELSE "unregister"]
    /\ UNCHANGED <<sending, conn, reader, todo, wire, srv>>

\* The handlers_mutex was busy when the handler was to be removed.
Unregister(r) ==
    /\ pc[r] = "unregister" /\ MutexFree
    /\ handlers' = handlers \ {r}
    /\ pc' = [pc EXCEPT ![r] = "done"]
    /\ UNCHANGED <<sending, reply, events, conn, reader, todo, wire, srv>>

RequestStep(r) ==
    \/ Refuse(r) \/ StartReader(r) \/ Start(r) \/ WriteHeaders(r)
    \/ SendChunk(r) \/ ChunkWritten(r) \/ AwaitWindow(r) \/ TakeWhileSending(r)
    \/ TakeResponse(r) \/ Unregister(r)

----------------------------------------------------------------------------
(* The reader fiber.                                                          *)

\* Mutant: an event for a full queue is dropped.
DeliverLossy(r, e) ==
    /\ events' = IF Len(events[r]) < QueueCap
                 THEN [events EXCEPT ![r] = Append(@, e)] ELSE events
    /\ UNCHANGED reader

\* Stream.add: to the queue, or suspended until a take makes room.
Deliver(r, e) ==
    IF Len(events[r]) < QueueCap
    THEN /\ events' = [events EXCEPT ![r] = Append(@, e)]
         /\ UNCHANGED reader
    ELSE /\ reader' = Blocked(r, e, "run", "run")
         /\ UNCHANGED events

\* A take has made room for the event the reader is adding.
Unblock ==
    /\ reader.mode = "block" /\ Len(events[reader.on]) < QueueCap
    /\ events' = [events EXCEPT ![reader.on] = Append(@, reader.ev)]
    /\ reader' = [Plain(reader.from) EXCEPT !.next = reader.next]
    /\ UNCHANGED <<pc, sending, reply, handlers, conn, todo, wire, srv>>

\* The next frame, when the reader is reading.
Reads(types) ==
    /\ reader.mode = "run" /\ wire # << >>
    /\ Head(wire).type \in types
    /\ wire' = Tail(wire)

\* HEADERS, DATA, RST_STREAM, or HEADERS that do not decode ("error"): an event
\* for the stream's handler, if it has one.
ReadForStream ==
    LET f == Head(wire) IN
    /\ Reads({"headers", "data", "rst", "error"})
    /\ IF f.on \in handlers THEN Deliver(f.on, f) ELSE UNCHANGED <<events, reader>>
    /\ UNCHANGED <<pc, sending, reply, handlers, conn, todo, srv>>

\* Mutant: a stream's WINDOW_UPDATE is credited but not passed on.
ReadStreamUpdateSilent ==
    /\ Reads({"update"})
    /\ window' = [window EXCEPT ![Head(wire).on] = @ + Head(wire).val]
    /\ UNCHANGED <<pc, off, chunk, initial, drifted, reply, table, conn, reader,
                   todo, srv>>

\* WINDOW_UPDATE on a stream: credited and passed on, unless it overflows.
ReadStreamUpdate ==
    LET f == Head(wire) IN
    /\ Reads({"update"})
    /\ IF f.on \in handlers /\ CreditFits(window[f.on], f.val)
       THEN /\ window' = [window EXCEPT ![f.on] = @ + f.val]
            /\ Deliver(f.on, f)
       ELSE UNCHANGED <<window, events, reader>>
    /\ UNCHANGED <<pc, off, chunk, initial, drifted, reply, handlers, conn, todo,
                   srv>>

\* WINDOW_UPDATE on the connection: credited; no handler is told.
ReadConnUpdate ==
    /\ Reads({"connUpdate"})
    /\ CreditFits(connWindow, Head(wire).val)
    /\ connWindow' = connWindow + Head(wire).val
    /\ UNCHANGED <<pc, sending, reply, table, peerInit, connState, connError,
                   reader, todo, srv>>

\* SETTINGS: every stream's window is resized; no handler is told.
Resizes(n) == {r \in Streams : ResizeFits(window[r], initial[r], n)}

ResizeStreams(n) ==
    window' = [r \in Requests |->
                 IF r \in Resizes(n) THEN Resized(window[r], initial[r], n)
                                     ELSE window[r]]

\* handle_settings accepts n.  Each stream moves by the difference from the size
\* it was created with, which is not the one in force once that has changed.
ApplySettings(n) ==
    /\ Resizes(n) = Streams
    /\ ResizeStreams(n)
    /\ peerInit' = n
    /\ drifted' = drifted \cup {r \in Streams : initial[r] # peerInit}
    /\ UNCHANGED <<off, chunk, initial, connWindow, connState, connError>>

\* SETTINGS are applied and acknowledged.
ReadSettings ==
    /\ Reads({"settings"})
    /\ ApplySettings(Head(wire).val)
    /\ UNCHANGED <<pc, reply, table, reader, todo, srv>>

\* Every handler of S is told, in whatever order the table has, with the
\* handlers_mutex held, until one of them has no room in its queue.
Announce(S, next) ==
    \E told \in SUBSET {r \in S : Len(events[r]) < QueueCap} :
        /\ events' = [r \in Requests |->
                        IF r \in told THEN Append(events[r], ConnectionError(r))
                                      ELSE events[r]]
        /\ \/ /\ told = S
              /\ todo' = {}
              /\ reader' = Plain(next)
           \/ \E r \in S \ told :
                 /\ Len(events[r]) >= QueueCap
                 /\ todo' = S \ (told \cup {r})
                 /\ reader' = Blocked(r, ConnectionError(r), "notify", next)

\* GOAWAY: every handler is told.
ReadGoaway ==
    /\ Reads({"goaway"})
    /\ connState' = "closing"
    /\ Announce(handlers, "run")
    /\ UNCHANGED <<pc, sending, reply, handlers, connWindow, peerInit, connError,
                   srv>>

\* End of file, or a frame that dispatch_frame answers with `Error (windows
\* that no longer fit, the others resized already): the connection error is set
\* and every handler told.
ReadEnd ==
    /\ \/ Reads({"bad"}) /\ UNCHANGED window
       \/ Reads({"connUpdate"}) /\ ~CreditFits(connWindow, Head(wire).val)
          /\ UNCHANGED window
       \/ /\ Reads({"settings"}) /\ Resizes(Head(wire).val) # Streams
          /\ ResizeStreams(Head(wire).val)
       \/ reader.mode = "run" /\ wire = << >> /\ srv.gone /\ UNCHANGED <<wire, window>>
    /\ connError' = TRUE
    /\ Announce(handlers, "stopped")
    /\ UNCHANGED <<pc, off, chunk, initial, drifted, reply, handlers, connWindow,
                   peerInit, connState, srv>>

\* The notification goes on where it was blocked.
Notify ==
    /\ reader.mode = "notify"
    /\ Announce(todo, reader.next)
    /\ UNCHANGED <<pc, sending, reply, handlers, conn, wire, srv>>

\* A WINDOW_UPDATE or SETTINGS ack the reader writes raises: the fiber ends,
\* reader_running stays true and no handler is told.  The data is lost, the
\* settings have been applied.
ReaderDies ==
    /\ "deaf" \in Faults /\ srv.gone
    /\ \/ Reads({"data"}) /\ UNCHANGED <<sending, conn>>
       \/ Reads({"settings"}) /\ ApplySettings(Head(wire).val)
    /\ reader' = Plain("dead")
    /\ UNCHANGED <<pc, reply, table, todo, srv>>

ReaderStep ==
    \/ Unblock \/ ReadForStream \/ ReadStreamUpdate \/ ReadConnUpdate
    \/ ReadSettings \/ ReadGoaway \/ ReadEnd \/ Notify

----------------------------------------------------------------------------
(* The peer: it answers each request once it has its end, and replenishes the *)
(* windows it has seen used.                                                  *)

Post(f) == /\ ~srv.gone /\ Len(wire) < WireCap
           /\ wire' = Append(wire, f)
           /\ UNCHANGED <<pc, sending, reply, table, conn, reader, todo>>

Replying(r, states) ==
    srv.reply[r] \in states /\ (srv.ended[r] \/ "early" \in Faults)

\* An interim response: HEADERS with a 1xx status.
ReplyInfo(r) ==
    /\ "info" \in Faults /\ Replying(r, {"open"})
    /\ Post(Frame("headers", r, Info, FALSE))
    /\ srv' = [srv EXCEPT !.reply[r] = "informed"]

\* The final HEADERS, which the client may fail to decode ("error"), and DATA.
\* The frame that completes the response carries END_STREAM, unless trailers do.
Ends(n) == IF n < ReplyData THEN {FALSE}
           ELSE IF "trailers" \in Faults THEN BOOLEAN ELSE {TRUE}

ReplyHeaders(r) ==
    /\ Replying(r, {"open", "informed"})
    /\ \E end \in Ends(0), type \in IF "hpack" \in Faults THEN {"headers", "error"}
                                                            ELSE {"headers"} :
          /\ Post(Frame(type, r, Final, end))
          /\ srv' = [srv EXCEPT !.reply[r] = IF end THEN "done" ELSE "headers"]

ReplyBody(r) ==
    /\ srv.reply[r] = "headers" /\ srv.sent[r] < ReplyData
    /\ \E end \in Ends(srv.sent[r] + 1) :
          /\ Post(Frame("data", r, 1, end))
          /\ srv' = [srv EXCEPT !.sent[r] = @ + 1,
                                !.reply[r] = IF end THEN "done" ELSE "headers"]

\* Trailers have no :status, which h2_headers_to_response reads as Default.
ReplyTrailers(r) ==
    /\ srv.reply[r] = "headers" /\ srv.sent[r] = ReplyData
    /\ Post(Frame("headers", r, Default, TRUE))
    /\ srv' = [srv EXCEPT !.reply[r] = "done"]

Grant(r) ==
    /\ srv.grant[r] < srv.recv[r] /\ ~srv.ended[r]
    /\ Post(Frame("update", r, srv.recv[r] - srv.grant[r], FALSE))
    /\ srv' = [srv EXCEPT !.grant[r] = srv.recv[r]]

Received == SumFunctionOnSet(srv.recv, Requests)

GrantConn ==
    /\ srv.connGrant < Received
    /\ Post(Frame("connUpdate", NoRequest, Received - srv.connGrant, FALSE))
    /\ srv' = [srv EXCEPT !.connGrant = Received]

\* Faults: RST_STREAM (after which the peer expects nothing of the stream), a
\* frame the client rejects, a connection WINDOW_UPDATE that may overflow,
\* SETTINGS, GOAWAY and the end of file.  MaxUnasked bounds
\* the second, the third and SETTINGS together.
Reset(r) ==
    /\ "rst" \in Faults /\ srv.reply[r] \in {"open", "informed", "headers"}
    /\ Post(Frame("rst", r, 0, FALSE))
    /\ srv' = [srv EXCEPT !.reply[r] = "done", !.ended[r] = TRUE]

SendBad ==
    /\ "bad" \in Faults /\ srv.unasked < MaxUnasked
    /\ \/ /\ Post(Frame("bad", NoRequest, 0, FALSE))
          /\ srv' = [srv EXCEPT !.unasked = @ + 1]
       \/ /\ Post(Frame("connUpdate", NoRequest, MaxWindow, FALSE))
          /\ srv' = [srv EXCEPT !.unasked = @ + 1, !.connGrant = @ + MaxWindow]

SendSettings ==
    /\ srv.unasked < MaxUnasked
    /\ \E n \in Settings : Post(Frame("settings", NoRequest, n, FALSE))
    /\ srv' = [srv EXCEPT !.unasked = @ + 1]

SendGoaway ==
    /\ "goaway" \in Faults /\ ~srv.goaway
    /\ Post(Frame("goaway", NoRequest, 0, FALSE))
    /\ srv' = [srv EXCEPT !.goaway = TRUE]

Close ==
    /\ "eof" \in Faults /\ ~srv.gone
    /\ srv' = [srv EXCEPT !.gone = TRUE]
    /\ UNCHANGED <<pc, sending, reply, table, conn, reader, todo, wire>>

Answer(r) == ReplyHeaders(r) \/ ReplyBody(r) \/ ReplyTrailers(r)

Fault == \/ SendBad \/ SendSettings \/ SendGoaway \/ Close \/ ReaderDies
         \/ \E r \in Requests :
               WriteRaises(r) \/ Cancel(r) \/ ReplyInfo(r) \/ Reset(r)

----------------------------------------------------------------------------
Next == \/ \E r \in Requests : RequestStep(r) \/ Answer(r) \/ Grant(r)
        \/ ReaderStep \/ GrantConn \/ Fault

Spec == Init /\ [][Next]_vars

\* Eio runs every fiber that is not suspended; a suspended one is resumed by
\* what it waits for.  The peer answers and replenishes.
Fairness ==
    /\ WF_vars(ReaderStep) /\ WF_vars(GrantConn)
    /\ \A r \in Requests :
          WF_vars(RequestStep(r)) /\ WF_vars(Answer(r)) /\ WF_vars(Grant(r))

FairSpec == Spec /\ Fairness

----------------------------------------------------------------------------
(* Properties.                                                                *)

PCs == {"idle", "fork", "headers", "body", "writing", "awaitWindow",
        "await", "unregister", "done", "raised"}

Frames == [type : {"headers", "data", "rst", "error", "update", "connUpdate",
                   "settings", "goaway", "bad", "none"},
           on : Requests \cup {NoRequest}, val : Nat, end : BOOLEAN]

\* Every variable has its type; no queue exceeds its capacity, the connection
\* window is never overdrawn and never overflows, although SendChunk and
\* ReadConnUpdate run between the suspensions of different fibers.
TypeOK ==
    /\ pc \in [Requests -> PCs]
    /\ off \in [Requests -> Nat] /\ chunk \in [Requests -> 0 .. MaxFrame]
    /\ window \in [Requests -> Int]
    /\ initial \in [Requests -> Nat \cup {NoStream}] /\ drifted \subseteq Requests
    /\ stream \in [Requests -> StreamStates]
    /\ status \in [Requests -> Statuses] /\ got \in [Requests -> Nat]
    /\ outcome \in [Requests -> {"none", "ok", "error"}]
    /\ handlers \subseteq Streams /\ todo \subseteq Requests
    /\ \A r \in Requests : events[r] \in Seq(Frames) /\ Len(events[r]) <= QueueCap
    /\ connWindow \in 0 .. MaxWindow /\ peerInit \in 0 .. MaxWindow
    /\ connState \in {"open", "closing"} /\ connError \in BOOLEAN
    /\ reader.mode \in ReaderModes /\ reader.ev \in Frames
    /\ (reader.mode = "block") <=> (reader.on \in Requests)

\* What the frames of a type for r carry together, of a list and of the wire.
Carried(list, type, r) ==
    SumFunctionOnSet([i \in DOMAIN list |-> list[i].val],
                     {i \in DOMAIN list : list[i].type = type /\ list[i].on = r})

OnWire(type, r) == Carried(wire, type, r)

\* While the connection is up, a stream's send window is what the peer thinks
\* it is: the initial window in force, plus the credit that has arrived, minus
\* the body bytes written or being written.  This relates H2_stream's window,
\* the SETTINGS and WINDOW_UPDATE frames dispatch_frame handles, and the bytes
\* request wrote, on streams created before, between and after SETTINGS.  It
\* says nothing of the streams that update_initial_window_size resizes from a
\* size that is not the one in force: there RFC 9113, 6.9.2, is not followed.
WindowMatchesPeer ==
    ~connError => \A r \in handlers \ drifted :
        window[r] = peerInit + srv.grant[r] - OnWire("update", r)
                             - srv.recv[r] - chunk[r]

\* Likewise for the connection's send window, which every request draws on.
ConnCreditConserved ==
    ~connError =>
        connWindow = ConnWindow + srv.connGrant - OnWire("connUpdate", NoRequest)
                                - Received - SumFunctionOnSet(chunk, Requests)

\* A request that returns Ok returns the peer's final status and all of its
\* body, whatever interim responses, blocked queues and early answers came
\* before: wait_for_response loses no event.
OkIsWholeResponse ==
    \A r \in Requests : outcome[r] = "ok" =>
        /\ status[r] = Final /\ got[r] = srv.sent[r] /\ got[r] = ReplyData
        /\ srv.reply[r] = "done"

\* A request that returns Ok leaves its stream Closed Finished: both directions
\* ended, and the state machine refused none of the events on the way.
OkMeansFinished ==
    \A r \in Requests : outcome[r] = "ok" => stream[r] = "finished"

\* With a peer that answers and replenishes, every request ends.
EveryRequestEnds == \A r \in Requests : <>(pc[r] \in {"done", "raised"})
=============================================================================
