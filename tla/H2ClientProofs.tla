--------------------------- MODULE H2ClientProofs ---------------------------
(* Theorems about H2Client, for any requests, bodies, windows and queues.     *)
EXTENDS H2Client, DataLemmas, SequenceTheorems

----------------------------------------------------------------------------
(* Lists of frames.                                                           *)

\* The places of a list that Carried adds up, and what it adds.
Places(list, type, r) ==
    {i \in DOMAIN list : list[i].type = type /\ list[i].on = r}
Vals(list) == [i \in DOMAIN list |-> list[i].val]

\* The sum over a list of frames is a natural number.
LEMMA PlacesType ==
    ASSUME NEW list \in Seq(Frames), NEW type, NEW r
    PROVE  /\ IsFiniteSet(Places(list, type, r))
           /\ IntegersOn(Vals(list), Places(list, type, r))
           /\ \A i \in Places(list, type, r) : Vals(list)[i] \in Nat
           /\ Carried(list, type, r) = SumFunctionOnSet(Vals(list), Places(list, type, r))
           /\ Carried(list, type, r) \in Nat
  <1>1. DOMAIN list = 1 .. Len(list) /\ Len(list) \in Nat
    OBVIOUS
  <1>2. IsFiniteSet(1 .. Len(list))
    BY <1>1, FS_Interval
  <1>3. IsFiniteSet(Places(list, type, r))
    BY <1>1, <1>2, FiniteSubsets DEF Places
  <1>4. \A i \in Places(list, type, r) : Vals(list)[i] \in Nat
    <2>1. \A i \in 1 .. Len(list) : list[i] \in Frames
      OBVIOUS
    <2> QED
      BY <1>1, <2>1 DEF Places, Vals, Frames
  <1>5. Carried(list, type, r) = SumFunctionOnSet(Vals(list), Places(list, type, r))
    BY DEF Carried, Places, Vals
  <1>6. SumFunctionOnSet(Vals(list), Places(list, type, r)) \in Nat
    BY <1>3, <1>4, SumNatural
  <1> QED
    BY <1>3, <1>4, <1>5, <1>6 DEF IntegersOn

\* A list with no such frame carries nothing.
LEMMA CarriedNothing ==
    ASSUME NEW list \in Seq(Frames), NEW type, NEW r,
           \A i \in DOMAIN list : ~ (list[i].type = type /\ list[i].on = r)
    PROVE  Carried(list, type, r) = 0
  <1>1. Places(list, type, r) = {}
    BY DEF Places
  <1> QED
    BY <1>1, PlacesType, SumUnfold

Share(f, type, r) == IF f.type = type /\ f.on = r THEN f.val ELSE 0

\* What a list carries grows by the share of the frame added to it.
LEMMA CarriedAppend ==
    ASSUME NEW list \in Seq(Frames), NEW f \in Frames, NEW type, NEW r
    PROVE  Carried(Append(list, f), type, r) = Carried(list, type, r) + Share(f, type, r)
  <1> DEFINE new == Append(list, f)
             n == Len(list) + 1
             S == Places(list, type, r)
             T == Places(new, type, r)
  <1>1. /\ new \in Seq(Frames) /\ DOMAIN new = 1 .. n /\ new[n] = f
        /\ \A i \in 1 .. Len(list) : new[i] = list[i]
        /\ DOMAIN list = 1 .. Len(list) /\ Len(list) \in Nat
    OBVIOUS
  <1> HIDE DEF new
  <1>2. /\ IsFiniteSet(S) /\ IntegersOn(Vals(list), S)
        /\ Carried(list, type, r) = SumFunctionOnSet(Vals(list), S)
        /\ Carried(list, type, r) \in Nat
    BY PlacesType
  <1>3. /\ IsFiniteSet(T) /\ IntegersOn(Vals(new), T)
        /\ Carried(new, type, r) = SumFunctionOnSet(Vals(new), T)
    BY <1>1, PlacesType
  <1>4. \A i \in S : Vals(new)[i] = Vals(list)[i]
    BY <1>1 DEF Vals, Places
  <1>5. SumFunctionOnSet(Vals(new), S) = SumFunctionOnSet(Vals(list), S)
    BY <1>2, <1>4, SumSame
  <1>6. CASE f.type = type /\ f.on = r
    <2>1. n \in T /\ T \ {n} = S
      BY <1>1, <1>6 DEF Places
    <2>2. Vals(new)[n] = f.val /\ f.val \in Nat
      BY <1>1 DEF Vals, Frames
    <2>3. SumFunctionOnSet(Vals(new), T) = Vals(new)[n] + SumFunctionOnSet(Vals(new), T \ {n})
      <3> HIDE DEF T, n
      <3> QED
        BY <1>3, <2>1, SumRemove
    <2> QED
      <3>1. Carried(new, type, r) = f.val + Carried(list, type, r)
        BY <1>2, <1>3, <1>5, <2>1, <2>2, <2>3
      <3>2. Share(f, type, r) = f.val
        BY <1>6 DEF Share
      <3> QED
        BY <1>2, <2>2, <3>1, <3>2 DEF new
  <1>7. CASE ~ (f.type = type /\ f.on = r)
    <2>1. T = S
      BY <1>1, <1>7 DEF Places
    <2> QED
      <3>1. Carried(new, type, r) = Carried(list, type, r)
        BY <1>2, <1>3, <1>5, <2>1
      <3>2. Share(f, type, r) = 0
        BY <1>7 DEF Share
      <3> QED
        BY <1>2, <3>1, <3>2 DEF new
  <1> QED
    BY <1>6, <1>7

\* What a list carries is the share of its head and what its tail carries.
LEMMA CarriedTail ==
    ASSUME NEW list \in Seq(Frames), list # << >>, NEW type, NEW r
    PROVE  Carried(list, type, r) = Share(Head(list), type, r) + Carried(Tail(list), type, r)
  <1> DEFINE new == Tail(list)
             S == Places(list, type, r)
             T == Places(new, type, r)
             b == [i \in T |-> i + 1]
  <1>1. /\ DOMAIN list = 1 .. Len(list) /\ Len(list) \in Nat \ {0}
        /\ new \in Seq(Frames) /\ DOMAIN new = 1 .. Len(list) - 1
        /\ Head(list) = list[1] /\ list[1] \in Frames
        /\ \A i \in 1 .. Len(list) - 1 : new[i] = list[i + 1]
    BY HeadTailProperties, EmptySeq
  <1> HIDE DEF new
  <1>2. /\ IsFiniteSet(S) /\ IntegersOn(Vals(list), S)
        /\ Carried(list, type, r) = SumFunctionOnSet(Vals(list), S)
    BY PlacesType
  <1>3. /\ IsFiniteSet(T) /\ IntegersOn(Vals(new), T)
        /\ Carried(new, type, r) = SumFunctionOnSet(Vals(new), T)
        /\ Carried(new, type, r) \in Nat
    BY <1>1, PlacesType
  <1>4. T \subseteq 1 .. Len(list) - 1
    BY <1>1 DEF Places
  <1>5. {b[i] : i \in T} = S \ {1}
    <2>1. \A i \in T : b[i] = i + 1 /\ b[i] \in S \ {1}
      BY <1>1, <1>4 DEF Places
    <2>2. ASSUME NEW j \in S \ {1}
          PROVE  \E i \in T : b[i] = j
      <3>1. j \in 2 .. Len(list)
        BY <1>1 DEF Places
      <3>2. j - 1 \in 1 .. Len(list) - 1 /\ (j - 1) + 1 = j
        BY <1>1, <3>1
      <3>3. j - 1 \in T
        BY <1>1, <3>2 DEF Places
      <3> QED
        BY <3>2, <3>3
    <2> QED
      BY <2>1, <2>2
  <1>6. \A i, j \in T : b[i] = b[j] => i = j
    BY <1>4
  <1>7. \A i \in T : Vals(new)[i] = Vals(list)[b[i]] /\ Vals(new)[i] \in Int
    <2> SUFFICES ASSUME NEW i \in T
                 PROVE  Vals(new)[i] = Vals(list)[b[i]] /\ Vals(new)[i] \in Int
      OBVIOUS
    <2>1. i \in DOMAIN new /\ b[i] \in DOMAIN list /\ new[i] = list[b[i]]
      BY <1>1, <1>4
    <2> QED
      BY <1>3, <2>1 DEF Vals, IntegersOn
  <1> HIDE DEF b, S, T
  <1>8. SumFunctionOnSet(Vals(new), T) = SumFunctionOnSet(Vals(list), {b[i] : i \in T})
    BY <1>3, <1>6, <1>7, SumReindex
  <1>9. CASE Head(list).type = type /\ Head(list).on = r
    <2>1. 1 \in S
      BY <1>1, <1>9 DEF Places, S
    <2>2. SumFunctionOnSet(Vals(list), S) = Vals(list)[1] + SumFunctionOnSet(Vals(list), S \ {1})
      BY <1>2, <2>1, SumRemove
    <2>3. Vals(list)[1] = Head(list).val
      BY <1>1 DEF Vals
    <2> QED
      <3>1. Carried(list, type, r) = Head(list).val + Carried(new, type, r)
        BY <1>2, <1>3, <1>5, <1>8, <2>2, <2>3
      <3>2. Share(Head(list), type, r) = Head(list).val
        BY <1>9 DEF Share
      <3> QED
        BY <3>1, <3>2 DEF new
  <1>10. CASE ~ (Head(list).type = type /\ Head(list).on = r)
    <2>1. S \ {1} = S
      BY <1>1, <1>10 DEF Places, S
    <2> QED
      <3>1. Carried(list, type, r) = Carried(new, type, r)
        BY <1>2, <1>3, <1>5, <1>8, <2>1
      <3>2. Share(Head(list), type, r) = 0
        BY <1>10 DEF Share
      <3> QED
        BY <1>3, <3>1, <3>2 DEF new
  <1> QED
    BY <1>9, <1>10

----------------------------------------------------------------------------
(* Types.                                                                     *)

\* What the peer can send.
Sendable ==
    {f \in Frames :
        /\ f.type # "none"
        /\ f.type \in {"headers", "data", "rst", "error", "update"} => f.on \in Requests
        /\ f.type = "headers" => f.val \in {Info, Final, Default}
        /\ f.type = "headers" /\ f.val = Info => ~ f.end
        /\ f.type = "data" => f.val = 1
        /\ f.type = "connUpdate" => f.on = NoRequest
        /\ f.end => f.type \in {"headers", "data", "error"}
        /\ f.end /\ f.type = "error" => f.val = Final
        /\ f.type = "settings" => f.val \in 0 .. MaxWindow}

Replies == {"none", "open", "informed", "headers", "done"}

Readers == [mode : ReaderModes, on : Requests \cup {NoRequest}, ev : Frames,
            from : {"run", "notify"}, next : {"run", "stopped"}]

FiberTypes ==
    /\ pc \in [Requests -> PCs]
    /\ off \in [Requests -> Nat] /\ chunk \in [Requests -> 0 .. MaxFrame]
    /\ window \in [Requests -> Int]
    /\ initial \in [Requests -> Nat \cup {NoStream}] /\ drifted \subseteq Requests
    /\ stream \in [Requests -> StreamStates]
    /\ status \in [Requests -> Statuses] /\ got \in [Requests -> Nat]
    /\ outcome \in [Requests -> {"none", "ok", "error"}]

TableTypes ==
    /\ handlers \subseteq Streams /\ todo \subseteq Requests
    /\ events \in [Requests -> Seq(Sendable)]
    /\ \A r \in Requests : Len(events[r]) <= QueueCap

ConnTypes ==
    /\ connWindow \in 0 .. MaxWindow /\ peerInit \in 0 .. MaxWindow
    /\ connState \in {"open", "closing"} /\ connError \in BOOLEAN

ReaderTypes ==
    /\ reader \in Readers
    /\ reader.mode = "block" <=> reader.on \in Requests
    /\ reader.mode = "block" => reader.ev \in Sendable

PeerTypes ==
    /\ srv.recv \in [Requests -> Nat] /\ srv.ended \in [Requests -> BOOLEAN]
    /\ srv.grant \in [Requests -> Nat] /\ srv.connGrant \in Nat
    /\ srv.unasked \in Nat /\ srv.reply \in [Requests -> Replies]
    /\ srv.sent \in [Requests -> Nat] /\ srv.goaway \in BOOLEAN /\ srv.gone \in BOOLEAN
    /\ DOMAIN srv = {"recv", "ended", "grant", "connGrant", "unasked", "reply",
                     "sent", "goaway", "gone"}

Types == /\ FiberTypes /\ TableTypes /\ ConnTypes /\ ReaderTypes /\ PeerTypes
         /\ wire \in Seq(Sendable)

\* The inductive types give the type invariant the runs check.
LEMMA TypesImply ==
    ASSUME Types PROVE TypeOK
  <1>1. \A r \in Requests : events[r] \in Seq(Frames)
    <2>1. \A r \in Requests : events[r] \in Seq(Sendable)
      BY DEF Types, TableTypes
    <2>2. Sendable \subseteq Frames
      BY DEF Sendable
    <2>3. Seq(Sendable) \subseteq Seq(Frames)
      <3> DEFINE S == Sendable
      <3> HIDE DEF S
      <3>1. S \subseteq Frames => Seq(S) \subseteq Seq(Frames)
        OBVIOUS
      <3> QED
        BY <2>2, <3>1 DEF S
    <2> QED
      BY <2>1, <2>3
  <1>2. reader.mode \in ReaderModes /\ reader.ev \in Frames
        /\ (reader.mode = "block" <=> reader.on \in Requests)
    BY DEF Types, ReaderTypes, Readers
  <1> QED
    BY <1>1, <1>2 DEF Types, TypeOK, FiberTypes, TableTypes, ConnTypes

\* The initial state has the types.
LEMMA TypesInit ==
    ASSUME Init PROVE Types
  <1>1. FiberTypes
    BY ClientAssumption DEF Init, FiberTypes, PCs, StreamStates, Statuses
  <1>2. TableTypes
    BY ClientAssumption DEF Init, TableTypes
  <1>3. ConnTypes
    BY ClientAssumption DEF Init, ConnTypes
  <1>4. ReaderTypes
    BY ClientAssumption DEF Init, ReaderTypes, Readers, ReaderModes, Plain, NoEvent,
       Frame, Frames
  <1>5. PeerTypes
    BY DEF Init, PeerTypes, Replies
  <1>6. wire \in Seq(Sendable)
    BY DEF Init
  <1> QED
    BY <1>1, <1>2, <1>3, <1>4, <1>5, <1>6 DEF Types

\* A frame the model makes is one.
LEMMA FrameFields ==
    ASSUME NEW type, NEW r, NEW val, NEW end
    PROVE  LET f == Frame(type, r, val, end) IN
           /\ f.type = type /\ f.on = r /\ f.val = val /\ f.end = end
           /\ f \in Frames <=> /\ type \in {"headers", "data", "rst", "error", "update",
                                            "connUpdate", "settings", "goaway", "bad", "none"}
                               /\ r \in Requests \cup {NoRequest}
                               /\ val \in Nat /\ end \in BOOLEAN
  BY DEF Frame, Frames

\* The smallest of four, as chunk_size takes it.
LEMMA SmallestOfFour ==
    ASSUME NEW a \in Int, NEW b \in Int, NEW c \in Int, NEW d \in Int
    PROVE  LET m == Min({a, b, c, d}) IN
           m \in Int /\ m <= a /\ m <= b /\ m <= c /\ m <= d
  <1> DEFINE S == {a, b, c, d}
  <1>1. \E x \in S : \A y \in S : x <= y
    OBVIOUS
  <1>2. Min(S) \in S /\ \A y \in S : Min(S) <= y
    BY <1>1 DEF Min
  <1> QED
    BY <1>2

\* A chunk is within the body, the frame size and both windows.
LEMMA ChunkFits ==
    ASSUME Types, NEW r \in Requests
    PROVE  LET n == ChunkSize(r) IN
           /\ n \in Int /\ n <= Body[r] - off[r] /\ n <= MaxFrame
           /\ n <= window[r] /\ n <= connWindow
  <1>1. /\ Body[r] - off[r] \in Int /\ MaxFrame \in Int /\ window[r] \in Int
        /\ connWindow \in Int
    <2>1. Body[r] \in Int /\ MaxFrame \in Int
      BY ClientAssumption DEF NoBody
    <2>2. off[r] \in Nat /\ window[r] \in Int
      BY DEF Types, FiberTypes
    <2>3. connWindow \in Int
      BY WindowAssumption DEF Types, ConnTypes
    <2> QED
      BY <2>1, <2>2, <2>3
  <1> QED
    BY <1>1, SmallestOfFour DEF ChunkSize

\* An event leaves a stream in some state.
LEMMA ApplyEventType ==
    ASSUME NEW s \in StreamStates, NEW end \in BOOLEAN,
           NEW type \in {"send_headers", "send_data", "recv_headers", "recv_data",
                         "recv_rst_stream"}
    PROVE  ApplyEvent(s, type, end) \in StreamStates
  <1> DEFINE e == [type |-> type, end |-> end]
  <1>1. e.type = type /\ e.end = end
    OBVIOUS
  <1> HIDE DEF e
  <1>2. Transition(s, e) \in StreamStates \cup {Failed}
    <2>1. CASE s = "idle"
      BY <1>1, <2>1 DEF Transition, FromIdle, StreamStates, ClosedStates, Failed
    <2>2. CASE s \in {"reserved_local", "reserved_remote"}
      BY <1>1, <2>2 DEF Transition, FromReserved, StreamStates, ClosedStates, Failed,
         AfterRst, RstTypes
    <2>3. CASE s = "open"
      BY <1>1, <2>3 DEF Transition, FromOpen, StreamStates, ClosedStates, Failed,
         AfterRst, SendTypes, RecvTypes, RstTypes, PushTypes
    <2>4. CASE s = "half_closed_local"
      BY <1>1, <2>4 DEF Transition, FromHalfClosed, StreamStates, ClosedStates, Failed,
         AfterRst, SendTypes, RecvTypes, RstTypes, PushTypes
    <2>5. CASE s = "half_closed_remote"
      BY <1>1, <2>5 DEF Transition, FromHalfClosed, StreamStates, ClosedStates, Failed,
         AfterRst, SendTypes, RecvTypes, RstTypes, PushTypes
    <2>6. CASE s \in ClosedStates
      BY <1>1, <2>6 DEF Transition, FromClosed, StreamStates, ClosedStates, Failed
    <2> QED
      BY <2>1, <2>2, <2>3, <2>4, <2>5, <2>6 DEF StreamStates
  <1>3. ApplyEvent(s, type, end)
          = IF Transition(s, e) = Failed THEN s ELSE Transition(s, e)
    BY DEF ApplyEvent, e
  <1> QED
    BY <1>2, <1>3

\* The ends of a queue, and of the wire.
LEMMA ListEnds ==
    ASSUME NEW list \in Seq(Sendable), list # << >>
    PROVE  Head(list) \in Sendable /\ Tail(list) \in Seq(Sendable)
           /\ Len(Tail(list)) = Len(list) - 1 /\ Len(list) \in Nat
  BY HeadTailProperties, EmptySeq

\* A program counter stays one when one fiber moves.
LEMMA PcTypes ==
    ASSUME Types, NEW r \in Requests, NEW p \in PCs, pc' = [pc EXCEPT ![r] = p]
    PROVE  pc' \in [Requests -> PCs]
  BY DEF Types, FiberTypes

\* Types of all that a request leaves alone.
LEMMA RestTypes ==
    ASSUME Types, UNCHANGED <<table, conn, reader, todo, wire, srv, initial>>
    PROVE  TableTypes' /\ ConnTypes' /\ ReaderTypes' /\ PeerTypes' /\ (wire \in Seq(Sendable))'
  <1>1. TableTypes'
    BY DEF Types, TableTypes, Streams, table
  <1>2. ConnTypes'
    BY DEF Types, ConnTypes, conn
  <1>3. ReaderTypes' /\ PeerTypes' /\ (wire \in Seq(Sendable))'
    BY DEF Types, ReaderTypes, PeerTypes
  <1> QED
    BY <1>1, <1>2, <1>3

\* The types are kept, action by action: a request on a closing connection.
LEMMA TypesRefuse ==
    ASSUME Types, NEW r \in Requests, Refuse(r) PROVE Types'
  <1>1. pc' \in [Requests -> PCs]
    BY PcTypes DEF Refuse, PCs
  <1>2. outcome' \in [Requests -> {"none", "ok", "error"}]
    BY DEF Refuse, Types, FiberTypes
  <1>3. FiberTypes'
    BY <1>1, <1>2 DEF Refuse, Types, FiberTypes, sending
  <1> QED
    BY <1>3, RestTypes DEF Refuse, sending, Types

\* The first request starts the reader.
LEMMA TypesStartReader ==
    ASSUME Types, NEW r \in Requests, StartReader(r) PROVE Types'
  <1>1. pc' \in [Requests -> PCs]
    BY PcTypes DEF StartReader, PCs
  <1>2. FiberTypes'
    BY <1>1 DEF StartReader, Types, FiberTypes, sending, reply
  <1>3. TableTypes'
    BY DEF StartReader, Types, TableTypes, table, sending, Streams
  <1>4. ConnTypes' /\ PeerTypes' /\ (wire \in Seq(Sendable))'
    BY DEF StartReader, Types, ConnTypes, conn, PeerTypes
  <1>5. ReaderTypes'
    <2>1. reader' = Plain("run")
      BY DEF StartReader
    <2> QED
      BY <2>1, ClientAssumption DEF ReaderTypes, Readers, ReaderModes, Plain, NoEvent,
         Frame, Frames
  <1> QED
    BY <1>2, <1>3, <1>4, <1>5 DEF Types

\* A request opens its stream.
LEMMA TypesStart ==
    ASSUME Types, NEW r \in Requests, Start(r) PROVE Types'
  <1>1. pc' \in [Requests -> PCs]
    BY PcTypes DEF Start, PCs
  <1>2. peerInit \in Nat /\ peerInit # NoStream
    BY WindowAssumption DEF Types, ConnTypes, NoStream
  <1>3. /\ window' \in [Requests -> Int]
        /\ initial' \in [Requests -> Nat \cup {NoStream}]
        /\ \A q \in Requests : initial'[q] = IF q = r THEN peerInit ELSE initial[q]
    BY <1>2 DEF Start, Types, FiberTypes
  <1>4. FiberTypes'
    BY <1>1, <1>3 DEF Start, Types, FiberTypes, reply
  <1>5. TableTypes'
    <2>1. handlers' \subseteq Streams'
      BY <1>2, <1>3 DEF Start, Types, TableTypes, Streams
    <2> QED
      BY <2>1 DEF Start, Types, TableTypes
  <1>6. ConnTypes' /\ PeerTypes' /\ (wire \in Seq(Sendable))' /\ ReaderTypes'
    BY DEF Start, Types, ConnTypes, conn, PeerTypes, ReaderTypes
  <1> QED
    BY <1>4, <1>5, <1>6 DEF Types

\* A request ends with an exception.
LEMMA TypesRaises ==
    ASSUME Types, NEW r \in Requests, Raises(r) PROVE Types'
  <1>1. pc' \in [Requests -> PCs]
    BY PcTypes DEF Raises, PCs
  <1>2. FiberTypes'
    BY <1>1 DEF Raises, Types, FiberTypes, sending, reply
  <1> QED
    BY <1>2, RestTypes DEF Raises, sending, Types

\* HEADERS are written.
LEMMA TypesWriteHeaders ==
    ASSUME Types, NEW r \in Requests, WriteHeaders(r) PROVE Types'
  <1> DEFINE end == Body[r] = NoBody
  <1>1. pc' \in [Requests -> PCs]
    BY PcTypes DEF WriteHeaders, PCs
  <1>2. stream' \in [Requests -> StreamStates]
    <2>1. end \in BOOLEAN
      OBVIOUS
    <2>2. stream' = [stream EXCEPT ![r] = ApplyEvent(@, "send_headers", end)]
          /\ stream \in [Requests -> StreamStates]
      BY DEF WriteHeaders, Types, FiberTypes
    <2> HIDE DEF end
    <2>3. ApplyEvent(stream[r], "send_headers", end) \in StreamStates
      BY <2>1, <2>2, ApplyEventType
    <2> QED
      BY <2>2, <2>3
  <1>3. FiberTypes'
    BY <1>1, <1>2 DEF WriteHeaders, Types, FiberTypes, sending
  <1>4. TableTypes'
    BY DEF WriteHeaders, Types, TableTypes, table, sending, Streams
  <1>5. ConnTypes' /\ (wire \in Seq(Sendable))' /\ ReaderTypes'
    BY DEF WriteHeaders, Types, ConnTypes, conn, ReaderTypes
  <1>6. PeerTypes'
    BY DEF WriteHeaders, Types, PeerTypes, Replies
  <1> QED
    BY <1>3, <1>4, <1>5, <1>6 DEF Types

\* A chunk is taken from both windows.
LEMMA TypesSendChunk ==
    ASSUME Types, NEW r \in Requests, SendChunk(r) PROVE Types'
  <1> DEFINE n == ChunkSize(r)
  <1>1. pc' \in [Requests -> PCs]
    BY PcTypes DEF SendChunk, PCs
  <1>2. n \in Int /\ n <= MaxFrame /\ n <= connWindow /\ n > 0
    BY ChunkFits DEF SendChunk
  <1>3. chunk' = [chunk EXCEPT ![r] = n] /\ window' = [window EXCEPT ![r] = @ - n]
        /\ connWindow' = connWindow - n
    BY DEF SendChunk
  <1> HIDE DEF n
  <1>4. chunk' \in [Requests -> 0 .. MaxFrame] /\ window' \in [Requests -> Int]
    BY <1>2, <1>3, ClientAssumption DEF Types, FiberTypes
  <1>5. connWindow' \in 0 .. MaxWindow
    BY <1>2, <1>3, WindowAssumption DEF Types, ConnTypes
  <1>6. FiberTypes'
    BY <1>1, <1>4 DEF SendChunk, Types, FiberTypes, reply
  <1>7. TableTypes'
    BY DEF SendChunk, Types, TableTypes, table, Streams
  <1>8. ConnTypes' /\ (wire \in Seq(Sendable))' /\ ReaderTypes' /\ PeerTypes'
    BY <1>5 DEF SendChunk, Types, ConnTypes, ReaderTypes, PeerTypes
  <1> QED
    BY <1>6, <1>7, <1>8 DEF Types

\* A chunk is on the wire.
LEMMA TypesChunkWritten ==
    ASSUME Types, NEW r \in Requests, ChunkWritten(r) PROVE Types'
  <1> DEFINE n == off[r] + chunk[r]
             end == n >= Body[r]
  <1>1. pc' \in [Requests -> PCs]
    BY PcTypes DEF ChunkWritten, PCs
  <1>2. n \in Nat /\ chunk[r] \in Nat /\ end \in BOOLEAN
    BY ClientAssumption DEF Types, FiberTypes
  <1>3. /\ off' = [off EXCEPT ![r] = n] /\ chunk' = [chunk EXCEPT ![r] = 0]
        /\ stream' = [stream EXCEPT ![r] = ApplyEvent(@, "send_data", end)]
        /\ srv' = [srv EXCEPT !.recv[r] = @ + chunk[r], !.ended[r] = @ \/ end]
    BY DEF ChunkWritten
  <1> HIDE DEF n, end
  <1>4. off' \in [Requests -> Nat] /\ chunk' \in [Requests -> 0 .. MaxFrame]
    BY <1>2, <1>3, ClientAssumption DEF Types, FiberTypes
  <1>5. stream' \in [Requests -> StreamStates]
    <2>1. stream \in [Requests -> StreamStates]
      BY DEF Types, FiberTypes
    <2>2. ApplyEvent(stream[r], "send_data", end) \in StreamStates
      BY <1>2, <2>1, ApplyEventType
    <2> QED
      BY <1>3, <2>1, <2>2
  <1>6. FiberTypes'
    BY <1>1, <1>4, <1>5 DEF ChunkWritten, Types, FiberTypes
  <1>7. TableTypes'
    BY DEF ChunkWritten, Types, TableTypes, table, Streams
  <1>8. ConnTypes' /\ (wire \in Seq(Sendable))' /\ ReaderTypes'
    BY DEF ChunkWritten, Types, ConnTypes, ReaderTypes, conn
  <1>9. PeerTypes'
    BY <1>2, <1>3 DEF Types, PeerTypes
  <1> QED
    BY <1>6, <1>7, <1>8, <1>9 DEF Types

\* A request waits for credit.
LEMMA TypesAwaitWindow ==
    ASSUME Types, NEW r \in Requests, AwaitWindow(r) PROVE Types'
  <1>1. pc' \in [Requests -> PCs]
    BY PcTypes DEF AwaitWindow, PCs
  <1>2. FiberTypes'
    BY <1>1 DEF AwaitWindow, Types, FiberTypes, sending, reply
  <1> QED
    BY <1>2, RestTypes DEF AwaitWindow, sending, Types

\* An event has been taken.
LEMMA TakenTypes ==
    ASSUME Types, NEW r \in Requests, events[r] # << >>,
           events' = [events EXCEPT ![r] = Tail(@)]
    PROVE  /\ Head(events[r]) \in Sendable
           /\ events' \in [Requests -> Seq(Sendable)]
           /\ \A q \in Requests : Len(events'[q]) <= QueueCap
  <1>1. events \in [Requests -> Seq(Sendable)] /\ \A q \in Requests : Len(events[q]) <= QueueCap
    BY DEF Types, TableTypes
  <1>2. /\ Head(events[r]) \in Sendable /\ Tail(events[r]) \in Seq(Sendable)
        /\ Len(Tail(events[r])) = Len(events[r]) - 1 /\ Len(events[r]) \in Nat
    BY <1>1, ListEnds
  <1>3. events' \in [Requests -> Seq(Sendable)] /\ events'[r] = Tail(events[r])
        /\ \A q \in Requests \ {r} : events'[q] = events[q]
    BY <1>1, <1>2
  <1> QED
    BY <1>1, <1>2, <1>3, ClientAssumption

\* A request takes an event between two chunks.
LEMMA TypesTakeWhileSending ==
    ASSUME Types, NEW r \in Requests, TakeWhileSending(r) PROVE Types'
  <1>1. pc' \in [Requests -> PCs]
    BY PcTypes DEF TakeWhileSending, PCs
  <1>2. FiberTypes'
    BY <1>1 DEF TakeWhileSending, Types, FiberTypes, sending, reply
  <1>3. events[r] # << >> /\ events' = [events EXCEPT ![r] = Tail(@)]
    BY DEF TakeWhileSending
  <1>4. TableTypes'
    BY <1>3, TakenTypes DEF TakeWhileSending, Types, TableTypes, sending, Streams
  <1>5. ConnTypes' /\ PeerTypes' /\ (wire \in Seq(Sendable))' /\ ReaderTypes'
    BY DEF TakeWhileSending, Types, ConnTypes, conn, PeerTypes, ReaderTypes
  <1> QED
    BY <1>2, <1>4, <1>5 DEF Types

\* A request takes an event of its response.
LEMMA TypesTakeResponse ==
    ASSUME Types, NEW r \in Requests, TakeResponse(r) PROVE Types'
  <1> DEFINE e == Head(events[r])
             failed == e.type \in Fatal
             over == e.end \/ failed
  <1>1. pc' \in [Requests -> PCs]
    BY PcTypes DEF TakeResponse, PCs
  <1>2. events[r] # << >> /\ events' = [events EXCEPT ![r] = Tail(@)]
    BY DEF TakeResponse
  <1>3. e \in Sendable
    BY <1>2, TakenTypes
  <1>4. e.end \in BOOLEAN /\ (e.type = "headers" => e.val \in Statuses)
    BY <1>3 DEF Sendable, Frames, Statuses
  <1>5. /\ status' = IF e.type = "headers" THEN [status EXCEPT ![r] = e.val] ELSE status
        /\ got' = IF e.type = "data" THEN [got EXCEPT ![r] = @ + 1] ELSE got
        /\ stream' = IF e.type \in DOMAIN StreamEvent
                     THEN [stream EXCEPT ![r] = ApplyEvent(@, StreamEvent[e.type], e.end)]
                     ELSE stream
        /\ outcome' = [outcome EXCEPT ![r] =
                         CASE ~over -> @
                           [] over -> IF failed \/ status'[r] = NoStatus THEN "error"
                                                                         ELSE "ok"]
        /\ handlers' \subseteq handlers
        /\ UNCHANGED <<sending, conn, reader, todo, wire, srv>>
    BY DEF TakeResponse
  <1>6. /\ status \in [Requests -> Statuses] /\ got \in [Requests -> Nat]
        /\ stream \in [Requests -> StreamStates]
        /\ outcome \in [Requests -> {"none", "ok", "error"}]
    BY DEF Types, FiberTypes
  <1> HIDE DEF e
  <1>7. status' \in [Requests -> Statuses] /\ got' \in [Requests -> Nat]
    BY <1>4, <1>5, <1>6
  <1>8. outcome' \in [Requests -> {"none", "ok", "error"}]
    <2>1. failed \in BOOLEAN /\ over \in BOOLEAN
      BY <1>4
    <2> HIDE DEF failed, over
    <2> QED
      BY <1>5, <1>6, <2>1
  <1>9. stream' \in [Requests -> StreamStates]
    <2>1. CASE e.type \in DOMAIN StreamEvent
      <3>1. StreamEvent[e.type] \in {"recv_headers", "recv_data", "recv_rst_stream"}
        BY <2>1 DEF StreamEvent
      <3>2. ApplyEvent(stream[r], StreamEvent[e.type], e.end) \in StreamStates
        BY <1>4, <1>6, <3>1, ApplyEventType
      <3> QED
        BY <1>5, <1>6, <2>1, <3>2
    <2>2. CASE e.type \notin DOMAIN StreamEvent
      BY <1>5, <1>6, <2>2
    <2> QED
      BY <2>1, <2>2
  <1>10. FiberTypes'
    BY <1>1, <1>5, <1>7, <1>8, <1>9 DEF Types, FiberTypes, sending
  <1>11. TableTypes'
    BY <1>2, <1>5, TakenTypes DEF Types, TableTypes, sending, Streams
  <1>12. ConnTypes' /\ PeerTypes' /\ (wire \in Seq(Sendable))' /\ ReaderTypes'
    BY <1>5 DEF Types, ConnTypes, conn, PeerTypes, ReaderTypes
  <1> QED
    BY <1>10, <1>11, <1>12 DEF Types

\* A request removes its handler.
LEMMA TypesUnregister ==
    ASSUME Types, NEW r \in Requests, Unregister(r) PROVE Types'
  <1>1. pc' \in [Requests -> PCs]
    BY PcTypes DEF Unregister, PCs
  <1>2. FiberTypes'
    BY <1>1 DEF Unregister, Types, FiberTypes, sending, reply
  <1>3. TableTypes'
    BY DEF Unregister, Types, TableTypes, sending, Streams
  <1>4. ConnTypes' /\ PeerTypes' /\ (wire \in Seq(Sendable))' /\ ReaderTypes'
    BY DEF Unregister, Types, ConnTypes, conn, PeerTypes, ReaderTypes
  <1> QED
    BY <1>2, <1>3, <1>4 DEF Types

\* Reading leaves the rest of the wire.
LEMMA ReadTypes ==
    ASSUME Types, NEW S, Reads(S)
    PROVE  /\ Head(wire) \in Sendable /\ Head(wire).type \in S
           /\ wire' = Tail(wire) /\ wire' \in Seq(Sendable) /\ wire # << >>
           /\ reader.mode = "run"
  BY ListEnds DEF Reads, Types

\* One more event in one queue.
LEMMA AddedTypes ==
    ASSUME Types, NEW r \in Requests, NEW e \in Sendable, Len(events[r]) < QueueCap,
           events' = [events EXCEPT ![r] = Append(@, e)]
    PROVE  /\ events' \in [Requests -> Seq(Sendable)]
           /\ \A q \in Requests : Len(events'[q]) <= QueueCap
  <1>1. events \in [Requests -> Seq(Sendable)] /\ \A q \in Requests : Len(events[q]) <= QueueCap
    BY DEF Types, TableTypes
  <1>2. Append(events[r], e) \in Seq(Sendable) /\ Len(Append(events[r], e)) = Len(events[r]) + 1
    BY <1>1
  <1>3. /\ events' \in [Requests -> Seq(Sendable)] /\ events'[r] = Append(events[r], e)
        /\ \A q \in Requests \ {r} : events'[q] = events[q]
    BY <1>1, <1>2
  <1>4. Len(events[r]) \in Nat
    BY <1>1
  <1> QED
    BY <1>1, <1>2, <1>3, <1>4, ClientAssumption

\* A reader suspended at a full queue has the reader's type.
LEMMA BlockedTypes ==
    ASSUME NEW r \in Requests, NEW e \in Sendable, NEW from \in {"run", "notify"},
           NEW next \in {"run", "stopped"}, reader' = Blocked(r, e, from, next)
    PROVE  ReaderTypes'
  <1>1. e \in Frames
    BY DEF Sendable
  <1>2. reader' \in Readers /\ reader'.mode = "block" /\ reader'.on = r /\ reader'.ev = e
    BY <1>1 DEF Blocked, Readers, ReaderModes
  <1> QED
    BY <1>2 DEF ReaderTypes

\* So has a reader that is not.
LEMMA PlainTypes ==
    ASSUME NEW mode \in ReaderModes \ {"block"}, NEW next \in {"run", "stopped"},
           reader' = [Plain(mode) EXCEPT !.next = next]
    PROVE  ReaderTypes'
  <1>1. NoEvent \in Frames
    BY DEF NoEvent, Frame, Frames
  <1>2. reader' \in Readers /\ reader'.mode = mode /\ reader'.on = NoRequest
    BY <1>1 DEF Plain, Readers
  <1> QED
    BY <1>2, ClientAssumption DEF ReaderTypes

\* An event added to a queue keeps it within its capacity.
LEMMA DeliverTypes ==
    ASSUME Types, NEW r \in Requests, NEW e \in Sendable, Deliver(r, e)
    PROVE  /\ events' \in [Requests -> Seq(Sendable)]
           /\ \A q \in Requests : Len(events'[q]) <= QueueCap
           /\ ReaderTypes'
  <1>1. CASE Len(events[r]) < QueueCap
    <2>1. events' = [events EXCEPT ![r] = Append(@, e)] /\ reader' = reader
      BY <1>1 DEF Deliver
    <2>2. ReaderTypes'
      BY <2>1 DEF Types, ReaderTypes
    <2> QED
      BY <1>1, <2>1, <2>2, AddedTypes
  <1>2. CASE ~ (Len(events[r]) < QueueCap)
    <2>1. events' = events /\ reader' = Blocked(r, e, "run", "run")
      BY <1>2 DEF Deliver
    <2>2. ReaderTypes'
      BY <2>1, BlockedTypes
    <2> QED
      BY <2>1, <2>2 DEF Types, TableTypes
  <1> QED
    BY <1>1, <1>2

\* So do the events of a connection error, for as many handlers as take them.
LEMMA AnnounceTypes ==
    ASSUME Types, NEW S \in SUBSET Requests, NEW next \in {"run", "stopped"},
           Announce(S, next)
    PROVE  /\ events' \in [Requests -> Seq(Sendable)]
           /\ \A q \in Requests : Len(events'[q]) <= QueueCap
           /\ todo' \subseteq Requests
           /\ ReaderTypes'
  <1>1. PICK told \in SUBSET {r \in S : Len(events[r]) < QueueCap} :
        /\ events' = [r \in Requests |->
                        IF r \in told THEN Append(events[r], ConnectionError(r))
                                      ELSE events[r]]
        /\ \/ /\ told = S
              /\ todo' = {}
              /\ reader' = Plain(next)
           \/ \E r \in S \ told :
                 /\ Len(events[r]) >= QueueCap
                 /\ todo' = S \ (told \cup {r})
                 /\ reader' = Blocked(r, ConnectionError(r), "notify", next)
    BY DEF Announce
  <1>2. \A r \in Requests : ConnectionError(r) \in Sendable
    BY DEF ConnectionError, Frame, Frames, Sendable
  <1>3. \A r \in Requests : events[r] \in Seq(Sendable) /\ Len(events[r]) <= QueueCap
                            /\ Len(events[r]) \in Nat
    BY DEF Types, TableTypes
  <1>4. ASSUME NEW r \in Requests
        PROVE  events'[r] \in Seq(Sendable) /\ Len(events'[r]) <= QueueCap
    <2>1. CASE r \in told
      <3>1. events'[r] = Append(events[r], ConnectionError(r))
        BY <1>1, <2>1
      <3>2. Len(events[r]) < QueueCap
        BY <2>1
      <3>3. Append(events[r], ConnectionError(r)) \in Seq(Sendable)
            /\ Len(Append(events[r], ConnectionError(r))) = Len(events[r]) + 1
        BY <1>2, <1>3
      <3> QED
        BY <1>3, <3>1, <3>2, <3>3, ClientAssumption
    <2>2. CASE r \notin told
      BY <1>1, <1>3, <2>2
    <2> QED
      BY <2>1, <2>2
  <1>5. events' \in [Requests -> Seq(Sendable)]
    BY <1>1, <1>4
  <1>6. todo' \subseteq Requests
    BY <1>1
  <1>7. CASE reader' = Plain(next)
    <2>1. Plain(next) = [Plain(next) EXCEPT !.next = "run"]
      BY DEF Plain
    <2>2. next \in ReaderModes \ {"block"} /\ "run" \in {"run", "stopped"}
      BY DEF ReaderModes
    <2>3. ReaderTypes'
      BY <1>7, <2>1, <2>2, PlainTypes
    <2> QED
      BY <1>4, <1>5, <1>6, <2>3
  <1>8. ASSUME NEW r \in S \ told,
               reader' = Blocked(r, ConnectionError(r), "notify", next)
        PROVE  ReaderTypes'
    <2>1. r \in Requests /\ ConnectionError(r) \in Sendable /\ "notify" \in {"run", "notify"}
      BY <1>2
    <2> QED
      BY <1>8, <2>1, BlockedTypes
  <1> QED
    BY <1>1, <1>4, <1>5, <1>6, <1>7, <1>8

\* The queue the reader waits for has room again.
LEMMA TypesUnblock ==
    ASSUME Types, Unblock PROVE Types'
  <1>1. /\ reader.mode = "block" /\ Len(events[reader.on]) < QueueCap
        /\ events' = [events EXCEPT ![reader.on] = Append(@, reader.ev)]
        /\ reader' = [Plain(reader.from) EXCEPT !.next = reader.next]
    BY DEF Unblock
  <1>2. reader.on \in Requests /\ reader.ev \in Sendable
        /\ reader.from \in {"run", "notify"} /\ reader.next \in {"run", "stopped"}
    BY <1>1 DEF Types, ReaderTypes, Readers
  <1>3. ReaderTypes'
    <2>1. reader.from \in ReaderModes \ {"block"}
      BY <1>2 DEF ReaderModes
    <2> QED
      BY <1>1, <1>2, <2>1, PlainTypes
  <1>4. events' \in [Requests -> Seq(Sendable)] /\ \A q \in Requests : Len(events'[q]) <= QueueCap
    BY <1>1, <1>2, AddedTypes
  <1>5. FiberTypes'
    BY DEF Unblock, Types, FiberTypes, sending, reply
  <1>6. TableTypes'
    BY <1>4 DEF Unblock, Types, TableTypes, sending, Streams
  <1>7. ConnTypes' /\ PeerTypes' /\ (wire \in Seq(Sendable))'
    BY DEF Unblock, Types, ConnTypes, conn, PeerTypes
  <1> QED
    BY <1>3, <1>5, <1>6, <1>7 DEF Types

\* The reader takes a frame of a stream.
LEMMA TypesReadForStream ==
    ASSUME Types, ReadForStream PROVE Types'
  <1>1. /\ Head(wire) \in Sendable /\ wire' \in Seq(Sendable)
        /\ Head(wire).type \in {"headers", "data", "rst", "error"}
    BY ReadTypes DEF ReadForStream
  <1>2. Head(wire).on \in Requests
    BY <1>1 DEF Sendable
  <1>3. /\ events' \in [Requests -> Seq(Sendable)]
        /\ \A q \in Requests : Len(events'[q]) <= QueueCap
        /\ ReaderTypes'
    <2>1. CASE Head(wire).on \in handlers
      BY <1>1, <1>2, <2>1, DeliverTypes DEF ReadForStream
    <2>2. CASE Head(wire).on \notin handlers
      BY <2>2 DEF ReadForStream, Types, TableTypes, ReaderTypes
    <2> QED
      BY <2>1, <2>2
  <1>4. FiberTypes'
    BY DEF ReadForStream, Types, FiberTypes, sending, reply
  <1>5. TableTypes'
    BY <1>3 DEF ReadForStream, Types, TableTypes, sending, Streams
  <1>6. ConnTypes' /\ PeerTypes'
    BY DEF ReadForStream, Types, ConnTypes, conn, PeerTypes
  <1> QED
    BY <1>1, <1>3, <1>4, <1>5, <1>6 DEF Types

\* The reader takes a stream's WINDOW_UPDATE.
LEMMA TypesReadStreamUpdate ==
    ASSUME Types, ReadStreamUpdate PROVE Types'
  <1>1. Head(wire) \in Sendable /\ wire' \in Seq(Sendable) /\ Head(wire).type = "update"
    BY ReadTypes DEF ReadStreamUpdate
  <1>2. Head(wire).on \in Requests /\ Head(wire).val \in Nat
    BY <1>1 DEF Sendable, Frames
  <1>3. /\ events' \in [Requests -> Seq(Sendable)]
        /\ \A q \in Requests : Len(events'[q]) <= QueueCap
        /\ ReaderTypes' /\ window' \in [Requests -> Int]
    <2>1. window \in [Requests -> Int]
      BY DEF Types, FiberTypes
    <2>2. CASE Head(wire).on \in handlers /\ CreditFits(window[Head(wire).on], Head(wire).val)
      <3>1. Deliver(Head(wire).on, Head(wire))
            /\ window' = [window EXCEPT ![Head(wire).on] = @ + Head(wire).val]
        BY <2>2 DEF ReadStreamUpdate
      <3> QED
        BY <1>1, <1>2, <2>1, <3>1, DeliverTypes
    <2>3. CASE ~ (Head(wire).on \in handlers /\ CreditFits(window[Head(wire).on], Head(wire).val))
      BY <2>1, <2>3 DEF ReadStreamUpdate, Types, TableTypes, ReaderTypes
    <2> QED
      BY <2>2, <2>3
  <1>4. FiberTypes'
    BY <1>3 DEF ReadStreamUpdate, Types, FiberTypes, reply
  <1>5. TableTypes'
    BY <1>3 DEF ReadStreamUpdate, Types, TableTypes, Streams
  <1>6. ConnTypes' /\ PeerTypes'
    BY DEF ReadStreamUpdate, Types, ConnTypes, conn, PeerTypes
  <1> QED
    BY <1>1, <1>3, <1>4, <1>5, <1>6 DEF Types

\* The reader takes the connection's WINDOW_UPDATE.
LEMMA TypesReadConnUpdate ==
    ASSUME Types, ReadConnUpdate PROVE Types'
  <1>1. Head(wire) \in Sendable /\ wire' \in Seq(Sendable)
    BY ReadTypes DEF ReadConnUpdate
  <1>2. connWindow' \in 0 .. MaxWindow
    BY <1>1, WindowAssumption DEF ReadConnUpdate, CreditFits, Sendable, Frames, Types, ConnTypes
  <1>3. FiberTypes'
    BY DEF ReadConnUpdate, Types, FiberTypes, reply, sending
  <1>4. TableTypes'
    BY DEF ReadConnUpdate, Types, TableTypes, Streams, table, sending
  <1>5. ConnTypes' /\ PeerTypes' /\ ReaderTypes'
    BY <1>2 DEF ReadConnUpdate, Types, ConnTypes, PeerTypes, ReaderTypes
  <1> QED
    BY <1>1, <1>3, <1>4, <1>5 DEF Types

\* The windows after a resize.
LEMMA ResizedTypes ==
    ASSUME Types, NEW n \in Int, ResizeStreams(n)
    PROVE  window' \in [Requests -> Int]
  <1>1. window \in [Requests -> Int] /\ initial \in [Requests -> Int]
    BY DEF Types, FiberTypes, NoStream
  <1> QED
    BY <1>1 DEF ResizeStreams, Resized

\* SETTINGS are applied.
LEMMA AppliedTypes ==
    ASSUME Types, Reads({"settings"}), ApplySettings(Head(wire).val),
           UNCHANGED <<pc, reply, handlers, srv>>
    PROVE  FiberTypes' /\ ConnTypes' /\ PeerTypes' /\ Streams' = Streams
  <1> DEFINE n == Head(wire).val
  <1>1. Head(wire) \in Sendable /\ Head(wire).type = "settings"
    BY ReadTypes
  <1>2. n \in 0 .. MaxWindow /\ n \in Int
    BY <1>1, WindowAssumption DEF Sendable
  <1>3. /\ ResizeStreams(n) /\ peerInit' = n
        /\ drifted' = drifted \cup {r \in Streams : initial[r] # peerInit}
        /\ UNCHANGED <<off, chunk, initial, connWindow, connState, connError>>
    BY DEF ApplySettings
  <1> HIDE DEF n
  <1>4. window' \in [Requests -> Int]
    BY <1>2, <1>3, ResizedTypes
  <1>5. drifted' \subseteq Requests
    BY <1>3 DEF Types, FiberTypes, Streams
  <1>6. FiberTypes'
    BY <1>3, <1>4, <1>5 DEF Types, FiberTypes, reply
  <1>7. ConnTypes' /\ PeerTypes'
    BY <1>2, <1>3 DEF Types, ConnTypes, PeerTypes
  <1> QED
    BY <1>3, <1>6, <1>7 DEF Streams

\* The reader takes SETTINGS.
LEMMA TypesReadSettings ==
    ASSUME Types, ReadSettings PROVE Types'
  <1>1. wire' \in Seq(Sendable) /\ Reads({"settings"}) /\ ApplySettings(Head(wire).val)
    BY ReadTypes DEF ReadSettings
  <1>2. UNCHANGED <<pc, reply, handlers, events, reader, todo, srv>>
    BY DEF ReadSettings, table
  <1>3. FiberTypes' /\ ConnTypes' /\ PeerTypes' /\ Streams' = Streams
    BY <1>1, <1>2, AppliedTypes
  <1>4. TableTypes' /\ ReaderTypes'
    BY <1>2, <1>3 DEF Types, TableTypes, ReaderTypes
  <1> QED
    BY <1>1, <1>3, <1>4 DEF Types

\* The reader takes GOAWAY.
LEMMA TypesReadGoaway ==
    ASSUME Types, ReadGoaway PROVE Types'
  <1>1. wire' \in Seq(Sendable)
    BY ReadTypes DEF ReadGoaway
  <1>2. Announce(handlers, "run") /\ handlers \in SUBSET Requests /\ "run" \in {"run", "stopped"}
    BY DEF ReadGoaway, Types, TableTypes, Streams
  <1>3. /\ events' \in [Requests -> Seq(Sendable)]
        /\ \A q \in Requests : Len(events'[q]) <= QueueCap
        /\ todo' \subseteq Requests /\ ReaderTypes'
    BY <1>2, AnnounceTypes
  <1>4. FiberTypes'
    BY DEF ReadGoaway, Types, FiberTypes, reply, sending
  <1>5. TableTypes'
    BY <1>3 DEF ReadGoaway, Types, TableTypes, Streams, sending
  <1>6. ConnTypes' /\ PeerTypes'
    BY DEF ReadGoaway, Types, ConnTypes, PeerTypes
  <1> QED
    BY <1>1, <1>3, <1>4, <1>5, <1>6 DEF Types

\* The reader meets the end of the connection or an error of it.
LEMMA TypesReadEnd ==
    ASSUME Types, ReadEnd PROVE Types'
  <1>1. wire' \in Seq(Sendable) /\ window' \in [Requests -> Int]
    <2>1. wire \in Seq(Sendable) /\ window \in [Requests -> Int]
      BY DEF Types, FiberTypes
    <2>2. CASE Reads({"bad"}) /\ UNCHANGED window
      BY <2>1, <2>2, ReadTypes
    <2>3. CASE Reads({"connUpdate"}) /\ UNCHANGED window
      BY <2>1, <2>3, ReadTypes
    <2>4. CASE Reads({"settings"}) /\ ResizeStreams(Head(wire).val)
      <3>1. Head(wire) \in Sendable /\ wire' \in Seq(Sendable)
        BY <2>4, ReadTypes
      <3>2. Head(wire).val \in Int
        BY <3>1 DEF Sendable, Frames
      <3> QED
        BY <2>4, <3>1, <3>2, ResizedTypes
    <2>5. CASE UNCHANGED <<wire, window>>
      BY <2>1, <2>5
    <2> QED
      BY <2>2, <2>3, <2>4, <2>5 DEF ReadEnd
  <1>2. Announce(handlers, "stopped") /\ handlers \in SUBSET Requests
        /\ "stopped" \in {"run", "stopped"}
    BY DEF ReadEnd, Types, TableTypes, Streams
  <1>3. /\ events' \in [Requests -> Seq(Sendable)]
        /\ \A q \in Requests : Len(events'[q]) <= QueueCap
        /\ todo' \subseteq Requests /\ ReaderTypes'
    BY <1>2, AnnounceTypes
  <1>4. /\ UNCHANGED <<pc, off, chunk, initial, drifted, reply, handlers, connWindow,
                       peerInit, connState, srv>>
        /\ connError' = TRUE
    BY DEF ReadEnd
  <1>5. FiberTypes'
    BY <1>1, <1>4 DEF Types, FiberTypes, reply
  <1>6. TableTypes'
    BY <1>3, <1>4 DEF Types, TableTypes, Streams
  <1>7. ConnTypes' /\ PeerTypes'
    BY <1>4 DEF Types, ConnTypes, PeerTypes
  <1> QED
    BY <1>1, <1>3, <1>5, <1>6, <1>7 DEF Types

\* The reader tells the next handlers.
LEMMA TypesNotify ==
    ASSUME Types, Notify PROVE Types'
  <1>1. /\ Announce(todo, reader.next) /\ todo \in SUBSET Requests
        /\ reader.next \in {"run", "stopped"}
    BY DEF Notify, Types, TableTypes, ReaderTypes, Readers
  <1>2. /\ events' \in [Requests -> Seq(Sendable)]
        /\ \A q \in Requests : Len(events'[q]) <= QueueCap
        /\ todo' \subseteq Requests /\ ReaderTypes'
    BY <1>1, AnnounceTypes
  <1>3. FiberTypes'
    BY DEF Notify, Types, FiberTypes, reply, sending
  <1>4. TableTypes'
    BY <1>2 DEF Notify, Types, TableTypes, Streams, sending
  <1>5. ConnTypes' /\ PeerTypes' /\ (wire \in Seq(Sendable))'
    BY DEF Notify, Types, ConnTypes, PeerTypes, conn
  <1> QED
    BY <1>2, <1>3, <1>4, <1>5 DEF Types

\* The reader raises.
LEMMA TypesReaderDies ==
    ASSUME Types, ReaderDies PROVE Types'
  <1>1. wire' \in Seq(Sendable)
    BY ReadTypes DEF ReaderDies
  <1>2. ReaderTypes'
    <2>1. reader' = [Plain("dead") EXCEPT !.next = "run"]
      BY DEF ReaderDies, Plain
    <2>2. "dead" \in ReaderModes \ {"block"} /\ "run" \in {"run", "stopped"}
      BY DEF ReaderModes
    <2> QED
      BY <2>1, <2>2, PlainTypes
  <1>3. FiberTypes' /\ ConnTypes' /\ PeerTypes' /\ Streams' = Streams
    <2>1. UNCHANGED <<pc, reply, handlers, srv>>
      BY DEF ReaderDies, table
    <2>2. CASE UNCHANGED <<sending, conn>>
      BY <2>1, <2>2 DEF Types, FiberTypes, ConnTypes, PeerTypes, Streams, reply, sending, conn
    <2>3. CASE Reads({"settings"}) /\ ApplySettings(Head(wire).val)
      BY <2>1, <2>3, AppliedTypes
    <2> QED
      BY <2>2, <2>3 DEF ReaderDies
  <1>4. TableTypes'
    BY <1>3 DEF ReaderDies, Types, TableTypes, table
  <1> QED
    BY <1>1, <1>2, <1>3, <1>4 DEF Types

\* A frame the peer sends.
LEMMA PostTypes ==
    ASSUME Types, NEW f \in Sendable, Post(f)
    PROVE  /\ FiberTypes' /\ TableTypes' /\ ConnTypes' /\ ReaderTypes'
           /\ wire' = Append(wire, f) /\ wire' \in Seq(Sendable)
  <1>1. wire' = Append(wire, f) /\ wire \in Seq(Sendable)
    BY DEF Post, Types
  <1>2. FiberTypes'
    BY DEF Post, Types, FiberTypes, reply, sending
  <1>3. TableTypes'
    BY DEF Post, Types, TableTypes, Streams, sending, table
  <1>4. ConnTypes' /\ ReaderTypes'
    BY DEF Post, Types, ConnTypes, ReaderTypes, conn
  <1> QED
    BY <1>1, <1>2, <1>3, <1>4

\* The frames it sends.
LEMMA SendableFrames ==
    ASSUME NEW r \in Requests, NEW end \in BOOLEAN
    PROVE  /\ Frame("headers", r, Info, FALSE) \in Sendable
           /\ Frame("headers", r, Final, end) \in Sendable
           /\ Frame("headers", r, Default, end) \in Sendable
           /\ Frame("error", r, Final, end) \in Sendable
           /\ Frame("data", r, 1, end) \in Sendable
           /\ Frame("rst", r, 0, FALSE) \in Sendable
           /\ \A n \in Nat : Frame("update", r, n, FALSE) \in Sendable
  BY DEF Frame, Sendable, Frames, Info, Final, Default

\* The frames of the connection that the peer may send.
LEMMA SendableConnFrames ==
    /\ \A n \in Nat : Frame("connUpdate", NoRequest, n, FALSE) \in Sendable
    /\ \A n \in 0 .. MaxWindow : Frame("settings", NoRequest, n, FALSE) \in Sendable
    /\ Frame("goaway", NoRequest, 0, FALSE) \in Sendable
    /\ Frame("bad", NoRequest, 0, FALSE) \in Sendable
  BY WindowAssumption DEF Frame, Sendable, Frames

\* What the peer has received in all is a number.
LEMMA ReceivedType ==
    ASSUME Types PROVE Received \in Nat
  BY ClientAssumption, SumNatural DEF Received, Types, PeerTypes

\* The peer answers or resets a request.
LEMMA TypesReplies ==
    ASSUME Types, NEW r \in Requests,
           ReplyInfo(r) \/ ReplyHeaders(r) \/ ReplyBody(r) \/ ReplyTrailers(r) \/ Reset(r)
    PROVE  Types'
  <1>1. \A n : Ends(n) \subseteq BOOLEAN
    BY DEF Ends
  <1>2. CASE ReplyInfo(r)
    <2>1. Frame("headers", r, Info, FALSE) \in Sendable
      BY SendableFrames
    <2>2. PeerTypes'
      BY <1>2 DEF ReplyInfo, Types, PeerTypes, Replies
    <2> QED
      BY <1>2, <2>1, <2>2, PostTypes DEF ReplyInfo, Types
  <1>3. CASE ReplyHeaders(r)
    <2>1. PICK end \in BOOLEAN, type \in {"headers", "error"} :
             /\ Post(Frame(type, r, Final, end))
             /\ srv' = [srv EXCEPT !.reply[r] = IF end THEN "done" ELSE "headers"]
      BY <1>1, <1>3 DEF ReplyHeaders
    <2>2. Frame(type, r, Final, end) \in Sendable
      BY SendableFrames
    <2>3. PeerTypes'
      BY <2>1 DEF Types, PeerTypes, Replies
    <2> QED
      BY <2>1, <2>2, <2>3, PostTypes DEF Types
  <1>4. CASE ReplyBody(r)
    <2>1. PICK end \in BOOLEAN :
             /\ Post(Frame("data", r, 1, end))
             /\ srv' = [srv EXCEPT !.sent[r] = @ + 1,
                                   !.reply[r] = IF end THEN "done" ELSE "headers"]
      BY <1>1, <1>4 DEF ReplyBody
    <2>2. Frame("data", r, 1, end) \in Sendable
      BY SendableFrames
    <2>3. PeerTypes'
      BY <2>1 DEF Types, PeerTypes, Replies
    <2> QED
      BY <2>1, <2>2, <2>3, PostTypes DEF Types
  <1>5. CASE ReplyTrailers(r)
    <2>1. Frame("headers", r, Default, TRUE) \in Sendable
      BY SendableFrames
    <2>2. PeerTypes'
      BY <1>5 DEF ReplyTrailers, Types, PeerTypes, Replies
    <2> QED
      BY <1>5, <2>1, <2>2, PostTypes DEF ReplyTrailers, Types
  <1>6. CASE Reset(r)
    <2>1. Frame("rst", r, 0, FALSE) \in Sendable
      BY SendableFrames
    <2>2. PeerTypes'
      BY <1>6 DEF Reset, Types, PeerTypes, Replies
    <2> QED
      BY <1>6, <2>1, <2>2, PostTypes DEF Reset, Types
  <1> QED
    BY <1>2, <1>3, <1>4, <1>5, <1>6

\* The peer grants credit.
LEMMA TypesGrants ==
    ASSUME Types, GrantConn \/ \E r \in Requests : Grant(r)
    PROVE  Types'
  <1>1. CASE GrantConn
    <2>1. Received \in Nat /\ srv.connGrant \in Nat /\ srv.connGrant < Received
      BY <1>1, ReceivedType DEF GrantConn, Types, PeerTypes
    <2>2. Frame("connUpdate", NoRequest, Received - srv.connGrant, FALSE) \in Sendable
      <3>1. Received - srv.connGrant \in Nat
        BY <2>1
      <3> QED
        BY <3>1, SendableConnFrames
    <2>3. PeerTypes'
      BY <1>1, <2>1 DEF GrantConn, Types, PeerTypes
    <2> QED
      BY <1>1, <2>2, <2>3, PostTypes DEF GrantConn, Types
  <1>2. ASSUME NEW r \in Requests, Grant(r)
        PROVE  Types'
    <2>1. srv.recv[r] \in Nat /\ srv.grant[r] \in Nat /\ srv.grant[r] < srv.recv[r]
      BY <1>2 DEF Grant, Types, PeerTypes
    <2>2. Frame("update", r, srv.recv[r] - srv.grant[r], FALSE) \in Sendable
      <3>1. srv.recv[r] - srv.grant[r] \in Nat
        BY <2>1
      <3> QED
        BY <3>1, SendableFrames
    <2>3. PeerTypes'
      BY <1>2, <2>1 DEF Grant, Types, PeerTypes
    <2> QED
      BY <1>2, <2>2, <2>3, PostTypes DEF Grant, Types
  <1> QED
    BY <1>1, <1>2

\* The peer misbehaves, changes its settings or leaves.
LEMMA TypesFaults ==
    ASSUME Types, SendBad \/ SendSettings \/ SendGoaway \/ Close
    PROVE  Types'
  <1>1. CASE /\ Post(Frame("bad", NoRequest, 0, FALSE))
             /\ srv' = [srv EXCEPT !.unasked = @ + 1]
    <2>1. PeerTypes'
      BY <1>1 DEF Types, PeerTypes
    <2> QED
      BY <1>1, <2>1, SendableConnFrames, PostTypes DEF Types
  <1>2. CASE /\ Post(Frame("connUpdate", NoRequest, MaxWindow, FALSE))
             /\ srv' = [srv EXCEPT !.unasked = @ + 1,
                                   !.connGrant = @ + MaxWindow]
    <2>1. PeerTypes'
      BY <1>2, WindowAssumption DEF Types, PeerTypes
    <2>2. Frame("connUpdate", NoRequest, MaxWindow, FALSE) \in Sendable
      BY WindowAssumption, SendableConnFrames
    <2> QED
      BY <1>2, <2>1, <2>2, PostTypes DEF Types
  <1>3. CASE SendSettings
    <2>1. PICK n \in Settings : Post(Frame("settings", NoRequest, n, FALSE))
      BY <1>3 DEF SendSettings
    <2>2. PeerTypes'
      BY <1>3 DEF SendSettings, Types, PeerTypes
    <2>3. Frame("settings", NoRequest, n, FALSE) \in Sendable
      BY ClientAssumption, SendableConnFrames
    <2> QED
      BY <2>1, <2>2, <2>3, PostTypes DEF Types
  <1>4. CASE SendGoaway
    <2>1. PeerTypes'
      BY <1>4 DEF SendGoaway, Types, PeerTypes
    <2> QED
      BY <1>4, <2>1, SendableConnFrames, PostTypes DEF SendGoaway, Types
  <1>5. CASE Close
    <2>1. FiberTypes' /\ ConnTypes' /\ ReaderTypes' /\ (wire \in Seq(Sendable))'
      BY <1>5 DEF Close, Types, FiberTypes, sending, reply, ConnTypes, conn, ReaderTypes
    <2>2. TableTypes'
      BY <1>5 DEF Close, Types, TableTypes, table, Streams, sending
    <2>3. PeerTypes'
      BY <1>5 DEF Close, Types, PeerTypes
    <2> QED
      BY <2>1, <2>2, <2>3 DEF Types
  <1> QED
    BY <1>1, <1>2, <1>3, <1>4, <1>5 DEF SendBad

\* Nothing happens.
LEMMA TypesStutter ==
    ASSUME Types, UNCHANGED vars PROVE Types'
  <1>1. FiberTypes' /\ PeerTypes' /\ (pc \in [Requests -> PCs])'
    BY DEF vars, sending, reply, Types, FiberTypes, PeerTypes
  <1> QED
    BY <1>1, RestTypes DEF vars, sending, Types

\* Every step keeps the types.
LEMMA TypesStep ==
    ASSUME Types, [Next]_vars PROVE Types'
  <1>1. ASSUME NEW r \in Requests, RequestStep(r)
        PROVE  Types'
    BY <1>1, TypesRefuse, TypesStartReader, TypesStart, TypesWriteHeaders, TypesSendChunk,
       TypesChunkWritten, TypesAwaitWindow, TypesTakeWhileSending, TypesTakeResponse,
       TypesUnregister DEF RequestStep
  <1>2. CASE ReaderStep
    BY <1>2, TypesUnblock, TypesReadForStream, TypesReadStreamUpdate, TypesReadConnUpdate,
       TypesReadSettings, TypesReadGoaway, TypesReadEnd, TypesNotify DEF ReaderStep
  <1>3. ASSUME NEW r \in Requests, Answer(r) \/ Reset(r) \/ ReplyInfo(r)
        PROVE  Types'
    BY <1>3, TypesReplies DEF Answer
  <1>4. ASSUME NEW r \in Requests, WriteRaises(r) \/ Cancel(r)
        PROVE  Types'
    BY <1>4, TypesRaises DEF WriteRaises, Cancel
  <1>5. CASE Fault
    BY <1>3, <1>4, <1>5, TypesFaults, TypesReaderDies DEF Fault
  <1>6. CASE GrantConn \/ \E r \in Requests : Grant(r)
    BY <1>6, TypesGrants
  <1>7. CASE UNCHANGED vars
    BY <1>7, TypesStutter
  <1> QED
    BY <1>1, <1>2, <1>3, <1>5, <1>6, <1>7 DEF Next

\* Every variable has its type: no event queue exceeds its capacity, and the
\* connection window is never overdrawn by requests that send at once, whatever
\* the peer does.
THEOREM TypeCorrect == Spec => []TypeOK
  <1>1. Spec => []Types
    BY TypesInit, TypesStep, PTL DEF Spec
  <1>2. Types => TypeOK
    BY TypesImply
  <1> QED
    BY <1>1, <1>2, PTL

----------------------------------------------------------------------------
(* Where a request stands, and what that says of it.                          *)

StageAt(r) ==
    /\ chunk[r] # 0 => pc[r] \in {"writing", "raised"}
    /\ srv.grant[r] <= srv.recv[r]
    /\ pc[r] \in {"idle", "fork", "headers"} => srv.recv[r] = 0 /\ srv.reply[r] = "none"
    /\ pc[r] \in {"idle", "fork"} => r \notin handlers
    /\ pc[r] \in {"headers", "body", "writing", "awaitWindow", "await"} => r \in handlers

Stages == \A r \in Requests : StageAt(r)

\* Initially every request is at its first stage.
LEMMA StagesInit ==
    ASSUME Init PROVE Stages
  BY DEF Init, Stages, StageAt

\* A step of one request.
LEMMA StagesMove ==
    ASSUME Types, Stages, NEW r \in Requests, NEW p, pc' = [pc EXCEPT ![r] = p],
           \A q \in Requests \ {r} :
              /\ chunk'[q] = chunk[q] /\ srv'.grant[q] = srv.grant[q]
              /\ srv'.recv[q] = srv.recv[q] /\ srv'.reply[q] = srv.reply[q]
              /\ q \in handlers' <=> q \in handlers,
           StageAt(r)'
    PROVE  Stages'
  <1>1. \A q \in Requests \ {r} : pc'[q] = pc[q]
    BY DEF Types, FiberTypes
  <1>2. ASSUME NEW q \in Requests \ {r} PROVE StageAt(q)'
    BY <1>1 DEF Stages, StageAt
  <1> QED
    BY <1>2 DEF Stages

\* A step of the reader or the peer.
LEMMA StagesElsewhere ==
    ASSUME Types, Stages, UNCHANGED <<pc, chunk, handlers>>, srv'.recv = srv.recv,
           \A r \in Requests : srv'.grant[r] \in {srv.grant[r], srv.recv[r]},
           \A r \in Requests : srv.reply[r] = "none" => srv'.reply[r] = "none"
    PROVE  Stages'
  <1> SUFFICES ASSUME NEW r \in Requests PROVE StageAt(r)'
    BY DEF Stages
  <1>1. srv.recv[r] \in Nat /\ srv.recv[r] <= srv.recv[r]
    BY DEF Types, PeerTypes
  <1> QED
    BY <1>1 DEF Stages, StageAt

\* Steps that change no more than where the request stands.
LEMMA StagesWalk ==
    ASSUME Types, Stages, NEW r \in Requests,
           Refuse(r) \/ StartReader(r) \/ AwaitWindow(r) \/ TakeWhileSending(r)
             \/ (pc[r] # "idle" /\ Raises(r))
    PROVE  Stages'
  <1>1. /\ UNCHANGED <<chunk, handlers, srv>>
        /\ \/ pc' = [pc EXCEPT ![r] = "done"] /\ pc[r] \in {"idle", "fork"}
           \/ pc' = [pc EXCEPT ![r] = "fork"] /\ pc[r] = "idle"
           \/ pc' = [pc EXCEPT ![r] = "awaitWindow"] /\ pc[r] = "body"
           \/ pc' = [pc EXCEPT ![r] = "body"] /\ pc[r] = "awaitWindow"
           \/ pc' = [pc EXCEPT ![r] = "raised"]
    BY DEF Refuse, StartReader, AwaitWindow, TakeWhileSending, Raises, sending, table
  <1>2. pc \in [Requests -> PCs] /\ StageAt(r)
    BY DEF Types, FiberTypes, Stages
  <1>3. StageAt(r)'
    BY <1>1, <1>2 DEF StageAt
  <1> QED
    BY <1>1, <1>3, StagesMove

\* The steps of a request keep the stages.
LEMMA StagesRequest ==
    ASSUME Types, Stages, NEW r \in Requests, RequestStep(r)
    PROVE  Stages'
  <1>1. /\ pc \in [Requests -> PCs] /\ StageAt(r) /\ chunk \in [Requests -> 0 .. MaxFrame]
        /\ srv.recv \in [Requests -> Nat] /\ srv.reply \in [Requests -> Replies]
        /\ srv.ended \in [Requests -> BOOLEAN] /\ srv.grant \in [Requests -> Nat]
        /\ DOMAIN srv = {"recv", "ended", "grant", "connGrant", "unasked", "reply",
                         "sent", "goaway", "gone"}
    BY DEF Types, FiberTypes, PeerTypes, Stages
  <1>2. CASE Start(r)
    <2>1. /\ pc' = [pc EXCEPT ![r] = "headers"] /\ pc[r] \in {"idle", "fork"}
          /\ handlers' = handlers \cup {r} /\ UNCHANGED <<chunk, srv>>
      BY <1>2 DEF Start
    <2>2. StageAt(r)'
      BY <1>1, <2>1 DEF StageAt
    <2> QED
      BY <2>1, <2>2, StagesMove
  <1>3. CASE WriteHeaders(r)
    <2> DEFINE p == IF Body[r] > 0 THEN "body" ELSE "await"
    <2>1. /\ pc' = [pc EXCEPT ![r] = p] /\ pc[r] = "headers"
          /\ UNCHANGED <<chunk, handlers>>
          /\ srv'.recv = srv.recv /\ srv'.grant = srv.grant
          /\ \A q \in Requests \ {r} : srv'.reply[q] = srv.reply[q]
      BY <1>1, <1>3 DEF WriteHeaders, sending, table
    <2> HIDE DEF p
    <2>2. p \in {"body", "await"}
      BY DEF p
    <2>3. StageAt(r)'
      BY <1>1, <2>1, <2>2 DEF StageAt
    <2> QED
      BY <2>1, <2>3, StagesMove
  <1>4. CASE SendChunk(r)
    <2>1. /\ pc' = [pc EXCEPT ![r] = "writing"] /\ pc[r] = "body"
          /\ \A q \in Requests \ {r} : chunk'[q] = chunk[q]
          /\ UNCHANGED <<handlers, srv>>
      BY <1>1, <1>4 DEF SendChunk, table
    <2>2. StageAt(r)'
      BY <1>1, <2>1 DEF StageAt
    <2> QED
      BY <2>1, <2>2, StagesMove
  <1>5. CASE ChunkWritten(r)
    <2> DEFINE end == off[r] + chunk[r] >= Body[r]
               p == IF end THEN "await" ELSE "body"
    <2>1. /\ pc' = [pc EXCEPT ![r] = p] /\ pc[r] = "writing"
          /\ chunk' = [chunk EXCEPT ![r] = 0] /\ UNCHANGED handlers
          /\ srv' = [srv EXCEPT !.recv[r] = @ + chunk[r], !.ended[r] = @ \/ end]
      BY <1>5 DEF ChunkWritten, table
    <2> HIDE DEF end, p
    <2>2. p \in {"body", "await"}
      BY DEF p
    <2>3. /\ srv'.grant = srv.grant /\ srv'.reply = srv.reply
          /\ srv'.recv[r] = srv.recv[r] + chunk[r]
          /\ \A q \in Requests \ {r} : srv'.recv[q] = srv.recv[q]
      BY <1>1, <2>1
    <2>4. chunk[r] \in Nat /\ srv.recv[r] \in Nat /\ srv.grant[r] \in Nat
          /\ srv.grant[r] <= srv.recv[r]
      BY <1>1, ClientAssumption DEF StageAt
    <2>5. srv'.grant[r] <= srv'.recv[r]
      BY <2>3, <2>4
    <2>6. pc'[r] = p /\ chunk'[r] = 0 /\ \A q \in Requests \ {r} : chunk'[q] = chunk[q]
      BY <1>1, <2>1
    <2>7. StageAt(r)'
      BY <1>1, <2>1, <2>2, <2>5, <2>6 DEF StageAt
    <2> QED
      BY <2>1, <2>3, <2>6, <2>7, StagesMove
  <1>6. CASE TakeResponse(r)
    <2> DEFINE over == Head(events[r]).end \/ Head(events[r]).type \in Fatal
               p == CASE ~over -> pc[r]
                      [] over -> IF MutexFree THEN "done" ELSE "unregister"
    <2>1. /\ pc' = [pc EXCEPT ![r] = p] /\ pc[r] = "await"
          /\ handlers' = IF over /\ MutexFree THEN handlers \ {r} ELSE handlers
          /\ UNCHANGED <<chunk, srv>>
      BY <1>6 DEF TakeResponse, sending
    <2>2. over \in BOOLEAN
      <3>1. Head(events[r]) \in Sendable
        BY <1>6, TakenTypes DEF TakeResponse
      <3> QED
        BY <3>1 DEF Sendable, Frames
    <2> HIDE DEF over
    <2>3. StageAt(r)'
      <3>1. CASE over
        BY <1>1, <2>1, <3>1 DEF StageAt
      <3>2. CASE ~ over
        BY <1>1, <2>1, <3>2 DEF StageAt
      <3> QED
        BY <2>2, <3>1, <3>2
    <2> HIDE DEF p
    <2> QED
      BY <2>1, <2>3, StagesMove
  <1>7. CASE Unregister(r)
    <2>1. /\ pc' = [pc EXCEPT ![r] = "done"] /\ pc[r] = "unregister"
          /\ handlers' = handlers \ {r} /\ UNCHANGED <<chunk, srv>>
      BY <1>7 DEF Unregister, sending
    <2>2. StageAt(r)'
      BY <1>1, <2>1 DEF StageAt
    <2> QED
      BY <2>1, <2>2, StagesMove
  <1> QED
    BY <1>2, <1>3, <1>4, <1>5, <1>6, <1>7, StagesWalk DEF RequestStep

\* The reader keeps the stages.
LEMMA StagesReader ==
    ASSUME Types, Stages, ReaderStep \/ ReaderDies
    PROVE  Stages'
  <1>1. UNCHANGED <<pc, chunk, handlers, srv>>
    BY DEF ReaderStep, ReaderDies, Unblock, ReadForStream, ReadStreamUpdate,
       ReadConnUpdate, ReadSettings, ApplySettings, ReadGoaway, ReadEnd, Notify,
       sending, table
  <1> QED
    BY <1>1, StagesElsewhere

\* The peer keeps the stages.
LEMMA StagesPeer ==
    ASSUME Types, Stages,
           \/ GrantConn \/ SendBad \/ SendSettings \/ SendGoaway \/ Close
           \/ \E r \in Requests : Answer(r) \/ Grant(r) \/ ReplyInfo(r) \/ Reset(r)
    PROVE  Stages'
  <1>0. /\ srv.reply \in [Requests -> Replies] /\ srv.grant \in [Requests -> Nat]
        /\ srv.ended \in [Requests -> BOOLEAN] /\ srv.sent \in [Requests -> Nat]
        /\ DOMAIN srv = {"recv", "ended", "grant", "connGrant", "unasked", "reply",
                         "sent", "goaway", "gone"}
    BY DEF Types, PeerTypes
  <1>1. UNCHANGED <<pc, chunk, handlers>>
    BY DEF GrantConn, SendBad, SendSettings, SendGoaway, Close, Answer, ReplyHeaders,
       ReplyBody, ReplyTrailers, Grant, ReplyInfo, Reset, Post, sending, table
  <1>2. CASE GrantConn \/ SendBad \/ SendSettings \/ SendGoaway \/ Close
    <2>1. srv'.recv = srv.recv /\ srv'.grant = srv.grant /\ srv'.reply = srv.reply
      BY <1>0, <1>2 DEF GrantConn, SendBad, SendSettings, SendGoaway, Close
    <2> QED
      BY <1>1, <2>1, StagesElsewhere
  <1>3. ASSUME NEW r \in Requests, Answer(r) \/ ReplyInfo(r) \/ Reset(r)
        PROVE  Stages'
    <2>0. srv.reply[r] # "none"
      BY <1>0, <1>3 DEF Answer, ReplyHeaders, ReplyBody, ReplyTrailers, ReplyInfo, Reset,
         Replying
    <2>1. CASE ReplyHeaders(r)
      <3>1. PICK end \in Ends(0) :
              srv' = [srv EXCEPT !.reply[r] = IF end THEN "done" ELSE "headers"]
        BY <2>1 DEF ReplyHeaders
      <3> QED
        BY <1>0, <1>1, <2>0, <3>1, StagesElsewhere
    <2>2. CASE ReplyBody(r)
      <3>1. PICK end \in Ends(srv.sent[r] + 1) :
              srv' = [srv EXCEPT !.sent[r] = @ + 1,
                                 !.reply[r] = IF end THEN "done" ELSE "headers"]
        BY <2>2 DEF ReplyBody
      <3> QED
        BY <1>0, <1>1, <2>0, <3>1, StagesElsewhere
    <2>3. CASE ReplyTrailers(r) \/ ReplyInfo(r) \/ Reset(r)
      <3>1. /\ srv'.recv = srv.recv /\ srv'.grant = srv.grant
            /\ \A q \in Requests \ {r} : srv'.reply[q] = srv.reply[q]
        <4>1. CASE ReplyTrailers(r)
          BY <1>0, <4>1 DEF ReplyTrailers
        <4>2. CASE ReplyInfo(r)
          BY <1>0, <4>2 DEF ReplyInfo
        <4>3. CASE Reset(r)
          BY <1>0, <4>3 DEF Reset
        <4> QED
          BY <2>3, <4>1, <4>2, <4>3
      <3> QED
        BY <1>1, <2>0, <3>1, StagesElsewhere
    <2> QED
      BY <1>3, <2>1, <2>2, <2>3 DEF Answer
  <1>4. ASSUME NEW r \in Requests, Grant(r)
        PROVE  Stages'
    <2>1. /\ srv'.recv = srv.recv /\ srv'.reply = srv.reply
          /\ srv'.grant = [srv.grant EXCEPT ![r] = srv.recv[r]]
      BY <1>0, <1>4 DEF Grant
    <2> QED
      BY <1>0, <1>1, <2>1, StagesElsewhere
  <1> QED
    BY <1>2, <1>3, <1>4

\* Every step keeps the stages.
LEMMA StagesStep ==
    ASSUME Types, Stages, [Next]_vars
    PROVE  Stages'
  <1>1. ASSUME NEW r \in Requests, WriteRaises(r) \/ Cancel(r)
        PROVE  Stages'
    BY <1>1, StagesWalk DEF WriteRaises, Cancel
  <1>2. CASE Fault
    BY <1>1, <1>2, StagesReader, StagesPeer DEF Fault
  <1>3. CASE UNCHANGED vars
    BY <1>3 DEF vars, sending, table, Stages, StageAt
  <1> QED
    BY <1>2, <1>3, StagesRequest, StagesReader, StagesPeer DEF Next
----------------------------------------------------------------------------
(* The connection's credit.                                                   *)

\* What is on the wire is a sequence of frames.
LEMMA WireFrames ==
    ASSUME Types
    PROVE  /\ wire \in Seq(Frames) /\ Sendable \subseteq Frames
           /\ \A type, r : OnWire(type, r) \in Nat
  <1>1. Sendable \subseteq Frames /\ wire \in Seq(Sendable)
    BY DEF Sendable, Types
  <1>2. Seq(Sendable) \subseteq Seq(Frames)
    <2> DEFINE S == Sendable
    <2> HIDE DEF S
    <2>1. S \subseteq Frames => Seq(S) \subseteq Seq(Frames)
      OBVIOUS
    <2> QED
      BY <1>1, <2>1 DEF S
  <1>3. wire \in Seq(Frames)
    BY <1>1, <1>2
  <1>4. \A type, r : Carried(wire, type, r) \in Nat
    BY <1>3, PlacesType
  <1> QED
    BY <1>1, <1>3, <1>4 DEF OnWire

\* Reading takes the head of the wire away, and posting adds one frame.
LEMMA ReadCarries ==
    ASSUME Types, NEW S, Reads(S), NEW type, NEW r
    PROVE  /\ OnWire(type, r) = Share(Head(wire), type, r) + OnWire(type, r)'
           /\ OnWire(type, r) \in Nat /\ OnWire(type, r)' \in Nat
  <1>1. wire \in Seq(Frames) /\ OnWire(type, r) \in Nat
    BY WireFrames
  <1>2. wire # << >> /\ wire' = Tail(wire) /\ Tail(wire) \in Seq(Frames)
    BY <1>1, ReadTypes, HeadTailProperties
  <1>3. Carried(wire, type, r) = Share(Head(wire), type, r) + Carried(Tail(wire), type, r)
    BY <1>1, <1>2, CarriedTail
  <1>4. Carried(Tail(wire), type, r) \in Nat
    BY <1>2, PlacesType
  <1> QED
    BY <1>1, <1>2, <1>3, <1>4 DEF OnWire

\* What the wire carries when the peer sends a frame.
LEMMA PostCarries ==
    ASSUME Types, NEW f \in Sendable, Post(f), NEW type, NEW r
    PROVE  OnWire(type, r)' = OnWire(type, r) + Share(f, type, r)
  <1>1. wire \in Seq(Frames) /\ f \in Frames /\ wire' = Append(wire, f)
    BY WireFrames DEF Post
  <1>2. Carried(Append(wire, f), type, r) = Carried(wire, type, r) + Share(f, type, r)
    BY <1>1, CarriedAppend
  <1> QED
    BY <1>1, <1>2 DEF OnWire

\* Frames of no account.
LEMMA ShareOfOthers ==
    ASSUME NEW f, NEW type, NEW r, f.type # type \/ f.on # r
    PROVE  Share(f, type, r) = 0
  BY DEF Share

Credit == OnWire("connUpdate", NoRequest)
Sent == SumFunctionOnSet(chunk, Requests)

\* The terms of the account are natural numbers.
LEMMA SumsTypes ==
    ASSUME Types PROVE /\ Received \in Nat /\ Sent \in Nat /\ Credit \in Nat
                       /\ connWindow \in Nat /\ ConnWindow \in Nat /\ srv.connGrant \in Nat
  <1>1. \A r \in Requests : chunk[r] \in Nat
    BY ClientAssumption DEF Types, FiberTypes
  <1>2. Sent \in Nat
    BY <1>1, ClientAssumption, SumNatural DEF Sent
  <1>3. connWindow \in Nat /\ ConnWindow \in Nat /\ srv.connGrant \in Nat
    BY ClientAssumption, WindowAssumption DEF Types, ConnTypes, PeerTypes
  <1> QED
    BY <1>2, <1>3, ReceivedType, WireFrames DEF Credit

\* Steps that draw on no credit and give none.
LEMMA CreditElsewhere ==
    ASSUME ConnCreditConserved, connError' = connError, UNCHANGED <<connWindow, chunk>>,
           srv'.recv = srv.recv, srv'.connGrant = srv.connGrant, Credit' = Credit
    PROVE  ConnCreditConserved'
  BY DEF ConnCreditConserved, Credit, Received

\* A request takes credit and then sends for it.
LEMMA CreditSend ==
    ASSUME Types, Types', Stages, ConnCreditConserved, NEW r \in Requests,
           SendChunk(r) \/ ChunkWritten(r)
    PROVE  ConnCreditConserved'
  <1> SUFFICES ASSUME ~ connError' PROVE ConnCreditConserved'
    BY DEF ConnCreditConserved
  <1>1. /\ ~ connError /\ Credit' = Credit /\ srv'.connGrant = srv.connGrant
        /\ connWindow = ConnWindow + srv.connGrant - Credit - Received - Sent
    <2>1. ~ connError /\ wire' = wire
      BY DEF SendChunk, ChunkWritten, conn
    <2>2. srv'.connGrant = srv.connGrant
      <3>1. CASE SendChunk(r)
        BY <3>1 DEF SendChunk
      <3>2. CASE ChunkWritten(r)
        <4>1. PICK end : srv' = [srv EXCEPT !.recv[r] = @ + chunk[r], !.ended[r] = @ \/ end]
          BY <3>2 DEF ChunkWritten
        <4> QED
          BY <4>1 DEF Types, PeerTypes
      <3> QED
        BY <3>1, <3>2
    <2> QED
      BY <2>1, <2>2 DEF ConnCreditConserved, Credit, Sent, OnWire
  <1>2. /\ Received \in Nat /\ Sent \in Nat /\ Credit \in Nat /\ connWindow \in Nat
        /\ ConnWindow \in Nat /\ srv.connGrant \in Nat
    BY SumsTypes
  <1>3. /\ IsFiniteSet(Requests) /\ IntegersOn(chunk, Requests)
        /\ IntegersOn(srv.recv, Requests)
    <2>1. \A q \in Requests : chunk[q] \in Int
      BY ClientAssumption DEF Types, FiberTypes
    <2>2. \A q \in Requests : srv.recv[q] \in Int
      BY DEF Types, PeerTypes
    <2> QED
      BY <2>1, <2>2, ClientAssumption DEF IntegersOn
  <1>4. CASE SendChunk(r)
    <2> DEFINE n == ChunkSize(r)
    <2>1. /\ chunk' = [chunk EXCEPT ![r] = n] /\ connWindow' = connWindow - n
          /\ srv' = srv /\ chunk[r] = 0 /\ chunk \in [Requests -> 0 .. MaxFrame] /\ n \in Int
      BY <1>4, ChunkFits DEF SendChunk, Types, FiberTypes, Stages, StageAt
    <2> HIDE DEF n
    <2>2. chunk'[r] = n /\ \A q \in Requests \ {r} : chunk'[q] = chunk[q]
      BY <2>1
    <2>3. Sent' = Sent - 0 + n
      <3>1. chunk'[r] \in Int
        BY <2>1, <2>2
      <3>2. SumFunctionOnSet(chunk', Requests)
              = SumFunctionOnSet(chunk, Requests) - chunk[r] + chunk'[r]
        BY <1>3, <2>2, <3>1, SumExcept
      <3> QED
        BY <2>1, <2>2, <3>2 DEF Sent
    <2>4. Received' = Received
      BY <2>1 DEF Received
    <2>5. connWindow' = ConnWindow + srv'.connGrant - Credit' - Received' - Sent'
      BY <1>1, <1>2, <2>1, <2>3, <2>4
    <2> QED
      BY <2>5 DEF ConnCreditConserved, Credit, Sent
  <1>5. CASE ChunkWritten(r)
    <2>1. PICK end : srv' = [srv EXCEPT !.recv[r] = @ + chunk[r], !.ended[r] = @ \/ end]
      BY <1>5 DEF ChunkWritten
    <2>2. /\ chunk' = [chunk EXCEPT ![r] = 0] /\ connWindow' = connWindow
          /\ chunk \in [Requests -> 0 .. MaxFrame] /\ chunk[r] \in Nat
      BY <1>5, ClientAssumption DEF ChunkWritten, Types, FiberTypes, conn
    <2>3. chunk'[r] = 0 /\ \A q \in Requests \ {r} : chunk'[q] = chunk[q]
      BY <2>2
    <2>4. Sent' = Sent - chunk[r] + 0
      BY <1>3, <2>3, SumExcept DEF Sent
    <2>5. /\ srv.recv[r] \in Nat /\ srv'.recv[r] = srv.recv[r] + chunk[r]
          /\ \A q \in Requests \ {r} : srv'.recv[q] = srv.recv[q]
      BY <2>1 DEF Types, PeerTypes
    <2>6. srv'.recv[r] \in Int
      BY <2>2, <2>5
    <2>7. Received' = Received - srv.recv[r] + srv'.recv[r]
      BY <1>3, <2>5, <2>6, SumExcept DEF Received
    <2>8. connWindow' = ConnWindow + srv'.connGrant - Credit' - Received' - Sent'
      BY <1>1, <1>2, <2>2, <2>4, <2>5, <2>7
    <2> QED
      BY <2>8 DEF ConnCreditConserved, Credit, Sent
  <1> QED
    BY <1>4, <1>5

\* The other steps of a request.
LEMMA CreditRequest ==
    ASSUME Types, Types', Stages, ConnCreditConserved, NEW r \in Requests,
           RequestStep(r) \/ Raises(r)
    PROVE  ConnCreditConserved'
  <1>1. CASE WriteHeaders(r)
    <2>1. UNCHANGED <<connWindow, chunk, wire>> /\ connError' = connError
      BY <1>1 DEF WriteHeaders, sending, conn
    <2>2. srv'.recv = srv.recv /\ srv'.connGrant = srv.connGrant
      BY <1>1 DEF WriteHeaders, Types, PeerTypes
    <2> QED
      BY <2>1, <2>2, CreditElsewhere DEF Credit, OnWire
  <1>2. CASE \/ Refuse(r) \/ StartReader(r) \/ Start(r) \/ AwaitWindow(r)
             \/ TakeWhileSending(r) \/ TakeResponse(r) \/ Unregister(r) \/ Raises(r)
    <2>1. UNCHANGED <<connWindow, chunk, wire, srv>> /\ connError' = connError
      BY <1>2 DEF Refuse, StartReader, Start, AwaitWindow, TakeWhileSending, TakeResponse,
         Unregister, Raises, sending, conn
    <2> QED
      BY <2>1, CreditElsewhere DEF Credit, OnWire
  <1> QED
    BY <1>1, <1>2, CreditSend DEF RequestStep

\* The reader books what arrives.
LEMMA CreditReader ==
    ASSUME Types, Types', ConnCreditConserved, ReaderStep \/ ReaderDies
    PROVE  ConnCreditConserved'
  <1>1. CASE ReadConnUpdate
    <2> SUFFICES ASSUME ~ connError' PROVE ConnCreditConserved'
      BY DEF ConnCreditConserved
    <2>1. /\ connWindow' = connWindow + Head(wire).val /\ connError' = connError
          /\ UNCHANGED <<chunk, srv>> /\ Reads({"connUpdate"})
      BY <1>1 DEF ReadConnUpdate, sending
    <2>2. Head(wire).type = "connUpdate" /\ Head(wire) \in Sendable
      BY <2>1, ReadTypes
    <2>3. Credit = Share(Head(wire), "connUpdate", NoRequest) + Credit'
      BY <2>1, ReadCarries DEF Credit
    <2>4. Share(Head(wire), "connUpdate", NoRequest) = Head(wire).val
          /\ Head(wire).val \in Nat
      BY <2>2 DEF Share, Sendable, Frames
    <2>5. connWindow = ConnWindow + srv.connGrant - Credit - Received - Sent
      BY <2>1 DEF ConnCreditConserved, Credit, Sent
    <2>6. Credit' \in Nat
      BY <2>1, ReadCarries DEF Credit
    <2>7. Received' = Received /\ Sent' = Sent
      BY <2>1 DEF Received, Sent
    <2>8. connWindow' = ConnWindow + srv'.connGrant - Credit' - Received' - Sent'
      BY <2>1, <2>3, <2>4, <2>5, <2>6, <2>7, SumsTypes
    <2> QED
      BY <2>8 DEF ConnCreditConserved, Credit, Sent
  <1>2. CASE ReadForStream \/ ReadStreamUpdate \/ ReadSettings \/ ReadGoaway \/ ReaderDies
    <2>1. /\ UNCHANGED <<connWindow, chunk, srv>> /\ connError' = connError
          /\ Reads({"headers", "data", "rst", "error", "update", "settings", "goaway"})
      BY <1>2 DEF ReadForStream, ReadStreamUpdate, ReadSettings, ApplySettings, ReadGoaway,
         ReaderDies, sending, conn, Reads
    <2>2. Head(wire).type # "connUpdate"
      BY <2>1 DEF Reads
    <2>3. Share(Head(wire), "connUpdate", NoRequest) = 0
      BY <2>2, ShareOfOthers
    <2>4. /\ Credit = Share(Head(wire), "connUpdate", NoRequest) + Credit'
          /\ Credit' \in Nat
      BY <2>1, ReadCarries DEF Credit
    <2>5. Credit' = Credit
      BY <2>3, <2>4
    <2>6. srv'.recv = srv.recv /\ srv'.connGrant = srv.connGrant
      BY <2>1
    <2> QED
      BY <2>1, <2>5, <2>6, CreditElsewhere
  <1>3. CASE Unblock \/ Notify
    <2>1. UNCHANGED <<connWindow, chunk, wire, srv>> /\ connError' = connError
      BY <1>3 DEF Unblock, Notify, sending, conn
    <2> QED
      BY <2>1, CreditElsewhere DEF Credit, OnWire
  <1>4. CASE ReadEnd
    BY <1>4 DEF ReadEnd, ConnCreditConserved
  <1> QED
    BY <1>1, <1>2, <1>3, <1>4 DEF ReaderStep

\* What an answer sends.
LEMMA AnswerPosts ==
    ASSUME Types, NEW r \in Requests, Answer(r) \/ ReplyInfo(r) \/ Reset(r)
    PROVE  \E f \in Sendable :
              /\ Post(f) /\ f.on = r /\ f.type \in {"headers", "data", "error", "rst"}
              /\ srv'.recv = srv.recv /\ srv'.connGrant = srv.connGrant
              /\ srv'.grant = srv.grant /\ srv'.unasked = srv.unasked
  <1>0. /\ DOMAIN srv = {"recv", "ended", "grant", "connGrant", "unasked", "reply",
                         "sent", "goaway", "gone"}
        /\ \A n : Ends(n) \subseteq BOOLEAN
    BY DEF Types, PeerTypes, Ends
  <1>1. CASE ReplyInfo(r)
    <2>1. srv' = [srv EXCEPT !.reply[r] = "informed"]
      BY <1>1 DEF ReplyInfo
    <2>2. Post(Frame("headers", r, Info, FALSE)) /\ Frame("headers", r, Info, FALSE) \in Sendable
      BY <1>1, SendableFrames DEF ReplyInfo
    <2>3. Frame("headers", r, Info, FALSE).type = "headers" /\ Frame("headers", r, Info, FALSE).on = r
      BY DEF Frame
    <2>4. /\ srv'.recv = srv.recv /\ srv'.connGrant = srv.connGrant
          /\ srv'.grant = srv.grant /\ srv'.unasked = srv.unasked
      BY <1>0, <2>1
    <2> QED
      BY <2>1, <2>2, <2>3, <2>4
  <1>2. CASE ReplyHeaders(r)
    <2>1. PICK end \in BOOLEAN, type \in {"headers", "error"} :
             /\ Post(Frame(type, r, Final, end))
             /\ srv' = [srv EXCEPT !.reply[r] = IF end THEN "done" ELSE "headers"]
      BY <1>0, <1>2 DEF ReplyHeaders
    <2>2. Frame(type, r, Final, end) \in Sendable
      BY SendableFrames
    <2>3. Frame(type, r, Final, end).type = type /\ Frame(type, r, Final, end).on = r
      BY DEF Frame
    <2>4. /\ srv'.recv = srv.recv /\ srv'.connGrant = srv.connGrant
          /\ srv'.grant = srv.grant /\ srv'.unasked = srv.unasked
      BY <1>0, <2>1
    <2> QED
      BY <2>1, <2>2, <2>3, <2>4
  <1>3. CASE ReplyBody(r)
    <2>1. PICK end \in BOOLEAN :
             /\ Post(Frame("data", r, 1, end))
             /\ srv' = [srv EXCEPT !.sent[r] = @ + 1,
                                   !.reply[r] = IF end THEN "done" ELSE "headers"]
      <3>1. \E end \in Ends(srv.sent[r] + 1) :
               /\ Post(Frame("data", r, 1, end))
               /\ srv' = [srv EXCEPT !.sent[r] = @ + 1,
                                     !.reply[r] = IF end THEN "done" ELSE "headers"]
        BY <1>3 DEF ReplyBody
      <3>2. Ends(srv.sent[r] + 1) \subseteq BOOLEAN
        BY <1>0
      <3> QED
        BY <3>1, <3>2
    <2>2. Frame("data", r, 1, end) \in Sendable
      BY SendableFrames
    <2>3. Frame("data", r, 1, end).type = "data" /\ Frame("data", r, 1, end).on = r
      BY DEF Frame
    <2>4. /\ srv'.recv = srv.recv /\ srv'.connGrant = srv.connGrant
          /\ srv'.grant = srv.grant /\ srv'.unasked = srv.unasked
      BY <1>0, <2>1
    <2> QED
      BY <2>1, <2>2, <2>3, <2>4
  <1>4. CASE ReplyTrailers(r)
    <2>1. srv' = [srv EXCEPT !.reply[r] = "done"]
      BY <1>4 DEF ReplyTrailers
    <2>2. Post(Frame("headers", r, Default, TRUE)) /\ Frame("headers", r, Default, TRUE) \in Sendable
      BY <1>4, SendableFrames DEF ReplyTrailers
    <2>3. Frame("headers", r, Default, TRUE).type = "headers" /\ Frame("headers", r, Default, TRUE).on = r
      BY DEF Frame
    <2>4. /\ srv'.recv = srv.recv /\ srv'.connGrant = srv.connGrant
          /\ srv'.grant = srv.grant /\ srv'.unasked = srv.unasked
      BY <1>0, <2>1
    <2> QED
      BY <2>1, <2>2, <2>3, <2>4
  <1>5. CASE Reset(r)
    <2>1. srv' = [srv EXCEPT !.reply[r] = "done", !.ended[r] = TRUE]
      BY <1>5 DEF Reset
    <2>2. Post(Frame("rst", r, 0, FALSE)) /\ Frame("rst", r, 0, FALSE) \in Sendable
      BY <1>5, SendableFrames DEF Reset
    <2>3. Frame("rst", r, 0, FALSE).type = "rst" /\ Frame("rst", r, 0, FALSE).on = r
      BY DEF Frame
    <2>4. /\ srv'.recv = srv.recv /\ srv'.connGrant = srv.connGrant
          /\ srv'.grant = srv.grant /\ srv'.unasked = srv.unasked
      BY <1>0, <2>1
    <2> QED
      BY <2>1, <2>2, <2>3, <2>4
  <1> QED
    BY <1>1, <1>2, <1>3, <1>4, <1>5 DEF Answer

\* Frames that carry no connection credit.
LEMMA CreditPost ==
    ASSUME Types, ConnCreditConserved, NEW f \in Sendable, Post(f),
           f.type # "connUpdate",
           srv'.recv = srv.recv, srv'.connGrant = srv.connGrant
    PROVE  ConnCreditConserved'
  <1>1. UNCHANGED <<connWindow, chunk>> /\ connError' = connError
    BY DEF Post, sending, conn
  <1>2. Credit' = Credit + 0 /\ Credit \in Nat
    BY PostCarries, ShareOfOthers, WireFrames DEF Credit
  <1> QED
    BY <1>1, <1>2, CreditElsewhere

\* Connection credit that is granted is on the wire.
LEMMA CreditGrant ==
    ASSUME Types, Types', ConnCreditConserved, NEW n \in Nat,
           Post(Frame("connUpdate", NoRequest, n, FALSE)),
           srv'.connGrant = srv.connGrant + n, srv'.recv = srv.recv
    PROVE  ConnCreditConserved'
  <1> SUFFICES ASSUME ~ connError' PROVE ConnCreditConserved'
    BY DEF ConnCreditConserved
  <1> DEFINE f == Frame("connUpdate", NoRequest, n, FALSE)
  <1>1. f \in Sendable
    BY SendableConnFrames
  <1>2. Share(f, "connUpdate", NoRequest) = n
    BY DEF Share, Frame
  <1>3. Post(f) /\ UNCHANGED <<connWindow, chunk>> /\ connError' = connError
    BY DEF Post, sending, conn
  <1> HIDE DEF f
  <1>4. Credit' = Credit + n
    BY <1>1, <1>2, <1>3, PostCarries DEF Credit
  <1>6. Received' = Received /\ Sent' = Sent
    BY <1>3 DEF Received, Sent
  <1>7. connWindow = ConnWindow + srv.connGrant - Credit - Received - Sent
    BY <1>3 DEF ConnCreditConserved, Credit, Sent
  <1>8. connWindow' = ConnWindow + srv'.connGrant - Credit' - Received' - Sent'
    BY <1>3, <1>4, <1>6, <1>7, SumsTypes
  <1> QED
    BY <1>8 DEF ConnCreditConserved, Credit, Sent

\* The peer keeps the account of the connection's credit.
LEMMA CreditPeer ==
    ASSUME Types, Types', ConnCreditConserved,
           \/ GrantConn \/ SendBad \/ SendSettings \/ SendGoaway \/ Close
           \/ \E r \in Requests : Answer(r) \/ Grant(r) \/ ReplyInfo(r) \/ Reset(r)
    PROVE  ConnCreditConserved'
  <1>0. /\ Received \in Nat /\ srv.connGrant \in Nat
        /\ DOMAIN srv = {"recv", "ended", "grant", "connGrant", "unasked", "reply",
                         "sent", "goaway", "gone"}
    BY SumsTypes DEF Types, PeerTypes
  <1>1. CASE GrantConn
    <2> DEFINE n == Received - srv.connGrant
    <2>1. n \in Nat /\ srv.connGrant + n = Received
      BY <1>0, <1>1 DEF GrantConn
    <2>2. Post(Frame("connUpdate", NoRequest, n, FALSE))
      BY <1>1 DEF GrantConn
    <2>3. srv'.connGrant = srv.connGrant + n /\ srv'.recv = srv.recv
      BY <1>0, <1>1, <2>1 DEF GrantConn
    <2> HIDE DEF n
    <2> QED
      BY <2>1, <2>2, <2>3, CreditGrant
  <1>2. CASE SendBad
    <2>1. CASE /\ Post(Frame("bad", NoRequest, 0, FALSE))
               /\ srv' = [srv EXCEPT !.unasked = @ + 1]
      <3>1. Frame("bad", NoRequest, 0, FALSE).type = "bad"
        BY DEF Frame
      <3>2. srv'.recv = srv.recv /\ srv'.connGrant = srv.connGrant
        BY <1>0, <2>1
      <3> QED
        BY <2>1, <3>1, <3>2, SendableConnFrames, CreditPost
    <2>2. CASE /\ Post(Frame("connUpdate", NoRequest, MaxWindow, FALSE))
               /\ srv' = [srv EXCEPT !.unasked = @ + 1,
                                     !.connGrant = @ + MaxWindow]
      <3>1. srv'.recv = srv.recv /\ srv'.connGrant = srv.connGrant + MaxWindow
        BY <1>0, <2>2
      <3> QED
        BY <2>2, <3>1, CreditGrant, WindowAssumption
    <2> QED
      BY <1>2, <2>1, <2>2 DEF SendBad
  <1>3. CASE SendSettings
    <2>1. PICK n \in Settings : Post(Frame("settings", NoRequest, n, FALSE))
      BY <1>3 DEF SendSettings
    <2>2. Frame("settings", NoRequest, n, FALSE) \in Sendable
      BY ClientAssumption, SendableConnFrames
    <2>3. Frame("settings", NoRequest, n, FALSE).type = "settings"
      BY DEF Frame
    <2>4. srv'.recv = srv.recv /\ srv'.connGrant = srv.connGrant
      BY <1>0, <1>3 DEF SendSettings
    <2> QED
      BY <2>1, <2>2, <2>3, <2>4, CreditPost
  <1>4. CASE SendGoaway
    <2>1. Frame("goaway", NoRequest, 0, FALSE).type = "goaway"
      BY DEF Frame
    <2>2. srv'.recv = srv.recv /\ srv'.connGrant = srv.connGrant
      BY <1>0, <1>4 DEF SendGoaway
    <2>3. Post(Frame("goaway", NoRequest, 0, FALSE))
      BY <1>4 DEF SendGoaway
    <2> QED
      BY <2>1, <2>2, <2>3, SendableConnFrames, CreditPost
  <1>5. CASE Close
    <2>1. UNCHANGED <<connWindow, chunk, wire>> /\ connError' = connError
      BY <1>5 DEF Close, sending, conn
    <2>2. srv'.recv = srv.recv /\ srv'.connGrant = srv.connGrant
      BY <1>0, <1>5 DEF Close
    <2> QED
      BY <2>1, <2>2, CreditElsewhere DEF Credit, OnWire
  <1>6. ASSUME NEW r \in Requests, Grant(r)
        PROVE  ConnCreditConserved'
    <2> DEFINE n == srv.recv[r] - srv.grant[r]
    <2>1. n \in Nat
      BY <1>6 DEF Grant, Types, PeerTypes
    <2>2. Frame("update", r, n, FALSE).type = "update"
      BY DEF Frame
    <2>3. Frame("update", r, n, FALSE) \in Sendable
      BY <2>1, SendableFrames
    <2>4. srv'.recv = srv.recv /\ srv'.connGrant = srv.connGrant
      BY <1>0, <1>6 DEF Grant
    <2>5. Post(Frame("update", r, n, FALSE))
      BY <1>6 DEF Grant
    <2> HIDE DEF n
    <2> QED
      BY <2>2, <2>3, <2>4, <2>5, CreditPost
  <1>7. ASSUME NEW r \in Requests, Answer(r) \/ ReplyInfo(r) \/ Reset(r)
        PROVE  ConnCreditConserved'
    <2>1. PICK f \in Sendable : /\ Post(f) /\ f.type # "connUpdate"
                                /\ srv'.recv = srv.recv /\ srv'.connGrant = srv.connGrant
      BY <1>7, AnswerPosts
    <2> QED
      BY <2>1, CreditPost
  <1> QED
    BY <1>1, <1>2, <1>3, <1>4, <1>5, <1>6, <1>7

\* Every step keeps the account.
LEMMA CreditStep ==
    ASSUME Types, Types', Stages, ConnCreditConserved, [Next]_vars
    PROVE  ConnCreditConserved'
  <1>1. ASSUME NEW r \in Requests, WriteRaises(r) \/ Cancel(r)
        PROVE  ConnCreditConserved'
    BY <1>1, CreditRequest DEF WriteRaises, Cancel
  <1>2. CASE Fault
    BY <1>1, <1>2, CreditReader, CreditPeer DEF Fault
  <1>3. CASE UNCHANGED vars
    <2>1. UNCHANGED <<connWindow, chunk, wire, srv>> /\ connError' = connError
      BY <1>3 DEF vars, sending, conn
    <2> QED
      BY <2>1, CreditElsewhere DEF Credit, OnWire
  <1> QED
    BY <1>2, <1>3, CreditRequest, CreditReader, CreditPeer DEF Next

\* At first nothing has been sent and nothing granted.
LEMMA CreditInit ==
    ASSUME Init PROVE ConnCreditConserved
  <1>1. Received = 0
    BY ClientAssumption, SumZero DEF Init, Received
  <1>2. Sent = 0
    BY ClientAssumption, SumZero DEF Init, Sent
  <1>3. Credit = 0
    <2>1. wire \in Seq(Frames) /\ DOMAIN wire = {}
      BY DEF Init
    <2> QED
      BY <2>1, CarriedNothing DEF Credit, OnWire
  <1>4. connWindow = ConnWindow /\ srv.connGrant = 0 /\ ConnWindow \in Nat
    BY ClientAssumption, WindowAssumption DEF Init
  <1> QED
    BY <1>1, <1>2, <1>3, <1>4 DEF ConnCreditConserved, Credit, Sent

\* No byte of the connection's window is ever lost or spent twice: what the
\* client may still send is what the peer has granted, less what was written,
\* is being written, or is credit still in flight, whichever fibers send.
THEOREM CreditConserved == Spec => []ConnCreditConserved
  <1> DEFINE Inv == Types /\ Stages /\ ConnCreditConserved
  <1>1. Init => Inv
    BY TypesInit, StagesInit, CreditInit
  <1>2. Inv /\ [Next]_vars => Inv'
    BY TypesStep, StagesStep, CreditStep
  <1>3. Inv => ConnCreditConserved
    OBVIOUS
  <1> QED
    BY <1>1, <1>2, <1>3, PTL DEF Spec

----------------------------------------------------------------------------
(* The streams' windows.                                                      *)

Updates(r) == OnWire("update", r)

\* No update is in flight that was not granted.
UpdatesGranted == \A r \in Requests : Updates(r) <= srv.grant[r]

WindowAt(r) == window[r] = peerInit + srv.grant[r] - Updates(r) - srv.recv[r] - chunk[r]

Windows == /\ UpdatesGranted
           /\ ~ connError => \A r \in handlers \ drifted : WindowAt(r)

\* The numbers a window is made of.
LEMMA WindowTypes ==
    ASSUME Types, NEW r \in Requests
    PROVE  /\ window[r] \in Int /\ peerInit \in Nat /\ srv.grant[r] \in Nat
           /\ Updates(r) \in Nat /\ srv.recv[r] \in Nat /\ chunk[r] \in Nat
  <1>1. peerInit \in Nat
    BY WindowAssumption DEF Types, ConnTypes
  <1>2. chunk[r] \in Nat /\ window[r] \in Int
    BY ClientAssumption DEF Types, FiberTypes
  <1>3. srv.grant[r] \in Nat /\ srv.recv[r] \in Nat
    BY DEF Types, PeerTypes
  <1> QED
    BY <1>1, <1>2, <1>3, WireFrames DEF Updates

\* Steps that leave the streams' windows and the wire alone.
LEMMA WindowsElsewhere ==
    ASSUME Windows, connError' = connError, handlers' \subseteq handlers,
           UNCHANGED <<window, drifted, chunk, peerInit, wire>>,
           srv'.recv = srv.recv, srv'.grant = srv.grant
    PROVE  Windows'
  <1>1. UpdatesGranted' /\ (\A r : Updates(r)' = Updates(r))
    BY DEF Windows, UpdatesGranted, Updates, OnWire
  <1> QED
    BY <1>1 DEF Windows, WindowAt

\* A stream starts with the window that the peer has announced.
LEMMA WindowsStart ==
    ASSUME Types, Stages, Windows, NEW r \in Requests, Start(r)
    PROVE  Windows'
  <1>1. /\ window' = [window EXCEPT ![r] = peerInit]
        /\ handlers' = handlers \cup {r} /\ pc[r] \in {"idle", "fork"}
        /\ UNCHANGED <<drifted, chunk, peerInit, wire, srv>> /\ connError' = connError
    BY DEF Start, conn
  <1>2. \A q : Updates(q)' = Updates(q)
    BY <1>1 DEF Updates, OnWire
  <1>3. UpdatesGranted'
    BY <1>1, <1>2 DEF Windows, UpdatesGranted
  <1>5. WindowAt(r)'
    <2>1. srv.recv[r] = 0 /\ srv.grant[r] <= srv.recv[r] /\ chunk[r] = 0
      BY <1>1 DEF Stages, StageAt
    <2>2. Updates(r) <= srv.grant[r]
      BY DEF Windows, UpdatesGranted
    <2>3. Updates(r) = 0 /\ srv.grant[r] = 0
      BY <2>1, <2>2, WindowTypes
    <2>4. window'[r] = peerInit
      BY <1>1 DEF Types, FiberTypes
    <2>5. window'[r] = peerInit + 0 - 0 - 0 - 0
      BY <2>4, WindowTypes
    <2> QED
      BY <1>1, <1>2, <2>1, <2>3, <2>5 DEF WindowAt
  <1>6. ASSUME ~ connError, NEW q \in handlers \ ({r} \cup drifted)
        PROVE  WindowAt(q)'
    <2>1. q \in Requests /\ WindowAt(q)
      BY <1>6 DEF Windows, Types, TableTypes, Streams
    <2>2. window'[q] = window[q]
      BY <1>1, <1>6, <2>1 DEF Types, FiberTypes
    <2> QED
      BY <1>1, <1>2, <2>1, <2>2 DEF WindowAt
  <1> QED
    BY <1>1, <1>3, <1>5, <1>6 DEF Windows

\* Sending takes from the window what is then written.
LEMMA WindowsSend ==
    ASSUME Types, Stages, Windows, NEW r \in Requests, SendChunk(r) \/ ChunkWritten(r)
    PROVE  Windows'
  <1>0. /\ window \in [Requests -> Int] /\ chunk \in [Requests -> 0 .. MaxFrame]
        /\ srv.recv \in [Requests -> Nat]
        /\ DOMAIN srv = {"recv", "ended", "grant", "connGrant", "unasked", "reply",
                         "sent", "goaway", "gone"}
    BY DEF Types, FiberTypes, PeerTypes
  <1>1. /\ UNCHANGED <<drifted, peerInit, wire, handlers>> /\ connError' = connError
    BY DEF SendChunk, ChunkWritten, conn, table
  <1>2. srv'.grant = srv.grant
    <2>1. CASE SendChunk(r)
      BY <2>1 DEF SendChunk
    <2>2. CASE ChunkWritten(r)
      <3>1. PICK end : srv' = [srv EXCEPT !.recv[r] = @ + chunk[r], !.ended[r] = @ \/ end]
        BY <2>2 DEF ChunkWritten
      <3> QED
        BY <1>0, <3>1
    <2> QED
      BY <2>1, <2>2
  <1>3. \A q : Updates(q)' = Updates(q)
    BY <1>1 DEF Updates, OnWire
  <1>4. UpdatesGranted'
    BY <1>2, <1>3 DEF Windows, UpdatesGranted
  <1>6. \A q \in Requests \ {r} : /\ window'[q] = window[q] /\ chunk'[q] = chunk[q]
                                  /\ srv'.recv[q] = srv.recv[q]
    <2>1. CASE SendChunk(r)
      BY <1>0, <2>1 DEF SendChunk
    <2>2. CASE ChunkWritten(r)
      <3>1. PICK end : srv' = [srv EXCEPT !.recv[r] = @ + chunk[r], !.ended[r] = @ \/ end]
        BY <2>2 DEF ChunkWritten
      <3> QED
        BY <1>0, <2>2, <3>1 DEF ChunkWritten
    <2> QED
      BY <2>1, <2>2
  <1>7. window'[r] - window[r] = 0 - (srv'.recv[r] - srv.recv[r]) - (chunk'[r] - chunk[r])
        /\ window'[r] \in Int /\ srv'.recv[r] \in Int /\ chunk'[r] \in Int
    <2>1. CASE SendChunk(r)
      <3> DEFINE n == ChunkSize(r)
      <3>1. /\ chunk' = [chunk EXCEPT ![r] = n] /\ window' = [window EXCEPT ![r] = @ - n]
            /\ srv' = srv /\ chunk[r] = 0 /\ n \in Int
        BY <2>1, ChunkFits DEF SendChunk, Stages, StageAt
      <3> HIDE DEF n
      <3>2. chunk'[r] = n /\ window'[r] = window[r] - n
        BY <1>0, <3>1
      <3> QED
        BY <3>1, <3>2, WindowTypes
    <2>2. CASE ChunkWritten(r)
      <3>1. PICK end : srv' = [srv EXCEPT !.recv[r] = @ + chunk[r], !.ended[r] = @ \/ end]
        BY <2>2 DEF ChunkWritten
      <3>2. chunk' = [chunk EXCEPT ![r] = 0] /\ window' = window
        BY <2>2 DEF ChunkWritten
      <3>3. chunk'[r] = 0 /\ window'[r] = window[r] /\ srv'.recv[r] = srv.recv[r] + chunk[r]
        BY <1>0, <3>1, <3>2
      <3> QED
        BY <3>3, WindowTypes
    <2> QED
      BY <2>1, <2>2
  <1>8. ASSUME NEW q \in Requests, WindowAt(q)
        PROVE  WindowAt(q)'
    <2>1. CASE q = r
      <3>1. window[r] = peerInit + srv.grant[r] - Updates(r) - srv.recv[r] - chunk[r]
        BY <1>8, <2>1 DEF WindowAt
      <3>2. window'[r] = peerInit + srv.grant[r] - Updates(r) - srv'.recv[r] - chunk'[r]
        BY <1>7, <3>1, WindowTypes
      <3> QED
        BY <1>1, <1>2, <1>3, <2>1, <3>2 DEF WindowAt
    <2>2. CASE q # r
      BY <1>1, <1>2, <1>3, <1>6, <1>8, <2>2 DEF WindowAt
    <2> QED
      BY <2>1, <2>2
  <1>9. handlers \subseteq Requests
    BY DEF Types, TableTypes, Streams
  <1> QED
    BY <1>1, <1>4, <1>8, <1>9 DEF Windows

\* The other steps of a request.
LEMMA WindowsRequest ==
    ASSUME Types, Stages, Windows, NEW r \in Requests, RequestStep(r) \/ Raises(r)
    PROVE  Windows'
  <1>1. CASE WriteHeaders(r)
    <2>1. /\ UNCHANGED <<window, drifted, chunk, peerInit, wire, handlers>>
          /\ connError' = connError
      BY <1>1 DEF WriteHeaders, sending, conn, table
    <2>2. srv'.recv = srv.recv /\ srv'.grant = srv.grant /\ srv'.unasked = srv.unasked
      BY <1>1 DEF WriteHeaders, Types, PeerTypes
    <2> QED
      BY <2>1, <2>2, WindowsElsewhere
  <1>2. CASE \/ Refuse(r) \/ StartReader(r) \/ AwaitWindow(r)
             \/ TakeWhileSending(r) \/ TakeResponse(r) \/ Unregister(r) \/ Raises(r)
    <2>1. /\ UNCHANGED <<window, drifted, chunk, peerInit, wire, srv>>
          /\ connError' = connError /\ handlers' \subseteq handlers
      BY <1>2 DEF Refuse, StartReader, AwaitWindow, TakeWhileSending, TakeResponse,
         Unregister, Raises, sending, conn, table
    <2> QED
      BY <2>1, WindowsElsewhere
  <1> QED
    BY <1>1, <1>2, WindowsStart, WindowsSend DEF RequestStep

\* Reading a frame.
LEMMA WindowsRead ==
    ASSUME Types, Windows, NEW S, Reads(S), srv' = srv
    PROVE  UpdatesGranted'
  <1> SUFFICES ASSUME NEW r \in Requests PROVE Updates(r)' <= srv.grant[r]
    BY DEF UpdatesGranted
  <1>1. /\ Updates(r) = Share(Head(wire), "update", r) + Updates(r)'
        /\ Updates(r)' \in Nat
    BY ReadCarries DEF Updates
  <1>2. Share(Head(wire), "update", r) \in Nat
    BY ReadTypes DEF Share, Sendable, Frames
  <1>3. Updates(r) <= srv.grant[r]
    BY DEF Windows, UpdatesGranted
  <1> QED
    BY <1>1, <1>2, <1>3, WindowTypes

\* A WINDOW_UPDATE that was granted always fits, so none is lost.
LEMMA WindowsUpdate ==
    ASSUME Types, Windows, Stages, ReadStreamUpdate
    PROVE  Windows'
  <1> DEFINE f == Head(wire)
  <1>1. /\ Reads({"update"}) /\ UNCHANGED <<srv, drifted, chunk, peerInit, handlers>>
        /\ connError' = connError
    BY DEF ReadStreamUpdate, conn
  <1>2. UpdatesGranted'
    BY <1>1, WindowsRead
  <1>3. f.type = "update" /\ f \in Sendable /\ f.on \in Requests /\ f.val \in Nat
    <2>1. Head(wire) \in Sendable /\ Head(wire).type \in {"update"}
      BY <1>1, ReadTypes
    <2> QED
      BY <2>1 DEF Sendable, Frames
  <1>4. \A r \in Requests : /\ Updates(r) = (IF r = f.on THEN f.val ELSE 0) + Updates(r)'
                            /\ Updates(r)' \in Nat
    BY <1>1, <1>3, ReadCarries DEF Updates, Share
  <1>5. \A r \in Requests \ {f.on} : window'[r] = window[r]
    BY DEF ReadStreamUpdate, Types, FiberTypes
  <1>6. ASSUME ~ connError, NEW r \in handlers \ drifted, r = f.on
        PROVE  window'[r] = window[r] + f.val
    <2>1. window[r] = peerInit + srv.grant[r] - Updates(r) - srv.recv[r] - chunk[r]
      BY <1>6 DEF Windows, WindowAt
    <2>2. r \in Requests /\ srv.grant[r] <= srv.recv[r] /\ peerInit <= MaxWindow
      BY <1>3, <1>6, WindowAssumption DEF Stages, StageAt, Types, ConnTypes
    <2>3. Updates(r) = f.val + Updates(r)' /\ Updates(r)' \in Nat
      BY <1>4, <1>6, <2>2
    <2>4. window[r] + f.val <= MaxWindow
      BY <1>3, <2>1, <2>2, <2>3, WindowTypes, WindowAssumption
    <2>5. window' = [window EXCEPT ![f.on] = @ + f.val]
      BY <1>6, <2>4 DEF ReadStreamUpdate, CreditFits
    <2> QED
      BY <1>6, <2>2, <2>5 DEF Types, FiberTypes
  <1>7. ASSUME ~ connError, NEW r \in handlers \ drifted
        PROVE  WindowAt(r)'
    <2>1. r \in Requests /\ window[r] = peerInit + srv.grant[r] - Updates(r) - srv.recv[r] - chunk[r]
      BY <1>7 DEF Windows, WindowAt, Types, TableTypes, Streams
    <2>2. CASE r = f.on
      <3>1. window'[r] = window[r] + f.val
        BY <1>6, <1>7, <2>2
      <3>2. Updates(r) = f.val + Updates(r)' /\ Updates(r)' \in Nat
        BY <1>4, <2>1, <2>2
      <3>3. window'[r] = peerInit + srv.grant[r] - Updates(r)' - srv.recv[r] - chunk[r]
        BY <1>3, <2>1, <3>1, <3>2, WindowTypes
      <3> QED
        BY <1>1, <3>3 DEF WindowAt
    <2>3. CASE r # f.on
      <3>1. Updates(r) = 0 + Updates(r)' /\ Updates(r)' \in Nat /\ window'[r] = window[r]
        BY <1>4, <1>5, <2>1, <2>3
      <3>2. window'[r] = peerInit + srv.grant[r] - Updates(r)' - srv.recv[r] - chunk[r]
        BY <2>1, <3>1, WindowTypes
      <3> QED
        BY <1>1, <3>2 DEF WindowAt
    <2> QED
      BY <2>2, <2>3
  <1> QED
    BY <1>1, <1>2, <1>7 DEF Windows

\* SETTINGS that fit move every window by the change of the initial one, for the
\* streams that do not drift.
LEMMA WindowsSettings ==
    ASSUME Types, Windows, Reads({"settings"}), ApplySettings(Head(wire).val),
           UNCHANGED <<handlers, srv>>
    PROVE  Windows'
  <1> DEFINE n == Head(wire).val
  <1>1. /\ UNCHANGED chunk /\ peerInit' = n /\ connError' = connError
        /\ Resizes(n) = Streams /\ ResizeStreams(n)
        /\ drifted' = drifted \cup {r \in Streams : initial[r] # peerInit}
    BY DEF ApplySettings
  <1>2. Head(wire).type = "settings" /\ n \in Nat
    <2>1. Head(wire) \in Sendable /\ Head(wire).type \in {"settings"}
      BY ReadTypes
    <2> QED
      BY <2>1 DEF Sendable, Frames
  <1>3. UpdatesGranted'
    BY WindowsRead
  <1> HIDE DEF n
  <1>5. ASSUME ~ connError, NEW r \in handlers \ drifted'
        PROVE  WindowAt(r)'
    <2>1. /\ r \in Requests /\ r \in Streams /\ initial[r] = peerInit
          /\ window[r] = peerInit + srv.grant[r] - Updates(r) - srv.recv[r] - chunk[r]
      BY <1>1, <1>5 DEF Windows, WindowAt, Types, TableTypes, Streams
    <2>2. Updates(r) = 0 + Updates(r)' /\ Updates(r)' \in Nat
      <3>1. Share(Head(wire), "update", r) = 0
        BY <1>2, ShareOfOthers
      <3> QED
        BY <3>1, ReadCarries DEF Updates
    <2>3. window'[r] = window[r] + (n - peerInit)
      BY <1>1, <2>1 DEF ResizeStreams, Resized
    <2>4. window'[r] = n + srv.grant[r] - Updates(r)' - srv.recv[r] - chunk[r]
      <3>1. /\ peerInit \in Int /\ srv.grant[r] \in Int /\ Updates(r) \in Int
            /\ srv.recv[r] \in Int /\ chunk[r] \in Int
        BY <2>1, <2>2, WindowTypes
      <3> QED
        BY <1>2, <2>1, <2>2, <2>3, <3>1
    <2> QED
      BY <1>1, <2>4 DEF WindowAt
  <1> QED
    BY <1>1, <1>3, <1>5 DEF Windows

\* The reader keeps the agreement about windows.
LEMMA WindowsReader ==
    ASSUME Types, Stages, Windows, ReaderStep \/ ReaderDies
    PROVE  Windows'
  <1>1. CASE Unblock \/ Notify
    <2>1. UNCHANGED <<window, drifted, chunk, peerInit, wire, srv, handlers>>
          /\ connError' = connError
      BY <1>1 DEF Unblock, Notify, sending, conn
    <2> QED
      BY <2>1, WindowsElsewhere
  <1> DEFINE Loses == ReaderDies /\ Reads({"data"}) /\ UNCHANGED <<sending, conn>>
  <1>2. CASE ReadForStream \/ ReadConnUpdate \/ ReadGoaway \/ Loses
    <2> DEFINE S == {"headers", "data", "rst", "error", "connUpdate", "goaway"}
    <2>1. /\ UNCHANGED <<window, drifted, chunk, peerInit, srv, handlers>>
          /\ connError' = connError /\ Reads(S)
      BY <1>2 DEF ReadForStream, ReadConnUpdate, ReadGoaway, ReaderDies, sending, conn,
         table, Reads
    <2>2. UpdatesGranted'
      BY <2>1, WindowsRead
    <2>3. ASSUME ~ connError, NEW r \in handlers \ drifted
          PROVE  WindowAt(r)'
      <3>1. Share(Head(wire), "update", r) = 0
        BY <2>1, ShareOfOthers DEF Reads
      <3>2. Updates(r) = 0 + Updates(r)' /\ Updates(r) \in Nat /\ Updates(r)' \in Nat
        BY <2>1, <3>1, ReadCarries DEF Updates
      <3>3. Updates(r)' = Updates(r)
        BY <3>2
      <3>4. WindowAt(r)
        BY <2>3 DEF Windows
      <3> QED
        BY <2>1, <3>3, <3>4 DEF WindowAt
    <2> QED
      BY <2>1, <2>2, <2>3 DEF Windows
  <1>3. CASE ReadEnd
    <2>1. UNCHANGED srv /\ connError' = TRUE
      BY <1>3 DEF ReadEnd
    <2>2. CASE wire' = wire
      <3>1. UpdatesGranted'
        BY <2>1, <2>2 DEF Windows, UpdatesGranted, Updates, OnWire
      <3> QED
        BY <2>1, <3>1 DEF Windows
    <2>3. CASE Reads({"bad"}) \/ Reads({"connUpdate"}) \/ Reads({"settings"})
      <3>1. UpdatesGranted'
        BY <2>1, <2>3, WindowsRead
      <3> QED
        BY <2>1, <3>1 DEF Windows
    <2> QED
      BY <1>3, <2>2, <2>3 DEF ReadEnd
  <1>4. CASE ReadSettings \/ (ReaderDies /\ ~ Loses)
    <2>1. /\ Reads({"settings"}) /\ ApplySettings(Head(wire).val)
          /\ UNCHANGED <<handlers, srv>>
      BY <1>4 DEF ReadSettings, ReaderDies, table
    <2> QED
      BY <2>1, WindowsSettings
  <1> QED
    BY <1>1, <1>2, <1>3, <1>4, WindowsUpdate DEF ReaderStep

\* Frames that change no stream's window.
LEMMA WindowsPost ==
    ASSUME Types, Windows, NEW f \in Sendable, Post(f), f.type # "update",
           srv'.recv = srv.recv, srv'.grant = srv.grant
    PROVE  Windows'
  <1>1. /\ UNCHANGED <<window, drifted, chunk, peerInit, handlers>> /\ connError' = connError
        /\ wire' = Append(wire, f) /\ wire \in Seq(Sendable)
    BY DEF Post, sending, conn, table, Types
  <1>2. \A r \in Requests : Updates(r)' = Updates(r)
    <2> SUFFICES ASSUME NEW r \in Requests PROVE Updates(r)' = Updates(r)
      OBVIOUS
    <2>1. Share(f, "update", r) = 0
      BY ShareOfOthers
    <2>2. Updates(r)' = Updates(r) + 0 /\ Updates(r) \in Nat
      BY <2>1, PostCarries, WireFrames DEF Updates
    <2> QED
      BY <2>2
  <1>3. UpdatesGranted'
    BY <1>2 DEF Windows, UpdatesGranted
  <1>4. handlers \subseteq Requests
    BY DEF Types, TableTypes, Streams
  <1> QED
    BY <1>1, <1>2, <1>3, <1>4 DEF Windows, WindowAt

\* What is granted is on the wire.
LEMMA WindowsGrant ==
    ASSUME Types, Windows, NEW r \in Requests, Grant(r)
    PROVE  Windows'
  <1> DEFINE n == srv.recv[r] - srv.grant[r]
             f == Frame("update", r, n, FALSE)
  <1>1. n \in Nat /\ srv.grant[r] + n = srv.recv[r]
    BY DEF Grant, Types, PeerTypes
  <1>2. Post(f) /\ srv' = [srv EXCEPT !.grant[r] = srv.recv[r]]
    BY DEF Grant
  <1> HIDE DEF n
  <1>3. f \in Sendable /\ f.type = "update" /\ f.on = r /\ f.val = n
    BY <1>1, SendableFrames DEF Frame
  <1> HIDE DEF f
  <1>4. /\ UNCHANGED <<window, drifted, chunk, peerInit, handlers>> /\ connError' = connError
        /\ wire' = Append(wire, f) /\ wire \in Seq(Sendable)
    BY <1>2 DEF Post, sending, conn, table, Types
  <1>5. /\ srv'.recv = srv.recv
        /\ srv'.grant[r] = srv.grant[r] + n
        /\ \A q \in Requests \ {r} : srv'.grant[q] = srv.grant[q]
    BY <1>1, <1>2 DEF Types, PeerTypes
  <1>6. \A q \in Requests : Updates(q)' = Updates(q) + (IF q = r THEN n ELSE 0)
    BY <1>2, <1>3, PostCarries DEF Updates, Share
  <1>7. UpdatesGranted'
    <2> SUFFICES ASSUME NEW q \in Requests PROVE Updates(q)' <= srv'.grant[q]
      BY DEF UpdatesGranted
    <2>1. Updates(q) <= srv.grant[q]
      BY DEF Windows, UpdatesGranted
    <2>2. CASE q = r
      <3>1. Updates(q)' = Updates(q) + n
        BY <1>6, <2>2
      <3> QED
        BY <1>1, <1>5, <2>1, <2>2, <3>1, WindowTypes
    <2>3. CASE q # r
      <3>1. Updates(q)' = Updates(q) + 0
        BY <1>6, <2>3
      <3> QED
        BY <1>5, <2>1, <2>3, <3>1, WindowTypes
    <2> QED
      BY <2>2, <2>3
  <1>8. ASSUME ~ connError, NEW q \in handlers \ drifted
        PROVE  WindowAt(q)'
    <2>1. q \in Requests /\ window[q] = peerInit + srv.grant[q] - Updates(q) - srv.recv[q] - chunk[q]
      BY <1>8 DEF Windows, WindowAt, Types, TableTypes, Streams
    <2>2. window[q] = peerInit + srv'.grant[q] - Updates(q)' - srv.recv[q] - chunk[q]
      <3>1. CASE q = r
        <4>1. Updates(q)' = Updates(q) + n /\ srv'.grant[q] = srv.grant[q] + n
          BY <1>5, <1>6, <3>1
        <4> QED
          BY <1>1, <2>1, <4>1, WindowTypes
      <3>2. CASE q # r
        <4>1. Updates(q)' = Updates(q) + 0 /\ srv'.grant[q] = srv.grant[q]
          BY <1>5, <1>6, <2>1, <3>2
        <4> QED
          BY <2>1, <4>1, WindowTypes
      <3> QED
        BY <3>1, <3>2
    <2> QED
      BY <1>4, <1>5, <2>2 DEF WindowAt
  <1> QED
    BY <1>4, <1>7, <1>8 DEF Windows

\* The peer keeps it.
LEMMA WindowsPeer ==
    ASSUME Types, Windows,
           \/ GrantConn \/ SendBad \/ SendSettings \/ SendGoaway \/ Close
           \/ \E r \in Requests : Answer(r) \/ Grant(r) \/ ReplyInfo(r) \/ Reset(r)
    PROVE  Windows'
  <1>0. DOMAIN srv = {"recv", "ended", "grant", "connGrant", "unasked", "reply",
                      "sent", "goaway", "gone"}
    BY DEF Types, PeerTypes
  <1>1. CASE GrantConn \/ SendBad \/ SendSettings \/ SendGoaway
    <2>1. srv'.recv = srv.recv /\ srv'.grant = srv.grant
      BY <1>0, <1>1 DEF GrantConn, SendBad, SendSettings, SendGoaway
    <2>2. \E f \in Sendable : Post(f) /\ f.type \in {"connUpdate", "bad", "settings", "goaway"}
      <3>1. CASE GrantConn
        <4>1. Received - srv.connGrant \in Nat
          BY <3>1, SumsTypes DEF GrantConn
        <4>2. Frame("connUpdate", NoRequest, Received - srv.connGrant, FALSE) \in Sendable
          BY <4>1, SendableConnFrames
        <4>3. Post(Frame("connUpdate", NoRequest, Received - srv.connGrant, FALSE))
          BY <3>1 DEF GrantConn
        <4>4. Frame("connUpdate", NoRequest, Received - srv.connGrant, FALSE).type = "connUpdate"
          BY DEF Frame
        <4> QED
          BY <4>2, <4>3, <4>4
      <3>2. CASE SendBad
        <4>1. \/ Post(Frame("bad", NoRequest, 0, FALSE))
              \/ Post(Frame("connUpdate", NoRequest, MaxWindow, FALSE))
          BY <3>2 DEF SendBad
        <4>2. /\ Frame("bad", NoRequest, 0, FALSE) \in Sendable
              /\ Frame("connUpdate", NoRequest, MaxWindow, FALSE) \in Sendable
          BY SendableConnFrames, WindowAssumption
        <4>3. /\ Frame("bad", NoRequest, 0, FALSE).type = "bad"
              /\ Frame("connUpdate", NoRequest, MaxWindow, FALSE).type = "connUpdate"
          BY DEF Frame
        <4> QED
          BY <4>1, <4>2, <4>3
      <3>3. CASE SendGoaway
        <4>1. Post(Frame("goaway", NoRequest, 0, FALSE))
          BY <3>3 DEF SendGoaway
        <4>2. Frame("goaway", NoRequest, 0, FALSE).type = "goaway"
          BY DEF Frame
        <4> QED
          BY <4>1, <4>2, SendableConnFrames
      <3>4. CASE SendSettings
        <4>1. PICK n \in Settings : Post(Frame("settings", NoRequest, n, FALSE))
          BY <3>4 DEF SendSettings
        <4>2. Frame("settings", NoRequest, n, FALSE).type = "settings"
          BY DEF Frame
        <4> QED
          BY <4>1, <4>2, ClientAssumption, SendableConnFrames
      <3> QED
        BY <1>1, <3>1, <3>2, <3>3, <3>4
    <2> QED
      BY <2>1, <2>2, WindowsPost
  <1>2. CASE Close
    <2>1. UNCHANGED <<window, drifted, chunk, peerInit, wire, handlers>>
          /\ connError' = connError
      BY <1>2 DEF Close, sending, conn, table
    <2>2. srv'.recv = srv.recv /\ srv'.grant = srv.grant
      BY <1>0, <1>2 DEF Close
    <2> QED
      BY <2>1, <2>2, WindowsElsewhere
  <1>3. ASSUME NEW r \in Requests, Answer(r) \/ ReplyInfo(r) \/ Reset(r)
        PROVE  Windows'
    <2>1. PICK f \in Sendable :
              /\ Post(f) /\ f.on = r /\ f.type \in {"headers", "data", "error", "rst"}
              /\ srv'.recv = srv.recv /\ srv'.connGrant = srv.connGrant
              /\ srv'.grant = srv.grant
      BY <1>3, AnswerPosts
    <2> QED
      BY <2>1, WindowsPost
  <1> QED
    BY <1>1, <1>2, <1>3, WindowsGrant

\* Every step keeps it.
LEMMA WindowsStep ==
    ASSUME Types, Stages, Windows, [Next]_vars
    PROVE  Windows'
  <1>1. ASSUME NEW r \in Requests, WriteRaises(r) \/ Cancel(r)
        PROVE  Windows'
    BY <1>1, WindowsRequest DEF WriteRaises, Cancel
  <1>2. CASE Fault
    BY <1>1, <1>2, WindowsReader, WindowsPeer DEF Fault
  <1>3. CASE UNCHANGED vars
    <2>1. /\ UNCHANGED <<window, drifted, chunk, peerInit, wire, srv>>
          /\ connError' = connError /\ handlers' = handlers
      BY <1>3 DEF vars, sending, conn, table
    <2> QED
      BY <2>1, WindowsElsewhere
  <1> QED
    BY <1>2, <1>3, WindowsRequest, WindowsReader, WindowsPeer DEF Next

\* It holds initially: no stream is open.
LEMMA WindowsInit ==
    ASSUME Init PROVE Windows
  <1>1. \A r \in Requests : Updates(r) = 0 /\ srv.grant[r] = 0
    <2>1. wire \in Seq(Frames) /\ DOMAIN wire = {}
      BY DEF Init
    <2> QED
      BY <2>1, CarriedNothing DEF Updates, OnWire, Init
  <1> QED
    BY <1>1 DEF Init, Windows, UpdatesGranted

\* While the connection is up, the window of an open stream is the peer's account
\* of it, for any requests, sizes and SETTINGS, unless update_initial_window_size
\* has resized it from a size that was not the one in force.
THEOREM WindowsAgree == Spec => []WindowMatchesPeer
  <1> DEFINE Inv == Types /\ Stages /\ Windows
  <1>1. Init => Inv
    BY TypesInit, StagesInit, WindowsInit
  <1>2. Inv /\ [Next]_vars => Inv'
    BY TypesStep, StagesStep, WindowsStep
  <1>3. Inv => WindowMatchesPeer
    BY DEF Windows, WindowAt, Updates, WindowMatchesPeer
  <1> QED
    BY <1>1, <1>2, <1>3, PTL DEF Spec

----------------------------------------------------------------------------
(* The end of a request.                                                      *)

\* Where a request stands in its stream, and how it ends.
FinishAt(r) ==
    /\ pc[r] \in {"idle", "fork", "headers"} => stream[r] = "idle"
    /\ pc[r] \in {"body", "writing", "awaitWindow"} => stream[r] = "open"
    /\ pc[r] = "await" => stream[r] = "half_closed_local"
    /\ outcome[r] = "ok" => stream[r] = "finished" /\ pc[r] \in {"unregister", "done"}

Finish == \A r \in Requests : FinishAt(r)

\* A step of one request.
LEMMA FinishMove ==
    ASSUME Types, Finish, NEW r \in Requests,
           \A q \in Requests \ {r} : /\ pc'[q] = pc[q] /\ stream'[q] = stream[q]
                                     /\ outcome'[q] = outcome[q],
           FinishAt(r)'
    PROVE  Finish'
  BY DEF Finish, FinishAt

\* What the stream's state machine does on the way to a response.
LEMMA StreamWalk ==
    ASSUME NEW end \in BOOLEAN
    PROVE  /\ ApplyEvent("idle", "send_headers", end)
                = IF end THEN "half_closed_local" ELSE "open"
           /\ ApplyEvent("open", "send_data", end)
                = IF end THEN "half_closed_local" ELSE "open"
           /\ \A type \in {"recv_headers", "recv_data"} :
                 ApplyEvent("half_closed_local", type, end)
                   = IF end THEN "finished" ELSE "half_closed_local"
  <1>1. ASSUME NEW s, NEW type
        PROVE  ApplyEvent(s, type, end)
                 = LET t == Transition(s, [type |-> type, end |-> end]) IN
                   IF t = Failed THEN s ELSE t
    BY DEF ApplyEvent
  <1>2. Transition("idle", [type |-> "send_headers", end |-> end])
          = IF end THEN "half_closed_local" ELSE "open"
    <2> DEFINE e == [type |-> "send_headers", end |-> end]
    <2>1. e.type = "send_headers" /\ e.end = end
      OBVIOUS
    <2> HIDE DEF e
    <2>2. Transition("idle", e) = IF end THEN "half_closed_local" ELSE "open"
      BY <2>1 DEF Transition, FromIdle, ClosedStates
    <2> QED
      BY <2>2 DEF e
  <1>3. Transition("open", [type |-> "send_data", end |-> end])
          = IF end THEN "half_closed_local" ELSE "open"
    <2> DEFINE e == [type |-> "send_data", end |-> end]
    <2>1. e.type = "send_data" /\ e.end = end
      OBVIOUS
    <2> HIDE DEF e
    <2>2. Transition("open", e) = FromOpen(e)
      BY DEF Transition, ClosedStates
    <2>3. FromOpen(e) = IF end THEN "half_closed_local" ELSE "open"
      BY <2>1 DEF FromOpen, SendTypes, RecvTypes, RstTypes, PushTypes
    <2> QED
      BY <2>2, <2>3 DEF e
  <1>4. ASSUME NEW type \in {"recv_headers", "recv_data"}
        PROVE  Transition("half_closed_local", [type |-> type, end |-> end])
                 = IF end THEN "finished" ELSE "half_closed_local"
    <2> DEFINE e == [type |-> type, end |-> end]
    <2>1. e.type \in {"recv_headers", "recv_data"} /\ e.end = end
      OBVIOUS
    <2> HIDE DEF e
    <2>2. Transition("half_closed_local", e)
            = FromHalfClosed("half_closed_local", e, RecvTypes, SendTypes)
      BY DEF Transition, ClosedStates
    <2>3. FromHalfClosed("half_closed_local", e, RecvTypes, SendTypes)
            = IF end THEN "finished" ELSE "half_closed_local"
      BY <2>1 DEF FromHalfClosed, RecvTypes, SendTypes, RstTypes, PushTypes
    <2> QED
      BY <2>2, <2>3 DEF e
  <1> QED
    BY <1>1, <1>2, <1>3, <1>4 DEF Failed

\* A request that writes the end of its body has half-closed its stream.
LEMMA FinishWriting ==
    ASSUME Types, Finish, \A q \in Requests : Body[q] # 0, NEW r \in Requests,
           WriteHeaders(r) \/ ChunkWritten(r)
    PROVE  Finish'
  <1>0. /\ pc \in [Requests -> PCs] /\ stream \in [Requests -> StreamStates]
        /\ FinishAt(r) /\ outcome' = outcome
    BY DEF Types, FiberTypes, Finish, WriteHeaders, ChunkWritten
  <1>1. CASE WriteHeaders(r)
    <2> DEFINE end == Body[r] = NoBody
    <2>1. /\ pc[r] = "headers" /\ stream' = [stream EXCEPT ![r] = ApplyEvent(@, "send_headers", end)]
          /\ pc' = [pc EXCEPT ![r] = IF Body[r] > 0 THEN "body" ELSE "await"]
      BY <1>1 DEF WriteHeaders
    <2>2. end \in BOOLEAN
      OBVIOUS
    <2>3. Body[r] > 0 <=> ~ end
      BY ClientAssumption DEF NoBody
    <2> HIDE DEF end
    <2>4. stream'[r] = IF end THEN "half_closed_local" ELSE "open"
      BY <1>0, <2>1, <2>2, StreamWalk DEF FinishAt
    <2>5. pc'[r] = IF end THEN "await" ELSE "body"
      BY <1>0, <2>1, <2>3
    <2>6. FinishAt(r)'
      BY <1>0, <2>1, <2>2, <2>4, <2>5 DEF FinishAt
    <2> QED
      BY <1>0, <2>1, <2>6, FinishMove
  <1>2. CASE ChunkWritten(r)
    <2> DEFINE end == off[r] + chunk[r] >= Body[r]
    <2>1. /\ pc[r] = "writing" /\ stream' = [stream EXCEPT ![r] = ApplyEvent(@, "send_data", end)]
          /\ pc' = [pc EXCEPT ![r] = IF end THEN "await" ELSE "body"]
      BY <1>2 DEF ChunkWritten
    <2>2. end \in BOOLEAN
      OBVIOUS
    <2> HIDE DEF end
    <2>3. stream'[r] = IF end THEN "half_closed_local" ELSE "open"
      BY <1>0, <2>1, <2>2, StreamWalk DEF FinishAt
    <2>4. FinishAt(r)'
      BY <1>0, <2>1, <2>2, <2>3 DEF FinishAt
    <2> QED
      BY <1>0, <2>1, <2>4, FinishMove
  <1> QED
    BY <1>1, <1>2

\* What TakeResponse makes of an event.
LEMMA TakenEffect ==
    ASSUME Types, NEW r \in Requests, TakeResponse(r)
    PROVE  LET e == Head(events[r])
               failed == e.type \in Fatal
               over == e.end \/ failed IN
           /\ pc[r] = "await" /\ events[r] # << >> /\ e \in Sendable
           /\ events' = [events EXCEPT ![r] = Tail(@)]
           /\ pc'[r] \in IF over THEN {"done", "unregister"} ELSE {"await"}
           /\ status'[r] = IF e.type = "headers" THEN e.val ELSE status[r]
           /\ got'[r] = IF e.type = "data" THEN got[r] + 1 ELSE got[r]
           /\ stream'[r] = IF e.type \in DOMAIN StreamEvent
                           THEN ApplyEvent(stream[r], StreamEvent[e.type], e.end)
                           ELSE stream[r]
           /\ outcome'[r] = IF ~ over THEN outcome[r]
                            ELSE IF failed \/ status'[r] = NoStatus THEN "error" ELSE "ok"
           /\ \A q \in Requests \ {r} :
                 /\ pc'[q] = pc[q] /\ status'[q] = status[q] /\ got'[q] = got[q]
                 /\ stream'[q] = stream[q] /\ outcome'[q] = outcome[q]
                 /\ events'[q] = events[q]
           /\ UNCHANGED <<reader, wire, srv, todo>> /\ handlers' \subseteq handlers
           /\ \A q \in Requests \ {r} : q \in handlers' <=> q \in handlers
  <1> DEFINE e == Head(events[r])
             failed == e.type \in Fatal
             over == e.end \/ failed
  <1>1. /\ pc[r] = "await" /\ events[r] # << >> /\ events' = [events EXCEPT ![r] = Tail(@)]
        /\ status' = IF e.type = "headers" THEN [status EXCEPT ![r] = e.val] ELSE status
        /\ got' = IF e.type = "data" THEN [got EXCEPT ![r] = @ + 1] ELSE got
        /\ stream' = IF e.type \in DOMAIN StreamEvent
                     THEN [stream EXCEPT ![r] = ApplyEvent(@, StreamEvent[e.type], e.end)]
                     ELSE stream
        /\ outcome' = [outcome EXCEPT ![r] =
                         CASE ~over -> @
                           [] over -> IF failed \/ status'[r] = NoStatus THEN "error"
                                                                         ELSE "ok"]
        /\ handlers' = IF over /\ MutexFree THEN handlers \ {r} ELSE handlers
        /\ pc' = [pc EXCEPT ![r] = CASE ~over -> @
                                     [] over -> IF MutexFree THEN "done" ELSE "unregister"]
        /\ UNCHANGED <<reader, wire, srv, todo>>
    BY DEF TakeResponse
  <1>2. /\ status \in [Requests -> Statuses] /\ got \in [Requests -> Nat]
        /\ stream \in [Requests -> StreamStates] /\ pc \in [Requests -> PCs]
        /\ outcome \in [Requests -> {"none", "ok", "error"}]
        /\ events \in [Requests -> Seq(Sendable)]
    BY DEF Types, FiberTypes, TableTypes
  <1>3. e \in Sendable /\ over \in BOOLEAN
    <2>1. e \in Sendable
      BY <1>1, TakenTypes
    <2> QED
      BY <2>1 DEF Sendable, Frames
  <1> HIDE DEF e, failed, over
  <1>4. pc'[r] \in (IF over THEN {"done", "unregister"} ELSE {"await"})
    <2>1. CASE over
      BY <1>1, <1>2, <2>1
    <2>2. CASE ~ over
      BY <1>1, <1>2, <2>2
    <2> QED
      BY <1>3, <2>1, <2>2
  <1>5. /\ status'[r] = IF e.type = "headers" THEN e.val ELSE status[r]
        /\ got'[r] = IF e.type = "data" THEN got[r] + 1 ELSE got[r]
        /\ stream'[r] = IF e.type \in DOMAIN StreamEvent
                        THEN ApplyEvent(stream[r], StreamEvent[e.type], e.end)
                        ELSE stream[r]
    BY <1>1, <1>2
  <1>6. outcome'[r] = IF ~ over THEN outcome[r]
                      ELSE IF failed \/ status'[r] = NoStatus THEN "error" ELSE "ok"
    <2>1. CASE over
      BY <1>1, <1>2, <2>1
    <2>2. CASE ~ over
      BY <1>1, <1>2, <2>2
    <2> QED
      BY <1>3, <2>1, <2>2
  <1>7. \A q \in Requests \ {r} :
           /\ pc'[q] = pc[q] /\ status'[q] = status[q] /\ got'[q] = got[q]
           /\ stream'[q] = stream[q] /\ outcome'[q] = outcome[q] /\ events'[q] = events[q]
           /\ q \in handlers' <=> q \in handlers
    BY <1>1, <1>2
  <1>8. handlers' \subseteq handlers
    BY <1>1
  <1> QED
    BY <1>1, <1>3, <1>4, <1>5, <1>6, <1>7, <1>8 DEF e, failed, over

\* A request that takes the end of its response has closed its stream.
LEMMA FinishTaking ==
    ASSUME Types, Finish, NEW r \in Requests, TakeResponse(r)
    PROVE  Finish'
  <1> DEFINE e == Head(events[r])
             failed == e.type \in Fatal
             over == e.end \/ failed
  <1>1. /\ pc[r] = "await" /\ e \in Sendable
        /\ pc'[r] \in IF over THEN {"done", "unregister"} ELSE {"await"}
        /\ stream'[r] = IF e.type \in DOMAIN StreamEvent
                        THEN ApplyEvent(stream[r], StreamEvent[e.type], e.end)
                        ELSE stream[r]
        /\ outcome'[r] = IF ~ over THEN outcome[r]
                         ELSE IF failed \/ status'[r] = NoStatus THEN "error" ELSE "ok"
        /\ \A q \in Requests \ {r} : /\ pc'[q] = pc[q] /\ stream'[q] = stream[q]
                                     /\ outcome'[q] = outcome[q]
    BY TakenEffect
  <1>2. stream[r] = "half_closed_local" /\ outcome[r] # "ok"
    BY <1>1 DEF Finish, FinishAt
  <1>3. e.end \in BOOLEAN /\ (e.end => e.type \in {"headers", "data", "error"})
    BY <1>1 DEF Sendable, Frames
  <1> HIDE DEF e
  <1>4. CASE e.type \in {"headers", "data"}
    <2>1. /\ ~ failed /\ e.type \in DOMAIN StreamEvent
          /\ StreamEvent[e.type] \in {"recv_headers", "recv_data"}
      BY <1>4 DEF Fatal, StreamEvent
    <2>2. stream'[r] = IF e.end THEN "finished" ELSE "half_closed_local"
      BY <1>1, <1>2, <1>3, <2>1, StreamWalk
    <2>3. FinishAt(r)'
      BY <1>1, <1>2, <1>3, <2>1, <2>2 DEF FinishAt
    <2> QED
      BY <1>1, <2>3, FinishMove
  <1>5. CASE failed
    <2>1. FinishAt(r)'
      BY <1>1, <1>5 DEF FinishAt
    <2> QED
      BY <1>1, <2>1, FinishMove
  <1>6. CASE ~ failed /\ e.type \notin {"headers", "data"}
    <2>1. ~ over /\ e.type \notin DOMAIN StreamEvent
      BY <1>3, <1>6 DEF Fatal, StreamEvent
    <2>2. FinishAt(r)'
      BY <1>1, <1>2, <2>1 DEF FinishAt
    <2> QED
      BY <1>1, <2>2, FinishMove
  <1> QED
    BY <1>4, <1>5, <1>6

\* The other steps of a request.
LEMMA FinishRequest ==
    ASSUME Types, Finish, \A q \in Requests : Body[q] # 0, NEW r \in Requests,
           RequestStep(r) \/ (pc[r] \notin {"unregister", "done"} /\ Raises(r))
    PROVE  Finish'
  <1>0. /\ pc \in [Requests -> PCs] /\ outcome \in [Requests -> {"none", "ok", "error"}]
        /\ FinishAt(r)
    BY DEF Types, FiberTypes, Finish
  <1>1. CASE Refuse(r)
    <2>1. /\ pc' = [pc EXCEPT ![r] = "done"] /\ outcome' = [outcome EXCEPT ![r] = "error"]
          /\ stream' = stream
      BY <1>1 DEF Refuse
    <2>2. FinishAt(r)'
      BY <1>0, <2>1 DEF FinishAt
    <2> QED
      BY <1>0, <2>1, <2>2, FinishMove
  <1>2. CASE \/ StartReader(r) \/ Start(r) \/ SendChunk(r) \/ AwaitWindow(r)
             \/ TakeWhileSending(r) \/ Unregister(r)
             \/ (pc[r] \notin {"unregister", "done"} /\ Raises(r))
    <2>1. /\ UNCHANGED <<outcome, stream>>
          /\ \/ pc' = [pc EXCEPT ![r] = "fork"] /\ pc[r] = "idle"
             \/ pc' = [pc EXCEPT ![r] = "headers"] /\ pc[r] \in {"idle", "fork"}
             \/ pc' = [pc EXCEPT ![r] = "writing"] /\ pc[r] = "body"
             \/ pc' = [pc EXCEPT ![r] = "awaitWindow"] /\ pc[r] = "body"
             \/ pc' = [pc EXCEPT ![r] = "body"] /\ pc[r] = "awaitWindow"
             \/ pc' = [pc EXCEPT ![r] = "done"] /\ pc[r] = "unregister"
             \/ pc' = [pc EXCEPT ![r] = "raised"] /\ pc[r] \notin {"unregister", "done"}
      BY <1>2 DEF StartReader, Start, SendChunk, AwaitWindow, TakeWhileSending, Unregister,
         Raises, reply
    <2>2. FinishAt(r)'
      BY <1>0, <2>1 DEF FinishAt
    <2>3. \A q \in Requests \ {r} : pc'[q] = pc[q]
      BY <1>0, <2>1
    <2> QED
      BY <2>1, <2>2, <2>3, FinishMove
  <1> QED
    BY <1>1, <1>2, FinishWriting, FinishTaking DEF RequestStep

\* Every step keeps what a finished request has reached.
LEMMA FinishStep ==
    ASSUME Types, Finish, \A q \in Requests : Body[q] # 0, [Next]_vars
    PROVE  Finish'
  <1>1. ASSUME NEW r \in Requests, WriteRaises(r) \/ Cancel(r)
        PROVE  Finish'
    BY <1>1, FinishRequest DEF WriteRaises, Cancel
  <1>2. CASE UNCHANGED <<pc, reply>>
    BY <1>2 DEF reply, Finish, FinishAt
  <1>3. CASE ReaderStep \/ ReaderDies
    BY <1>2, <1>3 DEF ReaderStep, ReaderDies, Unblock, ReadForStream, ReadStreamUpdate,
       ReadConnUpdate, ReadSettings, ReadGoaway, ReadEnd, Notify
  <1>4. ASSUME NEW r \in Requests, Answer(r) \/ Grant(r) \/ ReplyInfo(r) \/ Reset(r)
        PROVE  Finish'
    BY <1>2, <1>4 DEF Answer, ReplyHeaders, ReplyBody, ReplyTrailers, Grant, ReplyInfo,
       Reset, Post
  <1>5. CASE GrantConn \/ SendBad \/ SendSettings \/ SendGoaway \/ Close
    BY <1>2, <1>5 DEF GrantConn, SendBad, SendSettings, SendGoaway, Close, Post
  <1>6. CASE Fault
    BY <1>1, <1>3, <1>4, <1>5, <1>6 DEF Fault
  <1> QED
    BY <1>2, <1>3, <1>4, <1>5, <1>6, FinishRequest DEF Next, vars

\* A request that returns Ok leaves a stream on which both directions have
\* ended, whatever the peer sends in whatever order, if no body is Some "".
THEOREM OkIsFinished ==
    (\A r \in Requests : Body[r] # 0) => (Spec => []OkMeansFinished)
  <1> SUFFICES ASSUME \A r \in Requests : Body[r] # 0 PROVE Spec => []OkMeansFinished
    OBVIOUS
  <1> DEFINE Inv == Types /\ Finish
  <1>1. Init => Inv
    <2>1. Init => Finish
      BY DEF Init, Finish, FinishAt
    <2> QED
      BY <2>1, TypesInit
  <1>2. Inv /\ [Next]_vars => Inv'
    BY TypesStep, FinishStep
  <1>3. Inv => OkMeansFinished
    BY DEF Finish, FinishAt, OkMeansFinished
  <1> QED
    BY <1>1, <1>2, <1>3, PTL DEF Spec

----------------------------------------------------------------------------
(* What is on its way to a request: its queue, with the event the reader is   *)
(* still adding to it, and then its frames on the wire.                       *)

Queue(r) == IF reader.mode = "block" /\ reader.on = r THEN Append(events[r], reader.ev)
                                                      ELSE events[r]

ListSet(list) == {list[i] : i \in DOMAIN list}

Pipe(q, w, r) == ListSet(q) \cup {x \in ListSet(w) : x.on = r}

\* The DATA among it.
DataIn(q, w, r) == Carried(q, "data", r) + Carried(w, "data", r)

\* The frames a response is made of; IsLost is a final header block that the
\* client cannot decode.
IsInfo(x) == x.type = "headers" /\ x.val = Info
IsFinal(x) == x.type = "headers" /\ x.val = Final
IsLost(x) == x.type = "error" /\ x.val = Final
IsReply(x) == x.type \in {"headers", "data"} \/ IsLost(x)

\* x may come before y: no frame follows the end of its response, and only
\* interim responses come before a header block.
Prec(x, y) == /\ IsReply(y) => ~ x.end
              /\ IsReply(y) /\ y.type # "data" /\ IsReply(x) => IsInfo(x)

OrderedList(list, r) ==
    \A i, j \in DOMAIN list :
        i < j /\ list[i].on = r /\ list[j].on = r => Prec(list[i], list[j])

\* A queue q and a wire w with what one peer may have sent for r, in order.
Sound(q, w, r) ==
    /\ \A x \in ListSet(q) : x.on = r
    /\ OrderedList(q, r) /\ OrderedList(w, r)
    /\ \A x \in ListSet(q), y \in ListSet(w) : y.on = r => Prec(x, y)

\* Lists that grow at one end and shrink at the other.
LEMMA SetAppend ==
    ASSUME NEW list \in Seq(Sendable), NEW f \in Sendable
    PROVE  /\ ListSet(Append(list, f)) = ListSet(list) \cup {f}
           /\ ListSet(list) \subseteq Sendable
           /\ Append(list, f) \in Seq(Sendable)
  <1>1. /\ DOMAIN list = 1 .. Len(list) /\ Len(list) \in Nat
        /\ DOMAIN Append(list, f) = 1 .. Len(list) + 1
        /\ \A i \in 1 .. Len(list) : Append(list, f)[i] = list[i] /\ list[i] \in Sendable
        /\ Append(list, f)[Len(list) + 1] = f
        /\ Append(list, f) \in Seq(Sendable)
    OBVIOUS
  <1> QED
    BY <1>1 DEF ListSet

\* The indices of a list and of its tail.
LEMMA ListShape ==
    ASSUME NEW list \in Seq(Sendable), list # << >>
    PROVE  /\ DOMAIN list = 1 .. Len(list) /\ Len(list) \in Nat \ {0}
           /\ DOMAIN Tail(list) = 1 .. Len(list) - 1
           /\ Head(list) = list[1]
           /\ \A i \in 1 .. Len(list) - 1 : Tail(list)[i] = list[i + 1]
  BY HeadTailProperties, EmptySeq

\* The members of a list are its head and those of its tail.
LEMMA SetTail ==
    ASSUME NEW list \in Seq(Sendable), list # << >>
    PROVE  ListSet(list) = ListSet(Tail(list)) \cup {Head(list)}
  <1>1. ListSet(Tail(list)) \subseteq ListSet(list)
    <2> SUFFICES ASSUME NEW i \in DOMAIN Tail(list)
                 PROVE  Tail(list)[i] \in ListSet(list)
      BY DEF ListSet
    <2>1. i + 1 \in DOMAIN list /\ Tail(list)[i] = list[i + 1]
      BY ListShape
    <2> QED
      BY <2>1 DEF ListSet
  <1>2. Head(list) \in ListSet(list)
    BY ListShape DEF ListSet
  <1>3. ASSUME NEW i \in DOMAIN list
        PROVE  list[i] \in ListSet(Tail(list)) \cup {Head(list)}
    <2>1. CASE i = 1
      BY <2>1, ListShape
    <2>2. CASE i # 1
      <3>1. i - 1 \in 1 .. Len(list) - 1 /\ (i - 1) + 1 = i
        BY <2>2, ListShape
      <3>2. i - 1 \in DOMAIN Tail(list) /\ Tail(list)[i - 1] = list[i]
        BY <3>1, ListShape
      <3> QED
        BY <3>2 DEF ListSet
    <2> QED
      BY <2>1, <2>2
  <1> QED
    BY <1>1, <1>2, <1>3 DEF ListSet

\* A list stays in order when what is added may follow all it has.
LEMMA OrderAppend ==
    ASSUME NEW list \in Seq(Sendable), NEW f \in Sendable, NEW r, OrderedList(list, r),
           f.on = r => \A x \in ListSet(list) : x.on = r => Prec(x, f)
    PROVE  OrderedList(Append(list, f), r)
  <1> DEFINE new == Append(list, f)
  <1>1. /\ DOMAIN list = 1 .. Len(list) /\ Len(list) \in Nat
        /\ DOMAIN new = 1 .. Len(list) + 1
        /\ \A i \in 1 .. Len(list) : new[i] = list[i]
        /\ new[Len(list) + 1] = f
    OBVIOUS
  <1> HIDE DEF new
  <1>2. SUFFICES ASSUME NEW i \in DOMAIN new, NEW j \in DOMAIN new, i < j,
                        new[i].on = r, new[j].on = r
                 PROVE  Prec(new[i], new[j])
    BY DEF OrderedList, new
  <1>3. CASE j \in 1 .. Len(list)
    <2>1. i \in 1 .. Len(list)
      BY <1>1, <1>2, <1>3
    <2> QED
      BY <1>1, <1>2, <1>3, <2>1 DEF OrderedList
  <1>4. CASE j = Len(list) + 1
    <2>1. i \in 1 .. Len(list) /\ new[j] = f
      BY <1>1, <1>2, <1>4
    <2>2. new[i] \in ListSet(list)
      BY <1>1, <2>1 DEF ListSet
    <2> QED
      BY <1>2, <2>1, <2>2
  <1> QED
    BY <1>1, <1>2, <1>3, <1>4

\* A tail is in order, and all of it may follow the head.
LEMMA OrderTail ==
    ASSUME NEW list \in Seq(Sendable), list # << >>, NEW r, OrderedList(list, r)
    PROVE  /\ OrderedList(Tail(list), r)
           /\ Head(list).on = r =>
                 \A y \in ListSet(Tail(list)) : y.on = r => Prec(Head(list), y)
  <1>1. \A i \in DOMAIN Tail(list) : /\ i \in Nat /\ i > 0 /\ i + 1 \in DOMAIN list
                                     /\ Tail(list)[i] = list[i + 1]
    BY ListShape
  <1>2. OrderedList(Tail(list), r)
    <2> SUFFICES ASSUME NEW i \in DOMAIN Tail(list), NEW j \in DOMAIN Tail(list), i < j,
                        Tail(list)[i].on = r, Tail(list)[j].on = r
                 PROVE  Prec(Tail(list)[i], Tail(list)[j])
      BY DEF OrderedList
    <2>1. i + 1 < j + 1
      BY <1>1
    <2> QED
      BY <1>1, <2>1 DEF OrderedList
  <1>3. ASSUME Head(list).on = r, NEW i \in DOMAIN Tail(list), Tail(list)[i].on = r
        PROVE  Prec(Head(list), Tail(list)[i])
    <2>1. 1 \in DOMAIN list /\ Head(list) = list[1] /\ 1 < i + 1
      BY <1>1, ListShape
    <2> QED
      BY <1>1, <1>3, <2>1 DEF OrderedList
  <1> QED
    BY <1>2, <1>3 DEF ListSet

\* An element added behind a list that is not empty does not change its head.
LEMMA TailAppend ==
    ASSUME NEW list \in Seq(Sendable), list # << >>, NEW f \in Sendable
    PROVE  /\ Append(list, f) # << >> /\ Head(Append(list, f)) = Head(list)
           /\ Tail(Append(list, f)) = Append(Tail(list), f)
  <1>1. Append(list, f) # << >>
    BY EmptySeq
  <1> QED
    BY <1>1, HeadTailAppend

\* A request's queue, with the event the reader is adding, holds frames.
LEMMA QueueTypes ==
    ASSUME Types, NEW r \in Requests
    PROVE  Queue(r) \in Seq(Sendable) /\ events[r] \in Seq(Sendable)
  <1>1. events[r] \in Seq(Sendable) /\ (reader.mode = "block" => reader.ev \in Sendable)
    BY DEF Types, TableTypes, ReaderTypes
  <1>2. CASE reader.mode = "block" /\ reader.on = r
    BY <1>1, <1>2, SetAppend DEF Queue
  <1>3. CASE ~ (reader.mode = "block" /\ reader.on = r)
    BY <1>1, <1>3 DEF Queue
  <1> QED
    BY <1>1, <1>2, <1>3

\* So it does in the next state.
LEMMA QueueTypesNext ==
    ASSUME Types', NEW r \in Requests
    PROVE  Queue(r)' \in Seq(Sendable) /\ wire' \in Seq(Sendable)
  <1>1. /\ events'[r] \in Seq(Sendable) /\ (reader'.mode = "block" => reader'.ev \in Sendable)
        /\ wire' \in Seq(Sendable)
    BY DEF Types, TableTypes, ReaderTypes
  <1>2. CASE reader'.mode = "block" /\ reader'.on = r
    BY <1>1, <1>2, SetAppend DEF Queue
  <1>3. CASE ~ (reader'.mode = "block" /\ reader'.on = r)
    BY <1>1, <1>3 DEF Queue
  <1> QED
    BY <1>1, <1>2, <1>3

\* What the reader and the request do to the queue.
LEMMA QueueDeliver ==
    ASSUME Types, reader.mode = "run", NEW q \in Requests, NEW e, Deliver(q, e)
    PROVE  \A p \in Requests : Queue(p)' = IF p = q THEN Append(Queue(p), e) ELSE Queue(p)
  <1>0. events \in [Requests -> Seq(Sendable)]
    BY DEF Types, TableTypes
  <1>1. CASE Len(events[q]) < QueueCap
    <2>1. events' = [events EXCEPT ![q] = Append(@, e)] /\ reader' = reader
      BY <1>1 DEF Deliver
    <2> QED
      BY <1>0, <2>1 DEF Queue
  <1>2. CASE ~ (Len(events[q]) < QueueCap)
    <2>1. events' = events /\ reader' = Blocked(q, e, "run", "run")
      BY <1>2 DEF Deliver
    <2>2. reader'.mode = "block" /\ reader'.on = q /\ reader'.ev = e
      BY <2>1 DEF Blocked
    <2> QED
      BY <2>1, <2>2 DEF Queue
  <1> QED
    BY <1>1, <1>2

\* An announced connection error joins a queue or leaves it as it was.
LEMMA QueueAnnounce ==
    ASSUME Types, reader.mode # "block", NEW S \in SUBSET Requests, NEW next, Announce(S, next),
           next # "block"
    PROVE  \A p \in Requests : Queue(p)' \in {Queue(p), Append(Queue(p), ConnectionError(p))}
  <1>1. PICK told \in SUBSET {r \in S : Len(events[r]) < QueueCap} :
        /\ events' = [r \in Requests |->
                        IF r \in told THEN Append(events[r], ConnectionError(r))
                                      ELSE events[r]]
        /\ \/ reader' = Plain(next)
           \/ \E r \in S \ told : reader' = Blocked(r, ConnectionError(r), "notify", next)
    BY DEF Announce
  <1> SUFFICES ASSUME NEW p \in Requests
               PROVE  Queue(p)' \in {Queue(p), Append(Queue(p), ConnectionError(p))}
    OBVIOUS
  <1>2. /\ Queue(p) = events[p]
        /\ events'[p] = IF p \in told THEN Append(events[p], ConnectionError(p)) ELSE events[p]
    BY <1>1 DEF Queue
  <1>3. CASE reader' = Plain(next)
    <2>1. reader'.mode # "block"
      BY <1>3 DEF Plain
    <2> QED
      BY <1>2, <2>1 DEF Queue
  <1>4. ASSUME NEW r \in S \ told, reader' = Blocked(r, ConnectionError(r), "notify", next)
        PROVE  Queue(p)' \in {Queue(p), Append(Queue(p), ConnectionError(p))}
    <2>1. reader'.mode = "block" /\ reader'.on = r /\ reader'.ev = ConnectionError(r)
      BY <1>4 DEF Blocked
    <2>2. CASE p = r
      BY <1>2, <2>1, <2>2, <1>4 DEF Queue
    <2>3. CASE p # r
      BY <1>2, <2>1, <2>3 DEF Queue
    <2> QED
      BY <2>2, <2>3
  <1> QED
    BY <1>1, <1>3, <1>4

\* An event that the reader gets rid of was in the queue already.
LEMMA QueueUnblock ==
    ASSUME Types, Unblock
    PROVE  \A p \in Requests : Queue(p)' = Queue(p)
  <1>1. /\ reader.mode = "block" /\ reader.on \in Requests /\ reader.from # "block"
        /\ events \in [Requests -> Seq(Sendable)]
        /\ events' = [events EXCEPT ![reader.on] = Append(@, reader.ev)]
        /\ reader' = [Plain(reader.from) EXCEPT !.next = reader.next]
    BY DEF Unblock, Types, TableTypes, ReaderTypes, Readers
  <1>2. reader'.mode # "block"
    BY <1>1 DEF Plain
  <1> QED
    BY <1>1, <1>2 DEF Queue

\* A request takes the head of its queue, and of no other.
LEMMA QueueTake ==
    ASSUME Types, NEW r \in Requests, events[r] # << >>, reader' = reader,
           events' = [events EXCEPT ![r] = Tail(@)]
    PROVE  /\ Queue(r) # << >> /\ Head(Queue(r)) = Head(events[r])
           /\ Queue(r)' = Tail(Queue(r))
           /\ \A p \in Requests \ {r} : Queue(p)' = Queue(p)
  <1>1. /\ events \in [Requests -> Seq(Sendable)] /\ events[r] \in Seq(Sendable)
        /\ reader.mode = "block" => reader.ev \in Sendable
    BY DEF Types, TableTypes, ReaderTypes
  <1>2. events'[r] = Tail(events[r]) /\ \A p \in Requests \ {r} : events'[p] = events[p]
    BY <1>1
  <1>3. CASE reader.mode = "block" /\ reader.on = r
    BY <1>1, <1>2, <1>3, TailAppend DEF Queue
  <1>4. CASE ~ (reader.mode = "block" /\ reader.on = r)
    BY <1>1, <1>2, <1>4 DEF Queue
  <1> QED
    BY <1>2, <1>3, <1>4 DEF Queue

\* What the peer sends is a sequence of frames.
LEMMA SeqFrames ==
    ASSUME NEW list \in Seq(Sendable) PROVE list \in Seq(Frames)
  <1> DEFINE S == Sendable
  <1>1. S \subseteq Frames /\ list \in Seq(S)
    BY DEF Sendable
  <1> HIDE DEF S
  <1>2. S \subseteq Frames => Seq(S) \subseteq Seq(Frames)
    OBVIOUS
  <1> QED
    BY <1>1, <1>2

\* Frames in a pipe, and their DATA.
LEMMA PipeTypes ==
    ASSUME NEW q \in Seq(Sendable), NEW w \in Seq(Sendable), NEW r
    PROVE  /\ Pipe(q, w, r) \subseteq Sendable /\ DataIn(q, w, r) \in Nat
           /\ Carried(q, "data", r) \in Nat /\ Carried(w, "data", r) \in Nat
           /\ \A x \in Sendable : x.end => IsReply(x)
           /\ \A x \in Sendable : IsInfo(x) => ~ x.end
  <1>1. /\ \A i \in DOMAIN q : q[i] \in Sendable
        /\ \A i \in DOMAIN w : w[i] \in Sendable
    OBVIOUS
  <1>2. Pipe(q, w, r) \subseteq Sendable
    BY <1>1 DEF Pipe, ListSet
  <1>3. Carried(q, "data", r) \in Nat /\ Carried(w, "data", r) \in Nat
    BY SeqFrames, PlacesType
  <1>4. \A x \in Sendable : (x.end => IsReply(x)) /\ (IsInfo(x) => ~ x.end)
    BY DEF Sendable, IsReply, IsLost, IsInfo
  <1> QED
    BY <1>2, <1>3, <1>4 DEF DataIn

\* A frame goes from the wire to the queue.
LEMMA PipeMove ==
    ASSUME NEW q \in Seq(Sendable), NEW w \in Seq(Sendable), NEW r, Sound(q, w, r),
           w # << >>, Head(w).on = r
    PROVE  /\ Sound(Append(q, Head(w)), Tail(w), r)
           /\ Pipe(Append(q, Head(w)), Tail(w), r) = Pipe(q, w, r)
           /\ DataIn(Append(q, Head(w)), Tail(w), r) = DataIn(q, w, r)
  <1> DEFINE f == Head(w)
             t == Tail(w)
  <1>1. f \in Sendable /\ t \in Seq(Sendable) /\ f.on = r
    BY ListEnds
  <1>2. ListSet(w) = ListSet(t) \cup {f}
    BY SetTail
  <1>3. ListSet(Append(q, f)) = ListSet(q) \cup {f} /\ Append(q, f) \in Seq(Sendable)
    BY <1>1, SetAppend
  <1>4. OrderedList(t, r) /\ \A y \in ListSet(t) : y.on = r => Prec(f, y)
    BY <1>1, OrderTail DEF Sound
  <1>5. Carried(w, "data", r) = Share(f, "data", r) + Carried(t, "data", r)
    BY SeqFrames, CarriedTail
  <1> HIDE DEF f, t
  <1>6. Carried(Append(q, f), "data", r) = Carried(q, "data", r) + Share(f, "data", r)
    <2>1. q \in Seq(Frames) /\ f \in Frames
      BY <1>1, SeqFrames DEF Sendable
    <2> QED
      BY <2>1, CarriedAppend
  <1>7. \A x \in ListSet(q) : x.on = r /\ Prec(x, f)
    BY <1>1, <1>2 DEF Sound
  <1>8. OrderedList(Append(q, f), r)
    BY <1>1, <1>7, OrderAppend DEF Sound
  <1>9. Sound(Append(q, f), t, r)
    BY <1>1, <1>2, <1>3, <1>4, <1>7, <1>8 DEF Sound
  <1>10. Pipe(Append(q, f), t, r) = Pipe(q, w, r)
    BY <1>1, <1>2, <1>3 DEF Pipe
  <1>11. Share(f, "data", r) \in Nat
    BY <1>1 DEF Share, Sendable, Frames
  <1>12. DataIn(Append(q, f), t, r) = DataIn(q, w, r)
    <2>1. /\ Carried(q, "data", r) \in Nat /\ Carried(w, "data", r) \in Nat
          /\ Carried(t, "data", r) \in Nat
      BY <1>1, PipeTypes
    <2> QED
      BY <1>5, <1>6, <1>11, <2>1 DEF DataIn
  <1> QED
    BY <1>9, <1>10, <1>12 DEF f, t

\* A frame leaves the wire and goes nowhere.
LEMMA PipeLose ==
    ASSUME NEW q \in Seq(Sendable), NEW w \in Seq(Sendable), NEW r, Sound(q, w, r),
           w # << >>
    PROVE  /\ Sound(q, Tail(w), r)
           /\ Pipe(q, Tail(w), r) \subseteq Pipe(q, w, r)
           /\ \A x \in Pipe(q, w, r) :
                 x \in Pipe(q, Tail(w), r) \/ (x = Head(w) /\ Head(w).on = r)
           /\ DataIn(q, w, r) = Share(Head(w), "data", r) + DataIn(q, Tail(w), r)
           /\ Head(w).on = r => /\ Head(w) \in Pipe(q, w, r)
                                /\ \A x \in ListSet(q) : Prec(x, Head(w))
  <1> DEFINE f == Head(w)
             t == Tail(w)
  <1>1. f \in Sendable /\ t \in Seq(Sendable)
    BY ListEnds
  <1>2. ListSet(w) = ListSet(t) \cup {f}
    BY SetTail
  <1>3. OrderedList(t, r)
    BY OrderTail DEF Sound
  <1>4. Carried(w, "data", r) = Share(f, "data", r) + Carried(t, "data", r)
    BY SeqFrames, CarriedTail
  <1> HIDE DEF f, t
  <1>5. Sound(q, t, r)
    BY <1>2, <1>3 DEF Sound
  <1>6. /\ Pipe(q, t, r) \subseteq Pipe(q, w, r)
        /\ \A x \in Pipe(q, w, r) : x \in Pipe(q, t, r) \/ (x = f /\ f.on = r)
    BY <1>2 DEF Pipe
  <1>7. f.on = r => f \in Pipe(q, w, r) /\ \A x \in ListSet(q) : Prec(x, f)
    BY <1>2 DEF Pipe, Sound
  <1>8. Share(f, "data", r) \in Nat
    BY <1>1 DEF Share, Sendable, Frames
  <1>9. DataIn(q, w, r) = Share(f, "data", r) + DataIn(q, t, r)
    <2>1. /\ Carried(q, "data", r) \in Nat /\ Carried(w, "data", r) \in Nat
          /\ Carried(t, "data", r) \in Nat
      BY <1>1, PipeTypes
    <2> QED
      BY <1>4, <1>8, <2>1 DEF DataIn
  <1> QED
    BY <1>5, <1>6, <1>7, <1>9 DEF f, t

\* A frame that is no part of a response is added to the queue.
LEMMA PipeNote ==
    ASSUME NEW q \in Seq(Sendable), NEW w \in Seq(Sendable), NEW r, Sound(q, w, r),
           NEW f \in Sendable, f.on = r, ~ IsReply(f)
    PROVE  /\ Sound(Append(q, f), w, r)
           /\ Pipe(Append(q, f), w, r) = Pipe(q, w, r) \cup {f}
           /\ DataIn(Append(q, f), w, r) = DataIn(q, w, r)
  <1>1. ListSet(Append(q, f)) = ListSet(q) \cup {f} /\ Append(q, f) \in Seq(Sendable)
    BY SetAppend
  <1>2. ~ f.end /\ f.type # "data"
    BY PipeTypes DEF IsReply
  <1>3. \A x : Prec(x, f)
    BY DEF Prec
  <1>4. \A y : Prec(f, y)
    BY <1>2 DEF Prec
  <1>5. OrderedList(Append(q, f), r)
    BY <1>3, OrderAppend DEF Sound
  <1>6. Sound(Append(q, f), w, r)
    BY <1>1, <1>4, <1>5 DEF Sound
  <1>7. Carried(Append(q, f), "data", r) = Carried(q, "data", r) + Share(f, "data", r)
    <2>1. q \in Seq(Frames) /\ f \in Frames
      BY SeqFrames DEF Sendable
    <2> QED
      BY <2>1, CarriedAppend
  <1>8. Share(f, "data", r) = 0
    BY <1>2, ShareOfOthers
  <1>9. DataIn(Append(q, f), w, r) = DataIn(q, w, r)
    BY <1>7, <1>8, PipeTypes DEF DataIn
  <1> QED
    BY <1>1, <1>6, <1>9 DEF Pipe

\* A frame is sent.
LEMMA PipePost ==
    ASSUME NEW q \in Seq(Sendable), NEW w \in Seq(Sendable), NEW r, Sound(q, w, r),
           NEW f \in Sendable, f.on = r => \A x \in Pipe(q, w, r) : Prec(x, f)
    PROVE  /\ Sound(q, Append(w, f), r)
           /\ Pipe(q, Append(w, f), r) = Pipe(q, w, r) \cup (IF f.on = r THEN {f} ELSE {})
           /\ DataIn(q, Append(w, f), r) = DataIn(q, w, r) + Share(f, "data", r)
  <1>1. ListSet(Append(w, f)) = ListSet(w) \cup {f} /\ Append(w, f) \in Seq(Sendable)
    BY SetAppend
  <1>2. f.on = r => \A x \in ListSet(w) : x.on = r => Prec(x, f)
    BY DEF Pipe
  <1>3. OrderedList(Append(w, f), r)
    BY <1>2, OrderAppend DEF Sound
  <1>4. Sound(q, Append(w, f), r)
    BY <1>1, <1>3 DEF Sound, Pipe
  <1>5. Carried(Append(w, f), "data", r) = Carried(w, "data", r) + Share(f, "data", r)
    <2>1. w \in Seq(Frames) /\ f \in Frames
      BY SeqFrames DEF Sendable
    <2> QED
      BY <2>1, CarriedAppend
  <1>6. Share(f, "data", r) \in Nat
    BY DEF Share, Sendable, Frames
  <1>7. DataIn(q, Append(w, f), r) = DataIn(q, w, r) + Share(f, "data", r)
    <2>1. Carried(q, "data", r) \in Nat /\ Carried(w, "data", r) \in Nat
      BY PipeTypes
    <2> QED
      BY <1>5, <1>6, <2>1 DEF DataIn
  <1> QED
    BY <1>1, <1>4, <1>7 DEF Pipe

\* An event is taken.
LEMMA PipeTake ==
    ASSUME NEW q \in Seq(Sendable), NEW w \in Seq(Sendable), NEW r, Sound(q, w, r),
           q # << >>
    PROVE  /\ Sound(Tail(q), w, r)
           /\ Pipe(q, w, r) = Pipe(Tail(q), w, r) \cup {Head(q)}
           /\ DataIn(q, w, r) = Share(Head(q), "data", r) + DataIn(Tail(q), w, r)
           /\ Head(q).on = r /\ Head(q) \in Sendable
           /\ \A y \in Pipe(Tail(q), w, r) : Prec(Head(q), y)
  <1> DEFINE f == Head(q)
             t == Tail(q)
  <1>1. f \in Sendable /\ t \in Seq(Sendable)
    BY ListEnds
  <1>2. ListSet(q) = ListSet(t) \cup {f}
    BY SetTail
  <1>3. f.on = r
    BY <1>2 DEF Sound
  <1>4. OrderedList(t, r) /\ \A y \in ListSet(t) : y.on = r => Prec(f, y)
    BY <1>3, OrderTail DEF Sound
  <1>5. Carried(q, "data", r) = Share(f, "data", r) + Carried(t, "data", r)
    BY SeqFrames, CarriedTail
  <1> HIDE DEF f, t
  <1>6. Sound(t, w, r)
    BY <1>2, <1>4 DEF Sound
  <1>7. \A y \in Pipe(t, w, r) : Prec(f, y)
    BY <1>2, <1>4, <1>6 DEF Pipe, Sound
  <1>8. Pipe(q, w, r) = Pipe(t, w, r) \cup {f}
    BY <1>2 DEF Pipe
  <1>9. Share(f, "data", r) \in Nat
    BY <1>1 DEF Share, Sendable, Frames
  <1>10. DataIn(q, w, r) = Share(f, "data", r) + DataIn(t, w, r)
    <2>1. /\ Carried(q, "data", r) \in Nat /\ Carried(w, "data", r) \in Nat
          /\ Carried(t, "data", r) \in Nat
      BY <1>1, PipeTypes
    <2> QED
      BY <1>5, <1>9, <2>1 DEF DataIn
  <1> QED
    BY <1>1, <1>3, <1>6, <1>7, <1>8, <1>10 DEF f, t

\* The response in a pipe is that in another.
SameReply(q, w, q2, w2, r) ==
    /\ Sound(q2, w2, r) /\ DataIn(q2, w2, r) = DataIn(q, w, r)
    /\ \A x \in Sendable : IsReply(x) => (x \in Pipe(q2, w2, r) <=> x \in Pipe(q, w, r))

\* Frames that are no part of a response change no response.
LEMMA PipeNoise ==
    ASSUME NEW q \in Seq(Sendable), NEW w \in Seq(Sendable), NEW r, Sound(q, w, r),
           NEW q2, NEW w2,
           \/ q2 = q
           \/ \E f \in Sendable : f.on = r /\ ~ IsReply(f) /\ q2 = Append(q, f),
           \/ w2 = w
           \/ w # << >> /\ w2 = Tail(w) /\ (Head(w).on = r => ~ IsReply(Head(w)))
    PROVE  SameReply(q, w, q2, w2, r)
  <1>1. /\ w2 \in Seq(Sendable) /\ Sound(q, w2, r) /\ DataIn(q, w2, r) = DataIn(q, w, r)
        /\ \A x \in Sendable : IsReply(x) => (x \in Pipe(q, w2, r) <=> x \in Pipe(q, w, r))
    <2>1. CASE w2 = w
      BY <2>1
    <2>2. CASE w # << >> /\ w2 = Tail(w) /\ (Head(w).on = r => ~ IsReply(Head(w)))
      <3>1. w2 \in Seq(Sendable)
        BY <2>2, ListEnds
      <3>2. Share(Head(w), "data", r) = 0
        BY <2>2 DEF Share, IsReply
      <3>3. /\ Sound(q, w2, r) /\ Pipe(q, w2, r) \subseteq Pipe(q, w, r)
            /\ \A x \in Pipe(q, w, r) : x \in Pipe(q, w2, r) \/ (x = Head(w) /\ Head(w).on = r)
            /\ DataIn(q, w, r) = Share(Head(w), "data", r) + DataIn(q, w2, r)
        BY <2>2, PipeLose
      <3>4. DataIn(q, w2, r) = DataIn(q, w, r)
        BY <3>1, <3>2, <3>3, PipeTypes
      <3>5. ASSUME NEW x \in Pipe(q, w, r), IsReply(x) PROVE x \in Pipe(q, w2, r)
        BY <2>2, <3>3, <3>5
      <3> QED
        BY <3>1, <3>3, <3>4, <3>5
    <2> QED
      BY <2>1, <2>2
  <1>2. CASE q2 = q
    BY <1>1, <1>2 DEF SameReply
  <1>3. ASSUME NEW f \in Sendable, f.on = r, ~ IsReply(f), q2 = Append(q, f)
        PROVE  SameReply(q, w, q2, w2, r)
    <2>1. /\ Sound(q2, w2, r) /\ Pipe(q2, w2, r) = Pipe(q, w2, r) \cup {f}
          /\ DataIn(q2, w2, r) = DataIn(q, w2, r)
      BY <1>1, <1>3, PipeNote
    <2>2. ASSUME NEW x \in Sendable, IsReply(x)
          PROVE  x \in Pipe(q2, w2, r) <=> x \in Pipe(q, w2, r)
      BY <1>3, <2>1, <2>2
    <2> QED
      BY <1>1, <2>1, <2>2 DEF SameReply
  <1> QED
    BY <1>2, <1>3

----------------------------------------------------------------------------
(* A response is whole, or cannot be taken for one.                           *)

Coming(r) == Pipe(Queue(r), wire, r)
Data(r) == DataIn(Queue(r), wire, r)

Answered(r) == srv.reply[r] \in {"headers", "done"}

\* Nothing of the body is lost, and the final status is there or still to come.
Whole(r) ==
    /\ got[r] + Data(r) = srv.sent[r]
    /\ \/ status[r] = Final /\ \A x \in Coming(r) : x.type # "headers"
       \/ \E x \in Coming(r) : IsFinal(x)

\* The request will not return Ok: its status was dropped while it was sending,
\* will not decode, or no end of the response will reach it.
Doomed(r) ==
    \/ status[r] = NoStatus /\ \A x \in Coming(r) : x.type # "headers"
    \/ \E x \in Coming(r) : IsLost(x)
    \/ srv.reply[r] = "done" /\ \A x \in Coming(r) : ~ x.end
    \/ reader.mode = "dead" /\ \A x \in ListSet(Queue(r)) : ~ x.end

Running(r) == pc[r] \notin {"unregister", "done", "raised"}

ClaimAt(r) ==
    /\ Sound(Queue(r), wire, r)
    /\ pc[r] # "await" => status[r] = NoStatus /\ got[r] = 0
    /\ ~ Answered(r) => /\ srv.sent[r] = 0 /\ got[r] = 0
                        /\ \A x \in Coming(r) : IsReply(x) => IsInfo(x)
    /\ \A x \in Coming(r) : x.end => srv.reply[r] = "done" /\ srv.sent[r] = ReplyData
    /\ \A x \in Coming(r) : x.type = "headers" => IsInfo(x) \/ IsFinal(x)
    /\ Answered(r) => Whole(r) \/ Doomed(r)

OkAt(r) ==
    outcome[r] = "ok" =>
        /\ pc[r] \in {"unregister", "done"} /\ status[r] = Final
        /\ got[r] = srv.sent[r] /\ got[r] = ReplyData /\ srv.reply[r] = "done"

\* What the peer has sent of a response it has not ended.
UnfinishedAt(r) ==
    /\ srv.reply[r] = "headers" => srv.sent[r] < ReplyData
    /\ ~ Answered(r) => srv.sent[r] = 0

Claims == \A r \in Requests : (Running(r) => ClaimAt(r)) /\ OkAt(r) /\ UnfinishedAt(r)

\* A step that leaves the response of r as it was.
LEMMA ClaimSame ==
    ASSUME Types, Types', NEW r \in Requests, ClaimAt(r),
           SameReply(Queue(r), wire, Queue(r)', wire', r),
           pc[r] = "await" => pc'[r] = "await",
           status'[r] = status[r], got'[r] = got[r],
           srv'.sent[r] = srv.sent[r],
           srv'.reply[r] = srv.reply[r] \/ (~ Answered(r) /\ ~ Answered(r)'),
           reader.mode = "dead" => reader'.mode = "dead" /\ Queue(r)' = Queue(r)
    PROVE  ClaimAt(r)'
  <1> DEFINE new == Coming(r)'
  <1>1. /\ Sound(Queue(r)', wire', r) /\ Data(r)' = Data(r)
        /\ \A x \in Sendable : IsReply(x) => (x \in new <=> x \in Coming(r))
    BY DEF SameReply, Data, Coming
  <1>2. /\ new \subseteq Sendable /\ Coming(r) \subseteq Sendable
        /\ \A x \in Sendable : x.end => IsReply(x)
    <2>1. Queue(r) \in Seq(Sendable) /\ wire \in Seq(Sendable)
      BY QueueTypes DEF Types
    <2>2. Queue(r)' \in Seq(Sendable) /\ wire' \in Seq(Sendable)
      BY QueueTypesNext
    <2>3. Coming(r) \subseteq Sendable
      BY <2>1, PipeTypes DEF Coming
    <2>4. new \subseteq Sendable
      BY <2>2, PipeTypes DEF Coming
    <2> QED
      BY <2>1, <2>3, <2>4, PipeTypes
  <1> HIDE DEF new
  <1>3. \A x \in Sendable : /\ x.type = "headers" => IsReply(x)
                            /\ IsFinal(x) => IsReply(x)
                            /\ IsLost(x) => IsReply(x)
    BY DEF IsReply, IsFinal
  <1>4. /\ \A x \in new : x.end => x \in Coming(r)
        /\ \A x \in new : x.type = "headers" => x \in Coming(r)
        /\ \A x \in new : IsReply(x) => x \in Coming(r)
        /\ \A x \in Coming(r) : IsFinal(x) \/ IsLost(x) => x \in new
    BY <1>1, <1>2, <1>3
  <1>5. ASSUME Whole(r) PROVE Whole(r)'
    <2>1. \A x \in new : x.type = "headers" => x \in Coming(r)
      BY <1>4
    <2>2. \A x \in Coming(r) : IsFinal(x) => x \in new
      BY <1>4
    <2>3. CASE status[r] = Final /\ \A x \in Coming(r) : x.type # "headers"
      BY <1>1, <1>5, <2>1, <2>3 DEF Whole, new
    <2>4. CASE \E x \in Coming(r) : IsFinal(x)
      BY <1>1, <1>5, <2>2, <2>4 DEF Whole, new
    <2> QED
      BY <1>5, <2>3, <2>4 DEF Whole
  <1>6. ASSUME Doomed(r), Answered(r) PROVE Doomed(r)'
    <2>1. CASE status[r] = NoStatus /\ \A x \in Coming(r) : x.type # "headers"
      BY <1>4, <2>1 DEF Doomed, new
    <2>2. CASE \E x \in Coming(r) : IsLost(x)
      BY <1>4, <2>2 DEF Doomed, new
    <2>3. CASE srv.reply[r] = "done" /\ \A x \in Coming(r) : ~ x.end
      BY <1>4, <1>6, <2>3 DEF Doomed, new
    <2>4. CASE reader.mode = "dead" /\ \A x \in ListSet(Queue(r)) : ~ x.end
      BY <2>4 DEF Doomed
    <2> QED
      BY <1>6, <2>1, <2>2, <2>3, <2>4 DEF Doomed
  <1>7. Answered(r)' <=> Answered(r)
    BY DEF Answered
  <1>8. /\ pc'[r] # "await" => status'[r] = NoStatus /\ got'[r] = 0
        /\ ~ Answered(r)' => srv'.sent[r] = 0 /\ got'[r] = 0
    BY <1>7 DEF ClaimAt
  <1>9. ~ Answered(r)' => \A x \in new : IsReply(x) => IsInfo(x)
    BY <1>4, <1>7 DEF ClaimAt
  <1>10. \A x \in new : x.end => srv'.reply[r] = "done" /\ srv'.sent[r] = ReplyData
    <2> SUFFICES ASSUME NEW x \in new, x.end
                 PROVE  srv'.reply[r] = "done" /\ srv'.sent[r] = ReplyData
      OBVIOUS
    <2>1. srv.reply[r] = "done" /\ srv.sent[r] = ReplyData
      BY <1>4 DEF ClaimAt
    <2> QED
      BY <2>1 DEF Answered
  <1>11. \A x \in new : x.type = "headers" => IsInfo(x) \/ IsFinal(x)
    BY <1>4 DEF ClaimAt
  <1>12. Answered(r)' => Whole(r)' \/ Doomed(r)'
    BY <1>5, <1>6, <1>7 DEF ClaimAt
  <1> QED
    BY <1>1, <1>8, <1>9, <1>10, <1>11, <1>12 DEF ClaimAt, new

AllAt(r) == (Running(r) => ClaimAt(r)) /\ OkAt(r) /\ UnfinishedAt(r)

\* A pipe carries the response it carries.
LEMMA SameItself ==
    ASSUME NEW q, NEW w, NEW r, Sound(q, w, r)
    PROVE  SameReply(q, w, q, w, r)
  BY DEF SameReply

\* Steps that leave the response of r as it was.
LEMMA AllSame ==
    ASSUME Types, Types', NEW r \in Requests, AllAt(r),
           Running(r) => SameReply(Queue(r), wire, Queue(r)', wire', r),
           Running(r)' => Running(r) /\ (pc[r] = "await" => pc'[r] = "await"),
           pc[r] \in {"unregister", "done"} => pc'[r] \in {"unregister", "done"},
           status'[r] = status[r], got'[r] = got[r],
           outcome'[r] = outcome[r] \/ outcome'[r] # "ok",
           srv'.sent[r] = srv.sent[r],
           srv'.reply[r] = srv.reply[r] \/ (~ Answered(r) /\ ~ Answered(r)'),
           reader.mode = "dead" => reader'.mode = "dead" /\ Queue(r)' = Queue(r)
    PROVE  AllAt(r)'
  <1>1. ASSUME Running(r)' PROVE ClaimAt(r)'
    <2>1. ClaimAt(r) /\ SameReply(Queue(r), wire, Queue(r)', wire', r)
          /\ (pc[r] = "await" => pc'[r] = "await")
      BY <1>1 DEF AllAt
    <2> QED
      BY <2>1, ClaimSame
  <1>2. OkAt(r)'
    BY DEF AllAt, OkAt, Answered
  <1>3. UnfinishedAt(r)'
    BY DEF AllAt, UnfinishedAt, Answered
  <1> QED
    BY <1>1, <1>2, <1>3 DEF AllAt

\* The steps of a request that take no event.
LEMMA AllRequest ==
    ASSUME Types, Types', Stages, NEW q \in Requests, NEW r \in Requests, AllAt(r),
           \/ Refuse(q) \/ StartReader(q) \/ Start(q) \/ WriteHeaders(q) \/ SendChunk(q)
           \/ ChunkWritten(q) \/ AwaitWindow(q) \/ Unregister(q)
           \/ (pc[q] \notin {"unregister", "done"} /\ Raises(q))
    PROVE  AllAt(r)'
  <1>0. /\ pc \in [Requests -> PCs] /\ outcome \in [Requests -> {"none", "ok", "error"}]
        /\ srv.reply \in [Requests -> Replies] /\ srv.sent \in [Requests -> Nat]
        /\ DOMAIN srv = {"recv", "ended", "grant", "connGrant", "unasked", "reply",
                         "sent", "goaway", "gone"}
    BY DEF Types, FiberTypes, PeerTypes
  <1>1. wire' = wire /\ events' = events /\ status' = status /\ got' = got
    BY DEF Refuse, StartReader, Start, WriteHeaders, SendChunk, ChunkWritten, AwaitWindow,
       Unregister, Raises, reply, table
  <1>2. \/ reader' = reader
        \/ reader.mode = "none" /\ reader' = Plain("run")
    BY DEF Refuse, StartReader, Start, WriteHeaders, SendChunk, ChunkWritten, AwaitWindow,
       Unregister, Raises
  <1>3. Queue(r)' = Queue(r) /\ (reader.mode = "dead" => reader'.mode = "dead")
    BY <1>1, <1>2 DEF Queue, Plain
  <1>4. outcome'[r] = outcome[r] \/ outcome'[r] # "ok"
    <2>1. CASE Refuse(q)
      BY <1>0, <2>1 DEF Refuse
    <2>2. CASE ~ Refuse(q)
      BY <2>2 DEF StartReader, Start, WriteHeaders, SendChunk, ChunkWritten, AwaitWindow,
         Unregister, Raises, reply
    <2> QED
      BY <2>1, <2>2
  <1>5. /\ srv'.sent = srv.sent
        /\ srv'.reply[r] = srv.reply[r] \/ (~ Answered(r) /\ ~ Answered(r)')
    <2>1. CASE WriteHeaders(q)
      <3>1. srv.reply[q] = "none"
        BY <2>1 DEF WriteHeaders, Stages, StageAt
      <3>2. srv'.sent = srv.sent /\ srv'.reply = [srv.reply EXCEPT ![q] = "open"]
        BY <1>0, <2>1 DEF WriteHeaders
      <3> QED
        BY <1>0, <3>1, <3>2 DEF Answered
    <2>2. CASE ChunkWritten(q)
      <3>1. PICK end : srv' = [srv EXCEPT !.recv[q] = @ + chunk[q], !.ended[q] = @ \/ end]
        BY <2>2 DEF ChunkWritten
      <3> QED
        BY <1>0, <3>1
    <2>3. CASE ~ WriteHeaders(q) /\ ~ ChunkWritten(q)
      BY <2>3 DEF Refuse, StartReader, Start, SendChunk, AwaitWindow, Unregister, Raises
    <2> QED
      BY <2>1, <2>2, <2>3
  <1>6. \E p \in PCs :
           /\ pc' = [pc EXCEPT ![q] = p] /\ pc[q] # "done"
           /\ pc[q] = "unregister" => p = "done"
           /\ pc[q] \in {"raised", "await"} => p = "raised"
    <2>1. /\ \A n \in {"done", "fork", "headers", "body", "await", "writing", "awaitWindow",
                       "raised"} : n \in PCs
      BY DEF PCs
    <2>2. CASE Refuse(q) \/ StartReader(q) \/ Start(q) \/ SendChunk(q) \/ AwaitWindow(q)
               \/ Unregister(q) \/ (pc[q] \notin {"unregister", "done"} /\ Raises(q))
      BY <2>1, <2>2 DEF Refuse, StartReader, Start, SendChunk, AwaitWindow, Unregister, Raises
    <2>3. CASE WriteHeaders(q)
      <3>1. \E p \in {"body", "await"} : pc' = [pc EXCEPT ![q] = p] /\ pc[q] = "headers"
        BY <2>3 DEF WriteHeaders
      <3> QED
        BY <2>1, <3>1
    <2>4. CASE ChunkWritten(q)
      <3>1. \E p \in {"body", "await"} : pc' = [pc EXCEPT ![q] = p] /\ pc[q] = "writing"
        BY <2>4 DEF ChunkWritten
      <3> QED
        BY <2>1, <3>1
    <2> QED
      BY <2>2, <2>3, <2>4
  <1>7. /\ Running(r)' => Running(r) /\ (pc[r] = "await" => pc'[r] = "await")
        /\ pc[r] \in {"unregister", "done"} => pc'[r] \in {"unregister", "done"}
    <2>1. PICK p \in PCs : /\ pc' = [pc EXCEPT ![q] = p] /\ pc[q] # "done"
                           /\ pc[q] = "unregister" => p = "done"
                           /\ pc[q] \in {"raised", "await"} => p = "raised"
      BY <1>6
    <2>2. CASE r = q
      BY <1>0, <2>1, <2>2 DEF Running
    <2>3. CASE r # q
      BY <1>0, <2>1, <2>3 DEF Running
    <2> QED
      BY <2>2, <2>3
  <1>8. Running(r) => SameReply(Queue(r), wire, Queue(r)', wire', r)
    BY <1>1, <1>3, SameItself DEF AllAt, ClaimAt
  <1> QED
    BY <1>1, <1>3, <1>4, <1>5, <1>7, <1>8, AllSame

\* Without DATA in the pipe there is no data in it.
LEMMA NoData ==
    ASSUME NEW q \in Seq(Sendable), NEW w \in Seq(Sendable), NEW r,
           \A y \in Pipe(q, w, r) : y.type # "data"
    PROVE  DataIn(q, w, r) = 0
  <1>1. \A i \in DOMAIN q : ~ (q[i].type = "data" /\ q[i].on = r)
    BY DEF Pipe, ListSet
  <1>2. \A i \in DOMAIN w : ~ (w[i].type = "data" /\ w[i].on = r)
    BY DEF Pipe, ListSet
  <1>3. Carried(q, "data", r) = 0
    BY <1>1, SeqFrames, CarriedNothing
  <1>4. Carried(w, "data", r) = 0
    BY <1>2, SeqFrames, CarriedNothing
  <1> QED
    BY <1>3, <1>4 DEF DataIn

\* What is left when the request has taken an event.
LEMMA Taken ==
    ASSUME Types, NEW r \in Requests, ClaimAt(r), events[r] # << >>, reader' = reader,
           wire' = wire, events' = [events EXCEPT ![r] = Tail(@)]
    PROVE  LET e == Head(events[r]) IN
           /\ Sound(Queue(r)', wire', r)
           /\ Coming(r) = Coming(r)' \cup {e}
           /\ Data(r) = Share(e, "data", r) + Data(r)' /\ Data(r)' \in Nat
           /\ e.on = r /\ e \in Sendable /\ e \in ListSet(Queue(r))
           /\ \A y \in Coming(r)' : Prec(e, y)
           /\ ListSet(Queue(r)') \subseteq ListSet(Queue(r))
           /\ \A x \in Sendable : x.end => IsReply(x)
           /\ \A x \in Sendable : IsInfo(x) => ~ x.end
  <1> DEFINE q == Queue(r)
  <1>1. q \in Seq(Sendable) /\ wire \in Seq(Sendable) /\ Sound(q, wire, r)
    BY QueueTypes DEF Types, ClaimAt
  <1>2. q # << >> /\ Head(q) = Head(events[r]) /\ Queue(r)' = Tail(q)
    BY QueueTake
  <1>3. ListSet(q) = ListSet(Tail(q)) \cup {Head(q)} /\ Tail(q) \in Seq(Sendable)
    BY <1>1, <1>2, SetTail, ListEnds
  <1>4. /\ Sound(Tail(q), wire, r)
        /\ Pipe(q, wire, r) = Pipe(Tail(q), wire, r) \cup {Head(q)}
        /\ DataIn(q, wire, r) = Share(Head(q), "data", r) + DataIn(Tail(q), wire, r)
        /\ Head(q).on = r /\ Head(q) \in Sendable
        /\ \A y \in Pipe(Tail(q), wire, r) : Prec(Head(q), y)
    BY <1>1, <1>2, PipeTake
  <1>5. DataIn(Tail(q), wire, r) \in Nat
    BY <1>1, <1>3, PipeTypes
  <1> QED
    BY <1>1, <1>2, <1>3, <1>4, <1>5, PipeTypes DEF Coming, Data

\* What the frames of a response tell apart.
LEMMA ReplyKinds ==
    ASSUME NEW x \in Sendable
    PROVE  /\ x.type = "data" => IsReply(x) /\ ~ IsInfo(x) /\ ~ IsFinal(x) /\ x.val = 1
           /\ IsInfo(x) => IsReply(x) /\ ~ IsFinal(x) /\ x.type = "headers"
           /\ IsFinal(x) => IsReply(x) /\ x.type = "headers" /\ x.val = Final
           /\ IsLost(x) => IsReply(x) /\ x.type \in Fatal
           /\ x.type = "headers" => IsReply(x)
  BY DEF Sendable, IsReply, IsInfo, IsFinal, IsLost, Info, Final, Fatal

\* The requests that another one's step does not concern.
LEMMA AllOthers ==
    ASSUME Types, Types', NEW q \in Requests, NEW r \in Requests \ {q}, AllAt(r),
           events[q] # << >>, reader' = reader, wire' = wire, srv' = srv,
           events' = [events EXCEPT ![q] = Tail(@)],
           pc'[r] = pc[r], status'[r] = status[r], got'[r] = got[r],
           outcome'[r] = outcome[r]
    PROVE  AllAt(r)'
  <1>1. Queue(r)' = Queue(r)
    BY QueueTake
  <1>2. Running(r) => SameReply(Queue(r), wire, Queue(r)', wire', r)
    BY <1>1, SameItself DEF AllAt, ClaimAt
  <1>3. Running(r)' => Running(r)
    BY DEF Running
  <1> QED
    BY <1>1, <1>2, <1>3, AllSame

\* An event taken while sending is a window update, or the response is lost.
LEMMA AllTakeSending ==
    ASSUME Types, Types', NEW q \in Requests, NEW r \in Requests, AllAt(r),
           TakeWhileSending(q)
    PROVE  AllAt(r)'
  <1> DEFINE e == Head(events[q])
  <1>1. /\ pc[q] = "awaitWindow" /\ events[q] # << >>
        /\ events' = [events EXCEPT ![q] = Tail(@)]
        /\ pc' = [pc EXCEPT ![q] = IF e.type \in Fatal THEN "raised" ELSE "body"]
        /\ UNCHANGED <<status, got, outcome, reader, wire, srv>>
    BY DEF TakeWhileSending, reply
  <1>2. pc \in [Requests -> PCs] /\ srv.sent \in [Requests -> Nat]
    BY DEF Types, FiberTypes, PeerTypes
  <1>3. CASE r # q
    <2>1. pc'[r] = pc[r]
      BY <1>1, <1>2, <1>3
    <2> QED
      BY <1>1, <1>3, <2>1, AllOthers
  <1>4. CASE r = q
    <2> DEFINE new == Coming(r)'
    <2>1. Running(r) /\ ClaimAt(r) /\ outcome[r] # "ok"
      BY <1>1, <1>4 DEF Running, AllAt, OkAt
    <2>2. /\ Sound(Queue(r)', wire', r) /\ Coming(r) = new \cup {e}
          /\ Data(r) = Share(e, "data", r) + Data(r)' /\ Data(r)' \in Nat
          /\ e \in Sendable /\ \A y \in new : Prec(e, y)
          /\ ListSet(Queue(r)') \subseteq ListSet(Queue(r))
      BY <1>1, <1>4, <2>1, Taken
    <2>3. Coming(r) \subseteq Sendable
      BY QueueTypes, PipeTypes DEF Coming, Types
    <2> HIDE DEF e, new
    <2>4. status[r] = NoStatus /\ got[r] = 0
      BY <1>1, <1>4, <2>1 DEF ClaimAt
    <2>5. pc'[r] = (IF e.type \in Fatal THEN "raised" ELSE "body")
      BY <1>1, <1>2, <1>4
    <2>6. ASSUME e.type \notin Fatal, Whole(r) PROVE Whole(r)' \/ Doomed(r)'
      <3>1. PICK x \in Coming(r) : IsFinal(x)
        BY <2>4, <2>6 DEF Whole, NoStatus, Final
      <3>2. CASE x \in new
        <4>1. e.type # "data"
          BY <2>2, <2>3, <3>1, <3>2, ReplyKinds DEF Prec
        <4>2. Share(e, "data", r) = 0
          BY <4>1, ShareOfOthers
        <4>3. Data(r)' = Data(r)
          BY <2>2, <4>2
        <4> QED
          BY <1>1, <2>6, <3>1, <3>2, <4>3 DEF Whole, new
      <3>3. CASE x \notin new
        <4>1. x = e /\ ~ IsInfo(e) /\ IsReply(e)
          BY <2>2, <2>3, <3>1, <3>3, ReplyKinds
        <4>2. \A y \in new : y.type # "headers"
          BY <2>2, <2>3, <4>1, ReplyKinds DEF Prec
        <4> QED
          BY <1>1, <2>4, <4>2 DEF Doomed, new
      <3> QED
        BY <3>2, <3>3
    <2>7. ASSUME e.type \notin Fatal, Doomed(r) PROVE Doomed(r)'
      <3>1. CASE \E x \in Coming(r) : IsLost(x)
        BY <1>1, <2>2, <2>3, <2>7, <3>1, ReplyKinds DEF Doomed, new
      <3>2. CASE ~ \E x \in Coming(r) : IsLost(x)
        BY <1>1, <2>2, <2>7, <3>2 DEF Doomed, new
      <3> QED
        BY <3>1, <3>2
    <2>8. ASSUME e.type \notin Fatal PROVE ClaimAt(r)'
      <3>1. Answered(r)' <=> Answered(r)
        BY <1>1 DEF Answered
      <3>2. Answered(r)' => Whole(r)' \/ Doomed(r)'
        BY <2>1, <2>6, <2>7, <2>8, <3>1 DEF ClaimAt
      <3>3. ~ Answered(r)' => /\ srv'.sent[r] = 0 /\ got'[r] = 0
                              /\ \A x \in new : IsReply(x) => IsInfo(x)
        BY <1>1, <2>1, <2>2, <3>1 DEF ClaimAt
      <3>4. /\ \A x \in new : x.end => srv'.reply[r] = "done" /\ srv'.sent[r] = ReplyData
            /\ \A x \in new : x.type = "headers" => IsInfo(x) \/ IsFinal(x)
        BY <1>1, <2>1, <2>2 DEF ClaimAt
      <3> QED
        BY <1>1, <2>2, <2>4, <3>2, <3>3, <3>4 DEF ClaimAt, new
    <2>9. OkAt(r)' /\ UnfinishedAt(r)'
      BY <1>1, <2>1 DEF OkAt, UnfinishedAt, AllAt, Answered
    <2> QED
      BY <2>5, <2>8, <2>9 DEF AllAt, Running
  <1> QED
    BY <1>3, <1>4

\* wait_for_response takes an event: what it adds to the response is what the
\* pipe loses, and an end that makes it Ok is the end of the whole response.
LEMMA AllTakeResponse ==
    ASSUME Types, Types', NEW q \in Requests, NEW r \in Requests, AllAt(r),
           TakeResponse(q)
    PROVE  AllAt(r)'
  <1> DEFINE e == Head(events[q])
             failed == e.type \in Fatal
             over == e.end \/ failed
  <1>1. /\ pc[q] = "await" /\ events[q] # << >> /\ e \in Sendable
        /\ events' = [events EXCEPT ![q] = Tail(@)]
        /\ pc'[q] \in IF over THEN {"done", "unregister"} ELSE {"await"}
        /\ status'[q] = IF e.type = "headers" THEN e.val ELSE status[q]
        /\ got'[q] = IF e.type = "data" THEN got[q] + 1 ELSE got[q]
        /\ outcome'[q] = IF ~ over THEN outcome[q]
                         ELSE IF failed \/ status'[q] = NoStatus THEN "error" ELSE "ok"
        /\ \A p \in Requests \ {q} :
              /\ pc'[p] = pc[p] /\ status'[p] = status[p] /\ got'[p] = got[p]
              /\ outcome'[p] = outcome[p]
        /\ UNCHANGED <<reader, wire, srv>>
    BY TakenEffect
  <1>2. srv.sent \in [Requests -> Nat] /\ got \in [Requests -> Nat]
    BY DEF Types, FiberTypes, PeerTypes
  <1>3. CASE r # q
    BY <1>1, <1>3, AllOthers
  <1>4. CASE r = q
    <2> DEFINE new == Coming(r)'
    <2>1. Running(r) /\ ClaimAt(r) /\ outcome[r] # "ok" /\ UnfinishedAt(r)'
      BY <1>1, <1>4 DEF Running, AllAt, OkAt, UnfinishedAt, Answered
    <2>2. /\ Sound(Queue(r)', wire', r) /\ Coming(r) = new \cup {e}
          /\ Data(r) = Share(e, "data", r) + Data(r)' /\ Data(r)' \in Nat
          /\ e \in Sendable /\ \A y \in new : Prec(e, y)
          /\ ListSet(Queue(r)') \subseteq ListSet(Queue(r))
          /\ e.on = r /\ e \in ListSet(Queue(r))
      BY <1>1, <1>4, <2>1, Taken
    <2>3. Coming(r) \subseteq Sendable /\ Queue(r)' \in Seq(Sendable) /\ wire' \in Seq(Sendable)
          /\ (e.end => IsReply(e))
      BY <1>1, QueueTypes, QueueTypesNext, PipeTypes DEF Coming, Types
    <2>4. e.end \in BOOLEAN
      BY <1>1 DEF Sendable, Frames
    <2> HIDE DEF e, new
    <2>5. got'[r] + Data(r)' = got[r] + Data(r)
      <3>1. CASE e.type = "data"
        <4>1. Share(e, "data", r) = 1
          BY <2>2, <3>1, ReplyKinds DEF Share
        <4>2. got'[r] = got[r] + 1 /\ got[r] \in Nat
          BY <1>1, <1>2, <1>4, <3>1
        <4>3. Data(r) = 1 + Data(r)' /\ Data(r)' \in Nat
          BY <2>2, <4>1
        <4> QED
          BY <4>2, <4>3
      <3>2. CASE e.type # "data"
        <4>1. Share(e, "data", r) = 0
          BY <3>2, ShareOfOthers
        <4> QED
          BY <1>1, <1>2, <1>4, <2>2, <3>2, <4>1
      <3> QED
        BY <3>1, <3>2
    <2>6. e \in Coming(r) /\ new \subseteq Coming(r)
      BY <2>2
    <2>7. ASSUME NEW x \in Coming(r), IsFinal(x), x \notin new
          PROVE  /\ status'[r] = Final /\ \A y \in new : y.type # "headers"
      <3>1. x = e /\ IsFinal(e) /\ IsReply(e) /\ ~ IsInfo(e)
        BY <2>2, <2>3, <2>7, ReplyKinds
      <3>2. \A y \in new : y.type # "headers"
        BY <2>2, <2>3, <3>1, ReplyKinds DEF Prec
      <3>3. status'[r] = Final
        BY <1>1, <1>4, <3>1 DEF IsFinal
      <3> QED
        BY <3>2, <3>3
    <2>8. CASE ~ over
      <3>1. pc'[r] = "await" /\ outcome'[r] # "ok" /\ ~ failed /\ ~ e.end
        BY <1>1, <1>4, <2>1, <2>8
      <3>2. ASSUME Whole(r) PROVE Whole(r)'
        <4>1. got'[r] + Data(r)' = srv'.sent[r]
          BY <1>1, <2>5, <3>2 DEF Whole
        <4>2. CASE status[r] = Final /\ \A x \in Coming(r) : x.type # "headers"
          <5>1. e.type # "headers" /\ \A x \in new : x.type # "headers"
            BY <2>6, <4>2
          <5> QED
            BY <1>1, <1>4, <4>1, <4>2, <5>1 DEF Whole, new
        <4>3. ASSUME NEW x \in Coming(r), IsFinal(x) PROVE Whole(r)'
          <5>1. CASE x \in new
            BY <4>1, <4>3, <5>1 DEF Whole, new
          <5>2. CASE x \notin new
            BY <2>7, <4>1, <4>3, <5>2 DEF Whole, new
          <5> QED
            BY <5>1, <5>2
        <4> QED
          BY <3>2, <4>2, <4>3 DEF Whole
      <3>3. ASSUME Doomed(r) PROVE Doomed(r)'
        <4>1. CASE status[r] = NoStatus /\ \A x \in Coming(r) : x.type # "headers"
          <5>1. e.type # "headers" /\ \A x \in new : x.type # "headers"
            BY <2>6, <4>1
          <5> QED
            BY <1>1, <1>4, <4>1, <5>1 DEF Doomed, new
        <4>2. CASE \E x \in Coming(r) : IsLost(x)
          BY <2>2, <2>3, <3>1, <4>2, ReplyKinds DEF Doomed, new
        <4>3. CASE srv.reply[r] = "done" /\ \A x \in Coming(r) : ~ x.end
          BY <1>1, <2>6, <4>3 DEF Doomed, new
        <4>4. CASE reader.mode = "dead" /\ \A x \in ListSet(Queue(r)) : ~ x.end
          BY <1>1, <2>2, <4>4 DEF Doomed
        <4> QED
          BY <3>3, <4>1, <4>2, <4>3, <4>4 DEF Doomed
      <3>4. Answered(r)' <=> Answered(r)
        BY <1>1 DEF Answered
      <3>5. ~ Answered(r)' => /\ srv'.sent[r] = 0 /\ got'[r] = 0
                              /\ \A x \in new : IsReply(x) => IsInfo(x)
        <4> SUFFICES ASSUME ~ Answered(r) PROVE /\ srv'.sent[r] = 0 /\ got'[r] = 0
                              /\ \A x \in new : IsReply(x) => IsInfo(x)
          BY <3>4
        <4>1. /\ srv.sent[r] = 0 /\ got[r] = 0
              /\ \A x \in Coming(r) : IsReply(x) => IsInfo(x)
          BY <2>1 DEF ClaimAt
        <4>2. e.type # "data"
          BY <2>2, <2>6, <4>1, ReplyKinds
        <4> QED
          BY <1>1, <1>4, <2>6, <4>1, <4>2
      <3>6. /\ \A x \in new : x.end => srv'.reply[r] = "done" /\ srv'.sent[r] = ReplyData
            /\ \A x \in new : x.type = "headers" => IsInfo(x) \/ IsFinal(x)
        BY <1>1, <2>1, <2>6 DEF ClaimAt
      <3>7. Answered(r)' => Whole(r)' \/ Doomed(r)'
        BY <2>1, <3>2, <3>3, <3>4 DEF ClaimAt
      <3>8. ClaimAt(r)'
        BY <2>2, <3>1, <3>5, <3>6, <3>7 DEF ClaimAt, new
      <3> QED
        BY <2>1, <3>1, <3>8 DEF AllAt, OkAt
    <2>9. CASE over
      <3>1. pc'[r] \in {"done", "unregister"}
        BY <1>1, <1>4, <2>9
      <3>2. ASSUME outcome'[r] = "ok"
            PROVE  /\ status'[r] = Final /\ got'[r] = srv.sent[r]
                   /\ srv.sent[r] = ReplyData /\ srv.reply[r] = "done"
        <4>1. ~ failed /\ e.end /\ status'[r] # NoStatus
          BY <1>1, <1>4, <2>9, <3>2
        <4>2. srv.reply[r] = "done" /\ srv.sent[r] = ReplyData
          BY <2>1, <2>6, <4>1 DEF ClaimAt
        <4>3. \A y \in new : ~ IsReply(y)
          BY <2>2, <4>1 DEF Prec
        <4>4. Data(r)' = 0
          <5>1. \A y \in new : y.type # "data"
            BY <2>3, <2>6, <4>3, ReplyKinds
          <5>2. \A y \in Pipe(Queue(r)', wire', r) : y.type # "data"
            BY <5>1 DEF new, Coming
          <5>3. DataIn(Queue(r)', wire', r) = 0
            BY <2>3, <5>2, NoData
          <5> QED
            BY <5>3 DEF Data
        <4>5. ~ Doomed(r)
          <5>1. CASE status[r] = NoStatus /\ \A x \in Coming(r) : x.type # "headers"
            BY <1>1, <1>4, <2>6, <4>1, <5>1
          <5>2. ASSUME NEW x \in Coming(r), IsLost(x) PROVE FALSE
            <6>1. x = e
              BY <2>2, <2>3, <4>3, <5>2, ReplyKinds
            <6> QED
              BY <2>2, <4>1, <5>2, <6>1, ReplyKinds
          <5>3. ~ (\A x \in Coming(r) : ~ x.end) /\ ~ (\A x \in ListSet(Queue(r)) : ~ x.end)
            BY <2>2, <2>6, <4>1
          <5> QED
            BY <4>1, <5>1, <5>2, <5>3 DEF Doomed
        <4>6. Whole(r)
          BY <2>1, <4>2, <4>5 DEF ClaimAt, Answered
        <4>7. got'[r] = srv.sent[r]
          <5>1. got'[r] \in Nat
            BY <1>1, <1>2, <1>4
          <5> QED
            BY <2>5, <4>4, <4>6, <5>1 DEF Whole
        <4>8. status'[r] = Final
          <5>1. CASE status[r] = Final /\ \A x \in Coming(r) : x.type # "headers"
            BY <1>1, <1>4, <2>6, <5>1
          <5>2. ASSUME NEW x \in Coming(r), IsFinal(x) PROVE status'[r] = Final
            BY <2>3, <2>7, <4>3, <5>2, ReplyKinds
          <5> QED
            BY <4>6, <5>1, <5>2 DEF Whole
        <4> QED
          BY <4>2, <4>7, <4>8
      <3>3. OkAt(r)'
        BY <1>1, <3>1, <3>2 DEF OkAt
      <3> QED
        BY <2>1, <3>1, <3>3 DEF AllAt, Running
    <2> QED
      BY <2>4, <2>8, <2>9
  <1> QED
    BY <1>3, <1>4

\* What the reader does leaves the request and the peer alone.
LEMMA ReaderLeaves ==
    ASSUME ReaderStep \/ ReaderDies
    PROVE  UNCHANGED <<pc, status, got, outcome, srv>> /\ reader.mode # "dead"
  BY DEF ReaderStep, ReaderDies, Reads, Unblock, ReadForStream, ReadStreamUpdate,
     ReadConnUpdate, ReadSettings, ReadGoaway, ReadEnd, Notify, reply

\* The reader passes on, or drops, what is no part of the response.
LEMMA AllNoise ==
    ASSUME Types, Types', NEW r \in Requests, AllAt(r),
           UNCHANGED <<pc, status, got, outcome, srv>>, reader.mode # "dead",
           \/ Queue(r)' = Queue(r)
           \/ \E f \in Sendable : f.on = r /\ ~ IsReply(f) /\ Queue(r)' = Append(Queue(r), f),
           \/ wire' = wire
           \/ wire # << >> /\ wire' = Tail(wire) /\ (Head(wire).on = r => ~ IsReply(Head(wire)))
    PROVE  AllAt(r)'
  <1>1. Queue(r) \in Seq(Sendable) /\ wire \in Seq(Sendable)
    BY QueueTypes DEF Types
  <1>2. Running(r) => SameReply(Queue(r), wire, Queue(r)', wire', r)
    BY <1>1, PipeNoise DEF AllAt, ClaimAt
  <1>3. Running(r)' => Running(r)
    BY DEF Running
  <1> QED
    BY <1>2, <1>3, AllSame

\* The reader drops a frame of the request.
LEMMA ClaimLess ==
    ASSUME Types, NEW r \in Requests, ClaimAt(r),
           UNCHANGED <<pc, status, got, srv>>, Queue(r)' = Queue(r),
           wire # << >>, wire' = Tail(wire), Answered(r) => Doomed(r)'
    PROVE  ClaimAt(r)'
  <1>1. Queue(r) \in Seq(Sendable) /\ wire \in Seq(Sendable)
    BY QueueTypes DEF Types
  <1>2. /\ Sound(Queue(r), Tail(wire), r)
        /\ Pipe(Queue(r), Tail(wire), r) \subseteq Pipe(Queue(r), wire, r)
    BY <1>1, PipeLose DEF ClaimAt
  <1> DEFINE new == Coming(r)'
  <1>3. new \subseteq Coming(r) /\ Sound(Queue(r)', wire', r)
    BY <1>2 DEF Coming
  <1> HIDE DEF new
  <1>4. Answered(r)' <=> Answered(r)
    BY DEF Answered
  <1>5. /\ pc'[r] # "await" => status'[r] = NoStatus /\ got'[r] = 0
        /\ ~ Answered(r)' => /\ srv'.sent[r] = 0 /\ got'[r] = 0
                             /\ \A x \in new : IsReply(x) => IsInfo(x)
    BY <1>3, <1>4 DEF ClaimAt
  <1>6. /\ \A x \in new : x.end => srv'.reply[r] = "done" /\ srv'.sent[r] = ReplyData
        /\ \A x \in new : x.type = "headers" => IsInfo(x) \/ IsFinal(x)
    BY <1>3 DEF ClaimAt
  <1> QED
    BY <1>3, <1>4, <1>5, <1>6 DEF ClaimAt, new

\* A frame for a stream: to its handler, or, before there is one, nowhere.
LEMMA AllReadForStream ==
    ASSUME Types, Types', Stages, NEW r \in Requests, AllAt(r), ReadForStream
    PROVE  AllAt(r)'
  <1> DEFINE f == Head(wire)
  <1>1. /\ UNCHANGED <<pc, status, got, outcome, srv>> /\ reader.mode = "run"
        /\ wire # << >> /\ wire' = Tail(wire)
        /\ IF f.on \in handlers THEN Deliver(f.on, f) ELSE UNCHANGED <<events, reader>>
    BY DEF ReadForStream, Reads, reply
  <1>2. handlers \subseteq Requests /\ wire \in Seq(Sendable) /\ Queue(r) \in Seq(Sendable)
    BY QueueTypes DEF Types, TableTypes, Streams
  <1> HIDE DEF f
  <1>3. CASE f.on \in handlers /\ f.on = r
    <2>1. Queue(r)' = Append(Queue(r), f)
      BY <1>1, <1>2, <1>3, QueueDeliver
    <2>2. ASSUME Running(r) PROVE SameReply(Queue(r), wire, Queue(r)', wire', r)
      <3>1. Sound(Queue(r), wire, r)
        BY <2>2 DEF AllAt, ClaimAt
      <3>2. /\ Sound(Append(Queue(r), f), Tail(wire), r)
            /\ Pipe(Append(Queue(r), f), Tail(wire), r) = Pipe(Queue(r), wire, r)
            /\ DataIn(Append(Queue(r), f), Tail(wire), r) = DataIn(Queue(r), wire, r)
        BY <1>1, <1>2, <1>3, <3>1, PipeMove DEF f
      <3> QED
        BY <1>1, <2>1, <3>2 DEF SameReply
    <2>3. Running(r)' => Running(r)
      BY <1>1 DEF Running
    <2> QED
      BY <1>1, <2>2, <2>3, AllSame
  <1>4. CASE f.on # r
    <2>1. Queue(r)' = Queue(r)
      <3>1. CASE f.on \in handlers
        BY <1>1, <1>2, <1>4, <3>1, QueueDeliver
      <3>2. CASE f.on \notin handlers
        BY <1>1, <3>2 DEF Queue
      <3> QED
        BY <3>1, <3>2
    <2> QED
      BY <1>1, <1>4, <2>1, AllNoise DEF f
  <1>5. CASE f.on \notin handlers /\ f.on = r
    <2>1. Queue(r)' = Queue(r)
      BY <1>1, <1>5 DEF Queue
    <2>2. ASSUME Running(r) PROVE ClaimAt(r)'
      <3>1. pc[r] \in PCs
        BY DEF Types, FiberTypes
      <3>2. ~ Answered(r)
        BY <1>5, <2>2, <3>1 DEF Stages, StageAt, Running, PCs, Answered
      <3> QED
        BY <1>1, <2>1, <2>2, <3>2, ClaimLess DEF AllAt
    <2> QED
      BY <1>1, <2>2 DEF AllAt, Running, OkAt, UnfinishedAt, Answered
  <1> QED
    BY <1>3, <1>4, <1>5

\* The reader's own write raises on DATA: no end of the response will come.
LEMMA AllReaderDies ==
    ASSUME Types, Types', NEW r \in Requests, AllAt(r), ReaderDies
    PROVE  AllAt(r)'
  <1> DEFINE f == Head(wire)
  <1>1. /\ UNCHANGED <<pc, status, got, outcome, srv, events>> /\ reader.mode = "run"
        /\ wire # << >> /\ wire' = Tail(wire) /\ f.type \in {"data", "settings"}
        /\ reader' = Plain("dead")
    BY DEF ReaderDies, Reads, reply, table
  <1>2. wire \in Seq(Sendable) /\ Queue(r) \in Seq(Sendable)
    BY QueueTypes DEF Types
  <1>3. Queue(r)' = Queue(r) /\ reader'.mode = "dead"
    BY <1>1 DEF Queue, Plain
  <1>4. f \in Sendable
    BY <1>1, <1>2, ListEnds
  <1> HIDE DEF f
  <1>5. CASE f.on # r \/ f.type = "settings"
    <2>1. f.on = r => ~ IsReply(f)
      BY <1>5 DEF IsReply, IsLost
    <2> QED
      BY <1>1, <1>3, <2>1, AllNoise DEF f
  <1>6. CASE f.on = r /\ f.type = "data"
    <2>1. ASSUME Running(r) PROVE ClaimAt(r)'
      <3>1. Sound(Queue(r), wire, r) /\ ClaimAt(r)
        BY <2>1 DEF AllAt, ClaimAt
      <3>2. f \in Pipe(Queue(r), wire, r) /\ \A x \in ListSet(Queue(r)) : Prec(x, f)
        BY <1>1, <1>2, <1>6, <3>1, PipeLose DEF f
      <3>3. \A x \in ListSet(Queue(r)) : ~ x.end
        BY <1>4, <1>6, <3>2, ReplyKinds DEF Prec
      <3>4. Doomed(r)'
        BY <1>3, <3>3 DEF Doomed
      <3> QED
        BY <1>1, <1>3, <3>1, <3>4, ClaimLess
    <2> QED
      BY <1>1, <2>1 DEF AllAt, Running, OkAt, UnfinishedAt, Answered
  <1> QED
    BY <1>1, <1>5, <1>6

\* The steps of the reader.
LEMMA AllReader ==
    ASSUME Types, Types', Stages, NEW r \in Requests, AllAt(r), ReaderStep \/ ReaderDies
    PROVE  AllAt(r)'
  <1>1. UNCHANGED <<pc, status, got, outcome, srv>> /\ reader.mode # "dead"
    BY ReaderLeaves
  <1>2. /\ handlers \subseteq Requests /\ todo \subseteq Requests
        /\ reader.next \in {"run", "stopped"}
    BY DEF Types, TableTypes, ReaderTypes, Readers, Streams
  <1>3. ConnectionError(r) \in Sendable /\ ConnectionError(r).on = r /\ ~ IsReply(ConnectionError(r))
    BY DEF ConnectionError, Frame, Sendable, Frames, IsReply, IsLost, Final
  <1>4. CASE Unblock
    <2>1. wire' = wire /\ Queue(r)' = Queue(r)
      BY <1>4, QueueUnblock DEF Unblock
    <2> QED
      BY <1>1, <2>1, AllNoise
  <1>5. CASE ReadForStream
    BY <1>5, AllReadForStream
  <1>6. CASE ReadStreamUpdate
    <2> DEFINE f == Head(wire)
    <2>1. /\ Reads({"update"}) /\ \/ f.on \in handlers /\ Deliver(f.on, f)
                                  \/ UNCHANGED <<events, reader>>
      BY <1>6 DEF ReadStreamUpdate
    <2>2. /\ wire # << >> /\ wire' = Tail(wire) /\ f \in Sendable /\ f.type = "update"
          /\ reader.mode = "run"
      BY <2>1, ReadTypes
    <2> HIDE DEF f
    <2>3. ~ IsReply(f)
      BY <2>2 DEF IsReply, IsLost
    <2>4. CASE f.on \in handlers /\ Deliver(f.on, f)
      <3>1. Queue(r)' = IF r = f.on THEN Append(Queue(r), f) ELSE Queue(r)
        BY <1>2, <2>2, <2>4, QueueDeliver
      <3> QED
        BY <1>1, <2>2, <2>3, <3>1, AllNoise DEF f
    <2>5. CASE UNCHANGED <<events, reader>>
      <3>1. Queue(r)' = Queue(r)
        BY <2>5 DEF Queue
      <3> QED
        BY <1>1, <2>2, <2>3, <3>1, AllNoise DEF f
    <2> QED
      BY <2>1, <2>4, <2>5 DEF f
  <1>7. CASE ReadConnUpdate \/ ReadSettings
    <2>1. Reads({"connUpdate", "settings"}) /\ UNCHANGED <<events, reader>>
      BY <1>7 DEF ReadConnUpdate, ReadSettings, Reads, table
    <2>2. /\ wire # << >> /\ wire' = Tail(wire) /\ Head(wire).type \in {"connUpdate", "settings"}
      BY <2>1, ReadTypes
    <2>3. ~ IsReply(Head(wire))
      BY <2>2 DEF IsReply, IsLost
    <2>4. Queue(r)' = Queue(r)
      BY <2>1 DEF Queue
    <2> QED
      BY <1>1, <2>2, <2>3, <2>4, AllNoise
  <1>8. CASE ReadGoaway \/ ReadEnd
    <2>1. /\ \/ Reads({"goaway", "bad", "connUpdate", "settings"})
             \/ wire' = wire /\ reader.mode = "run"
          /\ Announce(handlers, "run") \/ Announce(handlers, "stopped")
      BY <1>8 DEF ReadGoaway, ReadEnd, Reads
    <2>2. reader.mode = "run"
      BY <2>1, ReadTypes
    <2>3. Queue(r)' \in {Queue(r), Append(Queue(r), ConnectionError(r))}
      BY <1>2, <2>1, <2>2, QueueAnnounce
    <2>4. CASE wire' = wire
      BY <1>1, <1>3, <2>3, <2>4, AllNoise
    <2>5. CASE Reads({"goaway", "bad", "connUpdate", "settings"})
      <3>1. /\ wire # << >> /\ wire' = Tail(wire)
            /\ Head(wire).type \in {"goaway", "bad", "connUpdate", "settings"}
        BY <2>5, ReadTypes
      <3>2. ~ IsReply(Head(wire))
        BY <3>1 DEF IsReply, IsLost
      <3> QED
        BY <1>1, <1>3, <2>3, <3>1, <3>2, AllNoise
    <2> QED
      BY <2>1, <2>4, <2>5
  <1>9. CASE Notify
    <2>1. wire' = wire /\ reader.mode = "notify" /\ Announce(todo, reader.next)
      BY <1>9 DEF Notify
    <2>2. Queue(r)' \in {Queue(r), Append(Queue(r), ConnectionError(r))}
      BY <1>2, <2>1, QueueAnnounce
    <2> QED
      BY <1>1, <1>3, <2>1, <2>2, AllNoise
  <1>10. CASE ReaderDies
    BY <1>10, AllReaderDies
  <1> QED
    BY <1>4, <1>5, <1>6, <1>7, <1>8, <1>9, <1>10 DEF ReaderStep

----------------------------------------------------------------------------
(* The peer's part of that.                                                   *)

\* What a peer sends of another stream, or of no response.
LEMMA AllPosted ==
    ASSUME Types, Types', NEW r \in Requests, AllAt(r), NEW f \in Sendable, Post(f),
           f.on = r => ~ IsReply(f),
           srv'.sent[r] = srv.sent[r], srv'.reply[r] = srv.reply[r]
    PROVE  AllAt(r)'
  <1>1. UNCHANGED <<pc, status, got, outcome, events, reader>> /\ wire' = Append(wire, f)
    BY DEF Post, reply, table
  <1>2. Queue(r) \in Seq(Sendable) /\ wire \in Seq(Sendable) /\ Queue(r)' = Queue(r)
    BY <1>1, QueueTypes DEF Types, Queue
  <1>3. ASSUME Running(r) PROVE SameReply(Queue(r), wire, Queue(r)', wire', r)
    <2>1. Sound(Queue(r), wire, r)
      BY <1>3 DEF AllAt, ClaimAt
    <2>2. f.on = r => \A x \in Pipe(Queue(r), wire, r) : Prec(x, f)
      BY DEF Prec
    <2>3. /\ Sound(Queue(r), Append(wire, f), r)
          /\ Pipe(Queue(r), Append(wire, f), r)
               = Pipe(Queue(r), wire, r) \cup (IF f.on = r THEN {f} ELSE {})
          /\ DataIn(Queue(r), Append(wire, f), r)
               = DataIn(Queue(r), wire, r) + Share(f, "data", r)
      BY <1>2, <2>1, <2>2, PipePost
    <2>4. Share(f, "data", r) = 0
      <3>1. f.type # "data" \/ f.on # r
        BY DEF IsReply
      <3> QED
        BY <3>1, ShareOfOthers
    <2>5. DataIn(Queue(r), Append(wire, f), r) = DataIn(Queue(r), wire, r)
      <3>1. DataIn(Queue(r), wire, r) \in Nat
        BY <1>2, PipeTypes
      <3> QED
        BY <2>3, <2>4, <3>1
    <2> QED
      BY <1>1, <1>2, <2>3, <2>5 DEF SameReply
  <1>4. Running(r)' => Running(r)
    BY <1>1 DEF Running
  <1>5. reader.mode = "dead" => reader'.mode = "dead"
    BY <1>1
  <1> QED
    BY <1>1, <1>2, <1>3, <1>4, <1>5, AllSame

\* What it sends of the response of r.
LEMMA ClaimPost ==
    ASSUME Types, NEW r \in Requests, ClaimAt(r), NEW f \in Sendable, f.on = r, Post(f),
           srv.reply[r] # "done", f.type = "data" \/ ~ IsReply(f) \/ ~ Answered(r)
    PROVE  /\ Sound(Queue(r)', wire', r) /\ Coming(r)' = Coming(r) \cup {f}
           /\ Data(r)' = Data(r) + Share(f, "data", r) /\ Data(r) \in Nat
           /\ \A x \in Coming(r) : ~ x.end
           /\ Coming(r) \subseteq Sendable
           /\ Queue(r)' = Queue(r) /\ UNCHANGED <<pc, status, got, outcome, reader>>
  <1>1. UNCHANGED <<pc, status, got, outcome, events, reader>> /\ wire' = Append(wire, f)
    BY DEF Post, reply, table
  <1>2. Queue(r) \in Seq(Sendable) /\ wire \in Seq(Sendable) /\ Queue(r)' = Queue(r)
    BY <1>1, QueueTypes DEF Types, Queue
  <1>3. \A x \in Coming(r) : ~ x.end
    BY DEF ClaimAt
  <1>4. \A x \in Coming(r) : Prec(x, f)
    BY <1>3 DEF ClaimAt, Prec
  <1>5. /\ Sound(Queue(r), Append(wire, f), r)
        /\ Pipe(Queue(r), Append(wire, f), r)
             = Pipe(Queue(r), wire, r) \cup (IF f.on = r THEN {f} ELSE {})
        /\ DataIn(Queue(r), Append(wire, f), r)
             = DataIn(Queue(r), wire, r) + Share(f, "data", r)
    BY <1>2, <1>4, PipePost DEF Coming, ClaimAt
  <1>6. Coming(r) \subseteq Sendable /\ Data(r) \in Nat
    BY <1>2, PipeTypes DEF Coming, Data
  <1> QED
    BY <1>1, <1>2, <1>3, <1>5, <1>6 DEF Coming, Data

\* It is enough to look at what the frame adds.
LEMMA ClaimAnswer ==
    ASSUME Types, NEW r \in Requests, AllAt(r), NEW f \in Sendable, f.on = r, Post(f),
           srv.reply[r] # "done", f.type = "data" \/ ~ IsReply(f) \/ ~ Answered(r),
           f.end => srv'.reply[r] = "done" /\ srv'.sent[r] = ReplyData,
           f.type = "headers" => IsInfo(f) \/ IsFinal(f),
           ~ Answered(r)' => /\ srv'.sent[r] = 0 /\ ~ Answered(r)
                             /\ IsReply(f) => IsInfo(f),
           UnfinishedAt(r)',
           ClaimAt(r) /\ Answered(r)' => Whole(r)' \/ Doomed(r)'
    PROVE  AllAt(r)'
  <1>1. UNCHANGED <<pc, status, got, outcome>>
    BY DEF Post, reply
  <1>2. OkAt(r)'
    BY <1>1 DEF AllAt, OkAt
  <1>3. ASSUME Running(r)' PROVE ClaimAt(r)'
    <2>1. ClaimAt(r)
      BY <1>1, <1>3 DEF AllAt, Running
    <2> DEFINE new == Coming(r)'
    <2>2. /\ Sound(Queue(r)', wire', r) /\ new = Coming(r) \cup {f}
          /\ \A x \in Coming(r) : ~ x.end
      BY <2>1, ClaimPost
    <2> HIDE DEF new
    <2>3. \A x \in new : x.end => srv'.reply[r] = "done" /\ srv'.sent[r] = ReplyData
      BY <2>2
    <2>4. \A x \in new : x.type = "headers" => IsInfo(x) \/ IsFinal(x)
      BY <2>1, <2>2 DEF ClaimAt
    <2>5. ~ Answered(r)' => /\ srv'.sent[r] = 0 /\ got'[r] = 0
                            /\ \A x \in new : IsReply(x) => IsInfo(x)
      BY <1>1, <2>1, <2>2 DEF ClaimAt
    <2>6. pc'[r] # "await" => status'[r] = NoStatus /\ got'[r] = 0
      BY <1>1, <2>1 DEF ClaimAt
    <2> QED
      BY <2>1, <2>2, <2>3, <2>4, <2>5, <2>6 DEF ClaimAt, new
  <1> QED
    BY <1>2, <1>3 DEF AllAt

\* Interim HEADERS, and a reset.
LEMMA AllInfoReset ==
    ASSUME Types, Types', NEW q \in Requests, NEW r \in Requests, AllAt(r),
           ReplyInfo(q) \/ Reset(q)
    PROVE  AllAt(r)'
  <1>0. /\ srv.reply \in [Requests -> Replies] /\ srv.sent \in [Requests -> Nat]
        /\ DOMAIN srv = {"recv", "ended", "grant", "connGrant", "unasked", "reply",
                         "sent", "goaway", "gone"}
    BY DEF Types, PeerTypes
  <1>1. CASE ReplyInfo(q)
    <2> DEFINE f == Frame("headers", q, Info, FALSE)
    <2>1. /\ Post(f) /\ srv.reply[q] = "open" /\ srv' = [srv EXCEPT !.reply[q] = "informed"]
      BY <1>1 DEF ReplyInfo, Replying
    <2>2. f \in Sendable /\ f.on = q /\ IsInfo(f) /\ ~ f.end
      BY SendableFrames DEF Frame, IsInfo
    <2>3. srv'.sent = srv.sent /\ srv'.reply = [srv.reply EXCEPT ![q] = "informed"]
      BY <1>0, <2>1
    <2> HIDE DEF f
    <2>4. CASE r # q
      BY <1>0, <2>1, <2>2, <2>3, <2>4, AllPosted
    <2>5. CASE r = q
      <3>1. ~ Answered(r) /\ ~ Answered(r)'
        BY <1>0, <2>1, <2>3, <2>5 DEF Answered
      <3>2. srv'.sent[r] = 0
        BY <2>3, <3>1 DEF AllAt, UnfinishedAt
      <3>3. UnfinishedAt(r)'
        BY <1>0, <2>3, <2>5, <3>2 DEF UnfinishedAt
      <3> QED
        BY <2>1, <2>2, <2>5, <3>1, <3>2, <3>3, ClaimAnswer
    <2> QED
      BY <2>4, <2>5
  <1>2. CASE Reset(q)
    <2> DEFINE f == Frame("rst", q, 0, FALSE)
    <2>1. /\ Post(f) /\ srv.reply[q] # "done"
          /\ srv' = [srv EXCEPT !.reply[q] = "done", !.ended[q] = TRUE]
      BY <1>2 DEF Reset
    <2>2. f \in Sendable /\ f.on = q /\ ~ IsReply(f) /\ ~ f.end /\ f.type # "headers"
      BY SendableFrames DEF Frame, IsReply, IsLost
    <2>3. srv'.sent = srv.sent /\ srv'.reply = [srv.reply EXCEPT ![q] = "done"]
      BY <1>0, <2>1
    <2> HIDE DEF f
    <2>4. CASE r # q
      BY <1>0, <2>1, <2>2, <2>3, <2>4, AllPosted
    <2>5. CASE r = q
      <3>1. srv'.reply[r] = "done" /\ Answered(r)'
        BY <1>0, <2>3, <2>5 DEF Answered
      <3>2. UnfinishedAt(r)'
        BY <3>1 DEF UnfinishedAt
      <3>3. ASSUME ClaimAt(r) PROVE Doomed(r)'
        <4>1. Coming(r)' = Coming(r) \cup {f} /\ \A x \in Coming(r) : ~ x.end
          BY <2>1, <2>2, <2>5, <3>3, ClaimPost
        <4> QED
          BY <2>2, <3>1, <4>1 DEF Doomed
      <3> QED
        BY <2>1, <2>2, <2>5, <3>1, <3>2, <3>3, ClaimAnswer
    <2> QED
      BY <2>4, <2>5
  <1> QED
    BY <1>1, <1>2

\* The final HEADERS, which may be lost.
LEMMA AllHeaders ==
    ASSUME Types, Types', NEW q \in Requests, NEW r \in Requests, AllAt(r),
           "trailers" \notin Faults, ReplyHeaders(q)
    PROVE  AllAt(r)'
  <1>0. /\ srv.reply \in [Requests -> Replies] /\ srv.sent \in [Requests -> Nat]
        /\ DOMAIN srv = {"recv", "ended", "grant", "connGrant", "unasked", "reply",
                         "sent", "goaway", "gone"}
        /\ ReplyData \in Nat
    BY ClientAssumption DEF Types, PeerTypes
  <1>1. Ends(0) = IF 0 < ReplyData THEN {FALSE} ELSE {TRUE}
    BY DEF Ends
  <1>2. PICK end \in Ends(0), type \in {"headers", "error"} :
           /\ Post(Frame(type, q, Final, end))
           /\ srv' = [srv EXCEPT !.reply[q] = IF end THEN "done" ELSE "headers"]
    BY DEF ReplyHeaders
  <1>3. end \in BOOLEAN /\ (end => ReplyData = 0) /\ (~ end => 0 < ReplyData)
    <2>1. CASE 0 < ReplyData
      BY <1>1, <2>1
    <2>2. CASE ReplyData = 0
      <3>1. ~ (0 < ReplyData)
        BY <2>2
      <3>2. end = TRUE
        BY <1>1, <3>1
      <3> QED
        BY <2>2, <3>2
    <2> QED
      BY <1>0, <2>1, <2>2
  <1> DEFINE f == Frame(type, q, Final, end)
  <1>4. /\ f \in Sendable /\ f.on = q /\ f.end = end /\ f.type = type
        /\ IF type = "headers" THEN IsFinal(f) ELSE IsLost(f)
    BY <1>3, SendableFrames DEF Frame, IsFinal, IsLost
  <1>5. /\ srv'.sent = srv.sent
        /\ srv'.reply = [srv.reply EXCEPT ![q] = IF end THEN "done" ELSE "headers"]
    BY <1>0, <1>2
  <1>6. srv.reply[q] \in {"open", "informed"} /\ Post(f)
    BY <1>2 DEF ReplyHeaders, Replying
  <1> HIDE DEF f
  <1>7. CASE r # q
    BY <1>0, <1>4, <1>5, <1>6, <1>7, AllPosted
  <1>8. CASE r = q
    <2>1. /\ ~ Answered(r) /\ Answered(r)' /\ srv.reply[r] # "done"
          /\ end <=> srv'.reply[r] = "done"
      BY <1>0, <1>5, <1>6, <1>8 DEF Answered
    <2>2. srv.sent[r] = 0 /\ srv'.sent[r] = 0
      BY <1>5, <2>1 DEF AllAt, UnfinishedAt
    <2>3. end => srv'.sent[r] = ReplyData
      BY <1>3, <2>2
    <2>4. UnfinishedAt(r)'
      BY <1>3, <2>1, <2>2 DEF UnfinishedAt
    <2>5. ASSUME ClaimAt(r) PROVE Whole(r)' \/ Doomed(r)'
      <3>1. got[r] = 0 /\ \A x \in Coming(r) : IsReply(x) => IsInfo(x)
        BY <2>1, <2>5 DEF ClaimAt
      <3>2. /\ Coming(r)' = Coming(r) \cup {f} /\ Coming(r) \subseteq Sendable
            /\ Data(r)' = Data(r) + Share(f, "data", r) /\ UNCHANGED <<got, status>>
        BY <1>4, <1>6, <1>8, <2>1, <2>5, ClaimPost
      <3>3. Data(r)' = 0
        <4>1. \A x \in Coming(r) : x.type # "data"
          BY <3>1, <3>2, ReplyKinds
        <4>2. Queue(r) \in Seq(Sendable) /\ wire \in Seq(Sendable)
          BY QueueTypes DEF Types
        <4>3. Data(r) = 0
          BY <4>1, <4>2, NoData DEF Coming, Data
        <4>4. Share(f, "data", r) = 0
          BY <1>4, ShareOfOthers
        <4> QED
          BY <3>2, <4>3, <4>4
      <3>4. CASE type = "headers"
        <4>1. got'[r] + Data(r)' = srv'.sent[r]
          BY <2>2, <3>1, <3>2, <3>3
        <4> QED
          BY <1>4, <3>2, <3>4, <4>1 DEF Whole
      <3>5. CASE type = "error"
        BY <1>4, <3>2, <3>5 DEF Doomed
      <3> QED
        BY <3>4, <3>5
    <2> QED
      BY <1>4, <1>6, <1>8, <2>1, <2>3, <2>4, <2>5, ClaimAnswer
  <1> QED
    BY <1>7, <1>8

\* A step that leaves all of this alone.
LEMMA AllStill ==
    ASSUME Types, Types', NEW r \in Requests, AllAt(r),
           UNCHANGED <<pc, status, got, outcome, events, reader, wire>>,
           srv'.sent = srv.sent, srv'.reply = srv.reply
    PROVE  AllAt(r)'
  <1>1. Queue(r)' = Queue(r)
    BY DEF Queue
  <1>2. Running(r) => SameReply(Queue(r), wire, Queue(r)', wire', r)
    BY <1>1, SameItself DEF AllAt, ClaimAt
  <1>3. Running(r)' => Running(r)
    BY DEF Running
  <1>4. reader.mode = "dead" => reader'.mode = "dead"
    OBVIOUS
  <1> QED
    BY <1>1, <1>2, <1>3, <1>4, AllSame

\* One frame of the body.
LEMMA AllBody ==
    ASSUME Types, Types', NEW q \in Requests, NEW r \in Requests, AllAt(r),
           "trailers" \notin Faults, ReplyBody(q)
    PROVE  AllAt(r)'
  <1>0. /\ srv.reply \in [Requests -> Replies] /\ srv.sent \in [Requests -> Nat]
        /\ DOMAIN srv = {"recv", "ended", "grant", "connGrant", "unasked", "reply",
                         "sent", "goaway", "gone"}
        /\ ReplyData \in Nat /\ got \in [Requests -> Nat]
    BY ClientAssumption DEF Types, FiberTypes, PeerTypes
  <1>1. /\ srv.reply[q] = "headers" /\ srv.sent[q] < ReplyData
        /\ \E end \in Ends(srv.sent[q] + 1) :
              /\ Post(Frame("data", q, 1, end))
              /\ srv' = [srv EXCEPT !.sent[q] = @ + 1,
                                    !.reply[q] = IF end THEN "done" ELSE "headers"]
    BY DEF ReplyBody
  <1>2. PICK end \in Ends(srv.sent[q] + 1) :
           /\ Post(Frame("data", q, 1, end))
           /\ srv' = [srv EXCEPT !.sent[q] = @ + 1,
                                 !.reply[q] = IF end THEN "done" ELSE "headers"]
    BY <1>1
  <1>3. /\ end \in BOOLEAN /\ (end => srv.sent[q] + 1 = ReplyData)
        /\ ~ end => srv.sent[q] + 1 < ReplyData
    <2>0. Ends(srv.sent[q] + 1) = IF srv.sent[q] + 1 < ReplyData THEN {FALSE} ELSE {TRUE}
      BY DEF Ends
    <2>1. CASE srv.sent[q] + 1 < ReplyData
      <3>1. end = FALSE
        BY <2>0, <2>1
      <3> QED
        BY <2>1, <3>1
    <2>2. CASE ~ (srv.sent[q] + 1 < ReplyData)
      <3>1. end = TRUE
        BY <2>0, <2>2
      <3>2. srv.sent[q] + 1 = ReplyData
        BY <1>0, <1>1, <2>2
      <3> QED
        BY <3>1, <3>2
    <2> QED
      BY <2>1, <2>2
  <1> DEFINE f == Frame("data", q, 1, end)
  <1>4. /\ f \in Sendable /\ f.on = q /\ f.end = end /\ f.type = "data" /\ f.val = 1
    BY <1>3, SendableFrames DEF Frame
  <1>5. /\ srv'.sent = [srv.sent EXCEPT ![q] = @ + 1]
        /\ srv'.reply = [srv.reply EXCEPT ![q] = IF end THEN "done" ELSE "headers"]
    BY <1>0, <1>2
  <1>6. Post(f)
    BY <1>2
  <1> HIDE DEF f
  <1>7. CASE r # q
    BY <1>0, <1>4, <1>5, <1>6, <1>7, AllPosted
  <1>8. CASE r = q
    <2>1. srv'.sent[r] = srv.sent[r] + 1 /\ srv'.reply[r] = IF end THEN "done" ELSE "headers"
      BY <1>0, <1>5, <1>8
    <2>2. Answered(r) /\ Answered(r)' /\ srv.reply[r] # "done"
      BY <1>1, <1>8, <2>1 DEF Answered
    <2>3. UnfinishedAt(r)'
      BY <1>3, <1>8, <2>1, <2>2 DEF UnfinishedAt
    <2>4. end => srv'.reply[r] = "done" /\ srv'.sent[r] = ReplyData
      BY <1>3, <1>8, <2>1
    <2>5. ASSUME ClaimAt(r) PROVE Whole(r)' \/ Doomed(r)'
      <3>1. /\ Coming(r)' = Coming(r) \cup {f} /\ Queue(r)' = Queue(r)
            /\ Data(r)' = Data(r) + Share(f, "data", r) /\ Data(r) \in Nat
            /\ UNCHANGED <<got, status, reader>>
        BY <1>4, <1>6, <1>8, <2>2, <2>5, ClaimPost
      <3>2. ASSUME Whole(r) PROVE Whole(r)'
        <4>1. Share(f, "data", r) = 1
          BY <1>4, <1>8 DEF Share
        <4>2. got'[r] + Data(r)' = srv'.sent[r]
          <5>1. got[r] + Data(r) = srv.sent[r] /\ got[r] \in Nat
            BY <1>0, <3>2 DEF Whole
          <5>2. got'[r] = got[r] /\ Data(r)' = Data(r) + 1
            BY <3>1, <4>1
          <5> QED
            BY <2>1, <3>1, <5>1, <5>2
        <4>3. CASE status[r] = Final /\ \A x \in Coming(r) : x.type # "headers"
          BY <1>4, <3>1, <4>2, <4>3 DEF Whole
        <4>4. CASE \E x \in Coming(r) : IsFinal(x)
          BY <3>1, <4>2, <4>4 DEF Whole
        <4> QED
          BY <3>2, <4>3, <4>4 DEF Whole
      <3>3. ASSUME Doomed(r) PROVE Doomed(r)'
        BY <1>4, <2>2, <3>1, <3>3 DEF Doomed
      <3> QED
        BY <2>2, <2>5, <3>2, <3>3 DEF ClaimAt
    <2> QED
      BY <1>4, <1>6, <1>8, <2>2, <2>3, <2>4, <2>5, ClaimAnswer
  <1> QED
    BY <1>7, <1>8

\* The steps of the peer.
LEMMA AllPeer ==
    ASSUME Types, Types', NEW r \in Requests, \A q \in Requests : AllAt(q),
           "trailers" \notin Faults,
           \/ GrantConn \/ SendBad \/ SendSettings \/ SendGoaway \/ Close
           \/ \E q \in Requests : Answer(q) \/ Grant(q) \/ ReplyInfo(q) \/ Reset(q)
    PROVE  AllAt(r)'
  <1>0. /\ DOMAIN srv = {"recv", "ended", "grant", "connGrant", "unasked", "reply",
                         "sent", "goaway", "gone"}
        /\ srv.recv \in [Requests -> Nat] /\ srv.grant \in [Requests -> Nat]
        /\ srv.connGrant \in Nat
    BY DEF Types, PeerTypes
  <1>1. ASSUME NEW type \in {"update", "connUpdate", "bad", "settings", "goaway"},
               NEW on, NEW n, Frame(type, on, n, FALSE) \in Sendable,
               Post(Frame(type, on, n, FALSE)),
               srv'.sent = srv.sent, srv'.reply = srv.reply
        PROVE  AllAt(r)'
    <2>1. ~ IsReply(Frame(type, on, n, FALSE))
      BY DEF Frame, IsReply, IsLost
    <2> QED
      BY <1>1, <2>1, AllPosted
  <1>2. CASE GrantConn
    <2>1. Received - srv.connGrant \in Nat
      BY <1>2, SumsTypes DEF GrantConn
    <2>2. Frame("connUpdate", NoRequest, Received - srv.connGrant, FALSE) \in Sendable
      BY <2>1, SendableConnFrames
    <2>3. srv'.sent = srv.sent /\ srv'.reply = srv.reply
      BY <1>0, <1>2 DEF GrantConn
    <2>4. Post(Frame("connUpdate", NoRequest, Received - srv.connGrant, FALSE))
      BY <1>2 DEF GrantConn
    <2> QED
      BY <1>1, <2>2, <2>3, <2>4
  <1>3. CASE SendBad
    <2>1. \/ Post(Frame("bad", NoRequest, 0, FALSE))
          \/ Post(Frame("connUpdate", NoRequest, MaxWindow, FALSE))
      BY <1>3 DEF SendBad
    <2>2. /\ Frame("bad", NoRequest, 0, FALSE) \in Sendable
          /\ Frame("connUpdate", NoRequest, MaxWindow, FALSE) \in Sendable
      BY SendableConnFrames, WindowAssumption
    <2>3. srv'.sent = srv.sent /\ srv'.reply = srv.reply
      BY <1>0, <1>3 DEF SendBad
    <2> QED
      BY <1>1, <2>1, <2>2, <2>3
  <1>4. CASE SendSettings
    <2>1. PICK n \in Settings : Post(Frame("settings", NoRequest, n, FALSE))
      BY <1>4 DEF SendSettings
    <2>2. n \in 0 .. MaxWindow
      BY ClientAssumption
    <2>3. Frame("settings", NoRequest, n, FALSE) \in Sendable
      BY <2>2, SendableConnFrames
    <2>4. srv'.sent = srv.sent /\ srv'.reply = srv.reply
      BY <1>0, <1>4 DEF SendSettings
    <2> QED
      BY <1>1, <2>1, <2>3, <2>4
  <1>5. CASE SendGoaway
    <2>1. srv'.sent = srv.sent /\ srv'.reply = srv.reply
      BY <1>0, <1>5 DEF SendGoaway
    <2>2. Post(Frame("goaway", NoRequest, 0, FALSE))
      BY <1>5 DEF SendGoaway
    <2> QED
      BY <1>1, <2>1, <2>2, SendableConnFrames
  <1>6. CASE Close
    <2>1. /\ UNCHANGED <<pc, status, got, outcome, events, reader, wire>>
          /\ srv'.sent = srv.sent /\ srv'.reply = srv.reply
      BY <1>0, <1>6 DEF Close, reply, table
    <2> QED
      BY <2>1, AllStill
  <1>7. ASSUME NEW q \in Requests, Grant(q) PROVE AllAt(r)'
    <2>1. srv.recv[q] - srv.grant[q] \in Nat
      BY <1>0, <1>7 DEF Grant
    <2>2. Frame("update", q, srv.recv[q] - srv.grant[q], FALSE) \in Sendable
      BY <2>1, SendableFrames
    <2>3. srv'.sent = srv.sent /\ srv'.reply = srv.reply
      BY <1>0, <1>7 DEF Grant
    <2>4. Post(Frame("update", q, srv.recv[q] - srv.grant[q], FALSE))
      BY <1>7 DEF Grant
    <2> QED
      BY <1>1, <2>2, <2>3, <2>4
  <1>8. \A q \in Requests : UnfinishedAt(q)
    BY DEF AllAt
  <1>9. ASSUME NEW q \in Requests, Answer(q) PROVE AllAt(r)'
    <2>1. ~ ReplyTrailers(q)
      <3> SUFFICES ASSUME ReplyTrailers(q) PROVE FALSE
        OBVIOUS
      <3>1. srv.reply[q] = "headers" /\ srv.sent[q] = ReplyData
        BY DEF ReplyTrailers
      <3>2. srv.sent[q] < ReplyData
        BY <1>8, <3>1 DEF UnfinishedAt
      <3> QED
        BY <3>1, <3>2, ClientAssumption
    <2> QED
      BY <1>9, <2>1, AllHeaders, AllBody DEF Answer
  <1> QED
    BY <1>2, <1>3, <1>4, <1>5, <1>6, <1>7, <1>9, AllInfoReset

\* Every step keeps the claims of every request.
LEMMA ClaimsStep ==
    ASSUME Types, Types', Stages, Claims, "trailers" \notin Faults, [Next]_vars
    PROVE  Claims'
  <1> SUFFICES ASSUME NEW r \in Requests PROVE AllAt(r)'
    BY DEF Claims, AllAt
  <1>1. \A q \in Requests : AllAt(q)
    BY DEF Claims, AllAt
  <1>2. ASSUME NEW q \in Requests, RequestStep(q) PROVE AllAt(r)'
    BY <1>1, <1>2, AllRequest, AllTakeSending, AllTakeResponse DEF RequestStep
  <1>3. ASSUME NEW q \in Requests, WriteRaises(q) \/ Cancel(q) PROVE AllAt(r)'
    <2>1. pc[q] \notin {"unregister", "done"} /\ Raises(q)
      BY <1>3 DEF WriteRaises, Cancel
    <2> QED
      BY <1>1, <2>1, AllRequest
  <1>4. CASE ReaderStep \/ ReaderDies
    BY <1>1, <1>4, AllReader
  <1>5. CASE Fault
    BY <1>1, <1>3, <1>4, <1>5, AllPeer DEF Fault
  <1>6. CASE UNCHANGED vars
    <2>1. UNCHANGED <<pc, status, got, outcome, events, reader, wire, srv>>
      BY <1>6 DEF vars, reply, table
    <2> QED
      BY <1>1, <2>1, AllStill
  <1> QED
    BY <1>1, <1>2, <1>4, <1>5, <1>6, AllPeer DEF Next

\* Initially no request is running.
LEMMA ClaimsInit ==
    ASSUME Init PROVE Claims
  <1> SUFFICES ASSUME NEW r \in Requests PROVE AllAt(r)
    BY DEF Claims, AllAt
  <1>1. /\ Queue(r) = << >> /\ wire = << >> /\ pc[r] = "idle" /\ status[r] = NoStatus
        /\ got[r] = 0 /\ outcome[r] = "none" /\ srv.reply[r] = "none" /\ srv.sent[r] = 0
    BY DEF Init, Queue, Plain
  <1>2. DOMAIN Queue(r) = {} /\ DOMAIN wire = {}
    BY <1>1
  <1>3. ListSet(Queue(r)) = {} /\ ListSet(wire) = {} /\ Coming(r) = {}
    BY <1>2 DEF ListSet, Coming, Pipe
  <1>4. Sound(Queue(r), wire, r)
    BY <1>2, <1>3 DEF Sound, OrderedList
  <1>5. ~ Answered(r)
    BY <1>1 DEF Answered
  <1> QED
    BY <1>1, <1>3, <1>4, <1>5 DEF AllAt, ClaimAt, OkAt, UnfinishedAt

\* A request that returns Ok returns the whole response and its final status,
\* for any requests, queues and faults, if no response has trailers.
THEOREM OkIsWhole == "trailers" \notin Faults => (Spec => []OkIsWholeResponse)
  <1> SUFFICES ASSUME "trailers" \notin Faults PROVE Spec => []OkIsWholeResponse
    OBVIOUS
  <1> DEFINE Inv == Types /\ Stages /\ Claims
  <1>1. Init => Inv
    BY TypesInit, StagesInit, ClaimsInit
  <1>2. Inv /\ [Next]_vars => Inv'
    BY TypesStep, StagesStep, ClaimsStep
  <1>3. Inv => OkIsWholeResponse
    BY DEF Claims, OkAt, OkIsWholeResponse
  <1> QED
    BY <1>1, <1>2, <1>3, PTL DEF Spec
=============================================================================
