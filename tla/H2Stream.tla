------------------------------ MODULE H2Stream ------------------------------
(* The stream state machine of bleeding/requests/lib/h2/h2_stream.ml, and     *)
(* its send-window arithmetic.                                                *)
EXTENDS Integers

CONSTANT MaxWindow      \* 0x7FFFFFFF in the code; small in an instance

ASSUME WindowAssumption == MaxWindow \in Nat \ {0}

ClosedStates == {"finished", "reset_by_us", "reset_by_them"}    \* Closed reason

StreamStates ==
    {"idle", "reserved_local", "reserved_remote", "open", "half_closed_local",
     "half_closed_remote"} \cup ClosedStates

\* Events; "end" is the end_stream flag, TRUE for the END_STREAM events.
SendTypes == {"send_headers", "send_data", "send_end_stream"}
RecvTypes == {"recv_headers", "recv_data", "recv_end_stream"}
PushTypes == {"send_push_promise", "recv_push_promise"}
RstTypes == {"send_rst_stream", "recv_rst_stream"}

Events == {e \in [type : SendTypes \cup RecvTypes \cup PushTypes \cup RstTypes,
                  end : BOOLEAN] :
              /\ e.type \in {"send_end_stream", "recv_end_stream"} => e.end
              /\ e.type \in PushTypes \cup RstTypes => ~e.end}

\* The outcome Transition_error.
Failed == "error"

AfterRst(e) == IF e.type = "send_rst_stream" THEN "reset_by_us" ELSE "reset_by_them"

FromIdle(e) ==
    CASE e.type = "send_headers" -> IF e.end THEN "half_closed_local" ELSE "open"
      [] e.type = "recv_headers" -> IF e.end THEN "half_closed_remote" ELSE "open"
      [] e.type = "send_push_promise" -> "reserved_local"
      [] e.type = "recv_push_promise" -> "reserved_remote"
      [] OTHER -> Failed

\* A reserved stream accepts the HEADERS of its promised response, or a reset.
FromReserved(e, headers, opened) ==
    CASE e.type = headers -> IF e.end THEN "finished" ELSE opened
      [] e.type \in RstTypes -> AfterRst(e)
      [] OTHER -> Failed

FromOpen(e) ==
    CASE e.type \in SendTypes -> IF e.end THEN "half_closed_local" ELSE "open"
      [] e.type \in RecvTypes -> IF e.end THEN "half_closed_remote" ELSE "open"
      [] e.type \in RstTypes -> AfterRst(e)
      [] e.type \in PushTypes -> "open"

\* Mutant: the end of the other direction is not looked at.
FromHalfClosedEndless(s, e, alive, over) ==
    CASE e.type \in alive \cup PushTypes -> s
      [] e.type \in RstTypes -> AfterRst(e)
      [] e.type \in over -> Failed

\* Half-closed: one direction still carries frames, the other is over.
FromHalfClosed(s, e, alive, over) ==
    CASE e.type \in alive -> IF e.end THEN "finished" ELSE s
      [] e.type \in RstTypes -> AfterRst(e)
      [] e.type \in over -> Failed
      [] e.type \in PushTypes -> s

FromClosed(s, e) == IF e.type = "recv_rst_stream" THEN s ELSE Failed

Transition(s, e) ==
    CASE s = "idle" -> FromIdle(e)
      [] s = "reserved_local" -> FromReserved(e, "send_headers", "half_closed_remote")
      [] s = "reserved_remote" -> FromReserved(e, "recv_headers", "half_closed_local")
      [] s = "open" -> FromOpen(e)
      [] s = "half_closed_local" -> FromHalfClosed(s, e, RecvTypes, SendTypes)
      [] s = "half_closed_remote" -> FromHalfClosed(s, e, SendTypes, RecvTypes)
      [] s \in ClosedStates -> FromClosed(s, e)

\* apply_event: an event that fails leaves the state alone.
ApplyEvent(s, type, end) ==
    LET t == Transition(s, [type |-> type, end |-> end]) IN
    IF t = Failed THEN s ELSE t

\* credit_send_window: the new window, or the old one and an error.
CreditFits(window, increment) == window + increment <= MaxWindow

\* Mutant: the bytes already sent are forgotten.
ResizedReset(window, initial, newInitial) == newInitial

\* update_initial_window_size: the delta is taken from the initial size the
\* stream was created with, which the code never changes.
Resized(window, initial, newInitial) == window + (newInitial - initial)

ResizeFits(window, initial, newInitial) ==
    Resized(window, initial, newInitial) \in 0 .. MaxWindow
=============================================================================
