------------------------------ MODULE Writable -----------------------------
(***************************************************************************)
(* How an application learns that it may write to a stream again:          *)
(* quiche/src/lib.rs (stream_send, stream_writable, stream_writable_next,  *)
(* stream_shutdown, update_tx_cap and the MAX_DATA, MAX_STREAM_DATA and    *)
(* STOP_SENDING handlers) with the writable set of stream/mod.rs.          *)
(*                                                                         *)
(* The application has data for every stream of Streams.  A call that      *)
(* could not take all of it leaves the application waiting for             *)
(* stream_writable_next to name the stream.  Which of the streams that     *)
(* qualify is named first (their priority) is left open.                   *)
(***************************************************************************)
EXTENDS Integers

CONSTANTS
    Streams,
    Incremental,    \* the streams with the incremental flag, the default
    Total,          \* bytes the application has for each stream
    StreamWindow,   \* the peer's window for each stream
    ConnWindow,     \* the peer's window for the connection
    Cwnds,          \* room the congestion window may leave
    MaxAsk          \* the largest len passed to stream_writable

ASSUME WritableAssumption ==
    /\ Incremental \subseteq Streams
    /\ Total \in Nat /\ StreamWindow \in Nat /\ ConnWindow \in Nat
    /\ MaxAsk \in Nat /\ Cwnds \subseteq Nat /\ Cwnds # {}

VARIABLES
    str,        \* the streams
    room,       \* max_tx_data - tx_data, all that the code uses of the two
    tx_cap,
    listed,     \* the writable set of the stream map
    waiting     \* the streams the application waits for

vars == <<str, room, tx_cap, listed, waiting>>

Smaller(a, b) == IF a < b THEN a ELSE b
Larger(a, b) == IF a > b THEN a ELSE b

(* Stream::is_writable (a stream stopped or shut down counts as finished), *)
(* SendBuf::cap                                                            *)
IsWritable(st) == ~st.over /\ ~st.stopped /\ st.off + st.lowat < st.max_data
Cap(st) == st.max_data - st.off
Capacity(s) == Smaller(tx_cap, Cap(str[s]))

(* get_or_create: the streams exist, and those with a window are listed.   *)
Init ==
    /\ str = [s \in Streams |->
                [off |-> 0, max_data |-> StreamWindow, lowat |-> 1,
                 stopped |-> FALSE, over |-> FALSE]]
    /\ room = ConnWindow
    /\ tx_cap \in {Smaller(c, ConnWindow) : c \in Cwnds}
    /\ listed = {s \in Streams : IsWritable(str[s])}
    /\ waiting = {}

(* update_tx_cap, at the end of every recv                                 *)
UpdateTxCap(left) == tx_cap' \in {Smaller(c, left) : c \in Cwnds}

(* SendBuf::reset: of a stream stopped or shut down only that matters.     *)
Ended(how) == [off |-> 0, max_data |-> 0, lowat |-> 1,
               stopped |-> how = "stopped", over |-> how = "over"]

Mark(s, on) == IF on THEN listed \cup {s} ELSE listed \ {s}

----------------------------------------------------------------------------
(* The application                                                         *)

(* stream_do_send: a stream the peer stopped answers with an error.        *)
SendStopped(s) ==
    /\ s \notin waiting /\ str[s].stopped /\ ~str[s].over
    /\ tx_cap > 0
    /\ str' = [str EXCEPT ![s] = Ended("over")]
    /\ listed' = Mark(s, FALSE)
    /\ UNCHANGED <<room, tx_cap, waiting>>

(* stream_do_send without any capacity                                     *)
SendBlocked(s, len) ==
    /\ s \notin waiting /\ ~str[s].over /\ str[s].off + len <= Total
    /\ tx_cap = 0
    /\ listed' = listed \cup {t \in {s} : IsWritable(str[s])}
    /\ waiting' = waiting \cup {s}
    /\ UNCHANGED <<str, room, tx_cap>>

(* Faulty variant: a stream cut by the connection's capacity is not listed *)
(* again.                                                                  *)
NotRelisted(s, after, cut) ==
    IF ~IsWritable(after) THEN listed \ {s} ELSE listed

(* The end of stream_do_send: cut says that tx_cap was less than asked.    *)
Relist(s, after, cut) ==
    CASE ~IsWritable(after) -> listed \ {s}
      [] IsWritable(after) /\ ((IsWritable(str[s]) /\ cut) \/ s \in Incremental) ->
           listed \cup {s}
      [] OTHER -> listed

(* stream_do_send of len bytes: cut to the connection's capacity, then to  *)
(* the stream's.  Nothing taken is Done, before the incremental shuffle.   *)
StreamSend(s, len) ==
    /\ s \notin waiting /\ ~str[s].over /\ ~str[s].stopped
    /\ str[s].off + len <= Total /\ tx_cap > 0
    /\ LET cap == Smaller(tx_cap, len)
           sent == Smaller(cap, Cap(str[s]))
           after == [str[s] EXCEPT !.off = @ + sent]
       IN  /\ str' = [str EXCEPT ![s] = after]
           /\ tx_cap' = tx_cap - sent /\ room' = room - sent
           /\ listed' = Relist(s, after, tx_cap < len)
           /\ waiting' = IF sent < len THEN waiting \cup {s} ELSE waiting

(* stream_writable(len) that returns false                                 *)
StreamWritable(s, len) ==
    /\ s \notin waiting /\ ~str[s].over /\ ~str[s].stopped
    /\ Capacity(s) < len
    /\ LET st == [str[s] EXCEPT !.lowat = Larger(1, len)] IN
         /\ str' = [str EXCEPT ![s] = st]
         /\ listed' = IF Cap(st) >= len /\ IsWritable(st) THEN listed \cup {s} ELSE listed
    /\ waiting' = waiting \cup {s}
    /\ UNCHANGED <<room, tx_cap>>

(* stream_writable_next                                                    *)
StreamWritableNext(s) ==
    /\ tx_cap > 0
    /\ s \in listed
    /\ str[s].stopped \/ Capacity(s) >= str[s].lowat
    /\ listed' = Mark(s, FALSE)
    /\ waiting' = waiting \ {s}
    /\ UNCHANGED <<str, room, tx_cap>>

(* stream_shutdown(Write): some of the data may never have been sent.      *)
StreamShutdownWrite(s) ==
    /\ ~str[s].over
    /\ \E unsent \in {0, str[s].off} :
         /\ room' = room + unsent
         /\ UpdateTxCap(room + unsent)
         /\ str' = [str EXCEPT ![s] = Ended("over")]
    /\ listed' = Mark(s, FALSE)
    /\ waiting' = waiting \ {s}

----------------------------------------------------------------------------
(* What the peer sends                                                     *)

(* Anything else, an ACK for one: the congestion window has changed.       *)
RecvOther ==
    /\ UpdateTxCap(room)
    /\ UNCHANGED <<str, room, listed, waiting>>

(* MAX_DATA once the peer's application has read all there is              *)
RecvMaxData ==
    /\ room < ConnWindow
    /\ room' = ConnWindow
    /\ UpdateTxCap(ConnWindow)
    /\ UNCHANGED <<str, listed, waiting>>

(* Faulty variant: the new limit does not list the stream.                 *)
LimitNotListed(s, st) == listed

ListWritable(s, st) == IF IsWritable(st) THEN listed \cup {s} ELSE listed

(* MAX_STREAM_DATA once the peer has read all of the stream so far         *)
RecvMaxStreamData(s) ==
    /\ ~str[s].stopped /\ ~str[s].over
    /\ str[s].off + StreamWindow > str[s].max_data
    /\ LET st == [str[s] EXCEPT !.max_data = str[s].off + StreamWindow] IN
         /\ str' = [str EXCEPT ![s] = st]
         /\ listed' = ListWritable(s, st)
    /\ UpdateTxCap(room)
    /\ UNCHANGED <<room, waiting>>

(* STOP_SENDING: what was not sent is given back, and the stream listed so *)
(* that the application learns of it.                                      *)
RecvStopSending(s) ==
    /\ ~str[s].stopped /\ ~str[s].over
    /\ \E unsent \in {0, str[s].off} :
         /\ room' = room + unsent
         /\ str' = [str EXCEPT ![s] = Ended("stopped")]
         /\ UpdateTxCap(room + unsent)
    /\ listed' = IF IsWritable(str[s]) THEN listed ELSE listed \cup {s}
    /\ UNCHANGED waiting

----------------------------------------------------------------------------
Lens == 1 .. MaxAsk

Next ==
    \/ \E s \in Streams : SendStopped(s)
    \/ \E s \in Streams, len \in Lens : SendBlocked(s, len)
    \/ \E s \in Streams, len \in Lens : StreamSend(s, len)
    \/ \E s \in Streams, len \in Lens : StreamWritable(s, len)
    \/ \E s \in Streams : StreamWritableNext(s)
    \/ \E s \in Streams : StreamShutdownWrite(s)
    \/ RecvOther
    \/ RecvMaxData
    \/ \E s \in Streams : RecvMaxStreamData(s)
    \/ \E s \in Streams : RecvStopSending(s)

(* The application writes and polls whenever it may; the peer reads all it *)
(* is sent and raises its limits; the congestion window reopens now and    *)
(* then, though other packets may narrow it in between.                    *)
Fairness ==
    /\ \A s \in Streams :
         /\ SF_vars(\E len \in Lens : StreamSend(s, len))
         /\ SF_vars(StreamWritableNext(s))
         /\ SF_vars(SendStopped(s))
         /\ WF_vars(RecvMaxStreamData(s))
    /\ WF_vars(RecvMaxData)
    /\ SF_vars(RecvOther /\ \A c \in Cwnds : tx_cap' >= Smaller(c, room))

Spec == Init /\ [][Next]_vars /\ Fairness

----------------------------------------------------------------------------
(* An application that waits for a stream is not forgotten: when the       *)
(* stream has more room than was asked for, it is in the set               *)
(* stream_writable_next chooses from, however windows and capacity moved.  *)
NoLostWakeup == \A s \in waiting : IsWritable(str[s]) => s \in listed

(* stream_writable's documentation: the stream is "not going to be         *)
(* reported as writable again [...] until its send capacity reaches len".  *)
ReportedAtCapacity ==
    \A s \in waiting :
        ~str[s].stopped /\ Capacity(s) >= str[s].lowat => s \in listed

(* All of the data is buffered in the end, unless the stream is stopped or *)
(* shut down: no wake-up is lost between the two windows, the congestion   *)
(* window and the low watermark.                                           *)
AllWritten == \A s \in Streams : <>(str[s].off = Total \/ str[s].stopped \/ str[s].over)
============================================================================
