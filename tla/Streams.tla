------------------------------ MODULE Streams ------------------------------
(***************************************************************************)
(* The credit two ends of a connection give each other: MAX_DATA for bytes *)
(* and MAX_STREAMS for streams.  The model follows unidirectional streams  *)
(* from the end that opens and writes them to the end that reads them,     *)
(* over a network that reorders and loses packets: quiche/src/lib.rs       *)
(* (stream_send, stream_recv, stream_shutdown, the frame handlers, the     *)
(* frames send_single writes, ACK and loss handling), stream/mod.rs (the   *)
(* stream map) and flowcontrol.rs.                                         *)
(*                                                                         *)
(* A STREAM frame carries one unit of data.  The buffers inside a stream   *)
(* are modules RecvBuf and SendBuf: here the receive side is a set of      *)
(* units, the send side the units waiting to be sent.  The windows of the  *)
(* streams themselves never bind; the congestion window is any of Cwnds.   *)
(***************************************************************************)
EXTENDS Integers, FiniteSets, FiniteSetsExt

CONSTANTS
    NStreams,       \* streams the application opens, in order
    StreamLen,      \* units it writes to each of them, the last one with FIN
    InitMaxData,    \* initial_max_data of the reader
    DefaultWindow,  \* DEFAULT_CONNECTION_WINDOW
    MaxWindow,      \* max_connection_window of the reader
    InitMaxStreams, \* initial_max_streams_uni of the reader
    Cwnds,          \* room the congestion window may leave
    CapFactor,      \* tx_cap_factor
    MaxShutdowns,   \* bound: stream_shutdown calls
    MaxLost         \* bound: packets declared lost

Smaller(a, b) == IF a < b THEN a ELSE b

(* Connection::new: one and a half times initial_max_data, up to the       *)
(* default window                                                          *)
InitWindow == Smaller((InitMaxData \div 2) * 3, DefaultWindow)

(* A maximum below the first window would make autotune_window shrink it,  *)
(* and the limit told to the peer go back.                                 *)
ASSUME StreamsAssumption ==
    /\ NStreams \in Nat \ {0}
    /\ StreamLen \in [0 .. NStreams - 1 -> Nat \ {0}]
    /\ InitMaxData \in Nat \ {0, 1} /\ InitMaxStreams \in Nat \ {0}
    /\ DefaultWindow \in Nat \ {0, 1} /\ MaxWindow \in Nat
    /\ MaxWindow >= InitWindow
    /\ Cwnds \subseteq Nat /\ CapFactor \in Nat \ {0}
    /\ MaxShutdowns \in Nat /\ MaxLost \in Nat

Streams == 0 .. NStreams - 1
Unknown == -1
Larger(a, b) == IF a > b THEN a ELSE b

VARIABLES
    snd,        \* the writing end's connection and streams
    rcv,        \* the reading end's connection and streams
    net,        \* frames on their way
    arrived,    \* frames received, not yet acknowledged or declared lost
    error,      \* what a frame handler closed the connection with: all ends
    nlost,      \* packets declared lost so far
    nshut,      \* calls of stream_shutdown so far
    forgone     \* history: the kinds of credit frames declared lost

vars == <<snd, rcv, net, arrived, error, nlost, nshut, forgone>>

Data(s, u) == [type |-> "stream", s |-> s, u |-> u]
Reset(s, size) == [type |-> "reset", s |-> s, u |-> size]
Stop(s) == [type |-> "stop", s |-> s, u |-> 0]
MaxData(max) == [type |-> "max_data", s |-> 0, u |-> max]
MaxStreams(max) == [type |-> "max_streams", s |-> 0, u |-> max]

Open(ep) == {s \in Streams : ep.str[s].state = "open"}
Collected(ep) == {s \in Streams : ep.str[s].state = "collected"}

NewSend == [state |-> "idle", written |-> 0, emit_off |-> 0, pending |-> {},
            acked |-> {}, reset |-> Unknown, stopped |-> FALSE, shut |-> FALSE]

NewRecv == [state |-> "idle", data |-> {}, off |-> 0, len |-> 0,
            fin_off |-> Unknown, drain |-> FALSE, err |-> FALSE,
            notify |-> FALSE, stop |-> FALSE, lost |-> 0]

(* Connection::new, parse_peer_transport_params: the reader's limits are   *)
(* known.                                                                  *)
Init ==
    /\ snd = [opened |-> 0, peer_max |-> InitMaxStreams,
              max_tx_data |-> InitMaxData, tx_data |-> 0,
              str |-> [s \in Streams |-> NewSend]]
    /\ rcv = [peer_opened |-> 0, max_streams |-> InitMaxStreams,
              max_streams_next |-> InitMaxStreams,
              max_data |-> InitMaxData, consumed |-> 0,
              window |-> InitWindow,
              rx_data |-> 0, almost_full |-> FALSE,
              str |-> [s \in Streams |-> NewRecv]]
    /\ net = {} /\ arrived = {} /\ error = "none" /\ nlost = 0
    /\ nshut = 0 /\ forgone = {}

----------------------------------------------------------------------------
(* The writing end                                                         *)

(* update_tx_cap, run after every datagram received and every shutdown.    *)
(* Past the limit the subtraction wraps around and only the window counts. *)
TxCap(cwnd) ==
    CapFactor * IF snd.tx_data > snd.max_tx_data THEN cwnd
                ELSE Smaller(cwnd, snd.max_tx_data - snd.tx_data)

(* SendBuf::write of n units                                               *)
Wrote(st, n) ==
    [st EXCEPT !.state = "open", !.written = @ + n,
               !.pending = @ \cup (st.written .. st.written + n - 1)]

(* stream_do_send of what the stream still lacks, with FIN: the stream is  *)
(* created within the peer's limit, then the data cut to the capacity.     *)
StreamSend(s) ==
    /\ error = "none"
    /\ \/ snd.str[s].state = "open"
       \/ snd.str[s].state = "idle" /\ s = snd.opened /\ s + 1 <= snd.peer_max
    /\ ~snd.str[s].stopped /\ ~snd.str[s].shut
    /\ \E cwnd \in Cwnds :
         LET st == snd.str[s]
             n == Smaller(TxCap(cwnd), StreamLen[s] - st.written)
         IN  /\ n > 0 \/ st.state = "idle"
             /\ snd' = [snd EXCEPT !.opened = Larger(@, s + 1), !.tx_data = @ + n,
                                   !.str[s] = Wrote(@, n)]
    /\ UNCHANGED <<rcv, net, arrived, error, nlost, nshut, forgone>>

(* SendBuf::reset: what was buffered but never sent is dropped, and a      *)
(* RESET_STREAM with the offset reached is queued.                         *)
Dropped(st) ==
    [st EXCEPT !.pending = {}, !.reset = st.emit_off, !.written = st.emit_off]

(* Faulty variant: the bytes in flight are given back as well.             *)
ClawbackSent(e, s) ==
    LET st == e.str[s] IN
    [e EXCEPT !.tx_data = @ - (st.written - Cardinality(st.acked)), !.str[s] = Dropped(@)]

(* What the callers of SendBuf::reset do: the flow control credit of what  *)
(* was not sent is taken back.                                             *)
Clawback(e, s) ==
    LET st == e.str[s] IN
    [e EXCEPT !.tx_data = Larger(0, @ - (st.written - st.emit_off)), !.str[s] = Dropped(@)]

(* stream_shutdown(Write)                                                  *)
StreamShutdownWrite(s) ==
    /\ error = "none" /\ nshut < MaxShutdowns
    /\ snd.str[s].state = "open" /\ ~snd.str[s].shut
    /\ snd' = [Clawback(snd, s) EXCEPT !.str[s].shut = TRUE]
    /\ nshut' = nshut + 1
    /\ UNCHANGED <<rcv, net, arrived, error, nlost, forgone>>

(* SendBuf::emit of the unit u                                             *)
Emitted(st, u) == [st EXCEPT !.pending = @ \ {u}, !.emit_off = Larger(@, u + 1)]

(* send_single: one STREAM frame                                           *)
SendStream(s) ==
    /\ error = "none"
    /\ snd.str[s].state = "open" /\ snd.str[s].pending # {}
    /\ LET u == Min(snd.str[s].pending) IN
         /\ snd' = [snd EXCEPT !.str[s] = Emitted(@, u)]
         /\ net' = net \cup {Data(s, u)}
    /\ UNCHANGED <<rcv, arrived, error, nlost, nshut, forgone>>

(* send_single: RESET_STREAM; a collected stream's entry is sent as well.  *)
SendReset(s) ==
    /\ error = "none"
    /\ snd.str[s].reset # Unknown
    /\ net' = net \cup {Reset(s, snd.str[s].reset)}
    /\ snd' = [snd EXCEPT !.str[s].reset = Unknown]
    /\ UNCHANGED <<rcv, arrived, error, nlost, nshut, forgone>>

Take(f) ==
    /\ net' = net \ {f}
    /\ arrived' = arrived \cup {f}

(* STOP_SENDING: ignored for a collected stream and one stopped before.    *)
RecvStopSending(f) ==
    /\ error = "none" /\ f.type = "stop" /\ Take(f)
    /\ snd' = IF snd.str[f.s].state = "open" /\ ~snd.str[f.s].stopped
              THEN [Clawback(snd, f.s) EXCEPT !.str[f.s].stopped = TRUE]
              ELSE snd
    /\ UNCHANGED <<rcv, error, nlost, nshut, forgone>>

(* MAX_DATA and MAX_STREAMS: a limit is never lowered.                     *)
RecvMaxData(f) ==
    /\ error = "none" /\ f.type = "max_data" /\ Take(f)
    /\ snd' = [snd EXCEPT !.max_tx_data = Larger(@, f.u)]
    /\ UNCHANGED <<rcv, error, nlost, nshut, forgone>>

RecvMaxStreams(f) ==
    /\ error = "none" /\ f.type = "max_streams" /\ Take(f)
    /\ snd' = [snd EXCEPT !.peer_max = Larger(@, f.u)]
    /\ UNCHANGED <<rcv, error, nlost, nshut, forgone>>

----------------------------------------------------------------------------
(* The reading end                                                         *)

(* flowcontrol.rs                                                          *)
MaxDataNext(e) == e.consumed + e.window
ShouldUpdateMaxData(e) == e.max_data - e.consumed < e.window \div 2

(* autotune_window: the window doubles when the last update was less than  *)
(* two round trips ago, which it may have been whenever there was one.     *)
Autotuned(e) ==
    {e.window} \cup IF e.max_data = InitMaxData THEN {}
                    ELSE {Smaller(2 * e.window, MaxWindow)}

Refresh(e) == [e EXCEPT !.almost_full = @ \/ ShouldUpdateMaxData(e)]

(* get_or_create for a stream of the peer, within the limit: streams below *)
(* a new one count as opened too.                                          *)
GetOrCreate(e, s) ==
    IF e.str[s].state = "idle"
    THEN [e EXCEPT !.peer_opened = Larger(@, s + 1), !.str[s].state = "open"]
    ELSE e

OverLimit(e, s) ==
    /\ e.str[s].state = "idle"
    /\ Larger(e.peer_opened, s + 1) > e.max_streams

(* RecvBuf::write of one unit                                              *)
Stored(st, s, u) ==
    [st EXCEPT !.len = Larger(@, u + 1),
               !.fin_off = IF u + 1 = StreamLen[s] THEN StreamLen[s] ELSE @,
               !.data = IF st.drain \/ u < st.off THEN @ ELSE @ \cup {u}]

(* Faulty variant: data a shut-down stream drops is not counted as read.   *)
StoreUncounted(e, s, u) ==
    LET delta == Larger(0, u + 1 - e.str[s].len)
    IN  [e EXCEPT !.rx_data = @ + delta, !.str[s] = Stored(@, s, u)]

(* The accounting around it: what a stream that is shut down drops counts  *)
(* as read.                                                                *)
Store(e, s, u) ==
    LET delta == Larger(0, u + 1 - e.str[s].len)
        w == [e EXCEPT !.rx_data = @ + delta, !.str[s] = Stored(@, s, u)]
    IN  IF e.str[s].drain THEN Refresh([w EXCEPT !.consumed = @ + delta]) ELSE w

(* What the STREAM handler refuses a unit with: the connection's window is *)
(* checked before the stream's final size.                                 *)
StreamError(f) ==
    LET st == rcv.str[f.s] IN
    CASE st.state = "collected" -> "none"
      [] OverLimit(rcv, f.s) -> "StreamLimit"
      [] st.state # "collected" /\ ~OverLimit(rcv, f.s) ->
           IF f.u + 1 - st.len > rcv.max_data - rcv.rx_data THEN "FlowControl"
           ELSE IF /\ st.fin_off # Unknown
                   /\ \/ f.u + 1 > st.fin_off
                      \/ f.u + 1 = StreamLen[f.s] /\ st.fin_off # StreamLen[f.s]
                THEN "FinalSize" ELSE "none"

(* The STREAM handler: a frame for a collected stream is ignored.          *)
RecvStream(f) ==
    /\ error = "none" /\ f.type = "stream" /\ Take(f)
    /\ error' = StreamError(f)
    /\ rcv' = IF rcv.str[f.s].state = "collected" \/ StreamError(f) # "none" THEN rcv
              ELSE Store(GetOrCreate(rcv, f.s), f.s, f.u)
    /\ UNCHANGED <<snd, nlost, nshut, forgone>>

(* RecvBuf::reset: a first reset drops what is buffered and queues an      *)
(* empty buffer to wake the application up, unless the final size was      *)
(* known already or the stream is being drained.                           *)
WasReset(st, size) ==
    [st EXCEPT !.len = IF st.fin_off = Unknown THEN size ELSE @,
               !.off = IF st.err THEN @ ELSE size,
               !.lost = CASE st.err -> @
                          [] st.drain /\ ~st.err -> @ + (size - st.len)
                          [] OTHER -> @ + (size - st.off),
               !.data = IF st.err THEN @ ELSE {},
               !.fin_off = size,
               !.notify = @ \/ (~st.err /\ st.fin_off = Unknown /\ ~st.drain),
               !.err = TRUE]

(* and the accounting around it                                            *)
ApplyReset(e, s, size) ==
    [e EXCEPT !.rx_data = @ + (size - e.str[s].len), !.str[s] = WasReset(@, size)]

(* What the RESET_STREAM handler refuses: here the final size comes first. *)
ResetError(f) ==
    LET st == rcv.str[f.s] IN
    CASE st.state = "collected" -> "none"
      [] OverLimit(rcv, f.s) -> "StreamLimit"
      [] st.state # "collected" /\ ~OverLimit(rcv, f.s) ->
           IF (st.fin_off # Unknown /\ st.fin_off # f.u) \/ f.u < st.len THEN "FinalSize"
           ELSE IF f.u - st.len > rcv.max_data - rcv.rx_data THEN "FlowControl" ELSE "none"

(* The RESET_STREAM handler                                                *)
RecvReset(f) ==
    /\ error = "none" /\ f.type = "reset" /\ Take(f)
    /\ error' = ResetError(f)
    /\ rcv' = IF rcv.str[f.s].state = "collected" \/ ResetError(f) # "none" THEN rcv
              ELSE ApplyReset(GetOrCreate(rcv, f.s), f.s, f.u)
    /\ UNCHANGED <<snd, nlost, nshut, forgone>>

(* Faulty variant: the credit is given back twice.                         *)
CollectTwice(e, s) ==
    [e EXCEPT !.str[s].state = "collected", !.max_streams_next = @ + 2]

(* StreamMap::collect of a stream the peer opened                          *)
Collect(e, s) ==
    [e EXCEPT !.str[s].state = "collected", !.max_streams_next = @ + 1]

(* How much can be read: the units from off on.                            *)
Ready(st) == Cardinality({u \in st.data : st.off .. u \subseteq st.data})

(* RecvBuf::emit of n units                                                *)
WasRead(st, n) == [st EXCEPT !.off = @ + n, !.data = @ \ (st.off .. st.off + n - 1)]

(* stream_recv of n units, or of the error of a stream that was reset      *)
StreamRecv(s) ==
    /\ error = "none"
    /\ rcv.str[s].state = "open"
    /\ LET st == rcv.str[s] IN
         \/ /\ st.err /\ st.notify
            /\ rcv' = Collect([rcv EXCEPT !.str[s].notify = FALSE], s)
         \/ /\ ~st.err
            /\ \E n \in 1 .. Ready(st) :
                 LET r == [rcv EXCEPT !.consumed = @ + n, !.str[s] = WasRead(@, n)]
                 IN  rcv' = Refresh(IF st.fin_off = st.off + n THEN Collect(r, s) ELSE r)
    /\ UNCHANGED <<snd, net, arrived, error, nlost, nshut, forgone>>

(* stream_shutdown(Read): buffered data is dropped, and STOP_SENDING       *)
(* queued unless the stream has been read to its end.                      *)
Drained(st) ==
    [st EXCEPT !.drain = TRUE, !.data = {}, !.notify = FALSE, !.off = st.len,
               !.lost = @ + (st.len - st.off), !.stop = st.fin_off # st.len]

StreamShutdownRead(s) ==
    /\ error = "none" /\ nshut < MaxShutdowns
    /\ rcv.str[s].state = "open" /\ ~rcv.str[s].drain
    /\ rcv' = [rcv EXCEPT !.str[s] = Drained(@)]
    /\ nshut' = nshut + 1
    /\ UNCHANGED <<snd, net, arrived, error, nlost, forgone>>

(* Faulty variant: the streams already opened are left out.                *)
HalfOfLimitLeft(e) == e.max_streams_next \div 2 > e.max_streams

(* should_update_max_streams_uni                                           *)
ShouldUpdateMaxStreams(e) ==
    /\ e.max_streams_next # e.max_streams
    /\ e.max_streams_next \div 2 > e.max_streams - e.peer_opened

(* send_single: MAX_STREAMS, MAX_DATA, STOP_SENDING                        *)
SendMaxStreams ==
    /\ error = "none"
    /\ ShouldUpdateMaxStreams(rcv)
    /\ net' = net \cup {MaxStreams(rcv.max_streams_next)}
    /\ rcv' = [rcv EXCEPT !.max_streams = rcv.max_streams_next]
    /\ UNCHANGED <<snd, arrived, error, nlost, nshut, forgone>>

SendMaxData ==
    /\ error = "none"
    /\ rcv.almost_full /\ rcv.max_data < MaxDataNext(rcv)
    /\ \E window \in Autotuned(rcv) :
          LET max == MaxDataNext([rcv EXCEPT !.window = window])
          IN  /\ net' = net \cup {MaxData(max)}
              /\ rcv' = [rcv EXCEPT !.window = window, !.max_data = max,
                                    !.almost_full = FALSE]
    /\ UNCHANGED <<snd, arrived, error, nlost, nshut, forgone>>

SendStopSending(s) ==
    /\ error = "none"
    /\ rcv.str[s].stop
    /\ net' = net \cup {Stop(s)}
    /\ rcv' = [rcv EXCEPT !.str[s].stop = FALSE]
    /\ UNCHANGED <<snd, arrived, error, nlost, nshut, forgone>>

----------------------------------------------------------------------------
(* Acknowledgement and loss                                                *)

(* SendBuf::is_complete: a stream that was reset counts as acknowledged.   *)
SendComplete(s, st) ==
    \/ st.shut \/ st.stopped
    \/ st.acked = 0 .. StreamLen[s] - 1

(* recv_single once a packet is acknowledged: a complete stream is         *)
(* collected.                                                              *)
Acked(f) ==
    /\ error = "none" /\ f \in arrived
    /\ arrived' = arrived \ {f}
    /\ LET st == IF f.type = "stream" THEN [snd.str[f.s] EXCEPT !.acked = @ \cup {f.u}]
                 ELSE snd.str[f.s]
       IN  snd' = IF f.type \in {"stream", "reset"} /\ st.state = "open"
                  THEN [snd EXCEPT !.str[f.s] =
                          IF SendComplete(f.s, st) THEN [st EXCEPT !.state = "collected"] ELSE st]
                  ELSE snd
    /\ UNCHANGED <<rcv, net, error, nlost, nshut, forgone>>

(* send_single for the frames of lost packets: data of a live stream is    *)
(* sent again, a RESET_STREAM if its stream still exists, MAX_DATA with    *)
(* its current value; STOP_SENDING and MAX_STREAMS are not.                *)
Requeue(f) ==
    CASE f.type = "stream" ->
            /\ snd' = IF snd.str[f.s].state = "open" /\ ~snd.str[f.s].shut
                         /\ ~snd.str[f.s].stopped /\ f.u \notin snd.str[f.s].acked
                      THEN [snd EXCEPT !.str[f.s].pending = @ \cup {f.u}] ELSE snd
            /\ UNCHANGED rcv
      [] f.type = "reset" ->
            /\ snd' = IF snd.str[f.s].state = "open"
                      THEN [snd EXCEPT !.str[f.s].reset = f.u] ELSE snd
            /\ UNCHANGED rcv
      [] f.type = "max_data" -> rcv' = [rcv EXCEPT !.almost_full = TRUE] /\ UNCHANGED snd
      [] OTHER -> UNCHANGED <<snd, rcv>>

(* A packet is declared lost: it never arrives, comes late, or did arrive. *)
Lost(f) ==
    /\ error = "none" /\ nlost < MaxLost
    /\ nlost' = nlost + 1
    /\ arrived' = arrived \ {f}
    /\ net' \in {net, net \ {f}}
    /\ Requeue(f)
    /\ forgone' = forgone \cup ({f.type} \cap {"max_data", "max_streams"})
    /\ UNCHANGED <<error, nshut>>

----------------------------------------------------------------------------
Next ==
    \/ \E s \in Streams : StreamSend(s)
    \/ \E s \in Streams : StreamShutdownWrite(s)
    \/ \E s \in Streams : SendStream(s)
    \/ \E s \in Streams : SendReset(s)
    \/ \E f \in net : RecvStopSending(f)
    \/ \E f \in net : RecvMaxData(f)
    \/ \E f \in net : RecvMaxStreams(f)
    \/ \E f \in net : RecvStream(f)
    \/ \E f \in net : RecvReset(f)
    \/ \E s \in Streams : StreamRecv(s)
    \/ \E s \in Streams : StreamShutdownRead(s)
    \/ SendMaxStreams
    \/ SendMaxData
    \/ \E s \in Streams : SendStopSending(s)
    \/ \E f \in arrived : Acked(f)
    \/ \E f \in net \cup arrived : Lost(f)

(* The ends keep sending what is queued, packets that are not lost arrive, *)
(* and the applications read and write whenever they can; nobody has to    *)
(* shut a stream down.                                                     *)
Fairness ==
    /\ \A s \in Streams : WF_vars(StreamSend(s)) /\ WF_vars(SendStream(s))
                          /\ WF_vars(StreamRecv(s))
    /\ WF_vars(SendMaxStreams) /\ WF_vars(SendMaxData)
    /\ WF_vars(\E f \in net : RecvStream(f))
    /\ WF_vars(\E f \in net : RecvMaxData(f))
    /\ WF_vars(\E f \in net : RecvMaxStreams(f))

Spec == Init /\ [][Next]_vars /\ Fairness

----------------------------------------------------------------------------
(* Two ends that follow this code never close the connection over a limit  *)
(* or a final size, whatever is lost, reordered, reset or stopped.         *)
NoConnectionError == error = "none"

(* The units counted by f, and their number: the sum of all f[s]           *)
Units(f) == UNION {{s} \X (1 .. f[s]) : s \in DOMAIN f}
Total(f) == Cardinality(Units(f))

(* Units of a stream that were charged and are not read                    *)
Unread(st) == st.lost + (IF st.drain \/ st.err THEN 0 ELSE st.len - st.off)

(* Every byte charged to the reader's connection window was read by the    *)
(* application, waits in an open stream, or was dropped unread when its    *)
(* stream was reset or shut down: no byte is counted twice or forgotten.   *)
CreditAccounted ==
    /\ \A s \in Streams : Unread(rcv.str[s]) >= 0
    /\ rcv.rx_data - rcv.consumed = Total([s \in Streams |-> Unread(rcv.str[s])])

(* However credit is given back, and in whatever order streams appear, the *)
(* reader never holds more open streams than it allowed at once.           *)
LiveWithinLimit == Cardinality(Open(rcv)) <= InitMaxStreams

(* Unless a stream is shut down or a credit frame is lost, every stream is *)
(* opened, written, delivered, read to its end and collected: the window   *)
(* and the stream limit always open again, whatever data is lost.          *)
Delivered == <>(nshut > 0 \/ forgone # {} \/ Collected(rcv) = Streams)

(* The same when MAX_DATA frames may be lost: the loss sets almost_full,   *)
(* "Whether we send MAX_DATA frame", so a new one takes its place.         *)
LimitResent ==
    <>(nshut > 0 \/ "max_streams" \in forgone \/ Collected(rcv) = Streams)
============================================================================
