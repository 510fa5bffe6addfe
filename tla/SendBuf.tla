------------------------------ MODULE SendBuf ------------------------------
(***************************************************************************)
(* The send half of one QUIC stream: quiche/src/stream/send_buf.rs with    *)
(* the code of lib.rs that drives it: stream_do_send, the STREAM and       *)
(* RESET_STREAM parts of send_single, the handlers of acked and of lost    *)
(* frames, of MAX_STREAM_DATA and STOP_SENDING, stream_shutdown(Write),    *)
(* and the collection of complete streams.                                 *)
(*                                                                         *)
(* A buffer is [off, cur, end]: it holds the bytes off .. end-1, of which  *)
(* cur .. end-1 are to be sent (RangeBuf's off, off() and max_off()).      *)
(* Payload, the sets of writable and blocked streams, and the connection's *)
(* send capacity (which only shortens a write) are left out.               *)
(***************************************************************************)
EXTENDS Integers, Sequences, FiniteSets

CONSTANTS
    MaxOff,         \* bound: offsets the application and the peer may reach
    InitMaxData,    \* the peer's initial_max_stream_data
    MaxFlight,      \* bound: STREAM frames in flight at a time
    MaxLost,        \* bound: frames in lost_frames at a time
    SendBufferSize, \* SEND_BUFFER_SIZE: write splits its input at this size
    WideHeader      \* the stream's frame header can exceed MAX_STREAM_OVERHEAD

ASSUME SizeAssumption ==
    /\ MaxOff \in Nat /\ MaxFlight \in Nat /\ InitMaxData \in 0 .. MaxOff
    /\ SendBufferSize \in Nat \ {0} /\ WideHeader \in BOOLEAN

VARIABLES
    data, pos, off, emit_off, len, max_data, fin_off, acked,   \* SendBuf
    acked0,       \* acked holds the empty range 0..0
    error,        \* STOP_SENDING was received
    shutdown,     \* stream_shutdown(Write) was called
    flushable,    \* the stream is linked in StreamMap::flushable
    reset,        \* the entry of StreamMap::reset, or NoReset
    recv_fin,     \* the receive half is finished (always, if unidirectional)
    collected,    \* StreamMap::collect removed the stream
    inflight,     \* number of copies of each STREAM frame in flight
    lost,         \* STREAM frames in Recovery's lost_frames
    rflight,      \* RESET_STREAM frames in flight
    delivered,    \* history: offsets the peer acked
    finals        \* history: final sizes told to the peer

bufVars == <<data, pos, off, emit_off, len, max_data, fin_off, acked, acked0,
             error, shutdown>>
netVars == <<inflight, lost, rflight, delivered, finals>>
vars == <<bufVars, flushable, reset, recv_fin, collected, netVars>>

None == -1
NoReset == [code |-> "none", size |-> None]
Offsets == 0 .. MaxOff - 1
Frames == {f \in [off : 0 .. MaxOff, end : 0 .. MaxOff, fin : BOOLEAN] : f.off <= f.end}
Bytes(o, e) == {i \in Offsets : o <= i /\ i < e}
Flying == {f \in Frames : inflight[f] > 0}
FlightSize == Cardinality(UNION {{f} \X (1 .. inflight[f]) : f \in Flying})
SetMin(S) == CHOOSE x \in S : \A y \in S : x <= y
Lower(a, b) == IF a < b THEN a ELSE b
Higher(a, b) == IF a < b THEN b ELSE a

----------------------------------------------------------------------------
(* Observers                                                               *)

(* The bytes to be sent of the buffers from index p on.                    *)
Unsent(d, p) == UNION {Bytes(d[i].cur, d[i].end) : i \in p .. Len(d)}
Pending == Unsent(data, pos)

(* SendBuf::off_front; the lowest offset that is not acked: ack_off        *)
OffFrontOf(d, p, o) == IF Unsent(d, p) = {} THEN o ELSE SetMin(Unsent(d, p))
OffFront == OffFrontOf(data, pos, off)
AckOffOf(a) == SetMin({i \in 0 .. MaxOff : i \notin a})
AckOff == AckOffOf(acked)

(* Faulty variant: the end of the acked ranges stands for all of them.     *)
IsCompleteByLastRange ==
    fin_off # None /\ (fin_off = 0 \/ fin_off - 1 \in acked)

(* SendBuf::is_complete: acked is the single range 0..fin_off.             *)
IsComplete ==
    /\ fin_off # None
    /\ acked = Bytes(0, fin_off)
    /\ fin_off = 0 => acked0

(* Stream::is_flushable                                                    *)
IsFlushableOf(d, p, o, m) ==
    d # <<>> /\ OffFrontOf(d, p, o) < o /\ OffFrontOf(d, p, o) < m
IsFlushable == IsFlushableOf(data, pos, off, max_data)

WasReset == error \/ shutdown

Init ==
    /\ data = <<>> /\ pos = 1 /\ off = 0 /\ emit_off = 0 /\ len = 0
    /\ max_data = InitMaxData /\ fin_off = None
    /\ acked = {} /\ acked0 = FALSE
    /\ error = FALSE /\ shutdown = FALSE
    /\ flushable = FALSE /\ reset = NoReset
    /\ recv_fin \in BOOLEAN /\ collected = FALSE
    /\ inflight = [f \in Frames |-> 0] /\ lost = {} /\ rflight = {}
    /\ delivered = {} /\ finals = {}

(* Faulty variant: the test for "already queued" is inverted.              *)
QueuedInverted(again) == flushable \/ (again /\ IsFlushable)

(* StreamMap::insert_flushable, guarded as in every caller.                *)
Queued(again) == flushable \/ (again /\ ~IsFlushable)

----------------------------------------------------------------------------
(* stream_do_send with SendBuf::write (pieces of SendBufferSize bytes) or  *)
(* SendBuf::append_buf (one buffer, n bytes of the caller's)               *)

(* reserve_for_write: what fits, and whether it is the end of the stream.  *)
Reserved(n, fin) ==
    IF n > max_data - off
    THEN [len |-> max_data - off, fin |-> FALSE]
    ELSE [len |-> n, fin |-> fin]

WriteErr(n, fin) ==
    \/ error
    \/ fin_off # None /\ off + n > fin_off
    \/ fin_off # None /\ off + n = fin_off /\ ~fin

(* n bytes at offset off, cut into buffers of size bytes.                  *)
Cut(n, size) ==
    [i \in 1 .. (n + size - 1) \div size |->
        [off |-> off + (i - 1) * size, cur |-> off + (i - 1) * size,
         end |-> off + Lower(i * size, n)]]

StreamSend(n, fin, size) ==
    LET r == Reserved(n, fin)
        k == IF AckOff >= off + n THEN 0 ELSE r.len
    IN  /\ ~collected
        /\ ~WriteErr(n, r.fin)
        /\ off + n <= MaxOff
        /\ fin_off' = IF r.fin THEN off + n ELSE fin_off
        /\ data' = data \o Cut(k, size)
        /\ off' = off + k
        /\ len' = len + k
        /\ flushable' = Queued(IsFlushableOf(data', pos, off', max_data)
                               \/ (n = 0 /\ fin))
        /\ UNCHANGED <<pos, emit_off, max_data, acked, acked0, error, shutdown,
                       reset, recv_fin, collected, netVars>>

----------------------------------------------------------------------------
(* send_single, and what the packets it builds carry                       *)

(* SendBuf::emit into n bytes: from the lowest byte to be sent, as many    *)
(* consecutive ones as fit.                                                *)
EmitEnd(n) ==
    LET o == OffFront
    IN  CHOOSE e \in o .. Lower(o + n, off) :
            /\ Bytes(o, e) \subseteq Pending
            /\ e = Lower(o + n, off) \/ e \notin Pending

(* Faulty variant: a buffer sent in part counts as sent.                   *)
EmitPosSkippingPartial(o, e) ==
    IF o = e THEN pos
    ELSE LET last == CHOOSE i \in pos .. Len(data) :
                         data[i].off < e /\ e <= data[i].end
         IN  last + 1

(* pos ends on the buffer sent in part, or after the last one sent.        *)
EmitPos(o, e) ==
    IF o = e THEN pos
    ELSE LET last == CHOOSE i \in pos .. Len(data) :
                         data[i].off < e /\ e <= data[i].end
         IN  IF e = data[last].end THEN last + 1 ELSE last

(* One STREAM frame for the stream at the front of the queue.              *)
StreamFrame(n) ==
    LET o == OffFront
        e == EmitEnd(n)
        f == [off |-> o, end |-> e, fin |-> fin_off = e]
    IN  /\ ~collected /\ lost = {} /\ flushable /\ ~error
        /\ FlightSize < MaxFlight
        /\ data' = [i \in 1 .. Len(data) |->
                       IF pos <= i /\ data[i].cur < e
                       THEN [data[i] EXCEPT !.cur = Lower(data[i].end, e)]
                       ELSE data[i]]
        /\ pos' = EmitPos(o, e)
        /\ len' = len - (e - o)
        /\ emit_off' = Higher(emit_off, e)
        /\ inflight' = [inflight EXCEPT ![f] = @ + 1]
        /\ finals' = IF f.fin THEN finals \cup {e} ELSE finals
        /\ flushable' = IsFlushableOf(data', pos', off, max_data)
        /\ UNCHANGED <<off, max_data, fin_off, acked, acked0, error, shutdown,
                       reset, recv_fin, collected, lost, rflight, delivered>>

(* The stream leaves the queue without a frame: it was stopped, or the     *)
(* room left in the packet is over MAX_STREAM_OVERHEAD and under its header.*)
SkipStream ==
    /\ ~collected /\ lost = {} /\ flushable
    /\ error \/ WideHeader
    /\ flushable' = FALSE
    /\ UNCHANGED <<bufVars, reset, recv_fin, collected, netVars>>

ResetFrame ==
    /\ reset # NoReset
    /\ rflight' = rflight \cup {reset}
    /\ finals' = finals \cup {reset.size}
    /\ reset' = NoReset
    /\ UNCHANGED <<bufVars, flushable, recv_fin, collected, inflight, lost, delivered>>

----------------------------------------------------------------------------
(* Acks                                                                    *)

(* StreamMap::collect; the entry of StreamMap::reset stays.                *)
Collect ==
    /\ collected' = TRUE
    /\ flushable' = FALSE

(* Faulty variant: buffers up to the end of the acked frame are dropped.   *)
DroppedUpToFrame(f, a) ==
    Cardinality({i \in 1 .. Len(data) : data[i].end <= f.end})

(* ack_and_drop: the leading buffers that are acked as a whole.            *)
Dropped(f, a) ==
    IF f.off > AckOffOf(a) THEN 0
    ELSE Cardinality({i \in 1 .. Len(data) :
                         data[i].off < AckOffOf(a) /\ data[i].end <= AckOffOf(a)})

(* A buffer may be acked while it waits to be sent again: pos saturates.   *)
PosAfterDrop(dropped) == Higher(1, pos - dropped)

AckFrame(f) ==
    /\ inflight[f] > 0
    /\ inflight' = [inflight EXCEPT ![f] = @ - 1]
    /\ delivered' = delivered \cup Bytes(f.off, f.end)
    /\ UNCHANGED <<lost, rflight, finals>>

(* The stream is found: SendBuf::ack_and_drop, then collection.            *)
AckStream(f) ==
    /\ ~collected
    /\ AckFrame(f)
    /\ acked' = acked \cup Bytes(f.off, f.end)
    /\ acked0' = (acked0 \/ f.off = 0)
    /\ data' = SubSeq(data, Dropped(f, acked') + 1, Len(data))
    /\ pos' = PosAfterDrop(Dropped(f, acked'))
    /\ UNCHANGED <<off, emit_off, len, max_data, fin_off, error, shutdown, reset, recv_fin>>
    /\ IF IsComplete' /\ recv_fin THEN Collect ELSE UNCHANGED <<collected, flushable>>

(* The stream is gone: nothing happens.                                    *)
AckCollected(f) ==
    /\ collected
    /\ AckFrame(f)
    /\ UNCHANGED <<bufVars, flushable, reset, recv_fin, collected>>

AckReset(r) ==
    /\ r \in rflight
    /\ rflight' = rflight \ {r}
    /\ IF ~collected /\ IsComplete /\ recv_fin
       THEN Collect ELSE UNCHANGED <<collected, flushable>>
    /\ UNCHANGED <<bufVars, reset, recv_fin, inflight, lost, delivered, finals>>

(* stream_recv hands the application the end of the receive half.          *)
RecvFin ==
    /\ ~collected /\ ~recv_fin
    /\ recv_fin' = TRUE
    /\ IF IsComplete THEN Collect ELSE UNCHANGED <<collected, flushable>>
    /\ UNCHANGED <<bufVars, reset, netVars>>

----------------------------------------------------------------------------
(* Losses: Recovery moves the frames of a lost packet to lost_frames, and  *)
(* copies there the frames of a packet it probes for; send_single handles  *)
(* them before it builds a packet.                                         *)

DeclareLost(f) ==
    /\ inflight[f] > 0 /\ Cardinality(lost \cup {f}) <= MaxLost
    /\ inflight' = [inflight EXCEPT ![f] = @ - 1]
    /\ lost' = lost \cup {f}
    /\ UNCHANGED <<bufVars, flushable, reset, recv_fin, collected, rflight, delivered,
                   finals>>

Probe(f) ==
    /\ inflight[f] > 0 /\ Cardinality(lost \cup {f}) <= MaxLost
    /\ lost' = lost \cup {f}
    /\ UNCHANGED <<bufVars, flushable, reset, recv_fin, collected, inflight, rflight,
                   delivered, finals>>

(* Faulty variant: the buffer's position never moves back.                 *)
RewoundNever(b, f) == [b EXCEPT !.cur = Higher(b.cur, f.off)]

(* retransmit, one buffer: to be sent again from the frame's offset on.    *)
Rewound(b, f) ==
    [b EXCEPT !.cur = IF f.off > b.off THEN Lower(b.cur, f.off) ELSE b.off]

(* The buffers the loop of retransmit reaches.                             *)
Reached(b, f) == b.off < f.end /\ f.off <= b.end
SplitAt(f) == {i \in 1 .. Len(data) : Reached(data[i], f) /\ f.end < data[i].end}

(* split_off                                                               *)
HeadUpTo(b, e) == [b EXCEPT !.end = e, !.cur = Lower(b.cur, e)]
TailFrom(b, e) == [b EXCEPT !.off = e, !.cur = Higher(b.cur, e)]

Retransmitted(f) ==
    LET again == [i \in 1 .. Len(data) |->
                     IF Reached(data[i], f) THEN Rewound(data[i], f) ELSE data[i]]
    IN  IF SplitAt(f) = {} THEN again
        ELSE LET i == SetMin(SplitAt(f))
             IN  SubSeq(again, 1, i - 1)
                 \o <<Rewound(HeadUpTo(data[i], f.end), f), TailFrom(data[i], f.end)>>
                 \o SubSeq(data, i + 1, Len(data))

(* len grows by the bytes that are to be sent again.                       *)
LenAfter(d) == len + Cardinality(Unsent(d, 1) \ Unsent(data, 1))

(* The handler of a lost STREAM frame, with SendBuf::retransmit.           *)
HandleLost(f) ==
    LET noop == data = <<>> \/ f.end <= AckOff
        reached == {i \in 1 .. Len(data) : Reached(data[i], f)}
    IN  /\ f \in lost
        /\ lost' = lost \ {f}
        /\ IF collected THEN UNCHANGED <<data, pos, len, flushable>>
           ELSE /\ data' = IF noop THEN data ELSE Retransmitted(f)
                /\ pos' = IF noop \/ reached = {} THEN pos
                          ELSE Lower(pos, SetMin(reached))
                /\ len' = LenAfter(data')
                /\ flushable' = Queued(IsFlushableOf(data', pos', off, max_data)
                                       \/ (f.off = f.end /\ f.fin))
        /\ UNCHANGED <<off, emit_off, max_data, fin_off, acked, acked0, error,
                       shutdown, reset, recv_fin, collected, inflight, rflight,
                       delivered, finals>>

LostReset(r) ==
    /\ r \in rflight
    /\ rflight' = rflight \ {r}
    /\ reset' = IF collected THEN reset ELSE r
    /\ UNCHANGED <<bufVars, flushable, recv_fin, collected, inflight, lost, delivered,
                   finals>>

----------------------------------------------------------------------------
(* Limits and resets                                                       *)

MaxStreamData(m) ==
    /\ ~collected
    /\ m > max_data
    /\ max_data' = m
    /\ flushable' = Queued(IsFlushableOf(data, pos, off, m))
    /\ UNCHANGED <<data, pos, off, emit_off, len, fin_off, acked, acked0, error,
                   shutdown, reset, recv_fin, collected, netVars>>

(* SendBuf::reset, and insert_reset with the final size it returns.        *)
ResetBuf(code) ==
    LET unsent_off == Higher(OffFront, emit_off)
    IN  /\ fin_off' = unsent_off
        /\ off' = unsent_off
        /\ data' = <<>> /\ pos' = 1 /\ len' = 0
        /\ acked' = acked \cup Bytes(0, unsent_off)
        /\ acked0' = TRUE
        /\ reset' = [code |-> code, size |-> emit_off]

StopSending ==
    /\ ~collected /\ ~error
    /\ error' = TRUE
    /\ ResetBuf("peer")
    /\ UNCHANGED <<emit_off, max_data, shutdown, flushable, recv_fin, collected, netVars>>

ShutdownWrite ==
    /\ ~collected /\ ~shutdown
    /\ shutdown' = TRUE
    /\ ResetBuf("app")
    /\ UNCHANGED <<emit_off, max_data, error, flushable, recv_fin, collected, netVars>>

Next ==
    \/ \E n \in 0 .. MaxOff, fin \in BOOLEAN :
           StreamSend(n, fin, SendBufferSize) \/ (n > SendBufferSize /\ StreamSend(n, fin, n))
    \/ \E n \in (IF WideHeader THEN 0 ELSE 1) .. MaxOff : StreamFrame(n)
    \/ SkipStream
    \/ ResetFrame
    \/ \E f \in Flying :
           AckStream(f) \/ AckCollected(f) \/ DeclareLost(f) \/ Probe(f)
    \/ \E f \in lost : HandleLost(f)
    \/ \E r \in rflight : AckReset(r) \/ LostReset(r)
    \/ RecvFin
    \/ \E m \in 0 .. MaxOff : MaxStreamData(m)
    \/ StopSending
    \/ ShutdownWrite

Spec == Init /\ [][Next]_vars

(* What the callers provide: send() is called whenever there is something  *)
(* to send, and handles the lost frames first; every packet in flight is   *)
(* acked or declared lost; and the network does not lose for ever every    *)
(* frame that would make progress.                                         *)
Fairness ==
    /\ SF_vars(\E n \in 1 .. MaxOff : StreamFrame(n))
    /\ WF_vars(\E f \in lost : HandleLost(f))
    /\ WF_vars(\E f \in Flying : AckStream(f) \/ DeclareLost(f))
    /\ SF_vars(\E f \in Flying : AckStream(f) /\ delivered' # delivered)

FairSpec == Spec /\ Fairness

----------------------------------------------------------------------------
(* Properties                                                              *)

Buffers == [off : 0 .. MaxOff, cur : 0 .. MaxOff, end : 0 .. MaxOff]

(* Type invariant: pos, an index that ack_and_drop and retransmit move     *)
(* back, always names a buffer or the end of the queue.                    *)
TypeOK ==
    /\ data \in Seq(Buffers) /\ pos \in 1 .. Len(data) + 1
    /\ off \in 0 .. MaxOff /\ emit_off \in 0 .. MaxOff /\ len \in Nat
    /\ max_data \in 0 .. MaxOff /\ fin_off \in 0 .. MaxOff \cup {None}
    /\ acked \subseteq Offsets /\ delivered \subseteq Offsets
    /\ {acked0, error, shutdown, flushable, recv_fin, collected} \subseteq BOOLEAN
    /\ reset \in [code : {"none", "app", "peer"}, size : 0 .. MaxOff \cup {None}]
    /\ inflight \in [Frames -> 0 .. MaxFlight] /\ lost \subseteq Frames
    /\ finals \subseteq 0 .. MaxOff

(* SendBuf keeps the ledger's promises: no byte is forgotten by pos, by a  *)
(* split, by a dropped buffer or by a retransmission of acked data; and    *)
(* one final size is told to the peer.                                     *)
Ledger == INSTANCE SendQueue WITH pend <- Pending, sent <- emit_off, closed <- WasReset
LedgerSpec == Ledger!Spec

(* The chunks lie end to end up to off, and cover what is not acked.       *)
Contiguous ==
    /\ \A i \in 1 .. Len(data) :
           data[i].off <= data[i].cur /\ data[i].cur <= data[i].end
    /\ \A i \in 1 .. Len(data) - 1 : data[i].end = data[i + 1].off
    /\ data # <<>> => data[Len(data)].end = off
    /\ \A i \in Bytes(0, off) \ acked :
           \E k \in 1 .. Len(data) : i \in Bytes(data[k].off, data[k].end)

(* `self.len -= buf_len` in emit cannot underflow: len counts at least the *)
(* bytes to be sent, although ack_and_drop never lowers it.                *)
LenCovers == len >= Cardinality(Pending)

(* A stream that has something to send is in the flushable queue, as the   *)
(* comment at every insert_flushable takes for granted ("only if it wasn't *)
(* already queued"): otherwise it would never be sent again.               *)
QueuedIfFlushable == IsFlushable /\ ~error /\ ~collected => flushable

(* The state of a stream is discarded only when the peer has acked every   *)
(* byte of it, or the stream was reset.                                    *)
CollectedDelivered ==
    collected => WasReset \/ (fin_off # None /\ Bytes(0, fin_off) \subseteq delivered)

(* Every byte written is acked in the end, unless the stream is reset.     *)
AllDelivered ==
    \A i \in Offsets : (i < off) ~> (i \in delivered \/ WasReset)

(* Violated.  stream_send documents that a 0-length buffer with fin "will  *)
(* lead to a 0-length FIN STREAM frame being sent": a stream must not be   *)
(* discarded before its FIN was sent.                                      *)
FinSentBeforeCollected == collected => WasReset \/ finals # {}
============================================================================
