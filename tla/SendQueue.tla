----------------------------- MODULE SendQueue -----------------------------
(***************************************************************************)
(* What the send half of a stream promises, without its data structures:   *)
(* a ledger that keeps every byte the application wrote in the hands of    *)
(* somebody (to be sent, in flight, declared lost) until it is acked, and  *)
(* that commits to one final size.                                         *)
(*                                                                         *)
(* SendBuf.tla, the model of send_buf.rs and of its callers in lib.rs,     *)
(* implements this specification.                                          *)
(***************************************************************************)
EXTENDS Integers, FiniteSets

CONSTANTS
    MaxOff,       \* bound: offsets the application and the peer may reach
    InitMaxData,  \* the peer's initial_max_stream_data
    MaxFlight,    \* bound: STREAM frames in flight at a time
    MaxLost       \* bound: frames waiting to be retransmitted at a time

ASSUME BoundAssumption == MaxOff \in Nat
ASSUME InitAssumption == InitMaxData \in 0 .. MaxOff

VARIABLES
    off,       \* bytes the application has written
    max_data,  \* the peer's flow control limit
    fin_off,   \* the final size, or None
    sent,      \* largest offset put on the wire
    acked,     \* offsets that need no retransmission
    pend,      \* offsets waiting to be sent or sent again
    inflight,  \* number of copies of each STREAM frame in flight
    lost,      \* frames whose retransmission has been asked for
    closed,    \* the stream was reset by either side
    finals     \* history: final sizes told to the peer, by FIN or RESET_STREAM

vars == <<off, max_data, fin_off, sent, acked, pend, inflight, lost, closed,
          finals>>

None == -1
Offsets == 0 .. MaxOff - 1
Frames == {f \in [off : 0 .. MaxOff, end : 0 .. MaxOff, fin : BOOLEAN] : f.off <= f.end}
Bytes(o, e) == {i \in Offsets : o <= i /\ i < e}
Flying == {f \in Frames : inflight[f] > 0}
FlightSize == Cardinality(UNION {{f} \X (1 .. inflight[f]) : f \in Flying})

Init ==
    /\ off = 0 /\ max_data = InitMaxData /\ fin_off = None /\ sent = 0
    /\ acked = {} /\ pend = {}
    /\ inflight = [f \in Frames |-> 0] /\ lost = {}
    /\ closed = FALSE /\ finals = {}

(* Faulty variant: a stream is reopened after its end.                     *)
WriteAfterFin(n, fin) ==
    /\ off + n <= max_data
    /\ off' = off + n
    /\ pend' = pend \cup Bytes(off, off + n)
    /\ fin_off' = IF fin THEN off + n ELSE fin_off
    /\ UNCHANGED <<max_data, sent, acked, inflight, lost, closed, finals>>

(* The application appends n bytes, and may fix the final size after them. *)
Write(n, fin) ==
    /\ off + n <= max_data
    /\ fin_off = None \/ (n = 0 /\ fin)
    /\ off' = off + n
    /\ pend' = pend \cup Bytes(off, off + n)
    /\ fin_off' = IF fin THEN off + n ELSE fin_off
    /\ UNCHANGED <<max_data, sent, acked, inflight, lost, closed, finals>>

MaxStreamData(m) ==
    /\ m > max_data
    /\ max_data' = m
    /\ UNCHANGED <<off, fin_off, sent, acked, pend, inflight, lost, closed, finals>>

(* A frame o .. e-1 leaves: it takes the lowest bytes that are waiting, and *)
(* carries FIN when it ends at the final size.                             *)
Emit(o, e) ==
    LET f == [off |-> o, end |-> e, fin |-> fin_off = e]
    IN  /\ o <= e /\ Bytes(o, e) \subseteq pend
        /\ FlightSize < MaxFlight
        /\ \/ o \in pend
           \/ pend = {} /\ o = off
        /\ \A i \in pend : o <= i
        /\ pend' = pend \ Bytes(o, e)
        /\ sent' = IF sent < e THEN e ELSE sent
        /\ inflight' = [inflight EXCEPT ![f] = @ + 1]
        /\ finals' = IF fin_off = e THEN finals \cup {e} ELSE finals
        /\ UNCHANGED <<off, max_data, fin_off, acked, lost, closed>>

(* An ACK covers one copy of f.  Acked bytes may be withdrawn from the     *)
(* bytes waiting to be sent again.                                         *)
Ack(f) ==
    /\ inflight[f] > 0
    /\ inflight' = [inflight EXCEPT ![f] = @ - 1]
    /\ acked' = acked \cup Bytes(f.off, f.end)
    /\ pend' \in SUBSET pend /\ pend \ acked' \subseteq pend'
    /\ UNCHANGED <<off, max_data, fin_off, sent, lost, closed, finals>>

(* Faulty variant: a frame given up on is not handed back.                 *)
DeclareLostForgetting(f) ==
    /\ inflight[f] > 0
    /\ inflight' = [inflight EXCEPT ![f] = @ - 1]
    /\ UNCHANGED <<off, max_data, fin_off, sent, acked, pend, lost, closed, finals>>

(* Loss detection gives up on one copy of f; a probe timeout asks for f    *)
(* again while it stays in flight.                                         *)
DeclareLost(f) ==
    /\ inflight[f] > 0 /\ Cardinality(lost \cup {f}) <= MaxLost
    /\ inflight' = [inflight EXCEPT ![f] = @ - 1]
    /\ lost' = lost \cup {f}
    /\ UNCHANGED <<off, max_data, fin_off, sent, acked, pend, closed, finals>>

Probe(f) ==
    /\ inflight[f] > 0 /\ Cardinality(lost \cup {f}) <= MaxLost
    /\ lost' = lost \cup {f}
    /\ UNCHANGED <<off, max_data, fin_off, sent, acked, pend, inflight, closed,
                   finals>>

(* The bytes of a lost frame wait again, except those acked by then.       *)
Retransmit(f) ==
    /\ f \in lost
    /\ lost' = lost \ {f}
    /\ pend' \in SUBSET (pend \cup Bytes(f.off, f.end))
    /\ pend \cup (Bytes(f.off, f.end) \ acked) \subseteq pend'
    /\ UNCHANGED <<off, max_data, fin_off, sent, acked, inflight, closed, finals>>

(* Either side resets the stream: what was not sent never will be.         *)
Reset ==
    /\ closed' = TRUE
    /\ off' = sent /\ fin_off' = sent
    /\ acked' = acked \cup Bytes(0, sent)
    /\ pend' = {}
    /\ UNCHANGED <<max_data, sent, inflight, lost, finals>>

SendReset ==
    /\ closed
    /\ finals' = finals \cup {fin_off}
    /\ UNCHANGED <<off, max_data, fin_off, sent, acked, pend, inflight, lost, closed>>

Next ==
    \/ \E n \in 0 .. MaxOff, fin \in BOOLEAN : Write(n, fin)
    \/ \E m \in 0 .. MaxOff : MaxStreamData(m)
    \/ \E o, e \in 0 .. MaxOff : Emit(o, e)
    \/ \E f \in Frames : Ack(f) \/ DeclareLost(f) \/ Probe(f) \/ Retransmit(f)
    \/ Reset
    \/ SendReset

Spec == Init /\ [][Next]_vars

----------------------------------------------------------------------------
(* Properties                                                              *)

(* Type invariant: offsets stay within the bound, and no frame is acked or *)
(* lost more often than it was sent.                                       *)
TypeOK ==
    /\ off \in 0 .. MaxOff /\ max_data \in 0 .. MaxOff /\ sent \in 0 .. MaxOff
    /\ fin_off \in 0 .. MaxOff \cup {None}
    /\ acked \subseteq Offsets /\ pend \subseteq Offsets
    /\ inflight \in [Frames -> Nat] /\ lost \subseteq Frames
    /\ closed \in BOOLEAN /\ finals \subseteq 0 .. MaxOff

InFlight(i) == \E f \in Frames : inflight[f] > 0 /\ i \in Bytes(f.off, f.end)
BeingLost(i) == \E f \in lost : i \in Bytes(f.off, f.end)

(* No byte the application wrote is ever forgotten: until it is acked (or  *)
(* the stream is reset) it waits to be sent, is in flight, or has been     *)
(* handed back by loss detection.  Spurious losses, probes of frames that   *)
(* are acked later and overlapping retransmissions do not break this.       *)
NothingForgotten ==
    \A i \in Bytes(0, off) :
        i \in acked \/ i \in pend \/ InFlight(i) \/ BeingLost(i)

(* The sender respects the peer's limit, and only bytes that have been on   *)
(* the wire are ever taken for delivered.                                   *)
WithinLimits ==
    /\ sent <= off /\ off <= max_data
    /\ \A i \in acked : i < sent
    /\ \A f \in Frames : inflight[f] > 0 \/ f \in lost => f.end <= sent

(* The peer is told one final size, whether by FIN, by RESET_STREAM or by   *)
(* both, and no byte beyond it is ever sent.                                *)
OneFinalSize == \A s \in finals : s = fin_off /\ sent = s

(* Once told, the final size is never taken back.                           *)
FinalSizeKept == [][finals \subseteq finals' /\ (finals # {} => fin_off' = fin_off)]_vars

(* The parts of the inductive invariant beyond the properties.             *)
PendInv ==
    /\ \A i \in pend : i < off
    /\ \A i \in Offsets : sent <= i /\ i < off => i \in pend
FinInv ==
    /\ fin_off # None => fin_off = off
    /\ closed => fin_off = sent
    /\ finals # {} => fin_off # None

IInv == TypeOK /\ NothingForgotten /\ WithinLimits /\ OneFinalSize /\ PendInv
        /\ FinInv
============================================================================
