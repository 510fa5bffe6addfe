------------------------------ MODULE RecvBuf ------------------------------
(***************************************************************************)
(* The receive half of one QUIC stream: quiche/src/stream/recv_buf.rs with *)
(* the stream-level flow controller (flowcontrol.rs) it owns, and the three *)
(* places of lib.rs that arm, send and re-arm MAX_STREAM_DATA for it.      *)
(*                                                                         *)
(* RecvBuf::write loops over a queue of fragments (tmp_bufs) and, for each *)
(* fragment, over the stored chunks in key order.  The model takes one     *)
(* step per iteration of those loops; while a loop runs (pc # "idle") no   *)
(* other operation can start, as the buffer is borrowed mutably.           *)
(*                                                                         *)
(* A chunk is the half-open range off .. end-1 and the version of the      *)
(* payload its frame carried: two frames may disagree on a byte.           *)
(***************************************************************************)
EXTENDS Integers, Sequences

CONSTANTS
    MaxOff,         \* bound: no frame reaches beyond this offset
    Vers,           \* payload versions a frame may carry
    NoVer,          \* "no byte yet"
    InitMaxData,    \* initial_max_stream_data of the transport parameters
    DefaultWindow,  \* DEFAULT_STREAM_WINDOW
    MaxWindow       \* max_stream_window of the configuration

ASSUME OffAssumption == MaxOff \in Nat
ASSUME VerAssumption == NoVer \notin Vers
ASSUME WindowAssumption ==
    /\ InitMaxData \in Nat /\ DefaultWindow \in Nat /\ MaxWindow \in Nat
    /\ 2 <= InitMaxData /\ 2 <= DefaultWindow
    /\ InitMaxData <= MaxWindow \/ DefaultWindow <= MaxWindow

VARIABLES
    data,        \* chunks received and not yet read; the map's key is .end
    off,         \* lowest offset not yet read by the application
    len,         \* largest offset received
    fin_off,     \* final size, or None
    error,       \* a RESET_STREAM was processed
    drain,       \* incoming data is validated but not buffered
    consumed, max_data, window, last_update,   \* FlowControl
    almost_full, \* the stream is in StreamMap::almost_full
    msd_sent,    \* a MAX_STREAM_DATA was sent: it may be declared lost
    conn_err,    \* the error that closed the connection, or "none"
    pc,          \* "idle", "pop", "scan", "insert" (write), "emit"
    bufs,        \* write's tmp_bufs
    cur,         \* write's buf
    key,         \* lower bound of the next key of write's inner loop
    cap,         \* emit's remaining output capacity
    nread,       \* emit's len
    first,       \* history: the version of each byte that arrived first
    out,         \* history: the version of each byte the application got
    told         \* history: "fin" and "reset" reports the application got

flowVars == <<consumed, max_data, window, last_update>>
creditVars == <<almost_full, msd_sent>>
writeVars == <<bufs, cur, key>>
emitVars == <<cap, nread>>
vars == <<data, off, len, fin_off, error, drain, flowVars, creditVars,
          conn_err, pc, writeVars, emitVars, first, out, told>>

None == -1
Offsets == 0 .. MaxOff - 1

(* RangeBuf: off(), max_off(), is_empty(), and split_off(at).             *)
Range(o, e, v) == [off |-> o, end |-> e, ver |-> v]
IsEmpty(b) == b.off = b.end
TailFrom(b, o) == [b EXCEPT !.off = o]
HeadUpTo(b, o) == [b EXCEPT !.end = o]
Chunks == [off : 0 .. MaxOff, end : 0 .. MaxOff, ver : Vers \cup {NoVer}]
NoBuf == Range(0, 0, NoVer)

(* BTreeMap::insert: the entry with the same key is replaced.             *)
Inserted(b) == {c \in data : c.end # b.end} \cup {b}

IsFirst(b) == b \in data /\ \A c \in data : b.end <= c.end

(* Faulty variant: any buffered chunk counts as readable.                 *)
ReadyIgnoringGap == data # {}

(* RecvBuf::ready: the first chunk starts at the read offset.             *)
Ready == \E b \in data : IsFirst(b) /\ b.off = off

(* Faulty variant: a known final size counts as read to the end.          *)
IsFinWhenSizeKnown == fin_off # None

(* RecvBuf::is_fin                                                        *)
IsFin == fin_off = off

(* FlowControl::should_update_max_data and RecvBuf::almost_full           *)
ShouldUpdateMaxData(used) == max_data - used < window \div 2
AlmostFull(used) == fin_off = None /\ ShouldUpdateMaxData(used)

Init ==
    /\ data = {} /\ off = 0 /\ len = 0 /\ fin_off = None
    /\ error = FALSE /\ drain = FALSE
    /\ consumed = 0
    /\ max_data = InitMaxData
    /\ window = IF InitMaxData < DefaultWindow THEN InitMaxData ELSE DefaultWindow
    /\ last_update = FALSE
    /\ almost_full = FALSE /\ msd_sent = FALSE
    /\ conn_err = "none"
    /\ pc = "idle"
    /\ bufs = <<>> /\ cur = NoBuf /\ key = 0
    /\ cap = 0 /\ nread = 0
    /\ first = [i \in Offsets |-> NoVer]
    /\ out = [i \in Offsets |-> NoVer]
    /\ told = {}

----------------------------------------------------------------------------
(* RecvBuf::write                                                          *)

(* Faulty variant: data beyond the final size is accepted.                 *)
FinalSizeErrNoBound(b, fin) ==
    \/ fin_off # None /\ fin /\ fin_off # b.end
    \/ fin /\ b.end < len

FlowControlErr(b) == b.end > max_data
FinalSizeErr(b, fin) ==
    \/ fin_off # None /\ b.end > fin_off
    \/ fin_off # None /\ fin /\ fin_off # b.end
    \/ fin /\ b.end < len

(* The early returns with Ok: nothing of the frame has to be stored.       *)
NothingToStore(b, fin) ==
    \/ fin_off # None /\ IsEmpty(b)
    \/ ~fin /\ IsEmpty(b)
    \/ off >= b.end /\ ~IsEmpty(b)

WriteRejected(b, fin) ==
    /\ pc = "idle" /\ conn_err = "none"
    /\ FlowControlErr(b) \/ FinalSizeErr(b, fin)
    /\ conn_err' = IF FlowControlErr(b) THEN "FlowControl" ELSE "FinalSize"
    /\ UNCHANGED <<data, off, len, fin_off, error, drain, flowVars, creditVars,
                   pc, writeVars, emitVars, first, out, told>>

WriteIgnored(b, fin) ==
    /\ pc = "idle" /\ conn_err = "none"
    /\ ~FlowControlErr(b) /\ ~FinalSizeErr(b, fin)
    /\ NothingToStore(b, fin)
    /\ fin_off' = IF fin THEN b.end ELSE fin_off
    /\ UNCHANGED <<data, off, len, error, drain, flowVars, creditVars, conn_err,
                   pc, writeVars, emitVars, first, out, told>>

WriteStart(b, fin) ==
    /\ pc = "idle" /\ conn_err = "none"
    /\ ~FlowControlErr(b) /\ ~FinalSizeErr(b, fin)
    /\ ~NothingToStore(b, fin)
    /\ fin_off' = IF fin THEN b.end ELSE fin_off
    /\ bufs' = <<b>>
    /\ pc' = "pop"
    /\ first' = [i \in Offsets |->
                    IF first[i] = NoVer /\ b.off <= i /\ i < b.end
                    THEN b.ver ELSE first[i]]
    /\ UNCHANGED <<data, off, len, error, drain, flowVars, creditVars, conn_err,
                   cur, key, emitVars, out, told>>

(* Faulty variant: no trimming.                                            *)
Untrimmed(b) == b

(* 'tmp: while let Some(buf): take the next fragment and trim what was     *)
(* already read; a fragment at or above len overlaps nothing.              *)
Trimmed(b) == IF off > b.off THEN TailFrom(b, off) ELSE b

WritePop ==
    /\ pc = "pop" /\ bufs # <<>>
    /\ LET b == Trimmed(Head(bufs)) IN
         /\ cur' = b
         /\ key' = b.off
         /\ pc' = IF b.off < len \/ IsEmpty(b) THEN "scan" ELSE "insert"
    /\ bufs' = Tail(bufs)
    /\ UNCHANGED <<data, off, len, fin_off, error, drain, flowVars, creditVars,
                   conn_err, emitVars, first, out, told>>

WriteDone ==
    /\ pc = "pop" /\ bufs = <<>>
    /\ pc' = "idle"
    /\ cur' = NoBuf /\ key' = 0
    /\ UNCHANGED <<data, off, len, fin_off, error, drain, flowVars, creditVars,
                   conn_err, bufs, emitVars, first, out, told>>

(* Faulty variants: containment off by one; an end overlap only seen when  *)
(* the chunk lies wholly inside the fragment.                              *)
ContainedStrictly(b) == cur.off >= b.off /\ cur.end < b.end
EndCovers(b) == cur.off < b.off /\ cur.end > b.end

(* for (_, b) in self.data.range(buf.off()..): one chunk b per step.       *)
Contained(b) == cur.off >= b.off /\ cur.end <= b.end
StartOverlaps(b) == cur.off >= b.off /\ cur.off < b.end
EndOverlaps(b) == cur.off < b.off /\ cur.end > b.off

ScanNext(b) ==
    /\ b.end >= key
    /\ \A c \in data : c.end >= key => b.end <= c.end

ScanChunk(b) ==
    /\ pc = "scan" /\ ScanNext(b)
    /\ \/ /\ b.off > cur.end                       \* past the fragment: break
          /\ pc' = "insert"
          /\ UNCHANGED writeVars
       \/ /\ b.off <= cur.end /\ Contained(b)      \* continue 'tmp
          /\ pc' = "pop"
          /\ UNCHANGED writeVars
       \/ /\ b.off <= cur.end /\ ~Contained(b)
          /\ key' = b.end + 1
          /\ cur' = IF StartOverlaps(b) THEN TailFrom(cur, b.end)
                    ELSE IF EndOverlaps(b) THEN HeadUpTo(cur, b.off) ELSE cur
          /\ bufs' = IF EndOverlaps(b) THEN Append(bufs, TailFrom(cur, b.off))
                                       ELSE bufs
          /\ pc' = pc
    /\ UNCHANGED <<data, off, len, fin_off, error, drain, flowVars, creditVars,
                   conn_err, emitVars, first, out, told>>

ScanEnd ==
    /\ pc = "scan"
    /\ \A c \in data : c.end < key
    /\ pc' = "insert"
    /\ UNCHANGED <<data, off, len, fin_off, error, drain, flowVars, creditVars,
                   conn_err, writeVars, emitVars, first, out, told>>

WriteInsert ==
    /\ pc = "insert"
    /\ len' = IF cur.end > len THEN cur.end ELSE len
    /\ data' = IF drain THEN data ELSE Inserted(cur)
    /\ pc' = "pop"
    /\ UNCHANGED <<off, fin_off, error, drain, flowVars, creditVars, conn_err,
                   writeVars, emitVars, first, out, told>>

----------------------------------------------------------------------------
(* RecvBuf::emit, called by Connection::stream_recv                         *)

EmitReset ==
    /\ pc = "idle" /\ Ready /\ error
    /\ data' = {}
    /\ told' = told \cup {"reset"}
    /\ UNCHANGED <<off, len, fin_off, error, drain, flowVars, creditVars, conn_err,
                   pc, writeVars, emitVars, first, out>>

EmitStart(c) ==
    /\ pc = "idle" /\ Ready /\ ~error
    /\ pc' = "emit"
    /\ cap' = c /\ nread' = 0
    /\ UNCHANGED <<data, off, len, fin_off, error, drain, flowVars, creditVars,
                   conn_err, writeVars, first, out, told>>

(* One turn of emit's loop over the first chunk: n bytes are copied out;   *)
(* a chunk read to its end is removed, a partly read one is consumed and   *)
(* ends the loop because the output is full.                               *)
EmitChunk(b) ==
    /\ pc = "emit" /\ cap > 0 /\ Ready /\ IsFirst(b)
    /\ LET n == IF b.end - b.off < cap THEN b.end - b.off ELSE cap IN
         /\ off' = off + n
         /\ nread' = nread + n
         /\ cap' = cap - n
         /\ data' = IF n < b.end - b.off
                    THEN (data \ {b}) \cup {TailFrom(b, b.off + n)}
                    ELSE data \ {b}
         /\ out' = [i \in Offsets |->
                      IF off <= i /\ i < off + n THEN b.ver ELSE out[i]]
    /\ UNCHANGED <<len, fin_off, error, drain, flowVars, creditVars, conn_err,
                   pc, writeVars, first, told>>

(* Faulty variant: almost_full is evaluated before the bytes are counted.  *)
EmitEndStale ==
    /\ pc = "emit" /\ (cap = 0 \/ ~Ready)
    /\ consumed' = consumed + nread
    /\ almost_full' = (almost_full \/ AlmostFull(consumed))
    /\ told' = IF IsFin THEN told \cup {"fin"} ELSE told
    /\ pc' = "idle"
    /\ cap' = 0 /\ nread' = 0
    /\ UNCHANGED <<data, off, len, fin_off, error, drain, max_data, window,
                   last_update, msd_sent, conn_err, writeVars, first, out>>

(* The end of emit, and stream_recv's insert_almost_full after it.         *)
EmitEnd ==
    /\ pc = "emit" /\ (cap = 0 \/ ~Ready)
    /\ consumed' = consumed + nread
    /\ almost_full' = (almost_full \/ AlmostFull(consumed'))
    /\ told' = IF IsFin THEN told \cup {"fin"} ELSE told
    /\ pc' = "idle"
    /\ cap' = 0 /\ nread' = 0
    /\ UNCHANGED <<data, off, len, fin_off, error, drain, max_data, window,
                   last_update, msd_sent, conn_err, writeVars, first, out>>

----------------------------------------------------------------------------
(* RecvBuf::reset, for a RESET_STREAM frame with final size fs.            *)

ResetErr(fs) == (fin_off # None /\ fin_off # fs) \/ fs < len

ResetRejected(fs) ==
    /\ pc = "idle" /\ conn_err = "none"
    /\ ResetErr(fs)
    /\ conn_err' = "FinalSize"
    /\ UNCHANGED <<data, off, len, fin_off, error, drain, flowVars, creditVars,
                   pc, writeVars, emitVars, first, out, told>>

(* The first RESET_STREAM.  After the buffer is cleared an empty buffer    *)
(* with fin set is written at the final size, through write's own checks:  *)
(* beyond the limit it fails, when the size was known it stores nothing.   *)
Reset(fs) ==
    /\ pc = "idle" /\ conn_err = "none"
    /\ ~ResetErr(fs) /\ ~error
    /\ error' = TRUE
    /\ off' = fs
    /\ data' = {}
    /\ LET b == Range(fs, fs, NoVer) IN
       \/ /\ FlowControlErr(b)
          /\ conn_err' = "FlowControl"
          /\ UNCHANGED <<fin_off, bufs, pc>>
       \/ /\ ~FlowControlErr(b) /\ fin_off # None
          /\ UNCHANGED <<conn_err, fin_off, bufs, pc>>
       \/ /\ ~FlowControlErr(b) /\ fin_off = None
          /\ fin_off' = fs
          /\ bufs' = <<b>>
          /\ pc' = "pop"
          /\ UNCHANGED conn_err
    /\ UNCHANGED <<len, drain, flowVars, creditVars, cur, key, emitVars, first,
                   out, told>>

(* RecvBuf::shutdown, for Connection::stream_shutdown(Shutdown::Read).     *)
Shutdown ==
    /\ pc = "idle" /\ ~drain
    /\ drain' = TRUE
    /\ data' = {}
    /\ off' = len
    /\ UNCHANGED <<len, fin_off, error, flowVars, creditVars, conn_err, pc,
                   writeVars, emitVars, first, out, told>>

----------------------------------------------------------------------------
(* MAX_STREAM_DATA: the packet writer autotunes the window of a stream in  *)
(* almost_full (recent: the last update is less than two RTTs old), and    *)
(* commits the new limit when the frame fits in the packet.                *)

Autotuned(recent) ==
    IF last_update /\ recent
    THEN IF 2 * window < MaxWindow THEN 2 * window ELSE MaxWindow
    ELSE window

SendMaxStreamData(recent, fits) ==
    /\ pc = "idle" /\ conn_err = "none" /\ almost_full
    /\ window' = Autotuned(recent)
    /\ IF fits
       THEN /\ max_data' = consumed + window'
            /\ last_update' = TRUE
            /\ almost_full' = FALSE
            /\ msd_sent' = TRUE
       ELSE UNCHANGED <<max_data, last_update, almost_full, msd_sent>>
    /\ UNCHANGED <<data, off, len, fin_off, error, drain, consumed, conn_err, pc,
                   writeVars, emitVars, first, out, told>>

LostMaxStreamData ==
    /\ pc = "idle" /\ conn_err = "none" /\ msd_sent
    /\ almost_full' = TRUE
    /\ UNCHANGED <<data, off, len, fin_off, error, drain, flowVars, msd_sent,
                   conn_err, pc, writeVars, emitVars, first, out, told>>

----------------------------------------------------------------------------
Frames == {b \in Chunks : b.off <= b.end /\ b.ver # NoVer}

WriteStep ==
    \/ \E b \in Frames, fin \in BOOLEAN :
          WriteRejected(b, fin) \/ WriteIgnored(b, fin) \/ WriteStart(b, fin)
    \/ WritePop \/ WriteDone
    \/ \E b \in data : ScanChunk(b)
    \/ ScanEnd \/ WriteInsert

EmitStep ==
    \/ EmitReset
    \/ \E c \in 0 .. MaxOff + 1 : EmitStart(c)
    \/ \E b \in data : EmitChunk(b)
    \/ EmitEnd

ControlStep ==
    \/ \E fs \in 0 .. MaxOff : ResetRejected(fs) \/ Reset(fs)
    \/ Shutdown
    \/ \E recent, fits \in BOOLEAN : SendMaxStreamData(recent, fits)
    \/ LostMaxStreamData

Next == WriteStep \/ EmitStep \/ ControlStep

Spec == Init /\ [][Next]_vars

----------------------------------------------------------------------------
(* Properties                                                               *)

(* Type invariant: offsets stay within the frames' range, and so no read   *)
(* goes past what was received.                                            *)
TypeOK ==
    /\ data \subseteq Chunks
    /\ off \in 0 .. MaxOff /\ len \in 0 .. MaxOff
    /\ fin_off \in 0 .. MaxOff \cup {None}
    /\ error \in BOOLEAN /\ drain \in BOOLEAN
    /\ consumed \in Nat /\ max_data \in Nat /\ window \in Nat
    /\ last_update \in BOOLEAN /\ almost_full \in BOOLEAN /\ msd_sent \in BOOLEAN
    /\ conn_err \in {"none", "FlowControl", "FinalSize"}
    /\ pc \in {"idle", "pop", "scan", "insert", "emit"}
    /\ bufs \in Seq(Chunks) /\ cur \in Chunks /\ key \in Nat
    /\ cap \in Nat /\ nread \in Nat
    /\ first \in [Offsets -> Vers \cup {NoVer}]
    /\ out \in [Offsets -> Vers \cup {NoVer}]
    /\ told \subseteq {"fin", "reset"}

Idle == pc = "idle"
Live == ~drain /\ ~error
Held(i) == \E c \in data : c.off <= i /\ i < c.end

(* Whatever overlapping frames arrive, write splits them so that the       *)
(* stored chunks never overlap and lie between the read offset and len.    *)
ChunksDisjoint ==
    /\ \A c \in data : off <= c.off /\ c.off <= c.end /\ c.end <= len
    /\ \A c, d \in data : c # d => c.end <= d.off \/ d.end <= c.off

(* write never drops a byte: with no reset and no shutdown, every byte     *)
(* that arrived and was not read is stored.                                *)
NothingLost ==
    Idle /\ Live => \A i \in Offsets : first[i] # NoVer /\ i >= off => Held(i)

(* If the byte at the read offset has arrived, ready() holds: no chunk     *)
(* below the read offset blocks the reader (the concern of the comment in  *)
(* write on discarding data below the current offset).                     *)
NeverStuck ==
    Idle /\ Live /\ off \in Offsets => (first[off] # NoVer => Ready)

(* emit hands out every byte at most in the version that arrived first,    *)
(* and leaves no gap: a conflicting retransmission changes nothing.        *)
DeliveredFirst ==
    \A i \in Offsets :
        /\ out[i] # NoVer => out[i] = first[i]
        /\ Live /\ i < off => out[i] # NoVer

(* When stream_recv reports fin, the application has got every byte below  *)
(* the final size.                                                         *)
FinMeansComplete ==
    "fin" \in told =>
        /\ fin_off # None
        /\ \A i \in Offsets : i < fin_off => out[i] # NoVer

(* Between operations a known final size equals the largest offset         *)
(* received, on which reset's credit for the connection (final_size - len) *)
(* relies.                                                                 *)
FinalSizeIsLen ==
    Idle /\ conn_err = "none" /\ fin_off # None => fin_off = len

(* Bytes read never exceed bytes received, and these never exceed the      *)
(* advertised limit: max_data - consumed cannot underflow in               *)
(* should_update_max_data.                                                 *)
CreditSound == consumed <= len /\ len <= max_data

(* No sender starves: whenever less than half of the window is left and    *)
(* the final size is unknown, the stream is queued for MAX_STREAM_DATA.    *)
CreditReplenished ==
    Idle /\ fin_off = None /\ ShouldUpdateMaxData(consumed) => almost_full

(* The advertised limit never shrinks, through autotuning, lost            *)
(* MAX_STREAM_DATA frames and their repetition.                            *)
MaxDataMonotone == [][max_data' >= max_data]_vars

(* Once known, the final size never changes and no data beyond it is       *)
(* recorded.                                                               *)
FinalSizeFixed ==
    [][fin_off # None => fin_off' = fin_off /\ len' <= fin_off]_vars

(* What the comment in reset promises: after a RESET_STREAM the            *)
(* application is notified, that is, the stream is readable until it has   *)
(* been told.                                                              *)
ResetNotified ==
    Idle /\ error /\ ~drain /\ conn_err = "none" /\ told = {} => Ready
----------------------------------------------------------------------------
(* The inductive invariant behind the properties above.  Between two steps *)
(* of write, what is neither read nor stored is in a pending fragment.     *)

Elems(q) == {q[j] : j \in DOMAIN q}
Pending(s) ==
    \/ s \in Elems(bufs)
    \/ pc \in {"scan", "insert"} /\ s = cur

UniqueKeys == \A c, d \in data : c.end = d.end => c = d

Modes ==
    /\ pc \in {"idle", "emit"} => bufs = <<>>
    /\ pc = "emit" => Live
    /\ pc # "emit" => nread = 0
    /\ drain => data = {}
    /\ error => \A c \in data : IsEmpty(c)
    /\ error /\ conn_err = "none" => fin_off = off
    /\ ~error => off <= len
    /\ conn_err # "none" => pc \in {"idle", "emit"}

PendingInv ==
    /\ \A s \in Chunks : Pending(s) =>
          /\ s.off <= s.end /\ off <= s.end /\ s.end <= max_data
          /\ fin_off # None => s.end <= fin_off
          /\ error => IsEmpty(s)
    /\ pc \in {"scan", "insert"} => off <= cur.off

Apart(c) == /\ c.end <= cur.off \/ cur.end <= c.off
            /\ IsEmpty(cur) => c.end # cur.end

ScanInv ==
    /\ pc = "scan" => \A c \in data : c.end < key => Apart(c)
    /\ pc = "insert" => \A c \in data : Apart(c)

VersionInv ==
    /\ \A c \in data : \A i \in Offsets :
          c.off <= i /\ i < c.end => first[i] = c.ver /\ first[i] # NoVer
    /\ Live => \A s \in Chunks : Pending(s) => \A i \in Offsets :
          s.off <= i /\ i < s.end /\ off <= i /\ ~Held(i)
              => first[i] = s.ver /\ first[i] # NoVer

CoverageInv ==
    Live => \A i \in Offsets :
        first[i] # NoVer /\ i >= off =>
            Held(i) \/ \E s \in Chunks : Pending(s) /\ s.off <= i /\ i < s.end

FinInv ==
    fin_off # None =>
        /\ len <= fin_off
        /\ len = fin_off \/ \E s \in Chunks : Pending(s) /\ s.end = fin_off

CreditInv ==
    /\ consumed + nread <= off /\ consumed + nread <= len /\ len <= max_data
    /\ window <= MaxWindow
    /\ almost_full \/ msd_sent => max_data <= consumed + window
    /\ fin_off = None /\ ShouldUpdateMaxData(consumed) => almost_full

IInv ==
    /\ TypeOK /\ ChunksDisjoint /\ UniqueKeys /\ Modes /\ PendingInv /\ ScanInv
    /\ VersionInv /\ CoverageInv /\ DeliveredFirst /\ FinMeansComplete
    /\ FinInv /\ CreditInv

============================================================================
