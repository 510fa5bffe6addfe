--------------------------- MODULE StreamsProofs ---------------------------
(***************************************************************************)
(* Proofs about module Streams: two ends that follow the code never close  *)
(* the connection over a limit or a final size, every unit charged to the  *)
(* reader's window is accounted for, and the reader never holds more open  *)
(* streams than it allowed at once.  For any streams, lengths, limits and  *)
(* congestion windows, and any number of shutdowns and losses.             *)
(***************************************************************************)
EXTENDS Streams, FiniteSetTheorems, WellFoundedInduction, TLAPS

States == {"idle", "open", "collected"}
FrameTypes == {"stream", "reset", "stop", "max_data", "max_streams"}

SendType ==
    [state : States, written : Nat, emit_off : Nat, pending : SUBSET Nat,
     acked : SUBSET Nat, reset : Nat \cup {Unknown}, stopped : BOOLEAN, shut : BOOLEAN]

RecvType ==
    [state : States, data : SUBSET Nat, off : Nat, len : Nat,
     fin_off : Nat \cup {Unknown}, drain : BOOLEAN, err : BOOLEAN,
     notify : BOOLEAN, stop : BOOLEAN, lost : Nat]

SndType ==
    [opened : Nat, peer_max : Nat, max_tx_data : Int, tx_data : Int,
     str : [Streams -> SendType]]

RcvType ==
    [peer_opened : Nat, max_streams : Nat, max_streams_next : Nat,
     max_data : Int, consumed : Int, window : 0 .. MaxWindow, rx_data : Int,
     almost_full : BOOLEAN, str : [Streams -> RecvType]]

Frame == [type : FrameTypes, s : Streams, u : Int]

----------------------------------------------------------------------------
(* The invariant, for the two ends a and b and the frames on their way or  *)
(* arrived and not yet acknowledged.                                       *)

(* The writer's half of a stream: what it sends ends once it gave up.      *)
Ended(x) == x.shut \/ x.stopped

WriterOK(s, x) ==
    /\ x.state = "idle" => x.written = 0 /\ ~Ended(x)
    /\ x.emit_off <= x.written /\ x.written <= StreamLen[s]
    /\ \A u \in x.pending : u < x.written
    /\ Ended(x) => x.written = x.emit_off /\ x.pending = {}
    /\ x.reset # Unknown => x.reset = x.emit_off /\ Ended(x)

(* The reader's half: read, stored and counted in this order.              *)
ReaderOK(y) ==
    /\ y.off <= y.len
    /\ \A u \in y.data : y.off <= u /\ u < y.len
    /\ y.drain => y.data = {}
    /\ y.err => y.off = y.len /\ y.fin_off # Unknown

(* What the reader knows of a stream agrees with what the writer sent.     *)
Agree(s, x, y) ==
    /\ y.len <= x.emit_off
    /\ y.fin_off # Unknown =>
         /\ y.fin_off = y.len /\ y.len = x.emit_off
         /\ Ended(x) \/ x.emit_off = StreamLen[s]

FrameOK(f, a, b) ==
    /\ f.type = "stream" => f.u >= 0 /\ f.u < a.str[f.s].emit_off
    /\ f.type = "reset" => f.u = a.str[f.s].emit_off /\ Ended(a.str[f.s])
    /\ f.type = "max_data" => f.u <= b.max_data
    /\ f.type = "max_streams" => f.u >= 0 /\ f.u <= b.max_streams

(* Streams are opened in order and within limits that only grow.           *)
LimitsOK(a, b) ==
    /\ a.opened <= a.peer_max /\ a.peer_max <= b.max_streams
    /\ b.peer_opened <= b.max_streams /\ b.max_streams <= b.max_streams_next
    /\ b.max_streams_next = InitMaxStreams + Cardinality(Collected(b))
    /\ \A s \in Streams : a.str[s].state # "idle" => s < a.opened
    /\ \A s \in Streams : b.str[s].state # "idle" => s < b.peer_opened

Written(a) == [s \in Streams |-> a.str[s].written]
Sent(a) == [s \in Streams |-> a.str[s].emit_off]
Received(b) == [s \in Streams |-> b.str[s].len]
Kept(b) == [s \in Streams |-> Unread(b.str[s])]

(* Each end counts what it wrote, received and has not read.               *)
SumsOK(a, b) ==
    /\ a.tx_data = Total(Written(a))
    /\ a.tx_data <= a.max_tx_data /\ a.max_tx_data <= b.max_data
    /\ b.rx_data = Total(Received(b))
    /\ b.rx_data - b.consumed = Total(Kept(b))

LinksOK(a, b) ==
    \A s \in Streams : /\ WriterOK(s, a.str[s]) /\ ReaderOK(b.str[s])
                       /\ Agree(s, a.str[s], b.str[s])

TypeOK(a, b, frames) == a \in SndType /\ b \in RcvType /\ frames \subseteq Frame

Sound(a, b, frames) ==
    /\ TypeOK(a, b, frames)
    /\ LimitsOK(a, b) /\ SumsOK(a, b) /\ LinksOK(a, b)
    /\ \A f \in frames : FrameOK(f, a, b)

IInv == error = "none" /\ Sound(snd, rcv, net \cup arrived)

----------------------------------------------------------------------------
(* Sums                                                                    *)

LEMMA Numbers ==
    \A a, b \in Int : /\ Larger(a, b) \in Int /\ Larger(a, b) >= a /\ Larger(a, b) >= b
                      /\ Larger(a, b) \in {a, b}
                      /\ Smaller(a, b) \in Int /\ Smaller(a, b) <= a /\ Smaller(a, b) <= b
                      /\ Smaller(a, b) \in {a, b}
BY DEF Larger, Smaller

LEMMA StreamsFinite == IsFiniteSet(Streams) /\ Streams \subseteq Nat /\ Streams \subseteq Int
<1>1. 0 \in Int /\ NStreams - 1 \in Int
  BY StreamsAssumption
<1> QED BY <1>1, FS_Interval DEF Streams

LEMMA InUnits ==
    ASSUME NEW f \in [Streams -> Nat]
    PROVE  \A p : p \in Units(f) <=> \E s \in Streams : p \in {s} \X (1 .. f[s])
BY DEF Units

(* The pairs of one stream are as many as f counts.                        *)
LEMMA OwnUnits ==
    ASSUME NEW s, NEW n \in Nat
    PROVE  IsFiniteSet({s} \X (1 .. n)) /\ Cardinality({s} \X (1 .. n)) = n
<1>1. IsFiniteSet({s}) /\ Cardinality({s}) = 1
  BY FS_Singleton
<1>2. IsFiniteSet(1 .. n) /\ Cardinality(1 .. n) = IF 1 > n THEN 0 ELSE n - 1 + 1
  BY FS_Interval
<1>3. Cardinality(1 .. n) = n
  BY <1>2
<1>4. IsFiniteSet({s} \X (1 .. n)) /\ Cardinality({s} \X (1 .. n)) = Cardinality({s}) * Cardinality(1 .. n)
  BY <1>1, <1>2, FS_Product
<1> QED BY <1>1, <1>3, <1>4

LEMMA UnitsFinite ==
    ASSUME NEW f \in [Streams -> Nat]
    PROVE  IsFiniteSet(Units(f)) /\ Total(f) \in Nat
<1> DEFINE own == [s \in Streams |-> {s} \X (1 .. f[s])]
           all == {{s} \X (1 .. f[s]) : s \in Streams}
<1>1. own \in Surjection(Streams, all)
  BY DEF Surjection
<1>2. IsFiniteSet(all)
  BY <1>1, FS_Surjection, StreamsFinite
<1>3. \A T \in all : IsFiniteSet(T)
  BY OwnUnits
<1>4. Units(f) = UNION all
  BY DEF Units
<1>5. IsFiniteSet(Units(f))
  BY <1>2, <1>3, <1>4, FS_UNION
<1> QED BY <1>5, FS_CardinalityType DEF Total

(* Changing one summand changes the sum by as much.                        *)
LEMMA TotalChange ==
    ASSUME NEW f \in [Streams -> Nat], NEW g \in [Streams -> Nat], NEW s \in Streams,
           \A r \in Streams \ {s} : g[r] = f[r]
    PROVE  Total(g) = Total(f) - f[s] + g[s]
<1> DEFINE Rest == {p \in Units(f) : p[1] # s}
           Mine(n) == {s} \X (1 .. n)
<1>1. ASSUME NEW h \in [Streams -> Nat], \A r \in Streams \ {s} : h[r] = f[r]
      PROVE  Total(h) = Cardinality(Rest) + h[s] /\ Cardinality(Rest) \in Nat
  <2>1. Units(h) = Rest \cup Mine(h[s])
    <3>1. ASSUME NEW p \in Units(h) PROVE p \in Rest \cup Mine(h[s])
      <4>1. PICK r \in Streams : p \in {r} \X (1 .. h[r])
        BY InUnits
      <4>2. CASE r = s
        BY <4>1, <4>2
      <4>3. CASE r # s
        <5>1. p \in {r} \X (1 .. f[r]) /\ p[1] = r
          BY <4>1, <4>3, <1>1
        <5>2. p \in Units(f)
          BY <5>1, InUnits
        <5> QED BY <5>1, <5>2, <4>3
      <4> QED BY <4>2, <4>3
    <3>2. ASSUME NEW p \in Rest PROVE p \in Units(h)
      <4>1. PICK r \in Streams : p \in {r} \X (1 .. f[r])
        BY InUnits
      <4>2. p[1] = r
        BY <4>1
      <4>3. r # s
        BY <4>2
      <4>4. p \in {r} \X (1 .. h[r])
        BY <4>1, <4>3, <1>1
      <4> QED BY <4>4, InUnits
    <3>3. ASSUME NEW p \in Mine(h[s]) PROVE p \in Units(h)
      BY InUnits
    <3> QED BY <3>1, <3>2, <3>3
  <2>2. IsFiniteSet(Rest) /\ Cardinality(Rest) \in Nat
    <3>1. Rest \in SUBSET Units(f)
      OBVIOUS
    <3>2. IsFiniteSet(Rest)
      BY <3>1, UnitsFinite, FS_Subset
    <3> QED BY <3>2, FS_CardinalityType
  <2>3. IsFiniteSet(Mine(h[s])) /\ Cardinality(Mine(h[s])) = h[s]
    <3>1. h[s] \in Nat
      OBVIOUS
    <3> QED BY <3>1, OwnUnits
  <2>4. Rest \cap Mine(h[s]) = {}
    OBVIOUS
  <2>5. Cardinality(Rest \cup Mine(h[s]))
          = Cardinality(Rest) + Cardinality(Mine(h[s])) - Cardinality(Rest \cap Mine(h[s]))
    BY <2>2, <2>3, FS_Union
  <2>6. Cardinality(Rest \cap Mine(h[s])) = 0
    BY <2>4, FS_EmptySet
  <2>7. h[s] \in Nat
    OBVIOUS
  <2> HIDE DEF Rest, Mine
  <2> QED BY <2>1, <2>2, <2>3, <2>5, <2>6, <2>7 DEF Total
<1>2. Total(f) = Cardinality(Rest) + f[s] /\ Cardinality(Rest) \in Nat
  BY <1>1
<1>3. Total(g) = Cardinality(Rest) + g[s]
  BY <1>1
<1>4. f[s] \in Nat /\ g[s] \in Nat
  OBVIOUS
<1> HIDE DEF Rest
<1> QED BY <1>2, <1>3, <1>4

(* A larger function has a larger sum, and room for one of its summands.   *)
LEMMA TotalGrows ==
    ASSUME NEW f \in [Streams -> Nat], NEW g \in [Streams -> Nat],
           \A s \in Streams : f[s] <= g[s]
    PROVE  /\ Total(f) <= Total(g)
           /\ \A s \in Streams : Total(f) + (g[s] - f[s]) <= Total(g)
<1>1. ASSUME NEW h \in [Streams -> Nat], \A s \in Streams : h[s] <= g[s]
      PROVE  Total(h) <= Total(g)
  <2>1. ASSUME NEW p \in Units(h) PROVE p \in Units(g)
    <3>1. PICK r \in Streams : p \in {r} \X (1 .. h[r])
      BY InUnits
    <3>2. h[r] \in Nat /\ g[r] \in Nat /\ h[r] <= g[r]
      BY <1>1
    <3>3. 1 .. h[r] \subseteq 1 .. g[r]
      BY <3>2
    <3>4. p \in {r} \X (1 .. g[r])
      BY <3>1, <3>3
    <3> QED BY <3>4, InUnits
  <2>2. Units(h) \in SUBSET Units(g)
    BY <2>1
  <2> QED BY <2>2, UnitsFinite, FS_Subset DEF Total
<1>2. ASSUME NEW s \in Streams PROVE Total(f) + (g[s] - f[s]) <= Total(g)
  <2> DEFINE h == [f EXCEPT ![s] = g[s]]
  <2>1. h \in [Streams -> Nat] /\ h[s] = g[s] /\ \A r \in Streams \ {s} : h[r] = f[r]
    OBVIOUS
  <2>2. \A r \in Streams : h[r] <= g[r]
    <3> TAKE r \in Streams
    <3>1. g[r] \in Nat
      OBVIOUS
    <3> QED BY <2>1, <3>1
  <2> HIDE DEF h
  <2>3. Total(h) <= Total(g)
    BY <2>1, <2>2, <1>1
  <2>4. Total(h) = Total(f) - f[s] + h[s]
    BY <2>1, TotalChange
  <2>5. f[s] \in Nat /\ g[s] \in Nat /\ Total(f) \in Nat /\ Total(g) \in Nat
    BY UnitsFinite
  <2> QED BY <2>1, <2>3, <2>4, <2>5
<1> QED BY <1>1, <1>2

LEMMA TotalZero ==
    ASSUME NEW f \in [Streams -> Nat], \A s \in Streams : f[s] = 0
    PROVE  Total(f) = 0
<1>1. \A p : p \notin Units(f)
  <2> SUFFICES ASSUME NEW p \in Units(f) PROVE FALSE
    OBVIOUS
  <2>1. PICK r \in Streams : p \in {r} \X (1 .. f[r])
    BY InUnits
  <2>2. f[r] = 0
    OBVIOUS
  <2>3. 1 .. 0 = {}
    OBVIOUS
  <2> QED BY <2>1, <2>2, <2>3
<1>2. Units(f) = {}
  BY <1>1
<1> QED BY <1>2, FS_EmptySet DEF Total

----------------------------------------------------------------------------
(* What a step does to the invariant, by the part of the state it changes  *)

LEMMA UnreadNat ==
    ASSUME NEW y \in RecvType, ReaderOK(y)
    PROVE  Unread(y) \in Nat
<1>1. y.len \in Nat /\ y.off \in Nat /\ y.lost \in Nat /\ y.off <= y.len
  BY DEF RecvType, ReaderOK
<1>2. CASE y.drain \/ y.err
  BY <1>1, <1>2 DEF Unread
<1>3. CASE ~(y.drain \/ y.err)
  BY <1>1, <1>3 DEF Unread
<1> QED BY <1>2, <1>3

LEMMA SumTypes ==
    ASSUME NEW a, NEW b, NEW frames, Sound(a, b, frames)
    PROVE  /\ Written(a) \in [Streams -> Nat] /\ Sent(a) \in [Streams -> Nat]
           /\ Received(b) \in [Streams -> Nat] /\ Kept(b) \in [Streams -> Nat]
<1>1. \A s \in Streams : a.str[s] \in SendType /\ b.str[s] \in RecvType /\ ReaderOK(b.str[s])
  BY DEF Sound, TypeOK, SndType, RcvType, LinksOK
<1>2. \A s \in Streams : a.str[s].written \in Nat /\ a.str[s].emit_off \in Nat /\ b.str[s].len \in Nat
  BY <1>1 DEF SendType, RecvType
<1>3. \A s \in Streams : Unread(b.str[s]) \in Nat
  BY <1>1, UnreadNat
<1> QED BY <1>2, <1>3 DEF Written, Sent, Received, Kept

(* The end of a writer's half moves on only, and not once it gave up.      *)
Continues(w, x) ==
    /\ w.emit_off <= x.emit_off
    /\ Ended(w) => Ended(x) /\ x.emit_off = w.emit_off

(* One stream of the writer changes.                                       *)
LEMMA WriterStep ==
    ASSUME NEW a, NEW b, NEW frames, Sound(a, b, frames),
           NEW c \in SndType, NEW sent \in SUBSET Frame,
           NEW s \in Streams, NEW x \in SendType,
           c.str = [a.str EXCEPT ![s] = x],
           c.max_tx_data = a.max_tx_data, c.peer_max = a.peer_max,
           c.tx_data = a.tx_data - a.str[s].written + x.written,
           c.tx_data <= a.max_tx_data,
           c.opened >= a.opened, c.opened <= a.peer_max,
           x.state # "idle" => s < c.opened,
           WriterOK(s, x), Continues(a.str[s], x),
           \A f \in sent : f \in frames \/ FrameOK(f, c, b)
    PROVE  Sound(c, b, sent)
<1> DEFINE w == a.str[s]
<1>1. /\ a \in SndType /\ b \in RcvType /\ frames \subseteq Frame
      /\ LimitsOK(a, b) /\ SumsOK(a, b) /\ LinksOK(a, b)
      /\ \A f \in frames : FrameOK(f, a, b)
  BY DEF Sound, TypeOK
<1>2. /\ a.str \in [Streams -> SendType] /\ c.str[s] = x
      /\ \A r \in Streams \ {s} : c.str[r] = a.str[r]
  BY <1>1 DEF SndType
<1>3. /\ w \in SendType /\ w.written \in Nat /\ w.emit_off \in Nat
      /\ x.written \in Nat /\ x.emit_off \in Nat
  BY <1>1, <1>2 DEF SendType
<1>4. StreamLen[s] \in Nat
  BY StreamsAssumption DEF Streams
<1>5. LimitsOK(c, b)
  <2>1. a.opened \in Nat /\ c.opened \in Nat /\ a.peer_max \in Nat
    BY <1>1 DEF SndType
  <2>2. \A r \in Streams : c.str[r].state # "idle" => r < c.opened
    <3> TAKE r \in Streams
    <3>1. CASE r = s
      BY <3>1, <1>2
    <3>2. CASE r # s
      <4>1. a.str[r].state # "idle" => r < a.opened
        BY <1>1 DEF LimitsOK
      <4>2. r \in Int
        BY StreamsFinite
      <4> QED BY <3>2, <4>1, <4>2, <1>2, <2>1
    <3> QED BY <3>1, <3>2
  <2> QED BY <1>1, <2>2 DEF LimitsOK
<1>6. SumsOK(c, b)
  <2>1. Written(a) \in [Streams -> Nat]
    BY SumTypes
  <2>2. /\ Written(c) \in [Streams -> Nat] /\ Written(c)[s] = x.written
        /\ \A r \in Streams \ {s} : Written(c)[r] = Written(a)[r]
    <3>1. \A r \in Streams : c.str[r].written \in Nat
      BY DEF SndType, SendType
    <3> QED BY <3>1, <1>2 DEF Written
  <2>3. Total(Written(c)) = Total(Written(a)) - Written(a)[s] + Written(c)[s]
    BY <2>1, <2>2, TotalChange
  <2>4. Written(a)[s] = w.written
    BY DEF Written
  <2>5. c.tx_data = Total(Written(c))
    BY <2>2, <2>3, <2>4, <1>1 DEF SumsOK
  <2> QED BY <2>5, <1>1 DEF SumsOK
<1>7. LinksOK(c, b)
  <2> SUFFICES ASSUME NEW r \in Streams
               PROVE  /\ WriterOK(r, c.str[r]) /\ ReaderOK(b.str[r])
                      /\ Agree(r, c.str[r], b.str[r])
    BY DEF LinksOK
  <2>1. WriterOK(r, a.str[r]) /\ ReaderOK(b.str[r]) /\ Agree(r, a.str[r], b.str[r])
    BY <1>1 DEF LinksOK
  <2>2. CASE r # s
    BY <2>1, <2>2, <1>2
  <2>3. CASE r = s
    <3> DEFINE y == b.str[s]
    <3>1. WriterOK(s, w) /\ Agree(s, w, y)
      BY <2>1, <2>3
    <3>2. y.len \in Nat
      BY <1>1 DEF RcvType, RecvType
    <3>3. y.len <= x.emit_off
      BY <3>1, <3>2, <1>3 DEF Agree, Continues
    <3>4. ASSUME y.fin_off # Unknown
          PROVE  /\ y.fin_off = y.len /\ y.len = x.emit_off
                 /\ Ended(x) \/ x.emit_off = StreamLen[s]
      <4>1. y.fin_off = y.len /\ y.len = w.emit_off /\ (Ended(w) \/ w.emit_off = StreamLen[s])
        BY <3>1, <3>4 DEF Agree
      <4>2. CASE Ended(w)
        BY <4>1, <4>2 DEF Continues
      <4>3. CASE w.emit_off = StreamLen[s]
        <5>1. x.emit_off <= StreamLen[s] /\ w.emit_off <= x.emit_off
          BY <1>3, <1>4 DEF WriterOK, Continues
        <5> QED BY <5>1, <4>1, <4>3, <1>3, <1>4
      <4> QED BY <4>1, <4>2, <4>3
    <3> QED BY <2>1, <2>3, <3>3, <3>4, <1>2 DEF Agree
  <2> QED BY <2>2, <2>3
<1>8. \A f \in sent : FrameOK(f, c, b)
  <2> SUFFICES ASSUME NEW f \in frames PROVE FrameOK(f, c, b)
    OBVIOUS
  <2>1. f \in Frame /\ FrameOK(f, a, b)
    BY <1>1
  <2>2. f.s \in Streams /\ f.u \in Int
    BY <2>1 DEF Frame
  <2>3. CASE f.s # s
    BY <2>1, <2>2, <2>3, <1>2 DEF FrameOK
  <2>4. CASE f.s = s
    BY <2>1, <2>2, <2>4, <1>2, <1>3 DEF FrameOK, Continues
  <2> QED BY <2>3, <2>4
<1> QED BY <1>1, <1>5, <1>6, <1>7, <1>8 DEF Sound, TypeOK

(* Streams that the reader collected, by one step                          *)
LEMMA CollectedChange ==
    ASSUME NEW b \in RcvType, NEW d \in RcvType, NEW s \in Streams, NEW y \in RecvType,
           d.str = [b.str EXCEPT ![s] = y],
           b.str[s].state = "collected" => y.state = "collected"
    PROVE  /\ Cardinality(Collected(b)) \in Nat
           /\ Cardinality(Collected(d)) =
                IF y.state = "collected" /\ b.str[s].state # "collected"
                THEN Cardinality(Collected(b)) + 1 ELSE Cardinality(Collected(b))
<1>1. b.str \in [Streams -> RecvType]
  BY DEF RcvType
<1>2. d.str[s] = y /\ \A r \in Streams \ {s} : d.str[r] = b.str[r]
  BY <1>1
<1>3. IsFiniteSet(Collected(b)) /\ Cardinality(Collected(b)) \in Nat
  <2>1. Collected(b) \in SUBSET Streams
    BY DEF Collected
  <2>2. IsFiniteSet(Collected(b))
    BY <2>1, StreamsFinite, FS_Subset
  <2> QED BY <2>2, FS_CardinalityType
<1>4. CASE y.state = "collected"
  <2>1. Collected(d) = Collected(b) \cup {s}
    BY <1>2, <1>4 DEF Collected
  <2>2. s \in Collected(b) <=> b.str[s].state = "collected"
    BY DEF Collected
  <2>3. Cardinality(Collected(b) \cup {s}) =
          IF s \in Collected(b) THEN Cardinality(Collected(b)) ELSE Cardinality(Collected(b)) + 1
    BY <1>3, FS_AddElement
  <2> QED BY <1>3, <1>4, <2>1, <2>2, <2>3
<1>5. CASE y.state # "collected"
  <2>1. Collected(d) = Collected(b)
    BY <1>2, <1>5 DEF Collected
  <2> QED BY <1>3, <1>5, <2>1
<1> QED BY <1>4, <1>5

(* One stream of the reader changes.                                       *)
LEMMA ReaderStep ==
    ASSUME NEW a, NEW b, NEW frames, Sound(a, b, frames),
           NEW d \in RcvType, NEW sent \in SUBSET Frame,
           NEW s \in Streams, NEW y \in RecvType,
           d.str = [b.str EXCEPT ![s] = y],
           d.max_data = b.max_data, d.max_streams = b.max_streams,
           d.rx_data = b.rx_data - b.str[s].len + y.len,
           d.rx_data - d.consumed
             = b.rx_data - b.consumed - Unread(b.str[s]) + Unread(y),
           d.peer_opened >= b.peer_opened, d.peer_opened <= b.max_streams,
           y.state # "idle" => s < d.peer_opened,
           b.str[s].state = "collected" => y.state = "collected",
           d.max_streams_next =
             IF y.state = "collected" /\ b.str[s].state # "collected"
             THEN b.max_streams_next + 1 ELSE b.max_streams_next,
           ReaderOK(y), Agree(s, a.str[s], y),
           \A f \in sent : f \in frames \/ FrameOK(f, a, d)
    PROVE  Sound(a, d, sent)
<1>1. /\ a \in SndType /\ b \in RcvType /\ frames \subseteq Frame
      /\ LimitsOK(a, b) /\ SumsOK(a, b) /\ LinksOK(a, b)
      /\ \A f \in frames : FrameOK(f, a, b)
  BY DEF Sound, TypeOK
<1>2. /\ b.str \in [Streams -> RecvType] /\ d.str[s] = y
      /\ \A r \in Streams \ {s} : d.str[r] = b.str[r]
  BY <1>1 DEF RcvType
<1>3. LimitsOK(a, d)
  <2>1. /\ b.peer_opened \in Nat /\ d.peer_opened \in Nat /\ b.max_streams \in Nat
        /\ b.max_streams_next \in Nat /\ InitMaxStreams \in Nat
    BY <1>1, StreamsAssumption DEF RcvType
  <2>2. \A r \in Streams : d.str[r].state # "idle" => r < d.peer_opened
    <3> TAKE r \in Streams
    <3>1. CASE r = s
      BY <3>1, <1>2
    <3>2. CASE r # s
      <4>1. b.str[r].state # "idle" => r < b.peer_opened
        BY <1>1 DEF LimitsOK
      <4>2. r \in Int
        BY StreamsFinite
      <4> QED BY <3>2, <4>1, <4>2, <1>2, <2>1
    <3> QED BY <3>1, <3>2
  <2>3. /\ Cardinality(Collected(b)) \in Nat
        /\ Cardinality(Collected(d)) =
             IF y.state = "collected" /\ b.str[s].state # "collected"
             THEN Cardinality(Collected(b)) + 1 ELSE Cardinality(Collected(b))
    BY <1>1, CollectedChange
  <2>4. /\ b.max_streams <= b.max_streams_next
        /\ b.max_streams_next = InitMaxStreams + Cardinality(Collected(b))
    BY <1>1 DEF LimitsOK
  <2>5. /\ d.max_streams <= d.max_streams_next
        /\ d.max_streams_next = InitMaxStreams + Cardinality(Collected(d))
    <3>1. CASE y.state = "collected" /\ b.str[s].state # "collected"
      BY <3>1, <2>1, <2>3, <2>4
    <3>2. CASE ~(y.state = "collected" /\ b.str[s].state # "collected")
      BY <3>2, <2>1, <2>3, <2>4
    <3> QED BY <3>1, <3>2
  <2> QED BY <1>1, <2>2, <2>5 DEF LimitsOK
<1>4. SumsOK(a, d)
  <2>1. Received(b) \in [Streams -> Nat] /\ Kept(b) \in [Streams -> Nat]
    BY SumTypes
  <2>2. /\ Received(d) \in [Streams -> Nat] /\ Received(d)[s] = y.len
        /\ \A r \in Streams \ {s} : Received(d)[r] = Received(b)[r]
    <3>1. \A r \in Streams : d.str[r].len \in Nat
      BY DEF RcvType, RecvType
    <3> QED BY <3>1, <1>2 DEF Received
  <2>3. /\ Kept(d) \in [Streams -> Nat] /\ Kept(d)[s] = Unread(y)
        /\ \A r \in Streams \ {s} : Kept(d)[r] = Kept(b)[r]
    <3>1. \A r \in Streams : Unread(d.str[r]) \in Nat
      <4> TAKE r \in Streams
      <4>1. CASE r = s
        BY <4>1, <1>2, UnreadNat
      <4>2. CASE r # s
        <5>1. Kept(b)[r] \in Nat
          BY <2>1
        <5> QED BY <4>2, <5>1, <1>2 DEF Kept
      <4> QED BY <4>1, <4>2
    <3> QED BY <3>1, <1>2 DEF Kept
  <2>4. Total(Received(d)) = Total(Received(b)) - Received(b)[s] + Received(d)[s]
    BY <2>1, <2>2, TotalChange
  <2>5. Total(Kept(d)) = Total(Kept(b)) - Kept(b)[s] + Kept(d)[s]
    BY <2>1, <2>3, TotalChange
  <2>6. Received(b)[s] = b.str[s].len /\ Kept(b)[s] = Unread(b.str[s])
    BY DEF Received, Kept
  <2>7. d.rx_data = Total(Received(d))
    BY <2>2, <2>4, <2>6, <1>1 DEF SumsOK
  <2>8. d.rx_data - d.consumed = Total(Kept(d))
    BY <2>3, <2>5, <2>6, <1>1 DEF SumsOK
  <2> QED BY <2>7, <2>8, <1>1 DEF SumsOK
<1>5. LinksOK(a, d)
  <2> SUFFICES ASSUME NEW r \in Streams
               PROVE  /\ WriterOK(r, a.str[r]) /\ ReaderOK(d.str[r])
                      /\ Agree(r, a.str[r], d.str[r])
    BY DEF LinksOK
  <2>1. WriterOK(r, a.str[r]) /\ ReaderOK(b.str[r]) /\ Agree(r, a.str[r], b.str[r])
    BY <1>1 DEF LinksOK
  <2>2. CASE r # s
    BY <2>1, <2>2, <1>2
  <2>3. CASE r = s
    BY <2>1, <2>3, <1>2
  <2> QED BY <2>2, <2>3
<1>6. \A f \in sent : FrameOK(f, a, d)
  BY <1>1 DEF FrameOK
<1> QED BY <1>1, <1>3, <1>4, <1>5, <1>6 DEF Sound, TypeOK

(* Limits are raised; the streams stay as they are.                        *)
LEMMA LimitStep ==
    ASSUME NEW a, NEW b, NEW frames, Sound(a, b, frames),
           NEW c \in SndType, NEW d \in RcvType, NEW sent \in SUBSET Frame,
           c.str = a.str, c.opened = a.opened, c.tx_data = a.tx_data,
           c.max_tx_data >= a.max_tx_data, c.max_tx_data <= d.max_data,
           c.peer_max >= a.peer_max, c.peer_max <= d.max_streams,
           d.str = b.str, d.rx_data = b.rx_data, d.consumed = b.consumed,
           d.peer_opened = b.peer_opened, d.max_data >= b.max_data,
           d.max_streams >= b.max_streams, d.max_streams <= d.max_streams_next,
           d.max_streams_next = b.max_streams_next,
           \A f \in sent : f \in frames \/ FrameOK(f, c, d)
    PROVE  Sound(c, d, sent)
<1>1. /\ a \in SndType /\ b \in RcvType /\ frames \subseteq Frame
      /\ LimitsOK(a, b) /\ SumsOK(a, b) /\ LinksOK(a, b)
      /\ \A f \in frames : FrameOK(f, a, b)
  BY DEF Sound, TypeOK
<1>2. /\ a.opened \in Nat /\ a.peer_max \in Nat /\ c.peer_max \in Nat
      /\ a.max_tx_data \in Int /\ c.max_tx_data \in Int /\ a.tx_data \in Int
      /\ b.max_streams \in Nat /\ d.max_streams \in Nat /\ b.peer_opened \in Nat
      /\ b.max_data \in Int /\ d.max_data \in Int
  BY <1>1 DEF SndType, RcvType
<1>3. LimitsOK(c, d)
  <2>1. Collected(d) = Collected(b)
    BY DEF Collected
  <2>2. c.opened <= c.peer_max /\ d.peer_opened <= d.max_streams
    BY <1>1, <1>2 DEF LimitsOK
  <2> QED BY <1>1, <2>1, <2>2 DEF LimitsOK
<1>4. SumsOK(c, d)
  <2>1. Written(c) = Written(a) /\ Received(d) = Received(b) /\ Kept(d) = Kept(b)
    BY DEF Written, Received, Kept
  <2>2. c.tx_data <= c.max_tx_data
    BY <1>1, <1>2 DEF SumsOK
  <2> QED BY <1>1, <2>1, <2>2 DEF SumsOK
<1>5. LinksOK(c, d)
  BY <1>1 DEF LinksOK
<1>6. \A f \in sent : FrameOK(f, c, d)
  <2> SUFFICES ASSUME NEW f \in frames PROVE FrameOK(f, c, d)
    OBVIOUS
  <2>1. f \in Frame /\ FrameOK(f, a, b)
    BY <1>1
  <2>2. f.u \in Int
    BY <2>1 DEF Frame
  <2> QED BY <2>1, <2>2, <1>2 DEF FrameOK
<1> QED BY <1>3, <1>4, <1>5, <1>6 DEF Sound, TypeOK

----------------------------------------------------------------------------
(* The operations on one half of a stream                                  *)

LEMMA Lengths == \A s \in Streams : StreamLen[s] \in Nat \ {0}
BY StreamsAssumption DEF Streams

LEMMA WroteIs ==
    ASSUME NEW w \in SendType, NEW n \in Nat
    PROVE  /\ Wrote(w, n) \in SendType
           /\ Wrote(w, n).state = "open" /\ Wrote(w, n).written = w.written + n
           /\ Wrote(w, n).pending = w.pending \cup (w.written .. w.written + n - 1)
           /\ Wrote(w, n).emit_off = w.emit_off /\ Wrote(w, n).reset = w.reset
           /\ Wrote(w, n).stopped = w.stopped /\ Wrote(w, n).shut = w.shut
<1>1. w.written \in Nat /\ w.pending \subseteq Nat
  BY DEF SendType
<1>2. w.written + n \in Nat /\ w.pending \cup (w.written .. w.written + n - 1) \subseteq Nat
  BY <1>1
<1> QED BY <1>2 DEF Wrote, SendType, States

LEMMA DroppedIs ==
    ASSUME NEW w \in SendType
    PROVE  /\ Dropped(w) \in SendType
           /\ Dropped(w).state = w.state /\ Dropped(w).written = w.emit_off
           /\ Dropped(w).pending = {}
           /\ Dropped(w).emit_off = w.emit_off /\ Dropped(w).reset = w.emit_off
           /\ Dropped(w).stopped = w.stopped /\ Dropped(w).shut = w.shut
BY DEF Dropped, SendType

LEMMA EmittedIs ==
    ASSUME NEW w \in SendType, NEW u \in Nat
    PROVE  /\ Emitted(w, u) \in SendType
           /\ Emitted(w, u).state = w.state /\ Emitted(w, u).written = w.written
           /\ Emitted(w, u).pending = w.pending \ {u}
           /\ Emitted(w, u).emit_off = Larger(w.emit_off, u + 1)
           /\ Emitted(w, u).reset = w.reset
           /\ Emitted(w, u).stopped = w.stopped /\ Emitted(w, u).shut = w.shut
<1>1. w.emit_off \in Nat /\ w.pending \subseteq Nat
  BY DEF SendType
<1>2. Larger(w.emit_off, u + 1) \in Nat /\ w.pending \ {u} \subseteq Nat
  BY <1>1 DEF Larger
<1> QED BY <1>2 DEF Emitted, SendType

LEMMA StoredIs ==
    ASSUME NEW s \in Streams, NEW y \in RecvType, NEW u \in Nat
    PROVE  /\ Stored(y, s, u) \in RecvType
           /\ Stored(y, s, u).state = y.state /\ Stored(y, s, u).off = y.off
           /\ Stored(y, s, u).len = Larger(y.len, u + 1)
           /\ Stored(y, s, u).fin_off = IF u + 1 = StreamLen[s] THEN StreamLen[s] ELSE y.fin_off
           /\ Stored(y, s, u).data \subseteq y.data \cup {u}
           /\ y.drain \/ u < y.off => Stored(y, s, u).data = y.data
           /\ Stored(y, s, u).lost = y.lost
           /\ Stored(y, s, u).drain = y.drain /\ Stored(y, s, u).err = y.err
<1> DEFINE l == Larger(y.len, u + 1)
           e == IF u + 1 = StreamLen[s] THEN StreamLen[s] ELSE y.fin_off
           t == IF y.drain \/ u < y.off THEN y.data ELSE y.data \cup {u}
<1>1. y.len \in Nat /\ y.data \subseteq Nat /\ y.fin_off \in Nat \cup {Unknown}
  BY DEF RecvType
<1>2. l \in Nat /\ e \in Nat \cup {Unknown} /\ t \in SUBSET Nat
  BY <1>1, Lengths DEF Larger
<1>3. Stored(y, s, u) = [y EXCEPT !.len = l, !.fin_off = e, !.data = t]
  BY DEF Stored
<1> HIDE DEF l, e, t
<1>4. /\ Stored(y, s, u) \in RecvType
      /\ Stored(y, s, u).state = y.state /\ Stored(y, s, u).off = y.off
      /\ Stored(y, s, u).len = l /\ Stored(y, s, u).fin_off = e /\ Stored(y, s, u).data = t
      /\ Stored(y, s, u).lost = y.lost
      /\ Stored(y, s, u).drain = y.drain /\ Stored(y, s, u).err = y.err
  BY <1>2, <1>3 DEF RecvType
<1> QED BY <1>4 DEF l, e, t

LEMMA WasReadIs ==
    ASSUME NEW y \in RecvType, NEW n \in Nat
    PROVE  /\ WasRead(y, n) \in RecvType
           /\ WasRead(y, n).state = y.state /\ WasRead(y, n).off = y.off + n
           /\ WasRead(y, n).len = y.len /\ WasRead(y, n).fin_off = y.fin_off
           /\ WasRead(y, n).data = y.data \ (y.off .. y.off + n - 1)
           /\ WasRead(y, n).lost = y.lost
           /\ WasRead(y, n).drain = y.drain /\ WasRead(y, n).err = y.err
<1>1. y.off + n \in Nat /\ y.data \ (y.off .. y.off + n - 1) \subseteq Nat
  BY DEF RecvType
<1> QED BY <1>1 DEF WasRead, RecvType

LEMMA DrainedIs ==
    ASSUME NEW y \in RecvType, y.off <= y.len
    PROVE  /\ Drained(y) \in RecvType
           /\ Drained(y).state = y.state /\ Drained(y).off = y.len
           /\ Drained(y).len = y.len /\ Drained(y).fin_off = y.fin_off
           /\ Drained(y).data = {} /\ Drained(y).lost = y.lost + (y.len - y.off)
           /\ Drained(y).drain /\ Drained(y).err = y.err
<1> DEFINE n == y.lost + (y.len - y.off)
           t == (y.fin_off # y.len)
<1>1. n \in Nat /\ y.len \in Nat /\ t \in BOOLEAN
  BY DEF RecvType
<1>2. Drained(y) = [y EXCEPT !.drain = TRUE, !.data = {}, !.notify = FALSE,
                             !.off = y.len, !.lost = n, !.stop = t]
  BY DEF Drained
<1> HIDE DEF n, t
<1>3. /\ Drained(y) \in RecvType
      /\ Drained(y).state = y.state /\ Drained(y).off = y.len
      /\ Drained(y).len = y.len /\ Drained(y).fin_off = y.fin_off
      /\ Drained(y).data = {} /\ Drained(y).lost = n /\ Drained(y).err = y.err
  BY <1>1, <1>2 DEF RecvType
<1>4. Drained(y).drain
  BY <1>1, <1>2 DEF RecvType
<1> QED BY <1>3, <1>4 DEF n

LEMMA WasResetIs ==
    ASSUME NEW y \in RecvType, NEW size \in Nat, y.off <= size, y.len <= size
    PROVE  /\ WasReset(y, size) \in RecvType
           /\ WasReset(y, size).state = y.state
           /\ WasReset(y, size).off = IF y.err THEN y.off ELSE size
           /\ WasReset(y, size).len = IF y.fin_off = Unknown THEN size ELSE y.len
           /\ WasReset(y, size).fin_off = size
           /\ WasReset(y, size).data = IF y.err THEN y.data ELSE {}
           /\ WasReset(y, size).lost = IF y.err THEN y.lost
                                       ELSE IF y.drain THEN y.lost + (size - y.len)
                                       ELSE y.lost + (size - y.off)
           /\ WasReset(y, size).drain = y.drain /\ WasReset(y, size).err
<1> DEFINE l == IF y.fin_off = Unknown THEN size ELSE y.len
           o == IF y.err THEN y.off ELSE size
           n == IF y.err THEN y.lost
                ELSE IF y.drain THEN y.lost + (size - y.len) ELSE y.lost + (size - y.off)
           d == IF y.err THEN y.data ELSE {}
           t == y.notify \/ (~y.err /\ y.fin_off = Unknown /\ ~y.drain)
<1>1. y.len \in Nat /\ y.off \in Nat /\ y.lost \in Nat /\ y.data \subseteq Nat
  BY DEF RecvType
<1>2. l \in Nat /\ o \in Nat /\ d \in SUBSET Nat /\ t \in BOOLEAN
  BY <1>1 DEF RecvType
<1>3. n \in Nat
  BY <1>1
<1>4. WasReset(y, size) = [y EXCEPT !.len = l, !.off = o, !.lost = n, !.data = d,
                                    !.fin_off = size, !.notify = t, !.err = TRUE]
  <2>1. n = CASE y.err -> y.lost
              [] y.drain /\ ~y.err -> y.lost + (size - y.len)
              [] OTHER -> y.lost + (size - y.off)
    BY DEF RecvType
  <2> QED BY <2>1 DEF WasReset
<1> HIDE DEF l, o, n, d, t
<1>5. /\ WasReset(y, size) \in RecvType
      /\ WasReset(y, size).state = y.state /\ WasReset(y, size).off = o
      /\ WasReset(y, size).len = l /\ WasReset(y, size).fin_off = size
      /\ WasReset(y, size).data = d /\ WasReset(y, size).lost = n
      /\ WasReset(y, size).drain = y.drain
  BY <1>2, <1>3, <1>4 DEF RecvType
<1>6. WasReset(y, size).err
  BY <1>2, <1>3, <1>4 DEF RecvType
<1> QED BY <1>5, <1>6 DEF l, o, n, d

----------------------------------------------------------------------------
(* The writing end                                                         *)

Flying == net \cup arrived

LEMMA Facts ==
    ASSUME IInv
    PROVE  /\ error = "none" /\ Sound(snd, rcv, Flying)
           /\ snd \in SndType /\ rcv \in RcvType /\ Flying \subseteq Frame
           /\ LimitsOK(snd, rcv) /\ SumsOK(snd, rcv)
           /\ \A f \in Flying : FrameOK(f, snd, rcv)
           /\ \A s \in Streams : /\ snd.str[s] \in SendType /\ rcv.str[s] \in RecvType
                                 /\ WriterOK(s, snd.str[s]) /\ ReaderOK(rcv.str[s])
                                 /\ Agree(s, snd.str[s], rcv.str[s])
BY DEF IInv, Sound, TypeOK, LinksOK, SndType, RcvType, Flying

LEMMA NextIInv ==
    ASSUME error' = "none", Sound(snd', rcv', Flying')
    PROVE  IInv'
BY DEF IInv, Flying

LEMMA StreamSendKeeps ==
    ASSUME CapFactor = 1, IInv, NEW s \in Streams, StreamSend(s)
    PROVE  IInv'
<1>1. PICK cwnd \in Cwnds :
        LET n == Smaller(TxCap(cwnd), StreamLen[s] - snd.str[s].written)
        IN  /\ n > 0 \/ snd.str[s].state = "idle"
            /\ snd' = [snd EXCEPT !.opened = Larger(@, s + 1), !.tx_data = @ + n,
                                  !.str[s] = Wrote(@, n)]
  BY DEF StreamSend
<1> DEFINE w == snd.str[s]
           n == Smaller(TxCap(cwnd), StreamLen[s] - w.written)
           x == Wrote(w, n)
           o == Larger(snd.opened, s + 1)
           t == snd.tx_data + n
<1>2. snd' = [snd EXCEPT !.opened = o, !.tx_data = t, !.str[s] = x]
  BY <1>1
<1>3. /\ snd.opened \in Nat /\ snd.peer_max \in Nat /\ s \in Nat
      /\ snd.max_tx_data \in Int /\ snd.tx_data \in Int
      /\ snd.opened <= snd.peer_max /\ snd.tx_data <= snd.max_tx_data
  BY Facts, StreamsFinite DEF SndType, LimitsOK, SumsOK
<1>4. /\ w \in SendType /\ WriterOK(s, w) /\ w.written \in Nat /\ w.emit_off \in Nat
      /\ w.pending \subseteq Nat /\ ~Ended(w) /\ w.reset = Unknown
  <2>1. w \in SendType /\ WriterOK(s, w)
    BY Facts
  <2>2. ~Ended(w)
    BY DEF StreamSend, Ended
  <2> QED BY <2>1, <2>2 DEF SendType, WriterOK
<1>5. StreamLen[s] \in Nat
  BY Lengths
<1>6. n \in Nat /\ n <= snd.max_tx_data - snd.tx_data /\ n <= StreamLen[s] - w.written
  <2>1. cwnd \in Nat
    BY StreamsAssumption
  <2>2. TxCap(cwnd) = Smaller(cwnd, snd.max_tx_data - snd.tx_data)
    <3>1. ~(snd.tx_data > snd.max_tx_data)
      BY <1>3
    <3>2. Smaller(cwnd, snd.max_tx_data - snd.tx_data) \in Int
      <4>1. snd.max_tx_data - snd.tx_data \in Int
        BY <1>3
      <4> QED BY <2>1, <4>1 DEF Smaller
    <3>3. TxCap(cwnd) = 1 * Smaller(cwnd, snd.max_tx_data - snd.tx_data)
      BY <3>1 DEF TxCap
    <3> QED BY <3>2, <3>3
  <2>3. snd.max_tx_data - snd.tx_data \in Nat /\ StreamLen[s] - w.written \in Nat
    BY <1>3, <1>4, <1>5 DEF WriterOK
  <2>4. TxCap(cwnd) \in Nat /\ TxCap(cwnd) <= snd.max_tx_data - snd.tx_data
    BY <2>1, <2>2, <2>3 DEF Smaller
  <2> QED BY <2>3, <2>4 DEF Smaller
<1> HIDE DEF n
<1>7. /\ x \in SendType /\ x.state = "open" /\ x.written = w.written + n
      /\ x.pending = w.pending \cup (w.written .. w.written + n - 1)
      /\ x.emit_off = w.emit_off /\ x.reset = w.reset
      /\ x.stopped = w.stopped /\ x.shut = w.shut
  BY <1>4, <1>6, WroteIs
<1>8. ~Ended(x)
  BY <1>4, <1>7 DEF Ended
<1>9. WriterOK(s, x)
  <2>1. x.emit_off <= x.written /\ x.written <= StreamLen[s]
    BY <1>4, <1>5, <1>6, <1>7 DEF WriterOK
  <2>2. \A u \in x.pending : u < x.written
    <3> TAKE u \in x.pending
    <3>1. CASE u \in w.pending
      BY <3>1, <1>4, <1>6, <1>7 DEF WriterOK
    <3>2. CASE u \in w.written .. w.written + n - 1
      BY <3>2, <1>4, <1>6, <1>7
    <3> QED BY <3>1, <3>2, <1>7
  <2> QED BY <2>1, <2>2, <1>4, <1>7, <1>8 DEF WriterOK
<1> HIDE DEF x
<1>10. o \in Nat /\ o >= snd.opened /\ s < o /\ o <= snd.peer_max
  <2>1. s + 1 <= snd.peer_max
    <3>1. CASE w.state = "open"
      <4>1. s < snd.opened
        BY <3>1, Facts DEF LimitsOK
      <4> QED BY <4>1, <1>3
    <3>2. CASE w.state = "idle"
      BY <3>2 DEF StreamSend
    <3> QED BY <3>1, <3>2 DEF StreamSend
  <2> QED BY <2>1, <1>3 DEF Larger
<1>11. t \in Int /\ t <= snd.max_tx_data /\ t = snd.tx_data - w.written + x.written
  BY <1>3, <1>4, <1>6, <1>7
<1> HIDE DEF o, t
<1>12. /\ snd' \in SndType /\ snd'.str = [snd.str EXCEPT ![s] = x]
       /\ snd'.max_tx_data = snd.max_tx_data /\ snd'.peer_max = snd.peer_max
       /\ snd'.tx_data = t /\ snd'.opened = o
  BY <1>2, <1>7, <1>10, <1>11, Facts DEF SndType
<1>13. Continues(w, x)
  BY <1>4, <1>7 DEF Continues
<1>14. Sound(snd', rcv, Flying)
  BY <1>7, <1>9, <1>10, <1>11, <1>12, <1>13, Facts, WriterStep
<1>15. rcv' = rcv /\ Flying' = Flying /\ error' = "none"
  BY DEF StreamSend, Flying
<1> QED BY <1>14, <1>15, NextIInv

(* Credit is taken back for what was written and not sent, and only that.  *)
LEMMA ClawbackSound ==
    ASSUME IInv, NEW s \in Streams, snd.str[s].state = "open",
           NEW x \in SendType, x.state = "open", x.pending = {}, Ended(x),
           x.emit_off = snd.str[s].emit_off, x.written = x.emit_off, x.reset = x.emit_off,
           NEW c \in SndType, c.str = [snd.str EXCEPT ![s] = x],
           c.opened = snd.opened, c.peer_max = snd.peer_max, c.max_tx_data = snd.max_tx_data,
           c.tx_data = Larger(0, snd.tx_data - (snd.str[s].written - snd.str[s].emit_off)),
           NEW sent \in SUBSET Flying
    PROVE  Sound(c, rcv, sent)
<1> DEFINE w == snd.str[s]
<1>1. /\ w \in SendType /\ WriterOK(s, w) /\ w.written \in Nat /\ w.emit_off \in Nat
      /\ x.written \in Nat /\ w.emit_off <= w.written /\ w.emit_off <= StreamLen[s]
  <2>1. w \in SendType /\ WriterOK(s, w)
    BY Facts
  <2>2. StreamLen[s] \in Nat
    BY Lengths
  <2> QED BY <2>1, <2>2 DEF SendType, WriterOK
<1>2. WriterOK(s, x)
  BY <1>1 DEF WriterOK
<1>3. w.written <= snd.tx_data
  <2> DEFINE f == [r \in Streams |-> IF r = s THEN w.written ELSE 0]
             z == [r \in Streams |-> 0]
  <2>1. f \in [Streams -> Nat] /\ z \in [Streams -> Nat] /\ f[s] = w.written /\ z[s] = 0
    BY <1>1
  <2>2. Written(snd) \in [Streams -> Nat] /\ Written(snd)[s] = w.written
    BY Facts, SumTypes DEF Written
  <2>3. \A r \in Streams : z[r] <= Written(snd)[r]
    BY <2>2
  <2>4. \A r \in Streams : z[r] = 0
    OBVIOUS
  <2> HIDE DEF z
  <2>5. Total(z) = 0
    BY <2>1, <2>4, TotalZero
  <2>6. Total(z) + (Written(snd)[s] - z[s]) <= Total(Written(snd))
    BY <2>1, <2>2, <2>3, TotalGrows
  <2>7. snd.tx_data = Total(Written(snd))
    BY Facts DEF SumsOK
  <2>8. Total(Written(snd)) \in Nat
    BY <2>2, UnitsFinite
  <2> QED BY <2>1, <2>2, <2>5, <2>6, <2>7, <2>8, <1>1
<1>4. snd.tx_data \in Int /\ snd.max_tx_data \in Int /\ snd.tx_data <= snd.max_tx_data
  BY Facts DEF SndType, SumsOK
<1>5. c.tx_data = snd.tx_data - w.written + x.written /\ c.tx_data <= snd.max_tx_data
  BY <1>1, <1>3, <1>4 DEF Larger
<1>6. s < snd.opened /\ snd.opened <= snd.peer_max /\ snd.opened \in Nat
  BY Facts DEF LimitsOK, SndType
<1>7. Continues(w, x)
  BY <1>1 DEF Continues
<1>8. \A f \in sent : f \in Flying
  OBVIOUS
<1>9. sent \in SUBSET Frame
  BY Facts
<1>10. c.opened >= snd.opened /\ c.opened <= snd.peer_max
  BY <1>6
<1> QED BY <1>2, <1>5, <1>6, <1>7, <1>8, <1>9, <1>10, Facts, WriterStep

(* The writer's state after Clawback                                       *)
LEMMA ClawbackIs ==
    ASSUME IInv, NEW s \in Streams
    PROVE  LET c == Clawback(snd, s) IN
           /\ c \in SndType /\ c.str = [snd.str EXCEPT ![s] = Dropped(snd.str[s])]
           /\ c.opened = snd.opened /\ c.peer_max = snd.peer_max
           /\ c.max_tx_data = snd.max_tx_data
           /\ c.tx_data = Larger(0, snd.tx_data - (snd.str[s].written - snd.str[s].emit_off))
<1> DEFINE t == Larger(0, snd.tx_data - (snd.str[s].written - snd.str[s].emit_off))
           x == Dropped(snd.str[s])
<1>1. x \in SendType
  BY Facts, DroppedIs
<1>2. t \in Int
  BY Facts DEF Larger, SndType, SendType
<1>3. Clawback(snd, s) = [snd EXCEPT !.tx_data = t, !.str[s] = x]
  BY DEF Clawback
<1> HIDE DEF t, x
<1>4. /\ Clawback(snd, s) \in SndType /\ Clawback(snd, s).str = [snd.str EXCEPT ![s] = x]
      /\ Clawback(snd, s).opened = snd.opened /\ Clawback(snd, s).peer_max = snd.peer_max
      /\ Clawback(snd, s).max_tx_data = snd.max_tx_data /\ Clawback(snd, s).tx_data = t
  BY <1>1, <1>2, <1>3, Facts DEF SndType
<1> QED BY <1>4 DEF t, x

LEMMA ShutdownWriteKeeps ==
    ASSUME IInv, NEW s \in Streams, StreamShutdownWrite(s)
    PROVE  IInv'
<1> DEFINE w == snd.str[s]
           q == Clawback(snd, s)
           d == Dropped(w)
           x == [d EXCEPT !.shut = TRUE]
<1>1. /\ q \in SndType /\ q.str = [snd.str EXCEPT ![s] = d]
      /\ q.opened = snd.opened /\ q.peer_max = snd.peer_max
      /\ q.max_tx_data = snd.max_tx_data
      /\ q.tx_data = Larger(0, snd.tx_data - (w.written - w.emit_off))
  BY ClawbackIs
<1>2. /\ d \in SendType /\ d.state = "open" /\ d.pending = {}
      /\ d.emit_off = w.emit_off /\ d.written = w.emit_off /\ d.reset = w.emit_off
  BY Facts, DroppedIs DEF StreamShutdownWrite
<1>3. snd' = [q EXCEPT !.str[s].shut = TRUE]
  BY DEF StreamShutdownWrite
<1> HIDE DEF q, d
<1>4. /\ x \in SendType /\ x.state = "open" /\ x.pending = {}
      /\ x.emit_off = w.emit_off /\ x.written = w.emit_off /\ x.reset = w.emit_off
  BY <1>2 DEF SendType
<1>5. x.shut
  BY <1>2 DEF SendType
<1>6. q.str[s] = d
  BY <1>1, Facts DEF SndType
<1>7. /\ snd'.str = [q.str EXCEPT ![s] = x]
      /\ snd'.opened = q.opened /\ snd'.peer_max = q.peer_max
      /\ snd'.max_tx_data = q.max_tx_data /\ snd'.tx_data = q.tx_data
      /\ snd' \in SndType
  BY <1>1, <1>3, <1>4, <1>6 DEF SndType
<1>8. snd'.str = [snd.str EXCEPT ![s] = x]
  BY <1>1, <1>7, Facts DEF SndType
<1> HIDE DEF x
<1>9. Ended(x)
  BY <1>5 DEF Ended
<1>10. snd.str[s].state = "open"
  BY DEF StreamShutdownWrite
<1>11. Sound(snd', rcv, Flying)
  BY <1>1, <1>4, <1>7, <1>8, <1>9, <1>10, ClawbackSound
<1>12. rcv' = rcv /\ Flying' = Flying /\ error' = "none"
  BY DEF StreamShutdownWrite, Flying
<1> QED BY <1>11, <1>12, NextIInv

LEMMA StopSendingKeeps ==
    ASSUME IInv, NEW f \in net, RecvStopSending(f)
    PROVE  IInv'
<1>1. PICK s \in Streams : s = f.s
  BY Facts DEF Flying, Frame
<1> DEFINE w == snd.str[s]
           q == Clawback(snd, s)
           d == Dropped(w)
           x == [d EXCEPT !.stopped = TRUE]
<1>2. rcv' = rcv /\ Flying' = Flying /\ error' = "none"
  BY DEF RecvStopSending, Take, Flying
<1>3. CASE snd' = snd
  <2>1. Sound(snd', rcv, Flying)
    BY <1>3, Facts
  <2> QED BY <1>2, <2>1, NextIInv
<1>4. CASE w.state = "open" /\ snd' = [q EXCEPT !.str[s].stopped = TRUE]
  <2>1. /\ q \in SndType /\ q.str = [snd.str EXCEPT ![s] = d]
        /\ q.opened = snd.opened /\ q.peer_max = snd.peer_max
        /\ q.max_tx_data = snd.max_tx_data
        /\ q.tx_data = Larger(0, snd.tx_data - (w.written - w.emit_off))
    BY <1>1, ClawbackIs
  <2>2. /\ d \in SendType /\ d.state = "open" /\ d.pending = {}
        /\ d.emit_off = w.emit_off /\ d.written = w.emit_off /\ d.reset = w.emit_off
    BY <1>1, <1>4, Facts, DroppedIs
  <2> HIDE DEF q, d
  <2>3. /\ x \in SendType /\ x.state = "open" /\ x.pending = {}
        /\ x.emit_off = w.emit_off /\ x.written = w.emit_off /\ x.reset = w.emit_off
    BY <2>2 DEF SendType
  <2>4. x.stopped
    BY <2>2 DEF SendType
  <2>5. q.str[s] = d
    BY <1>1, <2>1, Facts DEF SndType
  <2>6. /\ snd'.str = [q.str EXCEPT ![s] = x]
        /\ snd'.opened = q.opened /\ snd'.peer_max = q.peer_max
        /\ snd'.max_tx_data = q.max_tx_data /\ snd'.tx_data = q.tx_data
        /\ snd' \in SndType
    BY <1>1, <1>4, <2>1, <2>3, <2>5 DEF SndType
  <2>7. snd'.str = [snd.str EXCEPT ![s] = x]
    BY <1>1, <2>1, <2>6, Facts DEF SndType
  <2> HIDE DEF x
  <2>8. Ended(x)
    BY <2>4 DEF Ended
  <2>9. snd.str[s].state = "open"
    BY <1>4
  <2>10. Sound(snd', rcv, Flying)
    BY <2>1, <2>3, <2>6, <2>7, <2>8, <2>9, ClawbackSound
  <2> QED BY <1>2, <2>10, NextIInv
<1> QED BY <1>1, <1>3, <1>4 DEF RecvStopSending

(* Steps of one stream of the writer that take no credit                   *)
LEMMA WriterOnly ==
    ASSUME IInv, NEW s \in Streams, NEW x \in SendType,
           NEW c, c = [snd EXCEPT !.str[s] = x], NEW sent \in SUBSET Frame,
           x.written = snd.str[s].written,
           x.state # "idle" => snd.str[s].state # "idle",
           WriterOK(s, x), Continues(snd.str[s], x),
           \A f \in sent : f \in Flying \/ FrameOK(f, c, rcv)
    PROVE  Sound(c, rcv, sent)
<1>1. /\ c \in SndType /\ c.str = [snd.str EXCEPT ![s] = x]
      /\ c.opened = snd.opened /\ c.peer_max = snd.peer_max
      /\ c.max_tx_data = snd.max_tx_data /\ c.tx_data = snd.tx_data
  BY Facts DEF SndType
<1>2. /\ snd.opened \in Nat /\ snd.opened <= snd.peer_max
      /\ snd.tx_data \in Int /\ snd.tx_data <= snd.max_tx_data
      /\ snd.str[s].state # "idle" => s < snd.opened
  BY Facts DEF SndType, LimitsOK, SumsOK
<1>3. c.opened >= snd.opened /\ c.opened <= snd.peer_max /\ c.tx_data <= snd.max_tx_data
  BY <1>1, <1>2
<1>4. snd.str[s].written \in Nat
  BY Facts DEF SendType
<1>5. c.tx_data = snd.tx_data - snd.str[s].written + x.written
  BY <1>1, <1>2, <1>4
<1>6. x.state # "idle" => s < c.opened
  BY <1>1, <1>2
<1> QED BY <1>1, <1>3, <1>5, <1>6, Facts, WriterStep

LEMMA MinIn ==
    ASSUME NEW S \in SUBSET Nat, S # {}
    PROVE  Min(S) \in S
<1>1. PICK x \in S : \A y \in S : ~(<<y, x>> \in OpToRel(<, Nat))
  BY WFMin, NatLessThanWellFounded
<1>2. x \in Nat /\ S \subseteq Nat
  OBVIOUS
<1>3. \A y \in S : ~(y < x)
  BY <1>1, <1>2, Zenon DEF OpToRel
<1>4. \A y \in S : x <= y
  BY <1>2, <1>3
<1> QED BY <1>4 DEF Min

LEMMA FramesAre ==
    /\ \A s \in Streams, u \in Int : Data(s, u) \in Frame /\ Reset(s, u) \in Frame
    /\ \A s \in Streams : Stop(s) \in Frame
    /\ \A n \in Int : MaxData(n) \in Frame /\ MaxStreams(n) \in Frame
<1>1. 0 \in Streams
  BY StreamsAssumption DEF Streams
<1> QED BY <1>1 DEF Data, Reset, Stop, MaxData, MaxStreams, Frame, FrameTypes

LEMMA SendStreamKeeps ==
    ASSUME IInv, NEW s \in Streams, SendStream(s)
    PROVE  IInv'
<1> DEFINE w == snd.str[s]
           u == Min(w.pending)
           x == Emitted(w, u)
<1>1. w \in SendType /\ WriterOK(s, w) /\ w.state = "open" /\ w.pending # {}
  BY Facts DEF SendStream
<1>2. /\ snd' = [snd EXCEPT !.str[s] = x] /\ net' = net \cup {Data(s, u)}
      /\ rcv' = rcv /\ error' = "none" /\ arrived' = arrived
  BY DEF SendStream
<1>3. w.written \in Nat /\ w.emit_off \in Nat /\ w.pending \subseteq Nat
  BY <1>1 DEF SendType
<1>4. u \in w.pending /\ u \in Nat
  BY <1>1, <1>3, MinIn
<1> HIDE DEF u
<1>5. /\ x \in SendType /\ x.state = w.state /\ x.written = w.written
      /\ x.pending = w.pending \ {u} /\ x.emit_off = Larger(w.emit_off, u + 1)
      /\ x.reset = w.reset /\ x.stopped = w.stopped /\ x.shut = w.shut
  BY <1>1, <1>4, EmittedIs
<1> HIDE DEF x
<1>6. u < w.written /\ ~Ended(w)
  BY <1>1, <1>4 DEF WriterOK
<1>7. ~Ended(x)
  BY <1>5, <1>6 DEF Ended
<1>8. x.emit_off \in Nat /\ w.emit_off <= x.emit_off /\ u < x.emit_off /\ x.emit_off <= w.written
  BY <1>1, <1>3, <1>4, <1>5, <1>6 DEF Larger, WriterOK
<1>9. WriterOK(s, x)
  BY <1>1, <1>5, <1>6, <1>7, <1>8 DEF WriterOK
<1>10. Continues(w, x)
  BY <1>6, <1>8 DEF Continues
<1>11. snd'.str[s] = x
  BY <1>2, Facts DEF SndType
<1>12. FrameOK(Data(s, u), snd', rcv)
  BY <1>4, <1>8, <1>11 DEF FrameOK, Data
<1>13. Flying' = Flying \cup {Data(s, u)} /\ Flying' \in SUBSET Frame
  BY <1>2, <1>4, FramesAre, Facts DEF Flying
<1>14. \A f \in Flying' : f \in Flying \/ FrameOK(f, snd', rcv)
  BY <1>12, <1>13
<1>15. Sound(snd', rcv, Flying')
  BY <1>1, <1>2, <1>5, <1>9, <1>10, <1>13, <1>14, WriterOnly
<1> QED BY <1>2, <1>15, NextIInv

LEMMA SendResetKeeps ==
    ASSUME IInv, NEW s \in Streams, SendReset(s)
    PROVE  IInv'
<1> DEFINE w == snd.str[s]
           x == [w EXCEPT !.reset = Unknown]
<1>1. w \in SendType /\ WriterOK(s, w) /\ w.reset # Unknown
  BY Facts DEF SendReset
<1>2. /\ snd' = [snd EXCEPT !.str[s].reset = Unknown] /\ net' = net \cup {Reset(s, w.reset)}
      /\ rcv' = rcv /\ error' = "none" /\ arrived' = arrived
  BY DEF SendReset
<1>3. snd' = [snd EXCEPT !.str[s] = x]
  BY <1>2
<1>4. w.emit_off \in Nat /\ w.reset = w.emit_off /\ Ended(w)
  BY <1>1 DEF SendType, WriterOK
<1>5. /\ x \in SendType /\ x.state = w.state /\ x.written = w.written
      /\ x.pending = w.pending /\ x.emit_off = w.emit_off
      /\ x.reset = Unknown /\ x.stopped = w.stopped /\ x.shut = w.shut
  BY <1>1 DEF SendType
<1> HIDE DEF x
<1>6. Ended(x)
  BY <1>4, <1>5 DEF Ended
<1>7. WriterOK(s, x) /\ Continues(w, x)
  BY <1>1, <1>4, <1>5, <1>6 DEF WriterOK, Continues
<1>8. snd'.str[s] = x
  BY <1>3, Facts DEF SndType
<1>9. FrameOK(Reset(s, w.reset), snd', rcv)
  BY <1>4, <1>5, <1>6, <1>8 DEF FrameOK, Reset
<1>10. Flying' = Flying \cup {Reset(s, w.reset)} /\ Flying' \in SUBSET Frame
  BY <1>2, <1>4, FramesAre, Facts DEF Flying
<1>11. \A f \in Flying' : f \in Flying \/ FrameOK(f, snd', rcv)
  BY <1>9, <1>10
<1>12. x.state # "idle" => w.state # "idle"
  BY <1>5
<1>13. Sound(snd', rcv, Flying')
  BY <1>3, <1>5, <1>7, <1>10, <1>11, <1>12, WriterOnly
<1> QED BY <1>2, <1>13, NextIInv

LEMMA MaxDataKeeps ==
    ASSUME IInv, NEW f \in net, RecvMaxData(f)
    PROVE  IInv'
<1> DEFINE m == Larger(snd.max_tx_data, f.u)
<1>1. /\ f.type = "max_data" /\ snd' = [snd EXCEPT !.max_tx_data = m]
      /\ rcv' = rcv /\ Flying' = Flying /\ error' = "none"
  BY DEF RecvMaxData, Take, Flying
<1>2. f.u \in Int /\ f.u <= rcv.max_data
  BY <1>1, Facts DEF Flying, Frame, FrameOK
<1>3. /\ snd.max_tx_data \in Int /\ rcv.max_data \in Int /\ snd.max_tx_data <= rcv.max_data
      /\ snd.peer_max \in Nat /\ snd.peer_max <= rcv.max_streams
      /\ rcv.max_streams \in Nat /\ rcv.max_streams <= rcv.max_streams_next
  BY Facts DEF SndType, RcvType, SumsOK, LimitsOK
<1>4. m \in Int /\ m >= snd.max_tx_data /\ m <= rcv.max_data
  BY <1>2, <1>3 DEF Larger
<1> HIDE DEF m
<1>5. /\ snd' \in SndType /\ snd'.str = snd.str /\ snd'.opened = snd.opened
      /\ snd'.tx_data = snd.tx_data /\ snd'.max_tx_data = m /\ snd'.peer_max = snd.peer_max
  BY <1>1, <1>4, Facts DEF SndType
<1>6. /\ snd'.peer_max >= snd.peer_max /\ rcv.max_data >= rcv.max_data
      /\ rcv.max_streams >= rcv.max_streams
  BY <1>3, <1>5
<1>7. Sound(snd', rcv, Flying)
  BY <1>3, <1>4, <1>5, <1>6, Facts, LimitStep
<1> QED BY <1>1, <1>7, NextIInv

LEMMA MaxStreamsKeeps ==
    ASSUME IInv, NEW f \in net, RecvMaxStreams(f)
    PROVE  IInv'
<1> DEFINE m == Larger(snd.peer_max, f.u)
<1>1. /\ f.type = "max_streams" /\ snd' = [snd EXCEPT !.peer_max = m]
      /\ rcv' = rcv /\ Flying' = Flying /\ error' = "none"
  BY DEF RecvMaxStreams, Take, Flying
<1>2. f.u \in Nat /\ f.u <= rcv.max_streams
  BY <1>1, Facts DEF Flying, Frame, FrameOK
<1>3. /\ snd.max_tx_data \in Int /\ rcv.max_data \in Int /\ snd.max_tx_data <= rcv.max_data
      /\ snd.peer_max \in Nat /\ snd.peer_max <= rcv.max_streams
      /\ rcv.max_streams \in Nat /\ rcv.max_streams <= rcv.max_streams_next
  BY Facts DEF SndType, RcvType, SumsOK, LimitsOK
<1>4. m \in Nat /\ m >= snd.peer_max /\ m <= rcv.max_streams
  BY <1>2, <1>3 DEF Larger
<1> HIDE DEF m
<1>5. /\ snd' \in SndType /\ snd'.str = snd.str /\ snd'.opened = snd.opened
      /\ snd'.tx_data = snd.tx_data /\ snd'.max_tx_data = snd.max_tx_data /\ snd'.peer_max = m
  BY <1>1, <1>4, Facts DEF SndType
<1>6. /\ snd'.max_tx_data >= snd.max_tx_data /\ rcv.max_data >= rcv.max_data
      /\ rcv.max_streams >= rcv.max_streams
  BY <1>3, <1>5
<1>7. Sound(snd', rcv, Flying)
  BY <1>3, <1>4, <1>5, <1>6, Facts, LimitStep
<1> QED BY <1>1, <1>7, NextIInv

----------------------------------------------------------------------------
(* Acknowledgement and loss                                                *)

LEMMA FewerFrames ==
    ASSUME IInv, NEW sent \in SUBSET Flying
    PROVE  /\ Sound(snd, rcv, sent) /\ sent \in SUBSET Frame
           /\ \A c, d : \A f \in sent : f \in Flying \/ FrameOK(f, c, d)
<1>1. Sound(snd, rcv, Flying)
  BY Facts
<1>2. sent \in SUBSET Frame
  BY Facts
<1> QED BY <1>1, <1>2 DEF Sound, TypeOK

LEMMA AckedKeeps ==
    ASSUME IInv, NEW f \in arrived, Acked(f)
    PROVE  IInv'
<1>1. PICK s \in Streams : s = f.s
  BY Facts DEF Flying, Frame
<1>2. rcv' = rcv /\ error' = "none" /\ Flying' \in SUBSET Flying
  BY Facts DEF Acked, Flying
<1> DEFINE w == snd.str[s]
           v == IF f.type = "stream" THEN [w EXCEPT !.acked = @ \cup {f.u}] ELSE w
           x == IF SendComplete(s, v) THEN [v EXCEPT !.state = "collected"] ELSE v
<1>3. CASE snd' = snd
  BY <1>2, <1>3, FewerFrames, NextIInv
<1>4. CASE v.state = "open" /\ snd' = [snd EXCEPT !.str[s] = x]
  <2>1. w \in SendType /\ WriterOK(s, w) /\ w.emit_off \in Nat
    BY Facts DEF SendType
  <2>2. f.type = "stream" => f.u \in Nat
    BY Facts DEF Flying, Frame, FrameOK
  <2>3. /\ v \in SendType /\ v.state = w.state /\ v.written = w.written
        /\ v.pending = w.pending /\ v.emit_off = w.emit_off
        /\ v.reset = w.reset /\ v.stopped = w.stopped /\ v.shut = w.shut
    <3>1. CASE f.type # "stream"
      BY <3>1, <2>1
    <3>2. CASE f.type = "stream"
      <4> DEFINE k == w.acked \cup {f.u}
      <4>1. k \in SUBSET Nat
        BY <3>2, <2>1, <2>2 DEF SendType
      <4>2. v = [w EXCEPT !.acked = k]
        BY <3>2
      <4> HIDE DEF k, v
      <4> QED BY <2>1, <4>1, <4>2 DEF SendType
    <3> QED BY <3>1, <3>2
  <2> HIDE DEF v
  <2>4. /\ x \in SendType /\ x.state \in {"open", "collected"} /\ x.written = w.written
        /\ x.pending = w.pending /\ x.emit_off = w.emit_off
        /\ x.reset = w.reset /\ x.stopped = w.stopped /\ x.shut = w.shut
    <3>1. CASE ~SendComplete(s, v)
      BY <3>1, <2>3, <1>4
    <3>2. CASE SendComplete(s, v)
      <4>1. x = [v EXCEPT !.state = "collected"]
        BY <3>2
      <4> HIDE DEF x
      <4> QED BY <4>1, <2>3 DEF SendType, States
    <3> QED BY <3>1, <3>2
  <2> HIDE DEF x
  <2>5. Ended(x) <=> Ended(w)
    BY <2>4 DEF Ended
  <2>6. WriterOK(s, x)
    BY <2>1, <2>4, <2>5 DEF WriterOK
  <2>7. Continues(w, x)
    BY <2>1, <2>4, <2>5 DEF Continues
  <2>8. w.state # "idle"
    BY <1>4, <2>3
  <2>9. snd' = [snd EXCEPT !.str[s] = x]
    BY <1>4
  <2>10. Flying' \in SUBSET Frame /\ \A g \in Flying' : g \in Flying \/ FrameOK(g, snd', rcv)
    BY <1>2, FewerFrames
  <2>11. Sound(snd', rcv, Flying')
    BY <2>4, <2>6, <2>7, <2>8, <2>9, <2>10, WriterOnly
  <2> QED BY <1>2, <2>11, NextIInv
<1> QED BY <1>1, <1>3, <1>4 DEF Acked

(* A change of the reader's flag only                                      *)
LEMMA FlagStep ==
    ASSUME IInv, NEW t \in BOOLEAN, NEW d, d = [rcv EXCEPT !.almost_full = t],
           NEW sent \in SUBSET Flying
    PROVE  Sound(snd, d, sent)
<1>1. /\ d \in RcvType /\ d.str = rcv.str /\ d.rx_data = rcv.rx_data
      /\ d.consumed = rcv.consumed /\ d.peer_opened = rcv.peer_opened
      /\ d.max_data = rcv.max_data /\ d.max_streams = rcv.max_streams
      /\ d.max_streams_next = rcv.max_streams_next
  BY Facts DEF RcvType
<1>2. /\ snd.max_tx_data \in Int /\ rcv.max_data \in Int /\ snd.max_tx_data <= rcv.max_data
      /\ snd.peer_max \in Nat /\ snd.peer_max <= rcv.max_streams
      /\ rcv.max_streams \in Nat /\ rcv.max_streams <= rcv.max_streams_next
  BY Facts DEF SndType, RcvType, SumsOK, LimitsOK
<1>3. /\ snd.max_tx_data >= snd.max_tx_data /\ snd.max_tx_data <= d.max_data
      /\ snd.peer_max >= snd.peer_max /\ snd.peer_max <= d.max_streams
      /\ d.max_data >= rcv.max_data /\ d.max_streams >= rcv.max_streams
      /\ d.max_streams <= d.max_streams_next
  BY <1>1, <1>2
<1>4. sent \in SUBSET Frame /\ \A f \in sent : f \in Flying \/ FrameOK(f, snd, d)
  BY FewerFrames
<1> QED BY <1>1, <1>3, <1>4, Facts, LimitStep

LEMMA LostKeeps ==
    ASSUME IInv, NEW f \in net \cup arrived, Lost(f)
    PROVE  IInv'
<1>1. PICK s \in Streams : s = f.s
  BY Facts DEF Flying, Frame
<1>2. f \in Frame /\ FrameOK(f, snd, rcv)
  BY Facts DEF Flying
<1>3. error' = "none" /\ Flying' \in SUBSET Flying /\ Requeue(f)
  BY Facts DEF Lost, Flying
<1> DEFINE w == snd.str[s]
<1>4. w \in SendType /\ WriterOK(s, w) /\ w.emit_off \in Nat /\ w.written \in Nat /\ w.pending \subseteq Nat
  BY Facts DEF SendType
<1>5. \A c : Flying' \in SUBSET Frame /\ \A g \in Flying' : g \in Flying \/ FrameOK(g, c, rcv)
  BY <1>3, FewerFrames
<1>6. CASE snd' = snd /\ rcv' = rcv
  BY <1>3, <1>6, FewerFrames, NextIInv
<1>7. CASE /\ f.type = "stream" /\ rcv' = rcv /\ ~Ended(w)
           /\ snd' = [snd EXCEPT !.str[s].pending = @ \cup {f.u}]
  <2> DEFINE x == [w EXCEPT !.pending = @ \cup {f.u}]
  <2>1. snd' = [snd EXCEPT !.str[s] = x]
    BY <1>7
  <2>2. f.u \in Nat /\ f.u < w.emit_off
    BY <1>1, <1>2, <1>7 DEF Frame, FrameOK
  <2>3. w.pending \cup {f.u} \subseteq Nat
    BY <1>4, <2>2
  <2>4. /\ x \in SendType /\ x.state = w.state /\ x.written = w.written
        /\ x.pending = w.pending \cup {f.u} /\ x.emit_off = w.emit_off
        /\ x.reset = w.reset /\ x.stopped = w.stopped /\ x.shut = w.shut
    BY <1>4, <2>3 DEF SendType
  <2> HIDE DEF x
  <2>5. ~Ended(x)
    BY <1>7, <2>4 DEF Ended
  <2>6. \A u \in x.pending : u < x.written
    BY <1>4, <2>2, <2>4 DEF WriterOK
  <2>7. WriterOK(s, x)
    BY <1>4, <1>7, <2>4, <2>5, <2>6 DEF WriterOK
  <2>8. Continues(w, x)
    BY <1>4, <1>7, <2>4 DEF Continues
  <2>9. x.state # "idle" => w.state # "idle"
    BY <2>4
  <2>10. Sound(snd', rcv, Flying')
    BY <1>5, <2>1, <2>4, <2>7, <2>8, <2>9, WriterOnly
  <2> QED BY <1>3, <1>7, <2>10, NextIInv
<1>8. CASE f.type = "reset" /\ rcv' = rcv /\ snd' = [snd EXCEPT !.str[s].reset = f.u]
  <2> DEFINE x == [w EXCEPT !.reset = f.u]
  <2>1. snd' = [snd EXCEPT !.str[s] = x]
    BY <1>8
  <2>2. f.u = w.emit_off /\ Ended(w)
    BY <1>1, <1>2, <1>8 DEF FrameOK
  <2>3. /\ x \in SendType /\ x.state = w.state /\ x.written = w.written
        /\ x.pending = w.pending /\ x.emit_off = w.emit_off
        /\ x.reset = f.u /\ x.stopped = w.stopped /\ x.shut = w.shut
    BY <1>4, <2>2 DEF SendType
  <2> HIDE DEF x
  <2>4. Ended(x)
    BY <2>2, <2>3 DEF Ended
  <2>5. WriterOK(s, x)
    BY <1>4, <2>2, <2>3, <2>4 DEF WriterOK
  <2>6. Continues(w, x)
    BY <1>4, <2>3, <2>4 DEF Continues
  <2>7. x.state # "idle" => w.state # "idle"
    BY <2>3
  <2>8. Sound(snd', rcv, Flying')
    BY <1>5, <2>1, <2>3, <2>5, <2>6, <2>7, WriterOnly
  <2> QED BY <1>3, <1>8, <2>8, NextIInv
<1>9. CASE rcv' = [rcv EXCEPT !.almost_full = TRUE] /\ snd' = snd
  <2>1. Sound(snd, rcv', Flying')
    BY <1>3, <1>9, FlagStep
  <2> QED BY <1>3, <1>9, <2>1, NextIInv
<1> QED
  <2>1. CASE f.type = "stream"
    BY <1>1, <1>3, <1>6, <1>7, <2>1 DEF Requeue, Ended
  <2>2. CASE f.type = "reset"
    BY <1>1, <1>3, <1>6, <1>8, <2>2 DEF Requeue
  <2>3. CASE f.type \notin {"stream", "reset"}
    BY <1>3, <1>6, <1>9, <2>3 DEF Requeue
  <2> QED BY <2>1, <2>2, <2>3

----------------------------------------------------------------------------
(* The reading end                                                         *)

(* What the writer sent on a stream and the reader has not seen fits the   *)
(* reader's window: the writer counted it before.                          *)
LEMMA Room ==
    ASSUME NEW a, NEW b, NEW frames, Sound(a, b, frames), NEW s \in Streams
    PROVE  b.rx_data + (a.str[s].emit_off - b.str[s].len) <= b.max_data
<1>1. a \in SndType /\ b \in RcvType /\ SumsOK(a, b) /\ LinksOK(a, b)
  BY DEF Sound, TypeOK
<1>2. /\ Written(a) \in [Streams -> Nat] /\ Sent(a) \in [Streams -> Nat]
      /\ Received(b) \in [Streams -> Nat]
  BY SumTypes
<1>3. \A r \in Streams : Received(b)[r] <= Sent(a)[r] /\ Sent(a)[r] <= Written(a)[r]
  BY <1>1 DEF LinksOK, WriterOK, Agree, Received, Sent, Written
<1>4. Total(Received(b)) + (Sent(a)[s] - Received(b)[s]) <= Total(Sent(a))
  BY <1>2, <1>3, TotalGrows
<1>5. Total(Sent(a)) <= Total(Written(a))
  BY <1>2, <1>3, TotalGrows
<1>6. Sent(a)[s] = a.str[s].emit_off /\ Received(b)[s] = b.str[s].len
  BY DEF Sent, Received
<1>7. a.str[s].emit_off \in Nat /\ b.str[s].len \in Nat
  BY <1>2, <1>6
<1>8. Total(Sent(a)) \in Nat /\ Total(Written(a)) \in Nat /\ Total(Received(b)) \in Nat
  BY <1>2, UnitsFinite
<1>9. /\ b.rx_data = Total(Received(b)) /\ a.tx_data = Total(Written(a))
      /\ a.tx_data <= a.max_tx_data /\ a.max_tx_data <= b.max_data
      /\ a.max_tx_data \in Int /\ b.max_data \in Int
  BY <1>1 DEF SumsOK, SndType, RcvType
<1>10. Total(Received(b)) + (a.str[s].emit_off - b.str[s].len) <= Total(Written(a))
  BY <1>4, <1>5, <1>6, <1>7, <1>8
<1>11. Total(Received(b)) + (a.str[s].emit_off - b.str[s].len) \in Int
  BY <1>7, <1>8
<1> QED BY <1>8, <1>9, <1>10, <1>11

LEMMA SoundFacts ==
    ASSUME NEW a, NEW b, NEW frames, Sound(a, b, frames), NEW s \in Streams
    PROVE  /\ a \in SndType /\ b \in RcvType /\ frames \in SUBSET Frame
           /\ a.str[s] \in SendType /\ b.str[s] \in RecvType
           /\ WriterOK(s, a.str[s]) /\ ReaderOK(b.str[s]) /\ Agree(s, a.str[s], b.str[s])
           /\ b.peer_opened <= b.max_streams
           /\ b.str[s].state # "idle" => s < b.peer_opened
           /\ \A d : \A f \in frames : f \in frames \/ FrameOK(f, a, d)
BY DEF Sound, TypeOK, LinksOK, LimitsOK, SndType, RcvType

(* get_or_create of a stream that the writer has opened                    *)
LEMMA CreateSound ==
    ASSUME NEW a, NEW b, NEW frames, Sound(a, b, frames), NEW s \in Streams,
           b.str[s].state # "collected", s < a.opened
    PROVE  LET d == GetOrCreate(b, s) IN
           /\ Sound(a, d, frames)
           /\ d.str[s].state = "open" /\ d.str[s].len = b.str[s].len
           /\ d.rx_data = b.rx_data /\ d.max_data = b.max_data
<1> DEFINE z == b.str[s]
           d == GetOrCreate(b, s)
<1>1. /\ b \in RcvType /\ z \in RecvType /\ ReaderOK(z) /\ Agree(s, a.str[s], z)
      /\ b.peer_opened <= b.max_streams
  BY SoundFacts
<1>2. CASE z.state # "idle"
  <2>1. d = b
    BY <1>2 DEF GetOrCreate
  <2>2. z.state = "open"
    BY <1>1, <1>2 DEF RecvType, States
  <2> QED BY <2>1, <2>2
<1>3. CASE z.state = "idle"
  <2> DEFINE o == Larger(b.peer_opened, s + 1)
             y == [z EXCEPT !.state = "open"]
  <2>1. d = [b EXCEPT !.peer_opened = o, !.str[s].state = "open"]
    BY <1>3 DEF GetOrCreate
  <2>2. /\ a.opened \in Nat /\ a.peer_max \in Nat /\ b.max_streams \in Nat
        /\ b.peer_opened \in Nat /\ s \in Nat
        /\ a.opened <= a.peer_max /\ a.peer_max <= b.max_streams
    BY StreamsFinite DEF Sound, TypeOK, SndType, RcvType, LimitsOK
  <2>3. o \in Nat /\ o >= b.peer_opened /\ o <= b.max_streams /\ s < o
    BY <1>1, <2>2 DEF Larger
  <2> HIDE DEF o
  <2>4. /\ y \in RecvType /\ y.state = "open" /\ y.off = z.off /\ y.len = z.len
        /\ y.fin_off = z.fin_off /\ y.data = z.data /\ y.lost = z.lost
        /\ y.drain = z.drain /\ y.err = z.err
    BY <1>1 DEF RecvType, States
  <2>5. d = [b EXCEPT !.peer_opened = o, !.str[s] = y]
    BY <2>1
  <2> HIDE DEF y, d
  <2>6. /\ d \in RcvType /\ d.str = [b.str EXCEPT ![s] = y]
        /\ d.peer_opened = o /\ d.max_streams = b.max_streams
        /\ d.max_streams_next = b.max_streams_next /\ d.max_data = b.max_data
        /\ d.consumed = b.consumed /\ d.rx_data = b.rx_data
    BY <1>1, <2>3, <2>4, <2>5 DEF RcvType
  <2>7. ReaderOK(y) /\ Agree(s, a.str[s], y) /\ Unread(y) = Unread(z)
    BY <1>1, <2>4 DEF ReaderOK, Agree, Unread
  <2>8. Unread(z) \in Nat /\ z.len \in Nat /\ b.rx_data \in Int /\ b.consumed \in Int
    BY <1>1, UnreadNat DEF RecvType, RcvType
  <2>9. /\ d.rx_data = b.rx_data - z.len + y.len
        /\ d.rx_data - d.consumed = b.rx_data - b.consumed - Unread(z) + Unread(y)
    BY <2>4, <2>6, <2>7, <2>8
  <2>10. /\ z.state = "collected" => y.state = "collected"
         /\ d.max_streams_next =
              IF y.state = "collected" /\ z.state # "collected"
              THEN b.max_streams_next + 1 ELSE b.max_streams_next
    BY <1>3, <2>4, <2>6
  <2>11. d.peer_opened >= b.peer_opened /\ d.peer_opened <= b.max_streams /\ s < d.peer_opened
    BY <2>3, <2>6
  <2>12. frames \in SUBSET Frame /\ \A f \in frames : f \in frames \/ FrameOK(f, a, d)
    BY SoundFacts
  <2>13. Sound(a, d, frames)
    BY <2>4, <2>6, <2>7, <2>9, <2>10, <2>11, <2>12, ReaderStep
  <2>14. d.str[s] = y
    BY <1>1, <2>6 DEF RcvType
  <2> QED BY <2>4, <2>6, <2>13, <2>14 DEF d
<1> QED BY <1>2, <1>3

(* A stream of the reader changes and stays open or collected.             *)
LEMMA SameStream ==
    ASSUME NEW a, NEW b, NEW frames, Sound(a, b, frames),
           NEW d \in RcvType, NEW s \in Streams, NEW y \in RecvType,
           d.str = [b.str EXCEPT ![s] = y], y.state = b.str[s].state,
           d.max_data = b.max_data, d.max_streams = b.max_streams,
           d.max_streams_next = b.max_streams_next, d.peer_opened = b.peer_opened,
           d.rx_data = b.rx_data - b.str[s].len + y.len,
           d.rx_data - d.consumed
             = b.rx_data - b.consumed - Unread(b.str[s]) + Unread(y),
           ReaderOK(y), Agree(s, a.str[s], y)
    PROVE  Sound(a, d, frames)
<1>1. /\ b.peer_opened \in Nat /\ b.peer_opened <= b.max_streams
      /\ b.str[s].state # "idle" => s < b.peer_opened
  BY SoundFacts DEF RcvType
<1>2. /\ d.peer_opened >= b.peer_opened /\ d.peer_opened <= b.max_streams
      /\ y.state # "idle" => s < d.peer_opened
  BY <1>1
<1>3. /\ b.str[s].state = "collected" => y.state = "collected"
      /\ d.max_streams_next =
           IF y.state = "collected" /\ b.str[s].state # "collected"
           THEN b.max_streams_next + 1 ELSE b.max_streams_next
  OBVIOUS
<1>4. frames \in SUBSET Frame /\ \A f \in frames : f \in frames \/ FrameOK(f, a, d)
  BY SoundFacts
<1> QED BY <1>2, <1>3, <1>4, ReaderStep

LEMMA RefreshIs ==
    ASSUME NEW e \in RcvType
    PROVE  /\ Refresh(e) \in RcvType /\ Refresh(e).str = e.str
           /\ Refresh(e).peer_opened = e.peer_opened /\ Refresh(e).max_streams = e.max_streams
           /\ Refresh(e).max_streams_next = e.max_streams_next
           /\ Refresh(e).max_data = e.max_data /\ Refresh(e).consumed = e.consumed
           /\ Refresh(e).rx_data = e.rx_data
<1> DEFINE t == e.almost_full \/ ShouldUpdateMaxData(e)
<1>1. t \in BOOLEAN
  BY DEF RcvType, ShouldUpdateMaxData
<1>2. Refresh(e) = [e EXCEPT !.almost_full = t]
  BY DEF Refresh
<1> HIDE DEF t
<1> QED BY <1>1, <1>2 DEF RcvType

(* The connection's fields after Store                                     *)
LEMMA StoreIs ==
    ASSUME NEW b \in RcvType, NEW s \in Streams, NEW u \in Nat
    PROVE  LET d == Store(b, s, u)
               delta == Larger(0, u + 1 - b.str[s].len) IN
           /\ d \in RcvType /\ d.str = [b.str EXCEPT ![s] = Stored(b.str[s], s, u)]
           /\ d.peer_opened = b.peer_opened /\ d.max_streams = b.max_streams
           /\ d.max_streams_next = b.max_streams_next /\ d.max_data = b.max_data
           /\ d.rx_data = b.rx_data + delta
           /\ d.consumed = IF b.str[s].drain THEN b.consumed + delta ELSE b.consumed
<1> DEFINE z == b.str[s]
           y == Stored(z, s, u)
           delta == Larger(0, u + 1 - z.len)
           n == b.rx_data + delta
           k == b.consumed + delta
           w == [b EXCEPT !.rx_data = n, !.str[s] = y]
           v == [w EXCEPT !.consumed = k]
           d == Store(b, s, u)
<1>1. z \in RecvType /\ y \in RecvType
  <2>1. z \in RecvType
    BY DEF RcvType
  <2> QED BY <2>1, StoredIs
<1>2. delta \in Int /\ n \in Int /\ k \in Int /\ b.consumed \in Int
  BY <1>1 DEF RcvType, RecvType, Larger
<1>3. d = IF z.drain THEN Refresh([w EXCEPT !.consumed = @ + delta]) ELSE w
  BY DEF Store
<1> HIDE DEF y, n
<1>4. /\ w \in RcvType /\ w.str = [b.str EXCEPT ![s] = y]
      /\ w.peer_opened = b.peer_opened /\ w.max_streams = b.max_streams
      /\ w.max_streams_next = b.max_streams_next /\ w.max_data = b.max_data
      /\ w.rx_data = n /\ w.consumed = b.consumed
  BY <1>1, <1>2 DEF RcvType
<1>5. CASE ~z.drain
  BY <1>3, <1>4, <1>5 DEF y, n
<1>6. CASE z.drain
  <2>1. d = Refresh(v)
    BY <1>3, <1>4, <1>6
  <2> HIDE DEF w, k
  <2>2. /\ v \in RcvType /\ v.str = w.str
        /\ v.peer_opened = w.peer_opened /\ v.max_streams = w.max_streams
        /\ v.max_streams_next = w.max_streams_next /\ v.max_data = w.max_data
        /\ v.rx_data = w.rx_data /\ v.consumed = k
    BY <1>2, <1>4 DEF RcvType
  <2> HIDE DEF v
  <2>3. /\ d \in RcvType /\ d.str = v.str
        /\ d.peer_opened = v.peer_opened /\ d.max_streams = v.max_streams
        /\ d.max_streams_next = v.max_streams_next /\ d.max_data = v.max_data
        /\ d.rx_data = v.rx_data /\ d.consumed = v.consumed
    BY <2>1, <2>2, RefreshIs
  <2> QED BY <2>2, <2>3, <1>4, <1>6 DEF y, n, k
<1> QED BY <1>5, <1>6

(* RecvBuf::write of a unit that the writer sent                           *)
LEMMA StoreSound ==
    ASSUME NEW a, NEW b, NEW frames, Sound(a, b, frames), NEW s \in Streams,
           NEW u \in Nat, u < a.str[s].emit_off
    PROVE  Sound(a, Store(b, s, u), frames)
<1> DEFINE x == a.str[s]
           z == b.str[s]
           y == Stored(z, s, u)
           delta == Larger(0, u + 1 - z.len)
           d == Store(b, s, u)
<1>1. /\ b \in RcvType /\ z \in RecvType /\ ReaderOK(z) /\ Agree(s, x, z)
      /\ WriterOK(s, x) /\ x \in SendType
  BY SoundFacts
<1>2. /\ z.len \in Nat /\ z.off \in Nat /\ z.lost \in Nat /\ z.off <= z.len /\ z.data \subseteq Nat
      /\ x.emit_off \in Nat /\ z.len <= x.emit_off /\ StreamLen[s] \in Nat
      /\ x.written \in Nat /\ x.emit_off <= StreamLen[s]
      /\ z.drain \in BOOLEAN /\ z.err \in BOOLEAN /\ u < x.emit_off
  <2>1. StreamLen[s] \in Nat
    BY Lengths
  <2> QED BY <1>1, <2>1 DEF RecvType, SendType, ReaderOK, WriterOK, Agree
<1>4. /\ d \in RcvType /\ d.str = [b.str EXCEPT ![s] = y]
      /\ d.peer_opened = b.peer_opened /\ d.max_streams = b.max_streams
      /\ d.max_streams_next = b.max_streams_next /\ d.max_data = b.max_data
      /\ d.rx_data = b.rx_data + delta
      /\ d.consumed = IF z.drain THEN b.consumed + delta ELSE b.consumed
  BY <1>1, StoreIs
<1> HIDE DEF z, x
<1>3. /\ y \in RecvType /\ y.state = z.state /\ y.off = z.off
      /\ y.len = Larger(z.len, u + 1)
      /\ y.fin_off = IF u + 1 = StreamLen[s] THEN StreamLen[s] ELSE z.fin_off
      /\ y.data \subseteq z.data \cup {u}
      /\ z.drain \/ u < z.off => y.data = z.data
      /\ y.lost = z.lost /\ y.drain = z.drain /\ y.err = z.err
  <2>1. z \in RecvType
    BY <1>1
  <2>2. y \in RecvType /\ y.state = z.state /\ y.off = z.off
    BY <2>1, StoredIs
  <2>3. y.len = Larger(z.len, u + 1)
    BY <2>1, StoredIs
  <2>4. y.fin_off = IF u + 1 = StreamLen[s] THEN StreamLen[s] ELSE z.fin_off
    BY <2>1, StoredIs
  <2>5. y.data \subseteq z.data \cup {u}
    BY <2>1, StoredIs
  <2>6. z.drain \/ u < z.off => y.data = z.data
    BY <2>1, StoredIs
  <2>7. y.lost = z.lost /\ y.drain = z.drain /\ y.err = z.err
    BY <2>1, StoredIs
  <2> QED BY <2>2, <2>3, <2>4, <2>5, <2>6, <2>7
<1> HIDE DEF y, d
<1>5. y.len \in Nat /\ z.len <= y.len /\ u < y.len /\ y.len <= x.emit_off /\ delta = y.len - z.len
  BY <1>2, <1>3 DEF Larger
<1> HIDE DEF delta
<1>6. z.fin_off # Unknown => y.len = z.len /\ z.fin_off = z.len /\ z.len = x.emit_off
  BY <1>1, <1>2, <1>5 DEF Agree
<1>7. ReaderOK(y)
  <2>1. y.off <= y.len
    BY <1>2, <1>3, <1>5
  <2>2. \A v \in y.data : y.off <= v /\ v < y.len
    <3> TAKE v \in y.data
    <3>1. CASE v \in z.data
      <4>1. z.off <= v /\ v < z.len /\ v \in Nat
        BY <1>1, <1>2, <3>1 DEF ReaderOK
      <4> QED BY <4>1, <1>2, <1>3, <1>5
    <3>2. CASE v \notin z.data
      <4>1. v = u /\ ~(u < z.off)
        BY <3>2, <1>3
      <4> QED BY <4>1, <1>2, <1>3, <1>5
    <3> QED BY <3>1, <3>2
  <2>3. y.drain => y.data = {}
    BY <1>1, <1>3 DEF ReaderOK
  <2>4. ASSUME y.err PROVE y.off = y.len /\ y.fin_off # Unknown
    <3>1. z.err /\ z.off = z.len /\ z.fin_off # Unknown
      BY <1>1, <1>3, <2>4 DEF ReaderOK
    <3>2. StreamLen[s] # Unknown
      BY <1>2 DEF Unknown
    <3> QED BY <3>1, <3>2, <1>3, <1>6
  <2> QED BY <2>1, <2>2, <2>3, <2>4 DEF ReaderOK
<1>8. Agree(s, x, y)
  <2>1. CASE u + 1 = StreamLen[s]
    <3>1. x.emit_off = StreamLen[s] /\ y.len = x.emit_off /\ y.fin_off = StreamLen[s]
      BY <2>1, <1>2, <1>3, <1>5
    <3> QED BY <3>1, <1>5 DEF Agree
  <2>2. CASE u + 1 # StreamLen[s]
    <3>1. y.fin_off = z.fin_off
      BY <2>2, <1>3
    <3> QED BY <3>1, <1>1, <1>5, <1>6 DEF Agree
  <2> QED BY <2>1, <2>2
<1>9. b.rx_data \in Int /\ b.consumed \in Int
  BY <1>1 DEF RcvType
<1>10. d.rx_data = b.rx_data - z.len + y.len
  BY <1>2, <1>4, <1>5, <1>9
<1>11. d.rx_data - d.consumed = b.rx_data - b.consumed - Unread(z) + Unread(y)
  <2>1. CASE z.drain
    <3>1. Unread(z) = z.lost /\ Unread(y) = z.lost
      BY <2>1, <1>2, <1>3 DEF Unread
    <3> QED BY <2>1, <3>1, <1>2, <1>4, <1>5, <1>9
  <2>2. CASE ~z.drain /\ z.err
    <3>1. Unread(z) = z.lost /\ Unread(y) = z.lost
      BY <2>2, <1>2, <1>3 DEF Unread
    <3>2. delta = 0
      BY <2>2, <1>1, <1>2, <1>5, <1>6 DEF ReaderOK
    <3> QED BY <2>2, <3>1, <3>2, <1>2, <1>4, <1>9
  <2>3. CASE ~z.drain /\ ~z.err
    <3>1. Unread(z) = z.lost + (z.len - z.off) /\ Unread(y) = z.lost + (y.len - z.off)
      BY <2>3, <1>2, <1>3 DEF Unread
    <3> QED BY <2>3, <3>1, <1>2, <1>4, <1>5, <1>9
  <2> QED BY <2>1, <2>2, <2>3
<1> QED BY <1>3, <1>4, <1>7, <1>8, <1>10, <1>11, SameStream DEF d, x, z

(* RecvBuf::reset at the size that the writer told                         *)
LEMMA ResetSound ==
    ASSUME NEW a, NEW b, NEW frames, Sound(a, b, frames), NEW s \in Streams,
           Ended(a.str[s])
    PROVE  Sound(a, ApplyReset(b, s, a.str[s].emit_off), frames)
<1> DEFINE x == a.str[s]
           z == b.str[s]
           size == x.emit_off
           y == WasReset(z, size)
           n == b.rx_data + (size - z.len)
           d == ApplyReset(b, s, size)
<1>1. /\ b \in RcvType /\ z \in RecvType /\ ReaderOK(z) /\ Agree(s, x, z)
      /\ x \in SendType /\ Ended(x)
  BY SoundFacts
<1>2. d = [b EXCEPT !.rx_data = n, !.str[s] = y]
  BY DEF ApplyReset
<1> HIDE DEF x, z, d
<1>3. /\ z.len \in Nat /\ z.off \in Nat /\ z.lost \in Nat /\ z.off <= z.len
      /\ size \in Nat /\ z.len <= size
      /\ z.drain \in BOOLEAN /\ z.err \in BOOLEAN /\ z.fin_off \in Nat \cup {Unknown}
  BY <1>1 DEF RecvType, SendType, ReaderOK, Agree
<1>4. z.off <= size
  BY <1>3
<1> HIDE DEF size
<1>5. /\ y \in RecvType /\ y.state = z.state /\ y.fin_off = size /\ y.drain = z.drain
  BY <1>1, <1>3, <1>4, WasResetIs
<1>6. y.err
  BY <1>1, <1>3, <1>4, WasResetIs
<1>7. y.off = IF z.err THEN z.off ELSE size
  BY <1>1, <1>3, <1>4, WasResetIs
<1>8. y.len = IF z.fin_off = Unknown THEN size ELSE z.len
  BY <1>1, <1>3, <1>4, WasResetIs
<1>9. y.data = IF z.err THEN z.data ELSE {}
  BY <1>1, <1>3, <1>4, WasResetIs
<1>10. y.lost = IF z.err THEN z.lost
                ELSE IF z.drain THEN z.lost + (size - z.len) ELSE z.lost + (size - z.off)
  BY <1>1, <1>3, <1>4, WasResetIs
<1> HIDE DEF y
<1>11. z.fin_off # Unknown => z.len = size
  BY <1>1 DEF Agree, size
<1>12. z.err => z.off = z.len /\ z.fin_off # Unknown
  BY <1>1 DEF ReaderOK
<1>13. y.len = size /\ y.off = size /\ size # Unknown
  <2>1. y.len = size
    BY <1>8, <1>11
  <2>2. y.off = size
    BY <1>7, <1>11, <1>12
  <2> QED BY <2>1, <2>2, <1>3 DEF Unknown
<1>14. ReaderOK(y)
  <2>1. y.data = {}
    <3>1. CASE z.err
      <4>1. z.off = z.len /\ \A v \in z.data : z.off <= v /\ v < z.len
        BY <1>1, <1>12, <3>1 DEF ReaderOK
      <4>2. z.data \subseteq Nat
        BY <1>1 DEF RecvType
      <4>3. z.data = {}
        BY <4>1, <4>2, <1>3
      <4> QED BY <1>9, <3>1, <4>3
    <3>2. CASE ~z.err
      BY <1>9, <3>2
    <3> QED BY <3>1, <3>2
  <2> QED BY <2>1, <1>3, <1>5, <1>13 DEF ReaderOK
<1>15. Agree(s, x, y)
  BY <1>1, <1>3, <1>5, <1>13 DEF Agree, size
<1>16. b.rx_data \in Int /\ b.consumed \in Int /\ n \in Int
  BY <1>1, <1>3 DEF RcvType
<1>17. n = b.rx_data - z.len + y.len
  BY <1>3, <1>13, <1>16
<1>18. n - b.consumed = b.rx_data - b.consumed - Unread(z) + Unread(y)
  <2>1. Unread(y) = y.lost
    <3>1. y.lost \in Nat
      BY <1>5 DEF RecvType
    <3> QED BY <1>6, <3>1 DEF Unread
  <2>2. CASE z.err
    <3>1. Unread(z) = z.lost /\ y.lost = z.lost
      BY <2>2, <1>3, <1>10 DEF Unread
    <3>2. z.len = size
      BY <2>2, <1>11, <1>12
    <3> QED BY <2>1, <3>1, <3>2, <1>3, <1>16
  <2>3. CASE ~z.err /\ z.drain
    <3>1. Unread(z) = z.lost /\ y.lost = z.lost + (size - z.len)
      BY <2>3, <1>3, <1>10 DEF Unread
    <3> QED BY <2>1, <3>1, <1>3, <1>16
  <2>4. CASE ~z.err /\ ~z.drain
    <3>1. Unread(z) = z.lost + (z.len - z.off) /\ y.lost = z.lost + (size - z.off)
      BY <2>4, <1>3, <1>10 DEF Unread
    <3> QED BY <2>1, <3>1, <1>3, <1>16
  <2> QED BY <2>2, <2>3, <2>4
<1> HIDE DEF n
<1>19. /\ d \in RcvType /\ d.str = [b.str EXCEPT ![s] = y]
       /\ d.peer_opened = b.peer_opened /\ d.max_streams = b.max_streams
       /\ d.max_streams_next = b.max_streams_next /\ d.max_data = b.max_data
       /\ d.rx_data = n /\ d.consumed = b.consumed
  BY <1>1, <1>2, <1>5, <1>16 DEF RcvType
<1>20. Sound(a, d, frames)
  BY <1>5, <1>14, <1>15, <1>17, <1>18, <1>19, SameStream DEF x, z
<1> QED BY <1>20 DEF d, size, x

(* No frame of this writer is refused.                                     *)
LEMMA Accepted ==
    ASSUME IInv, NEW f \in Flying, f.type \in {"stream", "reset"}
    PROVE  /\ f.s \in Streams /\ f.s < snd.opened
           /\ ~OverLimit(rcv, f.s)
           /\ f.type = "stream" => f.u \in Nat /\ f.u < snd.str[f.s].emit_off
           /\ f.type = "reset" => f.u = snd.str[f.s].emit_off /\ Ended(snd.str[f.s])
<1>1. PICK s \in Streams : s = f.s
  BY Facts DEF Frame
<1>2. f.u \in Int /\ FrameOK(f, snd, rcv)
  BY Facts DEF Frame
<1> DEFINE x == snd.str[s]
<1>3. x \in SendType /\ WriterOK(s, x) /\ x.emit_off \in Nat /\ x.written \in Nat
  BY Facts DEF SendType
<1>4. x.state # "idle"
  BY <1>1, <1>2, <1>3 DEF FrameOK, WriterOK
<1>5. s < snd.opened
  BY <1>4, Facts DEF LimitsOK
<1>6. /\ snd.opened \in Nat /\ snd.peer_max \in Nat /\ rcv.max_streams \in Nat
      /\ rcv.peer_opened \in Nat /\ s \in Nat
      /\ snd.opened <= snd.peer_max /\ snd.peer_max <= rcv.max_streams
      /\ rcv.peer_opened <= rcv.max_streams
  BY Facts, StreamsFinite DEF LimitsOK, SndType, RcvType
<1>7. ~OverLimit(rcv, s)
  BY <1>5, <1>6 DEF OverLimit, Larger
<1> QED BY <1>1, <1>2, <1>5, <1>7 DEF FrameOK

LEMMA RecvStreamKeeps ==
    ASSUME IInv, NEW f \in net, RecvStream(f)
    PROVE  IInv'
<1>1. f \in Flying /\ f.type = "stream"
  BY DEF RecvStream, Flying
<1>2. PICK s \in Streams : s = f.s
  BY <1>1, Accepted
<1> DEFINE x == snd.str[s]
           z == rcv.str[s]
<1>3. s < snd.opened /\ ~OverLimit(rcv, s) /\ f.u \in Nat /\ f.u < x.emit_off
  BY <1>1, <1>2, Accepted
<1>4. /\ z \in RecvType /\ Agree(s, x, z) /\ z.len \in Nat /\ StreamLen[s] \in Nat
      /\ x.emit_off \in Nat /\ x.emit_off <= StreamLen[s] /\ z.len <= x.emit_off
  <2>1. /\ z \in RecvType /\ Agree(s, x, z) /\ x \in SendType /\ WriterOK(s, x)
        /\ StreamLen[s] \in Nat
    BY Facts, Lengths
  <2> QED BY <2>1 DEF RecvType, SendType, Agree, WriterOK
<1>5. StreamError(f) = "none"
  <2>1. CASE z.state = "collected"
    BY <1>2, <2>1 DEF StreamError, OverLimit
  <2>2. CASE z.state # "collected"
    <3>1. ~(f.u + 1 - z.len > rcv.max_data - rcv.rx_data)
      <4>1. rcv.rx_data + (x.emit_off - z.len) <= rcv.max_data
        BY Facts, Room
      <4>2. rcv.rx_data \in Int /\ rcv.max_data \in Int
        BY Facts DEF RcvType
      <4> HIDE DEF x, z
      <4> QED BY <4>1, <4>2, <1>3, <1>4
    <3>2. ~(/\ z.fin_off # Unknown
            /\ \/ f.u + 1 > z.fin_off
               \/ f.u + 1 = StreamLen[s] /\ z.fin_off # StreamLen[s])
      <4> SUFFICES ASSUME z.fin_off # Unknown
                   PROVE  /\ ~(f.u + 1 > z.fin_off)
                          /\ f.u + 1 = StreamLen[s] => z.fin_off = StreamLen[s]
        OBVIOUS
      <4>1. z.fin_off = x.emit_off
        BY <1>4 DEF Agree
      <4> HIDE DEF x, z
      <4> QED BY <4>1, <1>3, <1>4
    <3> QED BY <1>2, <1>3, <2>2, <3>1, <3>2 DEF StreamError
  <2> QED BY <2>1, <2>2
<1>6. snd' = snd /\ Flying' = Flying /\ error' = "none"
  BY <1>5 DEF RecvStream, Take, Flying
<1>7. Sound(snd, rcv', Flying)
  <2>1. CASE z.state = "collected"
    <3>1. rcv' = rcv
      BY <1>2, <2>1 DEF RecvStream
    <3> QED BY <3>1, Facts
  <2>2. CASE z.state # "collected"
    <3> DEFINE d == GetOrCreate(rcv, s)
    <3>1. rcv' = Store(d, s, f.u)
      BY <1>2, <1>5, <2>2 DEF RecvStream
    <3>2. Sound(snd, d, Flying)
      BY <1>3, <2>2, Facts, CreateSound
    <3> HIDE DEF d
    <3> QED BY <1>3, <3>1, <3>2, StoreSound
  <2> QED BY <2>1, <2>2
<1> QED BY <1>6, <1>7, NextIInv

LEMMA RecvResetKeeps ==
    ASSUME IInv, NEW f \in net, RecvReset(f)
    PROVE  IInv'
<1>1. f \in Flying /\ f.type = "reset"
  BY DEF RecvReset, Flying
<1>2. PICK s \in Streams : s = f.s
  BY <1>1, Accepted
<1> DEFINE x == snd.str[s]
           z == rcv.str[s]
<1>3. s < snd.opened /\ ~OverLimit(rcv, s) /\ f.u = x.emit_off /\ Ended(x)
  BY <1>1, <1>2, Accepted
<1>4. /\ z \in RecvType /\ Agree(s, x, z) /\ z.len \in Nat
      /\ x.emit_off \in Nat /\ z.len <= x.emit_off
  <2>1. z \in RecvType /\ Agree(s, x, z) /\ x \in SendType
    BY Facts
  <2> QED BY <2>1 DEF RecvType, SendType, Agree
<1>5. ResetError(f) = "none"
  <2>1. CASE z.state = "collected"
    BY <1>2, <2>1 DEF ResetError, OverLimit
  <2>2. CASE z.state # "collected"
    <3>1. ~(f.u - z.len > rcv.max_data - rcv.rx_data)
      <4>1. rcv.rx_data + (x.emit_off - z.len) <= rcv.max_data
        BY Facts, Room
      <4>2. rcv.rx_data \in Int /\ rcv.max_data \in Int
        BY Facts DEF RcvType
      <4> HIDE DEF x, z
      <4> QED BY <4>1, <4>2, <1>3, <1>4
    <3>2. ~((z.fin_off # Unknown /\ z.fin_off # f.u) \/ f.u < z.len)
      <4>1. z.fin_off # Unknown => z.fin_off = x.emit_off
        BY <1>4 DEF Agree
      <4> HIDE DEF x, z
      <4> QED BY <4>1, <1>3, <1>4
    <3> QED BY <1>2, <1>3, <2>2, <3>1, <3>2 DEF ResetError
  <2> QED BY <2>1, <2>2
<1>6. snd' = snd /\ Flying' = Flying /\ error' = "none"
  BY <1>5 DEF RecvReset, Take, Flying
<1>7. Sound(snd, rcv', Flying)
  <2>1. CASE z.state = "collected"
    <3>1. rcv' = rcv
      BY <1>2, <2>1 DEF RecvReset
    <3> QED BY <3>1, Facts
  <2>2. CASE z.state # "collected"
    <3> DEFINE d == GetOrCreate(rcv, s)
    <3>1. rcv' = ApplyReset(d, s, x.emit_off)
      BY <1>2, <1>3, <1>5, <2>2 DEF RecvReset
    <3>2. Sound(snd, d, Flying)
      BY <1>3, <2>2, Facts, CreateSound
    <3> HIDE DEF d
    <3> QED BY <1>3, <3>1, <3>2, ResetSound
  <2> QED BY <2>1, <2>2
<1> QED BY <1>6, <1>7, NextIInv

(* Steps of one stream of the reader that charge nothing                   *)
LEMMA ReaderOnly ==
    ASSUME IInv, NEW s \in Streams, NEW y \in RecvType,
           rcv' = [rcv EXCEPT !.str[s] = y], y.state = rcv.str[s].state,
           y.len = rcv.str[s].len, Unread(y) = Unread(rcv.str[s]),
           ReaderOK(y), Agree(s, snd.str[s], y)
    PROVE  Sound(snd, rcv', Flying)
<1>1. /\ rcv' \in RcvType /\ rcv'.str = [rcv.str EXCEPT ![s] = y]
      /\ rcv'.peer_opened = rcv.peer_opened /\ rcv'.max_streams = rcv.max_streams
      /\ rcv'.max_streams_next = rcv.max_streams_next /\ rcv'.max_data = rcv.max_data
      /\ rcv'.rx_data = rcv.rx_data /\ rcv'.consumed = rcv.consumed
  BY Facts DEF RcvType
<1>2. rcv.str[s] \in RecvType /\ ReaderOK(rcv.str[s]) /\ rcv \in RcvType
  BY Facts
<1>3. /\ Unread(rcv.str[s]) \in Nat /\ rcv.str[s].len \in Nat
      /\ rcv.rx_data \in Int /\ rcv.consumed \in Int
  BY <1>2, UnreadNat DEF RecvType, RcvType
<1>4. /\ rcv'.rx_data = rcv.rx_data - rcv.str[s].len + y.len
      /\ rcv'.rx_data - rcv'.consumed
           = rcv.rx_data - rcv.consumed - Unread(rcv.str[s]) + Unread(y)
  BY <1>1, <1>3
<1> QED BY <1>1, <1>4, Facts, SameStream

LEMMA ShutdownReadKeeps ==
    ASSUME IInv, NEW s \in Streams, StreamShutdownRead(s)
    PROVE  IInv'
<1> DEFINE z == rcv.str[s]
           y == Drained(z)
<1>1. z \in RecvType /\ ReaderOK(z) /\ Agree(s, snd.str[s], z) /\ ~z.drain
  BY Facts DEF StreamShutdownRead
<1>2. /\ rcv' = [rcv EXCEPT !.str[s] = y] /\ snd' = snd /\ Flying' = Flying /\ error' = "none"
  BY DEF StreamShutdownRead, Flying
<1>3. z.len \in Nat /\ z.off \in Nat /\ z.lost \in Nat /\ z.off <= z.len /\ z.err \in BOOLEAN
  BY <1>1 DEF RecvType, ReaderOK
<1>4. /\ y \in RecvType /\ y.state = z.state /\ y.off = z.len
      /\ y.len = z.len /\ y.fin_off = z.fin_off
      /\ y.data = {} /\ y.lost = z.lost + (z.len - z.off) /\ y.err = z.err
  BY <1>1, <1>3, DrainedIs
<1>5. y.drain
  BY <1>1, <1>3, DrainedIs
<1> HIDE DEF y
<1>6. ReaderOK(y) /\ Agree(s, snd.str[s], y)
  BY <1>1, <1>3, <1>4 DEF ReaderOK, Agree
<1>7. Unread(y) = Unread(z)
  <2>1. Unread(y) = z.lost + (z.len - z.off)
    BY <1>3, <1>4, <1>5 DEF Unread
  <2>2. CASE z.err
    <3>1. z.off = z.len
      BY <1>1, <2>2 DEF ReaderOK
    <3> QED BY <2>1, <2>2, <3>1, <1>3 DEF Unread
  <2>3. CASE ~z.err
    BY <2>1, <2>3, <1>1, <1>3 DEF Unread
  <2> QED BY <2>2, <2>3
<1>8. Sound(snd, rcv', Flying)
  BY <1>2, <1>4, <1>6, <1>7, ReaderOnly
<1> QED BY <1>2, <1>8, NextIInv

LEMMA SendStopKeeps ==
    ASSUME IInv, NEW s \in Streams, SendStopSending(s)
    PROVE  IInv'
<1> DEFINE z == rcv.str[s]
           y == [z EXCEPT !.stop = FALSE]
<1>1. z \in RecvType /\ ReaderOK(z) /\ Agree(s, snd.str[s], z)
  BY Facts
<1>2. /\ rcv' = [rcv EXCEPT !.str[s].stop = FALSE] /\ snd' = snd /\ error' = "none"
      /\ Flying' = Flying \cup {Stop(s)}
  BY DEF SendStopSending, Flying
<1>3. /\ y \in RecvType /\ y.state = z.state /\ y.off = z.off /\ y.len = z.len
      /\ y.fin_off = z.fin_off /\ y.data = z.data /\ y.lost = z.lost
      /\ y.drain = z.drain /\ y.err = z.err
  BY <1>1 DEF RecvType
<1>4. rcv' = [rcv EXCEPT !.str[s] = y]
  BY <1>2
<1> HIDE DEF y
<1>5. ReaderOK(y) /\ Agree(s, snd.str[s], y) /\ Unread(y) = Unread(z)
  BY <1>1, <1>3 DEF ReaderOK, Agree, Unread
<1>6. Sound(snd, rcv', Flying)
  BY <1>3, <1>4, <1>5, ReaderOnly
<1>7. Stop(s) \in Frame /\ FrameOK(Stop(s), snd, rcv')
  BY FramesAre DEF FrameOK, Stop
<1>8. Sound(snd, rcv', Flying')
  BY <1>2, <1>6, <1>7 DEF Sound, TypeOK
<1> QED BY <1>2, <1>8, NextIInv

LEMMA SendMaxStreamsKeeps ==
    ASSUME IInv, SendMaxStreams
    PROVE  IInv'
<1> DEFINE m == rcv.max_streams_next
<1>1. /\ rcv' = [rcv EXCEPT !.max_streams = m] /\ snd' = snd /\ error' = "none"
      /\ Flying' = Flying \cup {MaxStreams(m)}
  BY DEF SendMaxStreams, Flying
<1>2. /\ snd.max_tx_data \in Int /\ rcv.max_data \in Int /\ snd.max_tx_data <= rcv.max_data
      /\ snd.peer_max \in Nat /\ snd.peer_max <= rcv.max_streams
      /\ rcv.max_streams \in Nat /\ m \in Nat /\ rcv.max_streams <= m
  BY Facts DEF SndType, RcvType, SumsOK, LimitsOK
<1>3. /\ rcv' \in RcvType /\ rcv'.str = rcv.str /\ rcv'.rx_data = rcv.rx_data
      /\ rcv'.consumed = rcv.consumed /\ rcv'.peer_opened = rcv.peer_opened
      /\ rcv'.max_data = rcv.max_data /\ rcv'.max_streams = m
      /\ rcv'.max_streams_next = rcv.max_streams_next
  BY <1>1, <1>2, Facts DEF RcvType
<1>4. MaxStreams(m) \in Frame /\ FrameOK(MaxStreams(m), snd, rcv')
  BY <1>2, <1>3, FramesAre DEF FrameOK, MaxStreams
<1>5. /\ Flying' \in SUBSET Frame
      /\ \A f \in Flying' : f \in Flying \/ FrameOK(f, snd, rcv')
  BY <1>1, <1>4, Facts
<1>6. /\ snd.max_tx_data >= snd.max_tx_data /\ snd.max_tx_data <= rcv'.max_data
      /\ snd.peer_max >= snd.peer_max /\ snd.peer_max <= rcv'.max_streams
      /\ rcv'.max_data >= rcv.max_data /\ rcv'.max_streams >= rcv.max_streams
      /\ rcv'.max_streams <= rcv'.max_streams_next
  BY <1>2, <1>3
<1>7. Sound(snd, rcv', Flying')
  BY <1>3, <1>5, <1>6, Facts, LimitStep
<1> QED BY <1>1, <1>7, NextIInv

LEMMA SendMaxDataKeeps ==
    ASSUME IInv, SendMaxData
    PROVE  IInv'
<1>1. PICK w \in Autotuned(rcv) :
        LET max == MaxDataNext([rcv EXCEPT !.window = w])
        IN  /\ net' = net \cup {MaxData(max)}
            /\ rcv' = [rcv EXCEPT !.window = w, !.max_data = max, !.almost_full = FALSE]
  BY DEF SendMaxData
<1> DEFINE m == MaxDataNext([rcv EXCEPT !.window = w])
<1>2. rcv \in RcvType
  BY Facts
<1>3. w \in 0 .. MaxWindow /\ w >= rcv.window
  BY <1>2, StreamsAssumption DEF Autotuned, Smaller, RcvType
<1>4. m = rcv.consumed + w
  BY <1>2 DEF MaxDataNext, RcvType
<1>5. rcv.max_data < m
  BY <1>2, <1>3, <1>4 DEF SendMaxData, MaxDataNext, RcvType
<1>6. /\ rcv' = [rcv EXCEPT !.window = w, !.max_data = m, !.almost_full = FALSE]
      /\ snd' = snd /\ error' = "none" /\ Flying' = Flying \cup {MaxData(m)}
      /\ rcv.max_data < m
  BY <1>1, <1>5 DEF SendMaxData, Flying
<1>7. /\ snd.max_tx_data \in Int /\ rcv.max_data \in Int /\ snd.max_tx_data <= rcv.max_data
      /\ snd.peer_max \in Nat /\ snd.peer_max <= rcv.max_streams
      /\ rcv.max_streams \in Nat /\ rcv.max_streams <= rcv.max_streams_next /\ m \in Int
  BY <1>3, <1>4, Facts DEF SndType, RcvType, SumsOK, LimitsOK
<1> HIDE DEF m
<1>8. /\ rcv' \in RcvType /\ rcv'.str = rcv.str /\ rcv'.rx_data = rcv.rx_data
      /\ rcv'.consumed = rcv.consumed /\ rcv'.peer_opened = rcv.peer_opened
      /\ rcv'.max_data = m /\ rcv'.max_streams = rcv.max_streams
      /\ rcv'.max_streams_next = rcv.max_streams_next
  BY <1>6, <1>7, <1>2, <1>3 DEF RcvType
<1>9. MaxData(m) \in Frame /\ FrameOK(MaxData(m), snd, rcv')
  BY <1>7, <1>8, FramesAre DEF FrameOK, MaxData
<1>10. /\ Flying' \in SUBSET Frame
      /\ \A f \in Flying' : f \in Flying \/ FrameOK(f, snd, rcv')
  BY <1>6, <1>9, Facts
<1>11. /\ snd.max_tx_data >= snd.max_tx_data /\ snd.max_tx_data <= rcv'.max_data
      /\ snd.peer_max >= snd.peer_max /\ snd.peer_max <= rcv'.max_streams
      /\ rcv'.max_data >= rcv.max_data /\ rcv'.max_streams >= rcv.max_streams
      /\ rcv'.max_streams <= rcv'.max_streams_next
  BY <1>6, <1>7, <1>8
<1>12. Sound(snd, rcv', Flying')
  BY <1>8, <1>10, <1>11, Facts, LimitStep
<1> QED BY <1>6, <1>12, NextIInv

(* StreamMap::collect of an open stream                                    *)
LEMMA CollectSound ==
    ASSUME NEW a, NEW b, NEW frames, Sound(a, b, frames), NEW s \in Streams,
           b.str[s].state = "open"
    PROVE  Sound(a, Collect(b, s), frames)
<1> DEFINE z == b.str[s]
           y == [z EXCEPT !.state = "collected"]
           n == b.max_streams_next + 1
           d == Collect(b, s)
<1>1. /\ b \in RcvType /\ z \in RecvType /\ ReaderOK(z) /\ Agree(s, a.str[s], z)
      /\ b.peer_opened <= b.max_streams /\ s < b.peer_opened
  BY SoundFacts
<1>2. /\ y \in RecvType /\ y.state = "collected" /\ y.off = z.off /\ y.len = z.len
      /\ y.fin_off = z.fin_off /\ y.data = z.data /\ y.lost = z.lost
      /\ y.drain = z.drain /\ y.err = z.err
  BY <1>1 DEF RecvType, States
<1>3. d = [b EXCEPT !.str[s] = y, !.max_streams_next = n]
  BY DEF Collect
<1>4. n \in Nat /\ b.peer_opened \in Nat
  BY <1>1 DEF RcvType
<1> HIDE DEF y, d, n
<1>5. /\ d \in RcvType /\ d.str = [b.str EXCEPT ![s] = y]
      /\ d.peer_opened = b.peer_opened /\ d.max_streams = b.max_streams
      /\ d.max_streams_next = n /\ d.max_data = b.max_data
      /\ d.rx_data = b.rx_data /\ d.consumed = b.consumed
  BY <1>1, <1>2, <1>3, <1>4 DEF RcvType
<1>6. ReaderOK(y) /\ Agree(s, a.str[s], y) /\ Unread(y) = Unread(z)
  BY <1>1, <1>2 DEF ReaderOK, Agree, Unread
<1>7. /\ Unread(z) \in Nat /\ z.len \in Nat /\ b.rx_data \in Int /\ b.consumed \in Int
  BY <1>1, UnreadNat DEF RecvType, RcvType
<1>8. /\ d.rx_data = b.rx_data - z.len + y.len
      /\ d.rx_data - d.consumed = b.rx_data - b.consumed - Unread(z) + Unread(y)
  BY <1>2, <1>5, <1>6, <1>7
<1>9. /\ d.peer_opened >= b.peer_opened /\ d.peer_opened <= b.max_streams
      /\ s < d.peer_opened
  BY <1>1, <1>4, <1>5
<1>10. d.max_streams_next =
         IF y.state = "collected" /\ z.state # "collected"
         THEN b.max_streams_next + 1 ELSE b.max_streams_next
  BY <1>2, <1>5 DEF n
<1>11. frames \in SUBSET Frame /\ \A f \in frames : f \in frames \/ FrameOK(f, a, d)
  BY SoundFacts
<1>12. Sound(a, d, frames)
  BY <1>2, <1>5, <1>6, <1>8, <1>9, <1>10, <1>11, ReaderStep
<1> QED BY <1>12 DEF d

LEMMA RefreshSound ==
    ASSUME NEW a, NEW b, NEW frames, Sound(a, b, frames)
    PROVE  Sound(a, Refresh(b), frames)
<1> DEFINE d == Refresh(b)
<1>1. /\ a \in SndType /\ b \in RcvType /\ frames \in SUBSET Frame
      /\ LimitsOK(a, b) /\ SumsOK(a, b)
      /\ \A f \in frames : f \in frames \/ FrameOK(f, a, d)
  BY DEF Sound, TypeOK
<1>2. /\ d \in RcvType /\ d.str = b.str
      /\ d.peer_opened = b.peer_opened /\ d.max_streams = b.max_streams
      /\ d.max_streams_next = b.max_streams_next
      /\ d.max_data = b.max_data /\ d.consumed = b.consumed /\ d.rx_data = b.rx_data
  BY <1>1, RefreshIs
<1>3. /\ a.max_tx_data \in Int /\ b.max_data \in Int /\ a.max_tx_data <= b.max_data
      /\ a.peer_max \in Nat /\ a.peer_max <= b.max_streams
      /\ b.max_streams \in Nat /\ b.max_streams <= b.max_streams_next
  BY <1>1 DEF SndType, RcvType, SumsOK, LimitsOK
<1> HIDE DEF d
<1>4. /\ a.max_tx_data >= a.max_tx_data /\ a.max_tx_data <= d.max_data
      /\ a.peer_max >= a.peer_max /\ a.peer_max <= d.max_streams
      /\ d.max_data >= b.max_data /\ d.max_streams >= b.max_streams
      /\ d.max_streams <= d.max_streams_next
  BY <1>2, <1>3
<1>5. Sound(a, d, frames)
  BY <1>1, <1>2, <1>4, LimitStep
<1> QED BY <1>5 DEF d

(* What can be read was received.                                          *)
LEMMA ReadyBound ==
    ASSUME NEW z \in RecvType, ReaderOK(z), NEW n \in 1 .. Ready(z)
    PROVE  n \in Nat \ {0} /\ ~z.drain /\ z.off + n <= z.len
<1> DEFINE S == {u \in z.data : z.off .. u \subseteq z.data}
           I == z.off .. (z.len - 1)
<1>1. z.off \in Nat /\ z.len \in Nat /\ z.off <= z.len /\ z.data \subseteq Nat
  BY DEF RecvType, ReaderOK
<1>2. S \in SUBSET I
  BY <1>1 DEF ReaderOK
<1>3. IsFiniteSet(I) /\ Cardinality(I) = z.len - z.off
  <2>1. PICK a \in Int : a = z.off
    BY <1>1
  <2>2. PICK b \in Int : b = z.len - 1
    BY <1>1
  <2>3. /\ IsFiniteSet(a .. b)
        /\ Cardinality(a .. b) = IF a > b THEN 0 ELSE b - a + 1
    BY FS_Interval
  <2>4. I = a .. b
    BY <2>1, <2>2
  <2> HIDE DEF I
  <2>5. IsFiniteSet(I) /\ Cardinality(I) = IF a > b THEN 0 ELSE b - a + 1
    BY <2>3, <2>4
  <2> QED BY <1>1, <2>1, <2>2, <2>5
<1>4. IsFiniteSet(S) /\ Cardinality(S) <= Cardinality(I)
  BY <1>2, <1>3, FS_Subset
<1>5. Ready(z) = Cardinality(S) /\ Cardinality(S) \in Nat
  BY <1>4, FS_CardinalityType DEF Ready
<1>6. n \in Nat \ {0} /\ n <= Cardinality(S)
  BY <1>5
<1>7. ~z.drain
  <2> SUFFICES ASSUME z.drain PROVE FALSE
    OBVIOUS
  <2>1. S = {}
    BY DEF ReaderOK
  <2>2. Cardinality(S) = 0
    BY <2>1, FS_EmptySet
  <2> HIDE DEF S
  <2> QED BY <1>6, <2>2
<1> HIDE DEF S, I
<1> QED BY <1>1, <1>3, <1>4, <1>5, <1>6, <1>7

LEMMA StreamRecvKeeps ==
    ASSUME IInv, NEW s \in Streams, StreamRecv(s)
    PROVE  IInv'
<1> DEFINE z == rcv.str[s]
<1>1. /\ rcv \in RcvType /\ z \in RecvType /\ ReaderOK(z) /\ Agree(s, snd.str[s], z)
      /\ z.state = "open"
  BY Facts DEF StreamRecv
<1>2. snd' = snd /\ Flying' = Flying /\ error' = "none"
  BY DEF StreamRecv, Flying
<1>3. /\ z.len \in Nat /\ z.off \in Nat /\ z.lost \in Nat /\ z.off <= z.len /\ z.data \subseteq Nat
      /\ rcv.rx_data \in Int /\ rcv.consumed \in Int
      /\ z.err \in BOOLEAN /\ z.drain \in BOOLEAN
  BY <1>1 DEF RecvType, ReaderOK, RcvType
<1>4. CASE rcv' = Collect([rcv EXCEPT !.str[s].notify = FALSE], s)
  <2> DEFINE v == [z EXCEPT !.notify = FALSE]
             r == [rcv EXCEPT !.str[s] = v]
  <2>1. /\ v \in RecvType /\ v.state = z.state /\ v.off = z.off /\ v.len = z.len
        /\ v.fin_off = z.fin_off /\ v.data = z.data /\ v.lost = z.lost
        /\ v.drain = z.drain /\ v.err = z.err
    BY <1>1 DEF RecvType
  <2>2. rcv' = Collect(r, s)
    BY <1>4
  <2> HIDE DEF v
  <2>3. ReaderOK(v) /\ Agree(s, snd.str[s], v) /\ Unread(v) = Unread(z)
    BY <1>1, <2>1 DEF ReaderOK, Agree, Unread
  <2>4. /\ r \in RcvType /\ r.str = [rcv.str EXCEPT ![s] = v]
        /\ r.peer_opened = rcv.peer_opened /\ r.max_streams = rcv.max_streams
        /\ r.max_streams_next = rcv.max_streams_next /\ r.max_data = rcv.max_data
        /\ r.rx_data = rcv.rx_data /\ r.consumed = rcv.consumed
    BY <1>1, <2>1 DEF RcvType
  <2> HIDE DEF r
  <2>5. Unread(z) \in Nat
    BY <1>1, UnreadNat
  <2>6. /\ r.rx_data = rcv.rx_data - z.len + v.len
        /\ r.rx_data - r.consumed = rcv.rx_data - rcv.consumed - Unread(z) + Unread(v)
    BY <1>3, <2>1, <2>3, <2>4, <2>5
  <2>7. Sound(snd, r, Flying)
    BY <2>1, <2>3, <2>4, <2>6, Facts, SameStream
  <2>8. r.str[s].state = "open"
    BY <1>1, <2>1, <2>4 DEF RcvType
  <2>9. Sound(snd, rcv', Flying)
    BY <2>2, <2>7, <2>8, CollectSound
  <2> QED BY <1>2, <2>9, NextIInv
<1>5. ASSUME ~z.err, NEW n \in 1 .. Ready(z), NEW r,
             r = [rcv EXCEPT !.consumed = @ + n, !.str[s] = WasRead(@, n)],
             rcv' = Refresh(IF z.fin_off = z.off + n THEN Collect(r, s) ELSE r)
      PROVE  IInv'
  <2> DEFINE v == WasRead(z, n)
             k == rcv.consumed + n
  <2>1. n \in Nat \ {0} /\ ~z.drain /\ z.off + n <= z.len
    BY <1>1, ReadyBound
  <2>2. r = [rcv EXCEPT !.consumed = k, !.str[s] = v]
    BY <1>5
  <2>3. n \in Nat
    BY <2>1
  <2>4. /\ v \in RecvType /\ v.state = z.state /\ v.off = z.off + n
        /\ v.len = z.len /\ v.fin_off = z.fin_off
        /\ v.data = z.data \ (z.off .. z.off + n - 1)
        /\ v.lost = z.lost
    BY <1>1, <2>3, WasReadIs
  <2>5. v.drain = z.drain /\ v.err = z.err
    BY <1>1, <2>3, WasReadIs
  <2>6. k \in Int
    BY <1>3, <2>3
  <2> HIDE DEF v, k
  <2>7. /\ r \in RcvType /\ r.str = [rcv.str EXCEPT ![s] = v]
        /\ r.peer_opened = rcv.peer_opened /\ r.max_streams = rcv.max_streams
        /\ r.max_streams_next = rcv.max_streams_next /\ r.max_data = rcv.max_data
        /\ r.rx_data = rcv.rx_data /\ r.consumed = k
    BY <1>1, <2>2, <2>4, <2>6 DEF RcvType
  <2>8. ReaderOK(v)
    <3>1. \A u \in v.data : v.off <= u /\ u < v.len
      <4> TAKE u \in v.data
      <4>1. u \in z.data /\ u \notin z.off .. z.off + n - 1
        BY <2>4
      <4>2. u \in Nat /\ z.off <= u /\ u < z.len
        BY <4>1, <1>1, <1>3 DEF ReaderOK
      <4> QED BY <4>1, <4>2, <1>3, <2>3, <2>4
    <3>2. v.off <= v.len
      BY <2>1, <2>4
    <3> QED BY <3>1, <3>2, <1>5, <2>1, <2>5 DEF ReaderOK
  <2>9. Agree(s, snd.str[s], v)
    BY <1>1, <2>4 DEF Agree
  <2>10. Unread(z) = z.lost + (z.len - z.off) /\ Unread(v) = z.lost + (z.len - (z.off + n))
    BY <1>5, <2>1, <2>4, <2>5 DEF Unread
  <2>11. /\ r.rx_data = rcv.rx_data - z.len + v.len
         /\ r.rx_data - r.consumed = rcv.rx_data - rcv.consumed - Unread(z) + Unread(v)
    BY <1>3, <2>3, <2>4, <2>7, <2>10 DEF k
  <2>12. Sound(snd, r, Flying)
    BY <2>4, <2>7, <2>8, <2>9, <2>11, Facts, SameStream
  <2>13. r.str[s].state = "open"
    BY <1>1, <2>4, <2>7 DEF RcvType
  <2>14. Sound(snd, Collect(r, s), Flying)
    BY <2>12, <2>13, CollectSound
  <2>15. Sound(snd, rcv', Flying)
    <3>1. CASE z.fin_off = z.off + n
      BY <3>1, <1>5, <2>14, RefreshSound
    <3>2. CASE z.fin_off # z.off + n
      BY <3>2, <1>5, <2>12, RefreshSound
    <3> QED BY <3>1, <3>2
  <2> QED BY <1>2, <2>15, NextIInv
<1> QED BY <1>4, <1>5 DEF StreamRecv

----------------------------------------------------------------------------
LEMMA InitIInv == Init => IInv
<1> SUFFICES ASSUME Init PROVE IInv
  OBVIOUS
<1>1. /\ InitMaxData \in Nat /\ InitMaxStreams \in Nat
      /\ InitWindow \in 0 .. MaxWindow
  BY StreamsAssumption DEF InitWindow, Smaller
<1>2. NewSend \in SendType /\ NewRecv \in RecvType
  BY DEF NewSend, NewRecv, SendType, RecvType, States, Unknown
<1>3. \A s \in Streams : snd.str[s] = NewSend /\ rcv.str[s] = NewRecv
  BY DEF Init
<1>4. /\ snd \in SndType /\ snd.opened = 0 /\ snd.peer_max = InitMaxStreams
      /\ snd.max_tx_data = InitMaxData /\ snd.tx_data = 0
  BY <1>1, <1>2 DEF Init, SndType
<1>5. /\ rcv \in RcvType /\ rcv.peer_opened = 0 /\ rcv.max_streams = InitMaxStreams
      /\ rcv.max_streams_next = InitMaxStreams /\ rcv.max_data = InitMaxData
      /\ rcv.consumed = 0 /\ rcv.rx_data = 0
  BY <1>1, <1>2 DEF Init, RcvType
<1>6. /\ NewSend.state = "idle" /\ NewSend.written = 0 /\ NewSend.emit_off = 0
      /\ NewSend.pending = {} /\ NewSend.reset = Unknown /\ ~Ended(NewSend)
  BY DEF NewSend, Ended
<1>7. /\ NewRecv.state = "idle" /\ NewRecv.len = 0 /\ NewRecv.off = 0 /\ NewRecv.data = {}
      /\ NewRecv.fin_off = Unknown /\ ~NewRecv.err /\ ~NewRecv.drain /\ NewRecv.lost = 0
  BY DEF NewRecv
<1>8. Unread(NewRecv) = 0
  BY <1>7 DEF Unread
<1>9. LimitsOK(snd, rcv)
  <2>1. Collected(rcv) = {}
    BY <1>3, <1>7 DEF Collected
  <2>2. Cardinality(Collected(rcv)) = 0
    BY <2>1, FS_EmptySet
  <2> QED BY <1>1, <1>3, <1>4, <1>5, <1>6, <1>7, <2>2 DEF LimitsOK
<1>10. SumsOK(snd, rcv)
  <2>1. ASSUME NEW g, g = [s \in Streams |-> 0] PROVE Total(g) = 0
    BY <2>1, TotalZero
  <2>2. /\ Written(snd) = [s \in Streams |-> 0] /\ Received(rcv) = [s \in Streams |-> 0]
        /\ Kept(rcv) = [s \in Streams |-> 0]
    BY <1>3, <1>6, <1>7, <1>8 DEF Written, Received, Kept
  <2>3. Total(Written(snd)) = 0 /\ Total(Received(rcv)) = 0 /\ Total(Kept(rcv)) = 0
    BY <2>1, <2>2
  <2> QED BY <1>1, <1>4, <1>5, <2>3 DEF SumsOK
<1>11. LinksOK(snd, rcv)
  <2> SUFFICES ASSUME NEW s \in Streams
               PROVE  WriterOK(s, NewSend) /\ ReaderOK(NewRecv) /\ Agree(s, NewSend, NewRecv)
    BY <1>3 DEF LinksOK
  <2>1. StreamLen[s] \in Nat
    BY Lengths
  <2> QED BY <2>1, <1>6, <1>7 DEF WriterOK, ReaderOK, Agree
<1>12. net \cup arrived = {} /\ error = "none"
  BY DEF Init
<1> QED BY <1>4, <1>5, <1>9, <1>10, <1>11, <1>12 DEF IInv, Sound, TypeOK

LEMMA StepIInv ==
    ASSUME CapFactor = 1
    PROVE  IInv /\ [Next]_vars => IInv'
<1> SUFFICES ASSUME IInv, [Next]_vars PROVE IInv'
  OBVIOUS
<1>1. CASE UNCHANGED vars
  BY <1>1 DEF vars, IInv
<1>2. CASE Next
  <2>1. CASE \E s \in Streams : \/ StreamSend(s) \/ StreamShutdownWrite(s)
                                \/ SendStream(s) \/ SendReset(s)
    BY <2>1, StreamSendKeeps, ShutdownWriteKeeps, SendStreamKeeps, SendResetKeeps
  <2>2. CASE \E f \in net : RecvStopSending(f) \/ RecvMaxData(f) \/ RecvMaxStreams(f)
    BY <2>2, StopSendingKeeps, MaxDataKeeps, MaxStreamsKeeps
  <2>3. CASE \E f \in net : RecvStream(f) \/ RecvReset(f)
    BY <2>3, RecvStreamKeeps, RecvResetKeeps
  <2>4. CASE \E s \in Streams : StreamRecv(s) \/ StreamShutdownRead(s) \/ SendStopSending(s)
    BY <2>4, StreamRecvKeeps, ShutdownReadKeeps, SendStopKeeps
  <2>5. CASE SendMaxStreams \/ SendMaxData
    BY <2>5, SendMaxStreamsKeeps, SendMaxDataKeeps
  <2>6. CASE \/ \E f \in arrived : Acked(f)
             \/ \E f \in net \cup arrived : Lost(f)
    BY <2>6, AckedKeeps, LostKeeps
  <2> QED BY <1>2, <2>1, <2>2, <2>3, <2>4, <2>5, <2>6 DEF Next
<1> QED BY <1>1, <1>2

(* Open and collected streams are among those the peer may have opened.    *)
LEMMA OpenBounded ==
    ASSUME IInv
    PROVE  LiveWithinLimit
<1> DEFINE O == Open(rcv)
           C == Collected(rcv)
           I == 0 .. rcv.peer_opened - 1
<1>1. /\ rcv.peer_opened \in Nat /\ rcv.max_streams \in Nat /\ InitMaxStreams \in Nat
      /\ rcv.peer_opened <= rcv.max_streams
      /\ rcv.max_streams <= InitMaxStreams + Cardinality(C)
      /\ \A s \in Streams : rcv.str[s].state # "idle" => s < rcv.peer_opened
  BY Facts, StreamsAssumption DEF LimitsOK, RcvType
<1>2. O \cup C \in SUBSET I /\ O \cap C = {} /\ O \in SUBSET Streams /\ C \in SUBSET Streams
  <2>1. O \in SUBSET Streams /\ C \in SUBSET Streams /\ O \cap C = {}
    BY DEF Open, Collected
  <2>2. \A s \in O \cup C : s \in Streams /\ rcv.str[s].state # "idle"
    BY DEF Open, Collected
  <2>3. \A s \in Streams : s \in Nat
    BY StreamsFinite
  <2> HIDE DEF O, C
  <2>4. \A s \in O \cup C : s \in Nat /\ s < rcv.peer_opened
    BY <1>1, <2>2, <2>3
  <2>5. \A s \in O \cup C : s \in I
    BY <1>1, <2>4
  <2> QED BY <2>1, <2>5
<1>3. IsFiniteSet(O) /\ IsFiniteSet(C)
  BY <1>2, StreamsFinite, FS_Subset
<1>4. Cardinality(O) \in Nat /\ Cardinality(C) \in Nat
  BY <1>3, FS_CardinalityType
<1>5. IsFiniteSet(I) /\ Cardinality(I) = rcv.peer_opened
  <2>1. PICK b \in Int : b = rcv.peer_opened - 1
    BY <1>1
  <2>2. /\ IsFiniteSet(0 .. b)
        /\ Cardinality(0 .. b) = IF 0 > b THEN 0 ELSE b - 0 + 1
    BY FS_Interval
  <2>3. I = 0 .. b
    BY <2>1
  <2> HIDE DEF I
  <2>4. IsFiniteSet(I) /\ Cardinality(I) = IF 0 > b THEN 0 ELSE b - 0 + 1
    BY <2>2, <2>3
  <2> QED BY <1>1, <2>1, <2>4
<1>6. Cardinality(O \cup C) <= Cardinality(I)
  BY <1>2, <1>5, FS_Subset
<1>7. Cardinality(O \cup C) = Cardinality(O) + Cardinality(C) - Cardinality(O \cap C)
  BY <1>3, FS_Union
<1>8. Cardinality(O \cap C) = 0
  BY <1>2, FS_EmptySet
<1> HIDE DEF O, C, I
<1>9. Cardinality(O) <= InitMaxStreams
  BY <1>1, <1>4, <1>5, <1>6, <1>7, <1>8
<1> QED BY <1>9 DEF LiveWithinLimit, O

(* With the default tx_cap_factor, and whatever is reordered, lost, lost   *)
(* and late, reset or stopped: no STREAM or RESET_STREAM frame exceeds     *)
(* MAX_DATA or MAX_STREAMS or contradicts a final size, so no handler      *)
(* closes the connection; each byte charged to the reader's window was     *)
(* read, waits, or was dropped with its stream; and collect never lets the *)
(* peer hold more streams than it was allowed.                             *)
THEOREM StreamsSafe ==
    ASSUME CapFactor = 1
    PROVE  Spec => [](NoConnectionError /\ CreditAccounted /\ LiveWithinLimit)
<1>1. IInv /\ [Next]_vars => IInv'
  BY StepIInv
<1>2. IInv => NoConnectionError /\ CreditAccounted /\ LiveWithinLimit
  <2> SUFFICES ASSUME IInv PROVE NoConnectionError /\ CreditAccounted /\ LiveWithinLimit
    OBVIOUS
  <2>1. NoConnectionError
    BY Facts DEF NoConnectionError
  <2>2. \A s \in Streams : Unread(rcv.str[s]) \in Nat
    BY Facts, UnreadNat
  <2>3. CreditAccounted
    BY <2>2, Facts DEF CreditAccounted, SumsOK, Kept
  <2> QED BY <2>1, <2>3, OpenBounded
<1> QED BY <1>1, <1>2, InitIInv, PTL DEF Spec
============================================================================
