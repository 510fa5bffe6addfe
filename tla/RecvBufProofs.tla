--------------------------- MODULE RecvBufProofs ---------------------------
(* Proofs about RecvBuf: IInv is inductive, and implies the properties.    *)
EXTENDS RecvBuf, TLAPS

\* Taking the first chunk off the pending list leaves the others.
LEMMA TailPending ==
    ASSUME NEW q \in Seq(Chunks), q # <<>>
    PROVE  /\ Head(q) \in Chunks /\ Tail(q) \in Seq(Chunks)
           /\ Elems(q) = Elems(Tail(q)) \cup {Head(q)}
<1>1. Head(q) \in Chunks /\ Tail(q) \in Seq(Chunks)
  OBVIOUS
<1>2. ASSUME NEW j \in DOMAIN q, q[j] # Head(q)
      PROVE  \E k \in DOMAIN Tail(q) : q[j] = Tail(q)[k]
  <2>1. j # 1 /\ j \in 1 .. Len(q)
    BY <1>2
  <2>2. j - 1 \in DOMAIN Tail(q) /\ Tail(q)[j - 1] = q[j]
    BY <2>1
  <2> QED
    BY <2>2
<1>3. ASSUME NEW k \in DOMAIN Tail(q)
      PROVE  \E j \in DOMAIN q : Tail(q)[k] = q[j]
  <2>1. k + 1 \in DOMAIN q /\ Tail(q)[k] = q[k + 1]
    OBVIOUS
  <2> QED
    BY <2>1
<1>4. 1 \in DOMAIN q /\ Head(q) = q[1]
  OBVIOUS
<1> QED
  BY <1>1, <1>2, <1>3, <1>4 DEF Elems

\* Appending a chunk to the pending list adds that chunk and no other.
LEMMA AppendPending ==
    ASSUME NEW q \in Seq(Chunks), NEW e \in Chunks
    PROVE  /\ Append(q, e) \in Seq(Chunks)
           /\ Elems(Append(q, e)) = Elems(q) \cup {e}
<1>1. Append(q, e) \in Seq(Chunks) /\ Len(Append(q, e)) = Len(q) + 1
  OBVIOUS
<1>2. \A j \in DOMAIN q : j \in DOMAIN Append(q, e) /\ Append(q, e)[j] = q[j]
  OBVIOUS
<1>3. Len(q) + 1 \in DOMAIN Append(q, e) /\ Append(q, e)[Len(q) + 1] = e
  OBVIOUS
<1>4. \A j \in DOMAIN Append(q, e) : j \in DOMAIN q \/ j = Len(q) + 1
  OBVIOUS
<1> QED
  BY <1>1, <1>2, <1>3, <1>4 DEF Elems

\* split_off: both parts of a chunk are chunks, and their types are known.
LEMMA SplitChunk ==
    ASSUME NEW c \in Chunks, NEW o \in 0 .. MaxOff
    PROVE  /\ TailFrom(c, o) \in Chunks /\ TailFrom(c, o).off = o
           /\ TailFrom(c, o).end = c.end /\ TailFrom(c, o).ver = c.ver
           /\ HeadUpTo(c, o) \in Chunks /\ HeadUpTo(c, o).off = c.off
           /\ HeadUpTo(c, o).end = o /\ HeadUpTo(c, o).ver = c.ver
  BY DEF Chunks, TailFrom, HeadUpTo

\* The fields of a chunk are offsets and a version.
LEMMA ChunkFields ==
    ASSUME NEW c \in Chunks
    PROVE  c.off \in 0 .. MaxOff /\ c.end \in 0 .. MaxOff /\ c.ver \in Vers \cup {NoVer}
  BY DEF Chunks

\* write, one stored chunk compared with the incoming one: what is cut off is
\* stored already, and what is pushed back to the pending list is not.
LEMMA ScanChunkKeeps ==
    ASSUME IInv, NEW b \in data, ScanChunk(b)
    PROVE  IInv'
<1> USE OffAssumption, VerAssumption
<1> USE DEF flowVars, creditVars, writeVars, emitVars, None, IsEmpty, Live
<1>0. /\ b \in Chunks /\ cur \in Chunks /\ bufs \in Seq(Chunks) /\ data \subseteq Chunks
      /\ b.off \in 0 .. MaxOff /\ b.end \in 0 .. MaxOff
      /\ cur.off \in 0 .. MaxOff /\ cur.end \in 0 .. MaxOff
      /\ MaxOff \in Nat /\ len \in 0 .. MaxOff /\ off \in 0 .. MaxOff
      /\ key \in Nat /\ b.off <= b.end /\ b.end <= len /\ off <= b.off
      /\ cur.off <= cur.end /\ off <= cur.off /\ pc = "scan"
  BY DEF IInv, TypeOK, ChunksDisjoint, PendingInv, Pending, Chunks, ScanChunk
<1>1. UNCHANGED <<data, off, len, fin_off, error, drain, flowVars, creditVars,
                  conn_err, emitVars, first, out, told>>
  BY DEF ScanChunk
<1>2. ChunksDisjoint' /\ UniqueKeys' /\ DeliveredFirst' /\ FinMeansComplete' /\ CreditInv'
  BY <1>1 DEF IInv, ChunksDisjoint, UniqueKeys, DeliveredFirst, FinMeansComplete,
              CreditInv, ShouldUpdateMaxData
<1>3. \A c \in data : \/ c = b \/ c.end < key \/ (c.end > b.end /\ c.off >= b.end)
  <2>1. \A c \in data : c.end >= key => b.end <= c.end
    BY DEF ScanChunk, ScanNext
  <2> SUFFICES ASSUME NEW c \in data, c # b, ~(c.end < key)
               PROVE  c.end > b.end /\ c.off >= b.end
    OBVIOUS
  <2>2. c.off \in 0 .. MaxOff /\ c.end \in 0 .. MaxOff
    BY <1>0, ChunkFields
  <2>3. c.end # b.end
    BY DEF IInv, UniqueKeys
  <2>4. c.end <= b.off \/ b.end <= c.off
    BY DEF IInv, ChunksDisjoint
  <2> QED
    BY <1>0, <2>1, <2>2, <2>3, <2>4
<1>4. CASE b.off > cur.end /\ pc' = "insert" /\ UNCHANGED writeVars
  <2>1. \A s : Pending(s)' <=> Pending(s)
    BY <1>0, <1>4 DEF Pending
  <2>2. TypeOK' /\ Modes'
    BY <1>0, <1>1, <1>4 DEF IInv, TypeOK, Modes
  <2>3. PendingInv'
    BY <1>0, <1>1, <1>4, <2>1 DEF IInv, PendingInv
  <2>4. ScanInv'
    <3> SUFFICES ASSUME NEW c \in data PROVE Apart(c)
      BY <1>1, <1>4 DEF ScanInv, Apart
    <3>1. c \in Chunks /\ c.off \in 0 .. MaxOff /\ c.end \in 0 .. MaxOff /\ c.off <= c.end
      BY <1>0, ChunkFields DEF IInv, ChunksDisjoint
    <3> QED
      BY <1>0, <1>3, <1>4, <3>1 DEF IInv, ScanInv, Apart
  <2>5. VersionInv' /\ CoverageInv' /\ FinInv'
    BY <1>0, <1>1, <1>4, <2>1 DEF IInv, VersionInv, CoverageInv, FinInv, Held
  <2> QED
    BY <1>2, <2>2, <2>3, <2>4, <2>5 DEF IInv
<1>5. CASE b.off <= cur.end /\ Contained(b) /\ pc' = "pop" /\ UNCHANGED writeVars
  <2>1. /\ \A s : Pending(s)' => Pending(s)
        /\ \A s : Pending(s) => Pending(s)' \/ s = cur
    BY <1>0, <1>5 DEF Pending
  <2>2. TypeOK' /\ Modes'
    BY <1>0, <1>1, <1>5 DEF IInv, TypeOK, Modes
  <2>3. PendingInv' /\ ScanInv'
    BY <1>0, <1>1, <1>5, <2>1 DEF IInv, PendingInv, ScanInv
  <2>4. VersionInv'
    BY <1>0, <1>1, <1>5, <2>1 DEF IInv, VersionInv, Held
  <2>5. CoverageInv'
    <3> SUFFICES ASSUME Live, NEW i \in Offsets, first[i] # NoVer, i >= off, ~Held(i)
                 PROVE  \E s \in Chunks : Pending(s)' /\ s.off <= i /\ i < s.end
      BY <1>1 DEF CoverageInv, Held
    <3>1. PICK s \in Chunks : Pending(s) /\ s.off <= i /\ i < s.end
      BY DEF IInv, CoverageInv
    <3>2. s # cur
      BY <1>0, <1>5, <3>1 DEF Contained, Held, Offsets
    <3> QED
      BY <2>1, <3>1, <3>2
  <2>6. FinInv'
    <3> SUFFICES ASSUME fin_off # -1, len # fin_off
                 PROVE  \E s \in Chunks : Pending(s)' /\ s.end = fin_off
      BY <1>1 DEF IInv, FinInv
    <3>1. PICK s \in Chunks : Pending(s) /\ s.end = fin_off
      BY DEF IInv, FinInv
    <3>2. s # cur
      BY <1>0, <1>5, <3>1 DEF Contained, IInv, FinInv, TypeOK
    <3> QED
      BY <2>1, <3>1, <3>2
  <2> QED
    BY <1>2, <2>2, <2>3, <2>4, <2>5, <2>6 DEF IInv
<1>6. CASE /\ b.off <= cur.end /\ ~Contained(b) /\ pc' = pc
           /\ key' = b.end + 1 /\ StartOverlaps(b)
           /\ cur' = TailFrom(cur, b.end) /\ bufs' = bufs
  <2>0. /\ cur' \in Chunks /\ cur'.off = b.end /\ cur'.end = cur.end /\ cur'.ver = cur.ver
        /\ b.off <= cur.off /\ cur.off < b.end /\ b.end < cur.end
    <3>1. TailFrom(cur, b.end) \in Chunks /\ TailFrom(cur, b.end).off = b.end
          /\ TailFrom(cur, b.end).end = cur.end /\ TailFrom(cur, b.end).ver = cur.ver
      BY <1>0, SplitChunk
    <3>2. b.off <= cur.off /\ cur.off < b.end /\ b.end < cur.end
      BY <1>0, <1>6 DEF Contained, StartOverlaps
    <3> QED
      BY <1>6, <3>1, <3>2
  <2>1. \A s : Pending(s)' <=> (s = cur' \/ s \in Elems(bufs))
    BY <1>0, <1>6 DEF Pending
  <2>2. TypeOK' /\ Modes'
    BY <1>0, <1>1, <1>6, <2>0 DEF IInv, TypeOK, Modes
  <2>3. PendingInv'
    BY <1>0, <1>1, <1>6, <2>0, <2>1 DEF IInv, PendingInv, Pending
  <2>4. ScanInv'
    <3> SUFFICES ASSUME NEW c \in data, c.end < b.end + 1 PROVE Apart(c)'
      BY <1>0, <1>1, <1>6 DEF ScanInv
    <3>1. c \in Chunks /\ c.off \in 0 .. MaxOff /\ c.end \in 0 .. MaxOff /\ c.off <= c.end
      BY <1>0, ChunkFields DEF IInv, ChunksDisjoint
    <3>2. c = b \/ Apart(c)
      BY <1>0, <1>3, <3>1 DEF IInv, ScanInv
    <3> QED
      BY <1>0, <2>0, <3>1, <3>2 DEF Apart
  <2>5. VersionInv'
    <3>1. ASSUME NEW c \in data, NEW i \in Offsets, c.off <= i, i < c.end
          PROVE  first[i] = c.ver /\ first[i] # NoVer
      BY <3>1 DEF IInv, VersionInv
    <3>2. ASSUME Live, NEW s \in Chunks, Pending(s)', NEW i \in Offsets,
                 s.off <= i, i < s.end, off <= i, ~Held(i)
          PROVE  first[i] = s.ver /\ first[i] # NoVer
      <4>1. CASE s \in Elems(bufs)
        <5>1. Pending(s)
          BY <4>1 DEF Pending
        <5> QED
          BY <3>2, <5>1 DEF IInv, VersionInv
      <4>2. CASE s = cur'
        <5>1. cur.off <= i /\ i < cur.end /\ s.ver = cur.ver /\ Pending(cur)
          BY <1>0, <2>0, <3>2, <4>2 DEF Offsets, Pending
        <5> QED
          BY <1>0, <3>2, <5>1 DEF IInv, VersionInv
      <4> QED
        BY <2>1, <3>2, <4>1, <4>2
    <3> QED
      BY <1>1, <3>1, <3>2 DEF VersionInv, Held
  <2>6. CoverageInv'
    <3> SUFFICES ASSUME Live, NEW i \in Offsets, first[i] # NoVer, i >= off, ~Held(i)
                 PROVE  \E s \in Chunks : Pending(s)' /\ s.off <= i /\ i < s.end
      BY <1>1 DEF CoverageInv, Held
    <3>1. PICK s \in Chunks : Pending(s) /\ s.off <= i /\ i < s.end
      BY DEF IInv, CoverageInv
    <3>2. CASE s = cur
      BY <1>0, <2>0, <2>1, <3>1, <3>2 DEF Held, Offsets
    <3> QED
      BY <2>1, <3>1, <3>2 DEF Pending
  <2>7. FinInv'
    BY <1>0, <1>1, <2>0, <2>1 DEF IInv, FinInv, Pending
  <2> QED
    BY <1>2, <2>2, <2>3, <2>4, <2>5, <2>6, <2>7 DEF IInv
<1>7. CASE /\ b.off <= cur.end /\ ~Contained(b) /\ pc' = pc
           /\ key' = b.end + 1 /\ EndOverlaps(b)
           /\ cur' = HeadUpTo(cur, b.off) /\ bufs' = Append(bufs, TailFrom(cur, b.off))
  <2> DEFINE t == TailFrom(cur, b.off)
  <2>0. /\ cur' \in Chunks /\ cur'.off = cur.off /\ cur'.end = b.off /\ cur'.ver = cur.ver
        /\ t \in Chunks /\ t.off = b.off /\ t.end = cur.end /\ t.ver = cur.ver
        /\ cur.off < b.off /\ b.off < cur.end
    BY <1>0, <1>7, SplitChunk DEF EndOverlaps
  <2> HIDE DEF t
  <2>1. \A s : Pending(s)' <=> (s = cur' \/ s = t \/ s \in Elems(bufs))
    <3>1. Elems(bufs') = Elems(bufs) \cup {t}
      BY <1>0, <1>7, <2>0, AppendPending DEF t
    <3> QED
      BY <1>0, <1>7, <3>1 DEF Pending
  <2>2. TypeOK' /\ Modes'
    BY <1>0, <1>1, <1>7, <2>0, AppendPending DEF IInv, TypeOK, Modes, t
  <2>3. PendingInv'
    <3>1. Pending(cur) /\ \A s : (s \in Elems(bufs)) => Pending(s)
      BY <1>0 DEF Pending
    <3>2. /\ cur.end <= max_data /\ (fin_off # -1 => cur.end <= fin_off)
          /\ (error => cur.off = cur.end) /\ max_data \in Nat /\ fin_off \in 0 .. MaxOff \cup {-1}
      BY <1>0, <3>1 DEF IInv, PendingInv, TypeOK
    <3>3. ASSUME NEW s \in Chunks, s = cur' \/ s = t
          PROVE  /\ s.off <= s.end /\ off <= s.end /\ s.end <= max_data
                 /\ fin_off # -1 => s.end <= fin_off
                 /\ error => s.off = s.end
      BY <1>0, <2>0, <3>2, <3>3
    <3> QED
      BY <1>0, <1>1, <1>7, <2>0, <2>1, <3>1, <3>3 DEF IInv, PendingInv
  <2>4. ScanInv'
    <3> SUFFICES ASSUME NEW c \in data, c.end < b.end + 1 PROVE Apart(c)'
      BY <1>0, <1>1, <1>7 DEF ScanInv
    <3>1. c \in Chunks /\ c.off \in 0 .. MaxOff /\ c.end \in 0 .. MaxOff /\ c.off <= c.end
      BY <1>0, ChunkFields DEF IInv, ChunksDisjoint
    <3>2. c = b \/ Apart(c)
      BY <1>0, <1>3, <3>1 DEF IInv, ScanInv
    <3> QED
      BY <1>0, <2>0, <3>1, <3>2 DEF Apart
  <2>5. VersionInv'
    <3>1. Pending(cur) /\ \A s : (s \in Elems(bufs)) => Pending(s)
      BY <1>0 DEF Pending
    <3>2. ASSUME Live, NEW s \in Chunks, s = cur' \/ s = t, NEW i \in Offsets,
                 s.off <= i, i < s.end, off <= i, ~Held(i)
          PROVE  first[i] = s.ver /\ first[i] # NoVer
      <4>1. cur.off <= i /\ i < cur.end /\ s.ver = cur.ver
        BY <1>0, <2>0, <3>2 DEF Offsets
      <4> QED
        BY <1>0, <3>1, <3>2, <4>1 DEF IInv, VersionInv
    <3> QED
      BY <1>1, <2>1, <3>1, <3>2 DEF IInv, VersionInv, Held
  <2>6. CoverageInv'
    <3> SUFFICES ASSUME Live, NEW i \in Offsets, first[i] # NoVer, i >= off, ~Held(i)
                 PROVE  \E s \in Chunks : Pending(s)' /\ s.off <= i /\ i < s.end
      BY <1>1 DEF CoverageInv, Held
    <3>1. PICK s \in Chunks : Pending(s) /\ s.off <= i /\ i < s.end
      BY DEF IInv, CoverageInv
    <3>2. CASE s = cur
      BY <1>0, <2>0, <2>1, <3>1, <3>2 DEF Offsets
    <3> QED
      BY <2>1, <3>1, <3>2 DEF Pending
  <2>7. FinInv'
    BY <1>0, <1>1, <2>0, <2>1 DEF IInv, FinInv, Pending
  <2> QED
    BY <1>2, <2>2, <2>3, <2>4, <2>5, <2>6, <2>7 DEF IInv
<1>8. CASE /\ b.off <= cur.end /\ ~Contained(b) /\ pc' = pc
           /\ key' = b.end + 1 /\ ~StartOverlaps(b) /\ ~EndOverlaps(b)
           /\ cur' = cur /\ bufs' = bufs
  <2>1. \A s : Pending(s)' <=> Pending(s)
    BY <1>0, <1>8 DEF Pending
  <2>2. TypeOK' /\ Modes'
    BY <1>0, <1>1, <1>8 DEF IInv, TypeOK, Modes
  <2>3. PendingInv'
    BY <1>0, <1>1, <1>8, <2>1 DEF IInv, PendingInv
  <2>4. ScanInv'
    <3> SUFFICES ASSUME NEW c \in data, c.end < b.end + 1 PROVE Apart(c)'
      BY <1>0, <1>1, <1>8 DEF ScanInv
    <3>1. c \in Chunks /\ c.off \in 0 .. MaxOff /\ c.end \in 0 .. MaxOff /\ c.off <= c.end
      BY <1>0, ChunkFields DEF IInv, ChunksDisjoint
    <3>2. c = b \/ Apart(c)
      BY <1>0, <1>3, <3>1 DEF IInv, ScanInv
    <3> QED
      BY <1>0, <1>8, <3>1, <3>2 DEF Apart, Contained, StartOverlaps, EndOverlaps
  <2>5. VersionInv' /\ CoverageInv' /\ FinInv'
    BY <1>0, <1>1, <1>8, <2>1 DEF IInv, VersionInv, CoverageInv, FinInv, Held
  <2> QED
    BY <1>2, <2>2, <2>3, <2>4, <2>5 DEF IInv
<1> QED
  BY <1>0, <1>4, <1>5, <1>6, <1>7, <1>8 DEF ScanChunk, StartOverlaps, EndOverlaps

\* The elements of the empty and of the one-element list.
LEMMA ElemsSmall ==
    ASSUME NEW e PROVE Elems(<<>>) = {} /\ Elems(<<e>>) = {e}
  BY DEF Elems

\* write, the next pending chunk: trimming drops only what was read.
LEMMA WritePopKeeps ==
    ASSUME IInv, WritePop
    PROVE  IInv'
<1> USE OffAssumption, VerAssumption
<1> USE DEF flowVars, creditVars, emitVars, None, IsEmpty, Live
<1> DEFINE h == Head(bufs)
<1>0. /\ h \in Chunks /\ bufs \in Seq(Chunks) /\ data \subseteq Chunks
      /\ Tail(bufs) \in Seq(Chunks) /\ Elems(bufs) = Elems(Tail(bufs)) \cup {h}
      /\ MaxOff \in Nat /\ len \in 0 .. MaxOff /\ off \in 0 .. MaxOff /\ pc = "pop"
  BY TailPending DEF IInv, TypeOK, WritePop
<1>1. /\ UNCHANGED <<data, off, len, fin_off, error, drain, flowVars, creditVars,
                     conn_err, emitVars, first, out, told>>
      /\ cur' = Trimmed(h) /\ key' = cur'.off /\ bufs' = Tail(bufs)
      /\ pc' = IF cur'.off < len \/ IsEmpty(cur') THEN "scan" ELSE "insert"
  BY DEF WritePop
<1>2. Pending(h) /\ \A s \in Elems(Tail(bufs)) : Pending(s)
  BY <1>0 DEF Pending
<1>3. /\ h.off \in 0 .. MaxOff /\ h.end \in 0 .. MaxOff /\ h.off <= h.end /\ off <= h.end
      /\ h.end <= max_data /\ (fin_off # -1 => h.end <= fin_off) /\ (error => h.off = h.end)
  BY <1>0, <1>2, ChunkFields DEF IInv, PendingInv
<1>4. /\ cur' \in Chunks /\ cur'.end = h.end /\ cur'.ver = h.ver
      /\ cur'.off = IF off > h.off THEN off ELSE h.off
  BY <1>0, <1>1, SplitChunk DEF Trimmed
<1> HIDE DEF h
<1>5. \A s : Pending(s)' <=> (s = cur' \/ s \in Elems(Tail(bufs)))
  BY <1>1 DEF Pending
<1>6. TypeOK' /\ Modes'
  BY <1>0, <1>1, <1>4 DEF IInv, TypeOK, Modes, Chunks
<1>7. ChunksDisjoint' /\ UniqueKeys' /\ DeliveredFirst' /\ FinMeansComplete' /\ CreditInv'
  BY <1>1 DEF IInv, ChunksDisjoint, UniqueKeys, DeliveredFirst, FinMeansComplete,
              CreditInv, ShouldUpdateMaxData
<1>8. PendingInv'
  BY <1>0, <1>1, <1>2, <1>3, <1>4, <1>5 DEF IInv, PendingInv
<1>9. ScanInv'
  <2> SUFFICES ASSUME NEW c \in data, pc' = "insert" \/ c.end < cur'.off PROVE Apart(c)'
    BY <1>1 DEF ScanInv
  <2>1. c.off \in 0 .. MaxOff /\ c.end \in 0 .. MaxOff /\ c.off <= c.end /\ c.end <= len
    BY <1>0, ChunkFields DEF IInv, ChunksDisjoint
  <2>2. cur'.off \in 0 .. MaxOff /\ cur'.end \in 0 .. MaxOff /\ cur'.off <= cur'.end
    BY <1>0, <1>3, <1>4
  <2>3. pc' = "insert" => cur'.off >= len /\ cur'.off # cur'.end
    BY <1>0, <1>1, <2>2
  <2> QED
    BY <1>0, <2>1, <2>2, <2>3 DEF Apart
<1>10. VersionInv'
  <2>1. ASSUME Live, NEW i \in Offsets, cur'.off <= i, i < cur'.end, off <= i, ~Held(i)
        PROVE  first[i] = cur'.ver /\ first[i] # NoVer
    <3>1. h.off <= i /\ i < h.end
      BY <1>0, <1>3, <1>4, <2>1 DEF Offsets
    <3> QED
      BY <1>0, <1>2, <1>4, <2>1, <3>1 DEF IInv, VersionInv
  <2> QED
    BY <1>1, <1>2, <1>5, <2>1 DEF IInv, VersionInv, Held
<1>11. CoverageInv'
  <2> SUFFICES ASSUME Live, NEW i \in Offsets, first[i] # NoVer, i >= off, ~Held(i)
               PROVE  \E s \in Chunks : Pending(s)' /\ s.off <= i /\ i < s.end
    BY <1>1 DEF CoverageInv, Held
  <2>1. PICK s \in Chunks : Pending(s) /\ s.off <= i /\ i < s.end
    BY DEF IInv, CoverageInv
  <2>2. CASE s = h
    BY <1>0, <1>3, <1>4, <1>5, <2>1, <2>2 DEF Offsets
  <2> QED
    BY <1>0, <1>5, <2>1, <2>2 DEF Pending
<1>12. FinInv'
  BY <1>0, <1>1, <1>4, <1>5 DEF IInv, FinInv, Pending
<1> QED
  BY <1>6, <1>7, <1>8, <1>9, <1>10, <1>11, <1>12 DEF IInv

\* write, the insertion: the scan has left nothing that overlaps.
LEMMA WriteInsertKeeps ==
    ASSUME IInv, WriteInsert
    PROVE  IInv'
<1> USE OffAssumption, VerAssumption
<1> USE DEF flowVars, creditVars, writeVars, emitVars, None, IsEmpty, Live
<1>0. /\ cur \in Chunks /\ data \subseteq Chunks /\ MaxOff \in Nat
      /\ len \in 0 .. MaxOff /\ off \in 0 .. MaxOff /\ pc = "insert" /\ Pending(cur)
  BY DEF IInv, TypeOK, WriteInsert, Pending
<1>1. /\ UNCHANGED <<off, fin_off, error, drain, flowVars, creditVars, conn_err,
                     writeVars, emitVars, first, out, told>>
      /\ pc' = "pop"
      /\ len' = IF cur.end > len THEN cur.end ELSE len
  BY DEF WriteInsert
<1>2. data' = IF drain THEN data ELSE {c \in data : c.end # cur.end} \cup {cur}
  BY DEF WriteInsert, Inserted
<1>3. /\ cur.off \in 0 .. MaxOff /\ cur.end \in 0 .. MaxOff /\ cur.off <= cur.end
      /\ off <= cur.off /\ cur.end <= max_data /\ (fin_off # -1 => cur.end <= fin_off)
      /\ (error => cur.off = cur.end) /\ conn_err = "none"
  BY <1>0, ChunkFields DEF IInv, PendingInv, Modes
<1>4. \A c \in data :
        /\ c \in Chunks /\ c.off \in 0 .. MaxOff /\ c.end \in 0 .. MaxOff
        /\ off <= c.off /\ c.off <= c.end /\ c.end <= len /\ Apart(c)
  BY <1>0, ChunkFields DEF IInv, ChunksDisjoint, ScanInv
<1>5. \A c \in data : c.end = cur.end => c.off = c.end
  BY <1>3, <1>4 DEF Apart
<1>6. \A s : (Pending(s)' => Pending(s)) /\ (Pending(s) => Pending(s)' \/ s = cur)
  BY <1>0, <1>1 DEF Pending
<1>7. len' \in 0 .. MaxOff /\ len <= len' /\ cur.end <= len'
      /\ (len' = len \/ len' = cur.end)
  BY <1>0, <1>1, <1>3
<1>8. TypeOK'
  BY <1>0, <1>1, <1>2, <1>7 DEF IInv, TypeOK
<1>9. ChunksDisjoint'
  BY <1>0, <1>1, <1>2, <1>3, <1>4, <1>7 DEF IInv, ChunksDisjoint, Apart
<1>10. UniqueKeys'
  BY <1>2 DEF IInv, UniqueKeys
<1>11. Modes'
  BY <1>0, <1>1, <1>2, <1>3, <1>7 DEF IInv, Modes
<1>12. PendingInv' /\ ScanInv'
  BY <1>1, <1>6 DEF IInv, PendingInv, ScanInv
<1>13. ~drain => \A i \in Offsets : Held(i)' <=> (Held(i) \/ (cur.off <= i /\ i < cur.end))
  BY <1>2, <1>4, <1>5 DEF Held, Offsets
<1>14. VersionInv'
  <2>1. ASSUME NEW c \in data', NEW i \in Offsets, c.off <= i, i < c.end
        PROVE  first[i] = c.ver /\ first[i] # NoVer
    <3>1. CASE c \in data
      BY <2>1, <3>1 DEF IInv, VersionInv
    <3>2. CASE c = cur /\ ~drain /\ c \notin data
      <4>1. ~error /\ off <= i
        BY <1>0, <1>3, <2>1, <3>2 DEF Offsets
      <4>2. ~Held(i)
        BY <1>3, <1>4, <2>1, <3>2 DEF Held, Apart, Offsets
      <4> QED
        BY <1>0, <2>1, <3>2, <4>1, <4>2 DEF IInv, VersionInv
    <3> QED
      BY <1>2, <3>1, <3>2
  <2>2. ASSUME Live, NEW s \in Chunks, Pending(s)', NEW i \in Offsets,
               s.off <= i, i < s.end, off <= i, ~Held(i)'
        PROVE  first[i] = s.ver /\ first[i] # NoVer
    BY <1>6, <1>13, <2>2 DEF IInv, VersionInv
  <2> QED
    BY <1>1, <2>1, <2>2 DEF VersionInv
<1>15. CoverageInv'
  <2> SUFFICES ASSUME Live, NEW i \in Offsets, first[i] # NoVer, i >= off, ~Held(i)'
               PROVE  \E s \in Chunks : Pending(s)' /\ s.off <= i /\ i < s.end
    BY <1>1 DEF CoverageInv
  <2>1. ~Held(i) /\ ~(cur.off <= i /\ i < cur.end)
    BY <1>13
  <2>2. PICK s \in Chunks : Pending(s) /\ s.off <= i /\ i < s.end
    BY <2>1 DEF IInv, CoverageInv
  <2> QED
    BY <1>6, <2>1, <2>2
<1>16. FinInv'
  BY <1>0, <1>1, <1>3, <1>6, <1>7 DEF IInv, FinInv, TypeOK
<1>17. DeliveredFirst' /\ FinMeansComplete'
  BY <1>1 DEF IInv, DeliveredFirst, FinMeansComplete
<1>18. CreditInv'
  BY <1>0, <1>1, <1>3, <1>7 DEF IInv, CreditInv, ShouldUpdateMaxData, TypeOK
<1> QED
  BY <1>8, <1>9, <1>10, <1>11, <1>12, <1>14, <1>15, <1>16, <1>17, <1>18 DEF IInv

\* write, the accepted frame: the checks bound it by credit and final size.
LEMMA WriteStartKeeps ==
    ASSUME IInv, NEW b \in Frames, NEW fin \in BOOLEAN, WriteStart(b, fin)
    PROVE  IInv'
<1> USE OffAssumption, VerAssumption
<1> USE DEF flowVars, creditVars, emitVars, None, IsEmpty, Live
<1>0. /\ b \in Chunks /\ b.off <= b.end /\ b.ver # NoVer /\ MaxOff \in Nat
      /\ b.off \in 0 .. MaxOff /\ b.end \in 0 .. MaxOff
      /\ len \in 0 .. MaxOff /\ off \in 0 .. MaxOff /\ pc = "idle" /\ conn_err = "none"
  BY ChunkFields DEF IInv, TypeOK, WriteStart, Frames
<1>1. /\ UNCHANGED <<data, off, len, error, drain, flowVars, creditVars, conn_err,
                     cur, key, emitVars, out, told>>
      /\ pc' = "pop" /\ bufs' = <<b>> /\ Elems(bufs') = {b}
      /\ fin_off' = IF fin THEN b.end ELSE fin_off
      /\ first' = [i \in Offsets |-> IF first[i] = NoVer /\ b.off <= i /\ i < b.end
                                     THEN b.ver ELSE first[i]]
  BY ElemsSmall DEF WriteStart
<1>2. b.end <= max_data /\ ~FinalSizeErr(b, fin) /\ ~NothingToStore(b, fin)
  BY <1>0 DEF WriteStart, FlowControlErr, IInv, TypeOK
<1>3. ~error
  BY <1>0, <1>2 DEF IInv, Modes, NothingToStore, FinalSizeErr, TypeOK
<1>4. off <= len /\ off <= b.end /\ (fin => len <= b.end)
      /\ (fin_off # -1 => b.end <= fin_off /\ (fin => fin_off = b.end))
  BY <1>0, <1>2, <1>3 DEF IInv, Modes, NothingToStore, FinalSizeErr, TypeOK
<1>5. /\ \A s : Pending(s)' <=> s = b
      /\ \A s : ~Pending(s)
  BY <1>0, <1>1, ElemsSmall DEF Pending, IInv, Modes
<1>6. TypeOK'
  BY <1>0, <1>1 DEF IInv, TypeOK, Chunks
<1>7. ChunksDisjoint' /\ UniqueKeys' /\ ScanInv' /\ Modes'
  BY <1>0, <1>1, <1>3 DEF IInv, ChunksDisjoint, UniqueKeys, ScanInv, Modes
<1>8. PendingInv'
  BY <1>0, <1>1, <1>2, <1>3, <1>4, <1>5 DEF PendingInv
<1>9. VersionInv'
  <2>1. ASSUME NEW c \in data, NEW i \in Offsets, c.off <= i, i < c.end
        PROVE  first'[i] = c.ver /\ first'[i] # NoVer
    BY <1>1, <2>1 DEF IInv, VersionInv
  <2>2. ASSUME Live, NEW i \in Offsets, b.off <= i, i < b.end, off <= i, ~Held(i)
        PROVE  first'[i] = b.ver /\ first'[i] # NoVer
    BY <1>0, <1>1, <1>5, <2>2 DEF IInv, CoverageInv
  <2> QED
    BY <1>1, <1>5, <2>1, <2>2 DEF VersionInv, Held
<1>10. CoverageInv'
  BY <1>0, <1>1, <1>5 DEF IInv, CoverageInv, Held
<1>11. FinInv'
  BY <1>0, <1>1, <1>4, <1>5 DEF IInv, FinInv
<1>12. DeliveredFirst'
  BY <1>1 DEF IInv, DeliveredFirst
<1>13. FinMeansComplete'
  BY <1>1, <1>4 DEF IInv, FinMeansComplete
<1>14. CreditInv'
  BY <1>0, <1>1 DEF IInv, CreditInv, ShouldUpdateMaxData
<1> QED
  BY <1>6, <1>7, <1>8, <1>9, <1>10, <1>11, <1>12, <1>13, <1>14 DEF IInv

\* write, the early returns: what is ignored was stored or read before.
LEMMA WriteIgnoredKeeps ==
    ASSUME IInv, NEW b \in Frames, NEW fin \in BOOLEAN, WriteIgnored(b, fin)
    PROVE  IInv'
<1> USE OffAssumption, VerAssumption
<1> USE DEF flowVars, creditVars, writeVars, emitVars, None, IsEmpty, Live
<1>0. /\ b.off <= b.end /\ MaxOff \in Nat
      /\ b.off \in 0 .. MaxOff /\ b.end \in 0 .. MaxOff
      /\ len \in 0 .. MaxOff /\ off \in 0 .. MaxOff /\ pc = "idle" /\ conn_err = "none"
  BY ChunkFields DEF IInv, TypeOK, WriteIgnored, Frames
<1>1. /\ UNCHANGED <<data, off, len, error, drain, flowVars, creditVars, conn_err,
                     pc, writeVars, emitVars, first, out, told>>
      /\ fin_off' = IF fin THEN b.end ELSE fin_off
  BY DEF WriteIgnored
<1>2. ~FinalSizeErr(b, fin) /\ NothingToStore(b, fin)
  BY DEF WriteIgnored
<1>3. \A s : ~Pending(s)
  BY <1>0, ElemsSmall DEF Pending, IInv, Modes
<1>4. fin_off # -1 => fin_off' = fin_off
  BY <1>0, <1>1, <1>2 DEF FinalSizeErr
<1>5. fin_off = -1 /\ fin => fin_off' = len /\ off = len
  BY <1>0, <1>1, <1>2 DEF FinalSizeErr, NothingToStore, IInv, Modes
<1>6. \A s : ~Pending(s)'
  BY <1>1, <1>3 DEF Pending
<1>7. TypeOK'
  BY <1>0, <1>1 DEF IInv, TypeOK
<1>8. ChunksDisjoint' /\ UniqueKeys' /\ ScanInv' /\ DeliveredFirst' /\ VersionInv'
      /\ CoverageInv' /\ PendingInv'
  BY <1>0, <1>1, <1>3, <1>6 DEF IInv, ChunksDisjoint, UniqueKeys, ScanInv, DeliveredFirst,
     VersionInv, CoverageInv, Held, PendingInv
<1>9. Modes'
  BY <1>0, <1>1, <1>4, <1>5 DEF IInv, Modes
<1>10. FinInv'
  BY <1>0, <1>1, <1>3, <1>4, <1>5 DEF IInv, FinInv
<1>11. FinMeansComplete'
  BY <1>1, <1>4 DEF IInv, FinMeansComplete
<1>12. CreditInv'
  BY <1>0, <1>1, <1>4 DEF IInv, CreditInv, ShouldUpdateMaxData
<1> QED
  BY <1>7, <1>8, <1>9, <1>10, <1>11, <1>12 DEF IInv

(* Steps that leave the buffer itself alone: rejected frames, the ends of  *)
(* write's loops, EmitStart and the MAX_STREAM_DATA steps.                 *)
LEMMA ControlKeeps ==
    ASSUME IInv,
           \/ \E b \in Frames, fin \in BOOLEAN : WriteRejected(b, fin)
           \/ \E fs \in 0 .. MaxOff : ResetRejected(fs)
           \/ WriteDone \/ ScanEnd \/ \E c \in 0 .. MaxOff + 1 : EmitStart(c)
    PROVE  IInv'
<1> USE OffAssumption, VerAssumption
<1> USE DEF flowVars, creditVars, writeVars, emitVars, None, IsEmpty, Live
<1>1. UNCHANGED <<data, off, len, fin_off, error, drain, flowVars, creditVars, first,
                  out, told, bufs>>
  BY DEF WriteRejected, ResetRejected, WriteDone, ScanEnd, EmitStart
<1>2. \A s : Pending(s)' <=> Pending(s)
  BY ElemsSmall DEF Pending, WriteRejected, ResetRejected, WriteDone, ScanEnd, EmitStart
<1>3. TypeOK'
  <2> USE DEF TypeOK
  <2>0. TypeOK
    BY DEF IInv
  <2>1. /\ conn_err' \in {"none", "FlowControl", "FinalSize"}
        /\ pc' \in {"idle", "pop", "scan", "insert", "emit"}
        /\ cur' = cur \/ cur' = NoBuf
        /\ key' \in Nat /\ cap' \in Nat /\ nread' \in Nat
    <3>1. CASE \E b \in Frames, fin \in BOOLEAN : WriteRejected(b, fin)
      BY <2>0, <3>1 DEF WriteRejected
    <3>2. CASE \E fs \in 0 .. MaxOff : ResetRejected(fs)
      BY <2>0, <3>2 DEF ResetRejected
    <3>3. CASE WriteDone \/ ScanEnd
      BY <2>0, <3>3 DEF WriteDone, ScanEnd
    <3>4. CASE \E c \in 0 .. MaxOff + 1 : EmitStart(c)
      BY <2>0, <3>4 DEF EmitStart
    <3> QED
      BY <3>1, <3>2, <3>3, <3>4
  <2>2. NoBuf \in Chunks
    BY DEF NoBuf, Range, Chunks
  <2> QED
    BY <1>1, <2>1, <2>2 DEF IInv, TypeOK
<1>4. Modes'
  BY DEF IInv, Modes, WriteRejected, ResetRejected, WriteDone, ScanEnd, EmitStart, Ready
<1>5. ScanInv'
  BY <1>1 DEF IInv, ScanInv, Apart, WriteRejected, ResetRejected, WriteDone, ScanEnd, EmitStart
<1>6. PendingInv'
  <2>1. pc' \in {"scan", "insert"} => pc \in {"scan", "insert"} /\ cur' = cur
    BY DEF WriteRejected, ResetRejected, WriteDone, ScanEnd, EmitStart
  <2> QED
    BY <1>1, <1>2, <2>1 DEF IInv, PendingInv
<1>7. VersionInv' /\ CoverageInv' /\ FinInv'
  BY <1>1, <1>2 DEF IInv, VersionInv, CoverageInv, FinInv, Held
<1>8. ChunksDisjoint' /\ UniqueKeys' /\ DeliveredFirst' /\ FinMeansComplete'
  BY <1>1 DEF IInv, ChunksDisjoint, UniqueKeys, DeliveredFirst, FinMeansComplete
<1>9. CreditInv'
  <2>1. nread' = nread
    BY DEF IInv, Modes, WriteRejected, ResetRejected, WriteDone, ScanEnd, EmitStart
  <2> QED
    BY <1>1, <2>1 DEF IInv, CreditInv, ShouldUpdateMaxData
<1> QED
  BY <1>3, <1>4, <1>5, <1>6, <1>7, <1>8, <1>9 DEF IInv

\* Half a window is at most the window.
LEMMA HalfLeq ==
    ASSUME NEW w \in Nat PROVE w \div 2 \in Nat /\ w \div 2 <= w
  OBVIOUS

\* MAX_STREAM_DATA sent or lost: the limit grows, nothing is stored.
LEMMA CreditStepKeeps ==
    ASSUME IInv,
           \/ \E recent, fits \in BOOLEAN : SendMaxStreamData(recent, fits)
           \/ LostMaxStreamData
    PROVE  IInv' /\ max_data' >= max_data
<1> USE OffAssumption, WindowAssumption
<1> USE DEF flowVars, creditVars, writeVars, emitVars, None, IsEmpty, Live
<1>1. /\ UNCHANGED <<data, off, len, fin_off, error, drain, conn_err, pc, bufs, cur, key,
                     cap, nread, first, out, told, consumed>>
      /\ pc = "idle"
  BY DEF SendMaxStreamData, LostMaxStreamData
<1>2. /\ max_data' >= max_data /\ max_data' \in Nat /\ window' \in Nat
      /\ window' <= MaxWindow /\ max_data' <= consumed + window'
      /\ last_update' \in BOOLEAN /\ almost_full' \in BOOLEAN /\ msd_sent' \in BOOLEAN
  <2>0. /\ max_data \in Nat /\ window \in Nat /\ consumed \in Nat /\ MaxWindow \in Nat
        /\ window <= MaxWindow
        /\ last_update \in BOOLEAN /\ almost_full \in BOOLEAN /\ msd_sent \in BOOLEAN
        /\ almost_full \/ msd_sent => max_data <= consumed + window
    BY DEF IInv, CreditInv, TypeOK
  <2>1. CASE LostMaxStreamData
    BY <2>0, <2>1 DEF LostMaxStreamData
  <2>2. CASE \E recent, fits \in BOOLEAN : SendMaxStreamData(recent, fits)
    <3>1. PICK recent \in BOOLEAN, fits \in BOOLEAN : SendMaxStreamData(recent, fits)
      BY <2>2
    <3>2. window' \in Nat /\ window <= window' /\ window' <= MaxWindow
      BY <2>0, <3>1 DEF SendMaxStreamData, Autotuned
    <3>3. max_data <= consumed + window
      BY <2>0, <3>1 DEF SendMaxStreamData
    <3>4. max_data' = consumed + window' \/ max_data' = max_data
      BY <3>1 DEF SendMaxStreamData
    <3>5. last_update' \in BOOLEAN /\ almost_full' \in BOOLEAN /\ msd_sent' \in BOOLEAN
      BY <2>0, <3>1 DEF SendMaxStreamData
    <3>6. max_data' >= max_data /\ max_data' \in Nat /\ max_data' <= consumed + window'
      BY <2>0, <3>2, <3>3, <3>4
    <3> QED
      BY <3>2, <3>5, <3>6
  <2> QED
    BY <2>1, <2>2
<1>3. CreditInv'
  <2>1. ~almost_full' => max_data' = consumed + window'
    <3>1. CASE LostMaxStreamData
      BY <3>1 DEF LostMaxStreamData
    <3>2. CASE \E recent, fits \in BOOLEAN : SendMaxStreamData(recent, fits)
      BY <3>2, <1>1 DEF SendMaxStreamData
    <3> QED
      BY <3>1, <3>2
  <2> QED
    <3>1. /\ consumed \in Nat /\ nread \in Nat /\ off \in Nat /\ len \in Nat /\ max_data \in Nat
      BY DEF IInv, TypeOK
    <3>2. ASSUME ~almost_full' PROVE ~(max_data' - consumed < window' \div 2)
      <4>1. max_data' = consumed + window'
        BY <2>1, <3>2
      <4>2. window' \in Nat
        BY <1>2
      <4>3. window' \div 2 <= window' /\ window' \div 2 \in Nat
        BY <4>2, HalfLeq, Zenon
      <4> QED
        <5> DEFINE w == window'
                   h == window' \div 2
        <5>1. w \in Nat /\ h \in Nat /\ h <= w /\ max_data' = consumed + w /\ consumed \in Nat
          BY <3>1, <4>1, <4>2, <4>3
        <5> HIDE DEF w, h
        <5>2. ~(max_data' - consumed < h)
          BY <5>1
        <5> QED
          BY <5>2 DEF h
    <3>3. /\ consumed + nread <= off /\ consumed + nread <= len /\ len <= max_data'
      BY <1>2, <3>1 DEF IInv, CreditInv
    <3> QED
      BY <1>1, <1>2, <3>2, <3>3 DEF CreditInv, ShouldUpdateMaxData
<1>4. TypeOK'
  BY <1>1, <1>2 DEF IInv, TypeOK
<1>5. \A s : ~Pending(s) /\ ~Pending(s)'
  BY <1>1, ElemsSmall DEF Pending, IInv, Modes
<1>6. Modes' /\ ScanInv' /\ PendingInv' /\ ChunksDisjoint' /\ UniqueKeys'
  BY <1>1, <1>5 DEF IInv, Modes, ScanInv, PendingInv, ChunksDisjoint, UniqueKeys
<1>7. VersionInv' /\ CoverageInv' /\ FinInv' /\ DeliveredFirst' /\ FinMeansComplete'
  BY <1>1, <1>5 DEF IInv, VersionInv, CoverageInv, FinInv, Held, DeliveredFirst, FinMeansComplete
<1> QED
  BY <1>2, <1>3, <1>4, <1>6, <1>7 DEF IInv

\* emit, one chunk: it is the first one and starts where the last read ended.
LEMMA EmitChunkKeeps ==
    ASSUME IInv, NEW b \in data, EmitChunk(b)
    PROVE  IInv'
<1> USE OffAssumption, VerAssumption
<1> USE DEF flowVars, creditVars, writeVars, emitVars, None, IsEmpty, Live
<1> DEFINE n == IF b.end - b.off < cap THEN b.end - b.off ELSE cap
           t == TailFrom(b, b.off + n)
<1>0. /\ b \in Chunks /\ data \subseteq Chunks /\ MaxOff \in Nat /\ pc = "emit" /\ ~error /\ ~drain
      /\ b.off \in 0 .. MaxOff /\ b.end \in 0 .. MaxOff /\ b.off <= b.end /\ b.end <= len
      /\ len \in 0 .. MaxOff /\ off = b.off /\ cap \in Nat /\ cap > 0 /\ nread \in Nat
      /\ consumed \in Nat /\ \A c \in data : b.end <= c.end
  <2>1. PICK d \in data : IsFirst(d) /\ d.off = off
    BY DEF EmitChunk, Ready
  <2>2. d.end \in 0 .. MaxOff /\ b.end \in 0 .. MaxOff /\ b \in Chunks
    BY ChunkFields DEF IInv, TypeOK
  <2>3. d = b
    BY <2>1, <2>2 DEF IInv, UniqueKeys, EmitChunk, IsFirst
  <2> QED
    BY <2>1, <2>2, <2>3, ChunkFields DEF IInv, TypeOK, Modes, EmitChunk, ChunksDisjoint, IsFirst
<1>1. /\ UNCHANGED <<len, fin_off, error, drain, flowVars, creditVars, conn_err,
                     pc, writeVars, first, told>>
      /\ off' = off + n /\ nread' = nread + n /\ cap' = cap - n
      /\ data' = IF n < b.end - b.off THEN (data \ {b}) \cup {t} ELSE data \ {b}
      /\ out' = [i \in Offsets |-> IF off <= i /\ i < off + n THEN b.ver ELSE out[i]]
  BY DEF EmitChunk
<1>2. n \in Nat /\ n <= b.end - b.off /\ n <= cap /\ off + n \in 0 .. MaxOff /\ off + n <= b.end
  BY <1>0
<1> HIDE DEF n
<1>3. t \in Chunks /\ t.off = off + n /\ t.end = b.end /\ t.ver = b.ver
  BY <1>0, <1>2, SplitChunk
<1> HIDE DEF t
<1>4. \A c \in data :
        /\ c \in Chunks /\ c.off \in 0 .. MaxOff /\ c.end \in 0 .. MaxOff
        /\ off <= c.off /\ c.off <= c.end /\ c.end <= len
        /\ c # b => b.end <= c.off /\ c.end # b.end
  BY <1>0, ChunkFields DEF IInv, ChunksDisjoint, UniqueKeys
<1>5. \A s : ~Pending(s) /\ ~Pending(s)'
  BY <1>0, <1>1, ElemsSmall DEF Pending, IInv, Modes
<1>6. TypeOK'
  <2>1. out' \in [Offsets -> Vers \cup {NoVer}]
    BY <1>0, <1>1, ChunkFields DEF IInv, TypeOK
  <2>2. data' \subseteq Chunks
    BY <1>0, <1>1, <1>3
  <2>3. off' \in 0 .. MaxOff /\ nread' \in Nat /\ cap' \in Nat
    BY <1>0, <1>1, <1>2
  <2> QED
    BY <1>1, <2>1, <2>2, <2>3 DEF IInv, TypeOK
<1>7. ChunksDisjoint'
  <2>1. \A c \in data' : c = t \/ (c \in data /\ c # b)
    BY <1>1
  <2>2. \A c \in data' : off' <= c.off /\ c.off <= c.end /\ c.end <= len'
    <3> TAKE c \in data'
    <3>0. off' = off + n /\ len' = len
      BY <1>1
    <3>1. CASE c = t
      BY <1>0, <1>2, <1>3, <3>0, <3>1
    <3>2. CASE c \in data /\ c # b
      <4>1. /\ c.off \in 0 .. MaxOff /\ c.end \in 0 .. MaxOff /\ b.end <= c.off
            /\ c.off <= c.end /\ c.end <= len
        BY <1>0, <1>4, <3>2
      <4> QED
        BY <1>0, <1>2, <3>0, <4>1
    <3> QED
      BY <2>1, <3>1, <3>2
  <2>3. \A c, d \in data' : c # d => c.end <= d.off \/ d.end <= c.off
    <3> SUFFICES ASSUME NEW c \in data', NEW d \in data', c # d
                 PROVE  c.end <= d.off \/ d.end <= c.off
      OBVIOUS
    <3>1. CASE c \in data /\ d \in data
      BY <3>1 DEF IInv, ChunksDisjoint
    <3>2. CASE c = t /\ d \in data /\ d # b
      <4>1. b.end <= d.off
        BY <1>0, <1>4, <3>2
      <4> QED
        BY <1>3, <3>2, <4>1
    <3>3. CASE d = t /\ c \in data /\ c # b
      <4>1. b.end <= c.off
        BY <1>0, <1>4, <3>3
      <4> QED
        BY <1>3, <3>3, <4>1
    <3> QED
      BY <2>1, <3>1, <3>2, <3>3
  <2> QED
    BY <2>2, <2>3 DEF ChunksDisjoint
<1>8. UniqueKeys'
  BY <1>0, <1>1, <1>3, <1>4 DEF IInv, UniqueKeys
<1>9. Modes' /\ ScanInv' /\ PendingInv'
  BY <1>0, <1>1, <1>2, <1>5 DEF IInv, Modes, ScanInv, PendingInv
<1>10. VersionInv'
  <2>1. ASSUME NEW c \in data', NEW i \in Offsets, c.off <= i, i < c.end
        PROVE  first[i] = c.ver /\ first[i] # NoVer
    <3>1. CASE c \in data
      BY <2>1, <3>1 DEF IInv, VersionInv
    <3>2. CASE c = t
      <4>1. b.off <= i /\ i < b.end
        BY <1>0, <1>2, <1>3, <2>1, <3>2 DEF Offsets
      <4> QED
        BY <1>3, <3>2, <4>1 DEF IInv, VersionInv
    <3> QED
      BY <1>1, <3>1, <3>2
  <2> QED
    BY <1>1, <1>5, <2>1 DEF VersionInv
<1>11. CoverageInv'
  <2> SUFFICES ASSUME NEW i \in Offsets, first[i] # NoVer, i >= off + n PROVE Held(i)'
    BY <1>1 DEF CoverageInv
  <2>1. i >= off
    BY <1>0, <1>2 DEF Offsets
  <2>2. PICK c \in data : c.off <= i /\ i < c.end
    BY <1>0, <1>5, <2>1 DEF IInv, CoverageInv, Held
  <2>3. CASE c = b
    <3>1. b.off <= i /\ i < b.end /\ b.off + n <= i
      BY <1>0, <1>2, <2>2, <2>3 DEF Offsets
    <3>2. n < b.end - b.off
      BY <1>0, <1>2, <3>1 DEF Offsets
    <3>3. t \in data'
      BY <1>1, <3>2
    <3>4. t.off <= i /\ i < t.end
      BY <1>3, <3>1
    <3> QED
      BY <3>3, <3>4 DEF Held
  <2>4. CASE c # b
    BY <1>1, <2>2, <2>4 DEF Held
  <2> QED
    BY <2>3, <2>4
<1>12. FinInv'
  BY <1>1, <1>5 DEF IInv, FinInv
<1>13. DeliveredFirst'
  <2> SUFFICES ASSUME NEW i \in Offsets
               PROVE  /\ out'[i] # NoVer => out'[i] = first[i]
                      /\ i < off + n => out'[i] # NoVer
    BY <1>0, <1>1 DEF DeliveredFirst
  <2>1. CASE off <= i /\ i < off + n
    <3>1. b.off <= i /\ i < b.end
      BY <1>0, <1>2, <2>1 DEF Offsets
    <3> QED
      BY <1>1, <2>1, <3>1 DEF IInv, VersionInv
  <2>2. CASE ~(off <= i /\ i < off + n)
    <3>1. out'[i] = out[i]
      BY <1>1, <2>2
    <3>2. i < off + n => i < off
      BY <1>0, <1>2, <2>2 DEF Offsets
    <3> QED
      BY <1>0, <3>1, <3>2 DEF IInv, DeliveredFirst
  <2> QED
    BY <2>1, <2>2
<1>14. FinMeansComplete'
  <2>1. \A i \in Offsets : out[i] # NoVer => out'[i] # NoVer
    <3>1. \A i \in Offsets : i < off' => out'[i] # NoVer
      BY <1>0, <1>1, <1>13 DEF DeliveredFirst
    <3>2. \A i \in Offsets : ~(i < off') => out'[i] = out[i]
      BY <1>0, <1>1, <1>2 DEF Offsets
    <3> QED
      BY <3>1, <3>2
  <2> QED
    BY <1>1, <2>1 DEF IInv, FinMeansComplete
<1>15. CreditInv'
  BY <1>0, <1>1, <1>2 DEF IInv, CreditInv, ShouldUpdateMaxData
<1> QED
  BY <1>6, <1>7, <1>8, <1>9, <1>10, <1>11, <1>12, <1>13, <1>14, <1>15 DEF IInv

\* emit, the return: almost_full is evaluated on the bytes just counted.
LEMMA EmitEndKeeps ==
    ASSUME IInv, EmitEnd
    PROVE  IInv'
<1> USE OffAssumption
<1> USE DEF flowVars, creditVars, writeVars, emitVars, None, IsEmpty, Live
<1>1. /\ UNCHANGED <<data, off, len, fin_off, error, drain, max_data, window,
                     last_update, msd_sent, conn_err, writeVars, first, out>>
      /\ pc = "emit" /\ pc' = "idle" /\ cap' = 0 /\ nread' = 0
      /\ consumed' = consumed + nread
      /\ almost_full' = (almost_full \/ AlmostFull(consumed'))
      /\ told' = IF IsFin THEN told \cup {"fin"} ELSE told
  BY DEF EmitEnd
<1>2. \A s : ~Pending(s) /\ ~Pending(s)'
  BY <1>1, ElemsSmall DEF Pending, IInv, Modes
<1>3. almost_full' \in BOOLEAN
  BY <1>1 DEF IInv, TypeOK, AlmostFull, ShouldUpdateMaxData
<1>4. TypeOK'
  BY <1>1, <1>3 DEF IInv, TypeOK
<1>5. Modes' /\ ScanInv' /\ PendingInv' /\ ChunksDisjoint' /\ UniqueKeys'
  BY <1>1, <1>2 DEF IInv, Modes, ScanInv, PendingInv, ChunksDisjoint, UniqueKeys
<1>6. VersionInv' /\ CoverageInv' /\ FinInv' /\ DeliveredFirst'
  BY <1>1, <1>2 DEF IInv, VersionInv, CoverageInv, FinInv, Held, DeliveredFirst
<1>7. FinMeansComplete'
  <2>1. CASE IsFin
    <3>1. fin_off = off /\ fin_off # -1 /\ ~drain /\ ~error
      BY <1>1, <2>1 DEF IsFin, IInv, TypeOK, Modes
    <3> QED
      BY <1>1, <3>1 DEF IInv, DeliveredFirst, FinMeansComplete
  <2>2. CASE ~IsFin
    BY <1>1, <2>2 DEF IInv, FinMeansComplete
  <2> QED
    BY <2>1, <2>2
<1>8. CreditInv'
  <2>1. /\ consumed \in Nat /\ nread \in Nat /\ max_data \in Nat /\ window \in Nat
        /\ window \div 2 <= window /\ window \div 2 \in Nat /\ off \in Nat /\ len \in Nat
    BY DEF IInv, TypeOK
  <2>2. consumed' + nread' = consumed + nread
    BY <1>1, <2>1
  <2>3. almost_full' \/ msd_sent' => max_data' <= consumed' + window'
    <3>1. CASE AlmostFull(consumed')
      BY <1>1, <2>1, <3>1 DEF AlmostFull, ShouldUpdateMaxData
    <3>2. CASE almost_full \/ msd_sent
      BY <1>1, <2>1, <3>2 DEF IInv, CreditInv
    <3> QED
      BY <1>1, <3>1, <3>2
  <2>4. fin_off' = -1 /\ (max_data' - consumed' < window' \div 2) => almost_full'
    BY <1>1 DEF AlmostFull, ShouldUpdateMaxData
  <2> QED
    BY <1>1, <2>2, <2>3, <2>4 DEF IInv, CreditInv, ShouldUpdateMaxData
<1> QED
  BY <1>4, <1>5, <1>6, <1>7, <1>8 DEF IInv

\* emit after a reset: the error is reported and the stream stays drained.
LEMMA EmitResetKeeps ==
    ASSUME IInv, EmitReset
    PROVE  IInv'
<1> USE DEF flowVars, creditVars, writeVars, emitVars, None, IsEmpty, Live
<1>1. /\ UNCHANGED <<off, len, fin_off, error, drain, flowVars, creditVars, conn_err,
                     pc, writeVars, emitVars, first, out>>
      /\ data' = {} /\ told' = told \cup {"reset"} /\ pc = "idle" /\ error
  BY DEF EmitReset
<1>2. \A s : ~Pending(s) /\ ~Pending(s)'
  BY <1>1, ElemsSmall DEF Pending, IInv, Modes
<1>3. TypeOK'
  BY <1>1 DEF IInv, TypeOK
<1>4. Modes' /\ ScanInv' /\ PendingInv' /\ ChunksDisjoint' /\ UniqueKeys'
  BY <1>1, <1>2 DEF IInv, Modes, ScanInv, PendingInv, ChunksDisjoint, UniqueKeys
<1>5. VersionInv' /\ CoverageInv' /\ FinInv' /\ DeliveredFirst' /\ FinMeansComplete'
  BY <1>1, <1>2 DEF IInv, VersionInv, CoverageInv, FinInv, DeliveredFirst, FinMeansComplete
<1>6. CreditInv'
  BY <1>1 DEF IInv, CreditInv, ShouldUpdateMaxData
<1> QED
  BY <1>3, <1>4, <1>5, <1>6 DEF IInv

\* shutdown: the buffered chunks are dropped and count as read.
LEMMA ShutdownKeeps ==
    ASSUME IInv, Shutdown
    PROVE  IInv'
<1> USE OffAssumption
<1> USE DEF flowVars, creditVars, writeVars, emitVars, None, IsEmpty, Live
<1>1. /\ UNCHANGED <<len, fin_off, error, flowVars, creditVars, conn_err, pc,
                     writeVars, emitVars, first, out, told>>
      /\ data' = {} /\ off' = len /\ drain' = TRUE /\ pc = "idle"
  BY DEF Shutdown
<1>2. \A s : ~Pending(s) /\ ~Pending(s)'
  BY <1>1, ElemsSmall DEF Pending, IInv, Modes
<1>3. TypeOK'
  BY <1>1 DEF IInv, TypeOK
<1>4. Modes'
  <2>1. error /\ conn_err = "none" => fin_off = len
    BY <1>2 DEF IInv, Modes, FinInv, TypeOK
  <2>2. len <= len
    BY DEF IInv, TypeOK
  <2> QED
    BY <1>1, <2>1, <2>2 DEF IInv, Modes
<1>5. ScanInv' /\ PendingInv' /\ ChunksDisjoint' /\ UniqueKeys'
  BY <1>1, <1>2 DEF ScanInv, PendingInv, ChunksDisjoint, UniqueKeys
<1>6. VersionInv' /\ CoverageInv' /\ FinInv' /\ DeliveredFirst' /\ FinMeansComplete'
  BY <1>1, <1>2 DEF IInv, VersionInv, CoverageInv, FinInv, DeliveredFirst, FinMeansComplete
<1>7. CreditInv'
  BY <1>1 DEF IInv, CreditInv, ShouldUpdateMaxData
<1> QED
  BY <1>3, <1>4, <1>5, <1>6, <1>7 DEF IInv

\* reset: the final size is agreed on and the buffered chunks are dropped.
LEMMA ResetKeeps ==
    ASSUME IInv, NEW fs \in 0 .. MaxOff, Reset(fs)
    PROVE  IInv'
<1> USE OffAssumption
<1> USE DEF flowVars, creditVars, emitVars, None, IsEmpty, Live
<1> DEFINE b == Range(fs, fs, NoVer)
<1>1. /\ UNCHANGED <<len, drain, flowVars, creditVars, cur, key, emitVars, first, out, told>>
      /\ error' = TRUE /\ off' = fs /\ data' = {} /\ pc = "idle" /\ conn_err = "none"
      /\ ~ResetErr(fs)
  BY DEF Reset
<1>2. b \in Chunks /\ b.off = fs /\ b.end = fs
  BY DEF Range, Chunks
<1>3. /\ bufs = <<>> /\ len \in 0 .. MaxOff /\ off \in 0 .. MaxOff /\ max_data \in Nat
      /\ fin_off \in 0 .. MaxOff \cup {-1} /\ consumed \in Nat /\ nread \in Nat
      /\ len <= fs /\ (fin_off # -1 => fin_off = fs)
  BY <1>1 DEF IInv, Modes, TypeOK, ResetErr
<1>4. \/ /\ conn_err' = "FlowControl" /\ UNCHANGED <<fin_off, bufs, pc>>
      \/ /\ fin_off # -1 /\ UNCHANGED <<conn_err, fin_off, bufs, pc>>
      \/ /\ fin_off' = fs /\ fin_off = -1 /\ bufs' = <<b>> /\ pc' = "pop"
         /\ conn_err' = conn_err /\ b.end <= max_data
  BY <1>2, <1>3 DEF Reset, FlowControlErr
<1> HIDE DEF b
<1>5. \A s : ~Pending(s)
  BY <1>1, ElemsSmall DEF Pending, IInv, Modes
<1>6. \/ /\ fin_off' = fin_off /\ \A s : ~Pending(s)'
         /\ conn_err' # "none" \/ fin_off # -1
      \/ /\ fin_off' = fs /\ pc' = "pop" /\ conn_err' = "none" /\ fin_off = -1
         /\ b.end <= max_data /\ \A s : Pending(s)' <=> s = b
  BY <1>1, <1>3, <1>4, ElemsSmall DEF Pending
<1>7. TypeOK'
  <2>1. /\ bufs' \in Seq(Chunks) /\ pc' \in {"idle", "pop"} /\ fin_off' \in 0 .. MaxOff \cup {-1}
        /\ conn_err' \in {"none", "FlowControl"}
    <3>1. <<b>> \in Seq(Chunks) /\ <<>> \in Seq(Chunks)
      BY <1>2
    <3> QED
      BY <1>1, <1>3, <1>4, <3>1
  <2> QED
    BY <1>1, <2>1 DEF IInv, TypeOK
<1>8. Modes'
  BY <1>1, <1>3, <1>4 DEF IInv, Modes
<1>9. ChunksDisjoint' /\ UniqueKeys' /\ ScanInv' /\ VersionInv' /\ CoverageInv'
  BY <1>1, <1>4 DEF ChunksDisjoint, UniqueKeys, ScanInv, VersionInv, CoverageInv
<1>10. PendingInv'
  BY <1>1, <1>2, <1>3, <1>4, <1>6 DEF PendingInv
<1>11. FinInv'
  BY <1>1, <1>2, <1>3, <1>5, <1>6 DEF IInv, FinInv
<1>12. DeliveredFirst' /\ FinMeansComplete'
  BY <1>1, <1>3, <1>4 DEF IInv, DeliveredFirst, FinMeansComplete
<1>13. CreditInv'
  <2>1. consumed + nread <= fs /\ fin_off' = -1 => fin_off = -1
    BY <1>3, <1>6
  <2>2. consumed + nread <= fs
    BY <1>3 DEF IInv, CreditInv
  <2> QED
    BY <1>1, <2>1, <2>2 DEF IInv, CreditInv, ShouldUpdateMaxData
<1> QED
  BY <1>7, <1>8, <1>9, <1>10, <1>11, <1>12, <1>13 DEF IInv

----------------------------------------------------------------------------
\* A new buffer satisfies the invariant.
LEMMA InitIInv == Init => IInv
<1> SUFFICES ASSUME Init PROVE IInv
  OBVIOUS
<1> USE OffAssumption, WindowAssumption
<1> USE DEF None, Live
<1>1. /\ data = {} /\ off = 0 /\ len = 0 /\ fin_off = -1 /\ ~error /\ ~drain
      /\ consumed = 0 /\ nread = 0 /\ cap = 0 /\ pc = "idle" /\ bufs = <<>> /\ told = {}
      /\ conn_err = "none" /\ max_data = InitMaxData /\ ~almost_full /\ ~msd_sent
      /\ first = [i \in Offsets |-> NoVer] /\ out = [i \in Offsets |-> NoVer]
  BY DEF Init
<1>2. window \in Nat /\ window <= MaxWindow /\ window <= InitMaxData
  BY DEF Init
<1>3. \A s : ~Pending(s)
  BY <1>1, ElemsSmall DEF Pending
<1>4. TypeOK
  <2>1. NoBuf \in Chunks
    BY DEF NoBuf, Range, Chunks
  <2>2. /\ error \in BOOLEAN /\ drain \in BOOLEAN /\ last_update \in BOOLEAN
        /\ almost_full \in BOOLEAN /\ msd_sent \in BOOLEAN
    BY DEF Init
  <2>3. cur = NoBuf /\ key = 0 /\ bufs \in Seq(Chunks) /\ data \subseteq Chunks
    BY DEF Init
  <2>4. first \in [Offsets -> Vers \cup {NoVer}] /\ out \in [Offsets -> Vers \cup {NoVer}]
    BY <1>1
  <2> QED
    BY <1>1, <1>2, <2>1, <2>2, <2>3, <2>4 DEF TypeOK
<1>5. CreditInv
  <2>1. window \div 2 <= window /\ window \div 2 \in Nat
    BY <1>2, HalfLeq, Zenon
  <2>2. ~(max_data - consumed < window \div 2)
    <3> DEFINE h == window \div 2
    <3>1. h \in Nat /\ h <= window
      BY <2>1
    <3> HIDE DEF h
    <3>2. ~(max_data - consumed < h)
      BY <1>1, <1>2, <3>1
    <3> QED
      BY <3>2 DEF h
  <2> QED
    BY <1>1, <1>2, <2>2 DEF CreditInv, ShouldUpdateMaxData
<1>6. ChunksDisjoint /\ UniqueKeys /\ Modes /\ PendingInv /\ ScanInv
  BY <1>1, <1>3 DEF ChunksDisjoint, UniqueKeys, Modes, PendingInv, ScanInv
<1>7. VersionInv /\ CoverageInv /\ DeliveredFirst /\ FinMeansComplete /\ FinInv
  BY <1>1, <1>3 DEF VersionInv, CoverageInv, DeliveredFirst, FinMeansComplete, FinInv, Offsets
<1> QED
  BY <1>4, <1>5, <1>6, <1>7 DEF IInv

\* Every step of the receive buffer keeps the invariant.
LEMMA NextIInv == IInv /\ [Next]_vars => IInv'
<1> SUFFICES ASSUME IInv, [Next]_vars PROVE IInv'
  OBVIOUS
<1>1. CASE WriteStep
  <2>1. CASE \E b \in Frames, fin \in BOOLEAN : WriteRejected(b, fin)
    BY <2>1, ControlKeeps
  <2>2. CASE \E b \in Frames, fin \in BOOLEAN : WriteIgnored(b, fin)
    BY <2>2, WriteIgnoredKeeps
  <2>3. CASE \E b \in Frames, fin \in BOOLEAN : WriteStart(b, fin)
    BY <2>3, WriteStartKeeps
  <2>4. CASE WritePop
    BY <2>4, WritePopKeeps
  <2>5. CASE WriteDone \/ ScanEnd
    BY <2>5, ControlKeeps
  <2>6. CASE \E b \in data : ScanChunk(b)
    BY <2>6, ScanChunkKeeps
  <2>7. CASE WriteInsert
    BY <2>7, WriteInsertKeeps
  <2> QED
    BY <1>1, <2>1, <2>2, <2>3, <2>4, <2>5, <2>6, <2>7 DEF WriteStep
<1>2. CASE EmitStep
  <2>1. CASE EmitReset
    BY <2>1, EmitResetKeeps
  <2>2. CASE \E c \in 0 .. MaxOff + 1 : EmitStart(c)
    BY <2>2, ControlKeeps
  <2>3. CASE \E b \in data : EmitChunk(b)
    BY <2>3, EmitChunkKeeps
  <2>4. CASE EmitEnd
    BY <2>4, EmitEndKeeps
  <2> QED
    BY <1>2, <2>1, <2>2, <2>3, <2>4 DEF EmitStep
<1>3. CASE ControlStep
  <2>1. CASE \E fs \in 0 .. MaxOff : ResetRejected(fs)
    BY <2>1, ControlKeeps
  <2>2. CASE \E fs \in 0 .. MaxOff : Reset(fs)
    BY <2>2, ResetKeeps
  <2>3. CASE Shutdown
    BY <2>3, ShutdownKeeps
  <2>4. CASE \/ \E recent, fits \in BOOLEAN : SendMaxStreamData(recent, fits)
             \/ LostMaxStreamData
    BY <2>4, CreditStepKeeps
  <2> QED
    BY <1>3, <2>1, <2>2, <2>3, <2>4 DEF ControlStep
<1>4. CASE UNCHANGED vars
  <2> USE DEF vars, flowVars, creditVars, writeVars, emitVars
  <2>1. \A s : Pending(s)' <=> Pending(s)
    BY <1>4 DEF Pending
  <2>2. TypeOK' /\ ChunksDisjoint' /\ UniqueKeys' /\ Modes' /\ PendingInv' /\ ScanInv'
    BY <1>4, <2>1 DEF IInv, TypeOK, ChunksDisjoint, UniqueKeys, Modes, PendingInv, ScanInv,
       Apart, Live
  <2>3. VersionInv' /\ CoverageInv' /\ DeliveredFirst' /\ FinMeansComplete' /\ FinInv'
        /\ CreditInv'
    BY <1>4, <2>1 DEF IInv, VersionInv, CoverageInv, DeliveredFirst, FinMeansComplete, FinInv,
       CreditInv, ShouldUpdateMaxData, Held, Live
  <2> QED
    BY <2>2, <2>3 DEF IInv
<1> QED
  BY <1>1, <1>2, <1>3, <1>4 DEF Next

(* The invariant of the receive buffer, for every payload alphabet, offset *)
(* range and window configuration: it holds in every reachable state.      *)
THEOREM Inductive == Spec => []IInv
<1>1. Init => IInv
  BY InitIInv
<1>2. IInv /\ [Next]_vars => IInv'
  BY NextIInv
<1> QED
  BY <1>1, <1>2, PTL DEF Spec

(* RecvBuf::write's overlap handling, for any sequence of frames, reads,   *)
(* resets and shutdowns: every variable keeps its type, the stored chunks  *)
(* never overlap each other and stay between the read offset and len.      *)
THEOREM BufferSafe == Spec => []TypeOK /\ []ChunksDisjoint
<1>1. IInv => TypeOK /\ ChunksDisjoint
  BY DEF IInv
<1> QED
  BY <1>1, Inductive, PTL

(* No received byte is dropped by write's splitting, the reader can always *)
(* make progress to a byte that has arrived, and what emit hands out is    *)
(* what arrived first, in order; fin is reported for a complete stream.    *)
THEOREM DeliverySafe ==
    Spec => []NothingLost /\ []NeverStuck /\ []DeliveredFirst /\ []FinMeansComplete
<1>1. IInv => NothingLost
  <2> SUFFICES ASSUME IInv, pc = "idle", Live, NEW i \in Offsets, first[i] # NoVer, i >= off
               PROVE  Held(i)
    BY DEF NothingLost, Idle
  <2>1. \A s : ~Pending(s)
    BY ElemsSmall DEF IInv, Modes, Pending
  <2> QED
    BY <2>1 DEF IInv, CoverageInv
<1>2. IInv => NeverStuck
  <2> SUFFICES ASSUME IInv, pc = "idle", Live, off \in Offsets, first[off] # NoVer
               PROVE  Ready
    BY DEF NeverStuck, Idle
  <2>1. off \in Int /\ off >= off
    BY OffAssumption DEF Offsets
  <2>2. PICK c \in data : c.off <= off /\ off < c.end
    BY <1>1, <2>1 DEF NothingLost, Idle, Held
  <2>3. /\ data \subseteq Chunks
        /\ \A d \in data : off <= d.off /\ d.off <= d.end
        /\ \A d \in data : d # c => c.end <= d.off \/ d.end <= c.off
    BY DEF IInv, TypeOK, ChunksDisjoint
  <2>4. \A d \in data : d.off \in 0 .. MaxOff /\ d.end \in 0 .. MaxOff
    BY <2>3, ChunkFields
  <2>5. CASE \E d \in data : d.end = off
    <3>1. PICK d \in data : d.end = off
      BY <2>5
    <3>2. d.off = off /\ \A e \in data : d.end <= e.end
      BY <2>1, <2>3, <2>4, <3>1, OffAssumption
    <3> QED
      BY <3>2 DEF Ready, IsFirst
  <2>6. CASE \A d \in data : d.end # off
    <3>1. c.off = off
      BY <2>1, <2>2, <2>3, <2>4, OffAssumption
    <3>2. ASSUME NEW d \in data, d # c PROVE c.end <= d.end
      BY <2>1, <2>3, <2>4, <2>6, <3>1, <3>2, OffAssumption
    <3>3. c.end <= c.end
      BY <2>4
    <3> QED
      BY <3>1, <3>2, <3>3 DEF Ready, IsFirst
  <2> QED
    BY <2>5, <2>6
<1>3. IInv => DeliveredFirst /\ FinMeansComplete
  BY DEF IInv
<1> QED
  BY <1>1, <1>2, <1>3, Inductive, PTL

(* Stream flow control: what is stored and what was read stay within the   *)
(* advertised limit (should_update_max_data cannot underflow), a limit     *)
(* update is queued whenever the window is nearly used up, the size of a   *)
(* finished stream is the length received, and the advertised limit never  *)
(* shrinks.                                                                *)
THEOREM CreditSafe ==
    Spec => []CreditSound /\ []CreditReplenished /\ []FinalSizeIsLen /\ MaxDataMonotone
<1>1. IInv => CreditSound
  <2> SUFFICES ASSUME IInv PROVE consumed <= len /\ len <= max_data
    BY DEF CreditSound
  <2>1. consumed \in Nat /\ nread \in Nat /\ len \in Nat
    BY OffAssumption DEF IInv, TypeOK
  <2> QED
    BY <2>1 DEF IInv, CreditInv
<1>2. IInv => CreditReplenished
  BY DEF IInv, CreditInv, CreditReplenished
<1>3. IInv => FinalSizeIsLen
  <2> SUFFICES ASSUME IInv, pc = "idle", fin_off # None PROVE fin_off = len
    BY DEF FinalSizeIsLen, Idle
  <2>1. \A s : ~Pending(s)
    BY ElemsSmall DEF IInv, Modes, Pending
  <2> QED
    BY <2>1 DEF IInv, FinInv
<1>4. IInv /\ [Next]_vars => [max_data' >= max_data]_vars
  <2> SUFFICES ASSUME IInv, Next PROVE max_data' >= max_data
    OBVIOUS
  <2>1. CASE \/ \E recent, fits \in BOOLEAN : SendMaxStreamData(recent, fits)
             \/ LostMaxStreamData
    BY <2>1, CreditStepKeeps
  <2>2. CASE UNCHANGED max_data
    BY <2>2 DEF IInv, TypeOK
  <2>3. \/ UNCHANGED max_data
        \/ \E recent, fits \in BOOLEAN : SendMaxStreamData(recent, fits)
        \/ LostMaxStreamData
    BY DEF Next, WriteStep, EmitStep, ControlStep, WriteRejected, WriteIgnored, WriteStart,
       WritePop, WriteDone, ScanChunk, ScanEnd, WriteInsert, EmitReset, EmitStart, EmitChunk,
       EmitEnd, ResetRejected, Reset, Shutdown, flowVars
  <2> QED
    BY <2>1, <2>2, <2>3
<1> QED
  BY <1>1, <1>2, <1>3, <1>4, Inductive, PTL DEF Spec, MaxDataMonotone

(* Once the final size of a stream is known, no frame changes it and no    *)
(* data beyond it is ever recorded.                                        *)
THEOREM FinalSizeSafe == Spec => FinalSizeFixed
<1>1. IInv /\ IInv' /\ [Next]_vars =>
          [fin_off # None => fin_off' = fin_off /\ len' <= fin_off]_vars
  <2> SUFFICES ASSUME IInv, IInv', Next, fin_off # None
               PROVE  fin_off' = fin_off /\ len' <= fin_off
    OBVIOUS
  <2>1. fin_off' = fin_off
    <3>1. CASE UNCHANGED fin_off
      BY <3>1
    <3>2. CASE \E b \in Frames, fin \in BOOLEAN : WriteIgnored(b, fin) \/ WriteStart(b, fin)
      BY <3>2 DEF WriteIgnored, WriteStart, FinalSizeErr
    <3>3. CASE \E fs \in 0 .. MaxOff : Reset(fs)
      BY <3>3 DEF Reset
    <3>4. \/ UNCHANGED fin_off
          \/ \E b \in Frames, fin \in BOOLEAN : WriteIgnored(b, fin) \/ WriteStart(b, fin)
          \/ \E fs \in 0 .. MaxOff : Reset(fs)
      BY DEF Next, WriteStep, EmitStep, ControlStep, WriteRejected, WritePop, WriteDone,
         ScanChunk, ScanEnd, WriteInsert, EmitReset, EmitStart, EmitChunk, EmitEnd,
         ResetRejected, Shutdown, SendMaxStreamData, LostMaxStreamData
    <3> QED
      BY <3>1, <3>2, <3>3, <3>4
  <2>2. fin_off' # None => len' <= fin_off'
    BY DEF IInv, FinInv
  <2> QED
    BY <2>1, <2>2
<1> QED
  BY <1>1, Inductive, PTL DEF Spec, FinalSizeFixed
============================================================================
