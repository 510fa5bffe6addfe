--------------------------- MODULE SendBufProofs ---------------------------
(***************************************************************************)
(* Proofs about module SendBuf: the buffers, the index pos and the queue   *)
(* implement the ledger of module SendQueue, for every stream length,      *)
(* buffer size and number of frames in flight.                             *)
(***************************************************************************)
EXTENDS SendBuf, FiniteSetTheorems, SequenceTheorems, WellFoundedInduction, TLAPS

(* The proofs about the ledger, for the ledger that SendBuf keeps.         *)
LedgerProofs == INSTANCE SendQueueProofs
                WITH pend <- Pending, sent <- emit_off, closed <- WasReset

----------------------------------------------------------------------------
(* The inductive invariant                                                 *)

BufferOK(b) == b \in Buffers /\ b.off <= b.cur /\ b.cur <= b.end /\ b.off < b.end

(* The buffers d lie end to end from offset a to offset e.                 *)
Chain(d, a, e) ==
    /\ d \in Seq(Buffers)
    /\ \A i \in 1 .. Len(d) : BufferOK(d[i]) /\ a <= d[i].off /\ d[i].end <= e
    /\ \A i, j \in 1 .. Len(d) : i < j => d[i].end <= d[j].off
    /\ \A i \in 1 .. Len(d) - 1 : d[i].end = d[i + 1].off
    /\ Len(d) > 0 => d[1].off = a /\ d[Len(d)].end = e
    /\ Len(d) = 0 => a = e

Front(d, o) == IF Len(d) = 0 THEN o ELSE d[1].off

(* Before p everything was sent.                                           *)
SentBefore(d, p) ==
    /\ p \in 1 .. Len(d) + 1
    /\ \A i \in 1 .. Len(d) : i < p => d[i].cur = d[i].end

Held(d) == UNION {Bytes(d[i].off, d[i].end) : i \in 1 .. Len(d)}

BufInv ==
    /\ Chain(data, Front(data, off), off)
    /\ SentBefore(data, pos)
    /\ Bytes(0, off) \ acked \subseteq Held(data)

(* A RESET_STREAM to be sent or sent again carries the ledger's final size.*)
ResetInv ==
    /\ reset # NoReset => WasReset /\ reset.size = emit_off
    /\ \A r \in rflight : WasReset /\ r.size = emit_off

(* A stream is discarded when it is complete, and stays so.                *)
CollectInv == collected => fin_off # None /\ acked = Bytes(0, fin_off)

(* Only a reset takes bytes for acked that the peer did not ack.           *)
DeliveredInv == WasReset \/ acked \subseteq delivered

FlagsOK == {acked0, error, shutdown, flushable, recv_fin, collected} \subseteq BOOLEAN

OwnInv == BufInv /\ ResetInv /\ CollectInv /\ DeliveredInv /\ FlagsOK

SInv == Ledger!IInv /\ OwnInv

----------------------------------------------------------------------------
(* Numbers and sets                                                        *)

LEMMA Bounds == /\ MaxOff \in Nat /\ MaxFlight \in Nat /\ InitMaxData \in 0 .. MaxOff
                /\ SendBufferSize \in Nat \ {0} /\ WideHeader \in BOOLEAN
BY SizeAssumption

LEMMA InBytes ==
    ASSUME NEW o, NEW e, NEW x
    PROVE  x \in Bytes(o, e) <=> x \in Int /\ 0 <= x /\ x < MaxOff /\ o <= x /\ x < e
BY Bounds DEF Bytes, Offsets

LEMMA MinOf ==
    ASSUME NEW S \in SUBSET Nat, S # {}
    PROVE  SetMin(S) \in S /\ \A y \in S : SetMin(S) <= y
<1>1. PICK x \in S : \A y \in S : ~(<<y, x>> \in OpToRel(<, Nat))
  BY WFMin, NatLessThanWellFounded
<1>2. x \in Nat /\ S \subseteq Nat
  OBVIOUS
<1>3. \A y \in S : ~(y < x)
  BY <1>1, <1>2, Zenon DEF OpToRel
<1>4. \A y \in S : x <= y
  BY <1>2, <1>3
<1> QED BY <1>4 DEF SetMin

LEMMA InUnsent ==
    ASSUME NEW d, NEW p, NEW x
    PROVE  x \in Unsent(d, p) <=> \E i \in p .. Len(d) : x \in Bytes(d[i].cur, d[i].end)
BY DEF Unsent

LEMMA InHeld ==
    ASSUME NEW d, NEW x
    PROVE  x \in Held(d) <=> \E i \in 1 .. Len(d) : x \in Bytes(d[i].off, d[i].end)
BY DEF Held

----------------------------------------------------------------------------
(* Chains                                                                  *)

LEMMA BufferNumbers ==
    ASSUME NEW b, BufferOK(b)
    PROVE  /\ b.off \in Nat /\ b.cur \in Nat /\ b.end \in Nat
           /\ b.off <= b.cur /\ b.cur <= b.end /\ b.off < b.end /\ b.end <= MaxOff
BY Bounds DEF BufferOK, Buffers

LEMMA ChainElement ==
    ASSUME NEW d, NEW a, NEW e, Chain(d, a, e), NEW i \in 1 .. Len(d)
    PROVE  /\ d \in Seq(Buffers) /\ Len(d) \in Nat /\ BufferOK(d[i])
           /\ d[i].off \in Nat /\ d[i].cur \in Nat /\ d[i].end \in Nat
           /\ d[i].off <= d[i].cur /\ d[i].cur <= d[i].end /\ d[i].off < d[i].end
           /\ d[i].end <= MaxOff
           /\ a <= d[i].off /\ d[i].end <= e
<1>1. d \in Seq(Buffers) /\ BufferOK(d[i]) /\ a <= d[i].off /\ d[i].end <= e
  BY DEF Chain
<1> QED BY <1>1, BufferNumbers, LenProperties

LEMMA ChainOrder ==
    ASSUME NEW d, NEW a, NEW e, Chain(d, a, e),
           NEW i \in 1 .. Len(d), NEW j \in 1 .. Len(d), i < j
    PROVE  d[i].end <= d[j].off
BY DEF Chain

(* Two chains that meet form one.                                          *)
LEMMA ChainConcat ==
    ASSUME NEW a \in Nat, NEW m \in Nat, NEW e \in Nat,
           NEW c, NEW d, Chain(c, a, m), Chain(d, m, e)
    PROVE  Chain(c \o d, a, e)
<1> DEFINE r == c \o d
<1>1. c \in Seq(Buffers) /\ d \in Seq(Buffers) /\ Len(c) \in Nat /\ Len(d) \in Nat
  BY LenProperties DEF Chain
<1>2. /\ r \in Seq(Buffers) /\ Len(r) = Len(c) + Len(d)
      /\ \A i \in 1 .. Len(r) : r[i] = IF i <= Len(c) THEN c[i] ELSE d[i - Len(c)]
  BY <1>1, ConcatProperties
<1> HIDE DEF r
<1>3. \A i \in 1 .. Len(c) : r[i] = c[i]
  BY <1>1, <1>2
<1>4. \A i \in 1 .. Len(r) : i > Len(c) => i - Len(c) \in 1 .. Len(d) /\ r[i] = d[i - Len(c)]
  BY <1>1, <1>2
<1>5. a <= m /\ m <= e
  <2>1. ASSUME Len(c) > 0 PROVE a <= m
    <3>1. 1 \in 1 .. Len(c)
      BY <1>1, <2>1
    <3>2. c[1].off \in Nat /\ c[1].end \in Nat /\ a <= c[1].off /\ c[1].off < c[1].end /\ c[1].end <= m
      BY <3>1, ChainElement
    <3> QED BY <3>2
  <2>2. ASSUME Len(d) > 0 PROVE m <= e
    <3>1. 1 \in 1 .. Len(d)
      BY <1>1, <2>2
    <3>2. d[1].off \in Nat /\ d[1].end \in Nat /\ m <= d[1].off /\ d[1].off < d[1].end /\ d[1].end <= e
      BY <3>1, ChainElement
    <3> QED BY <3>2
  <2> QED BY <1>1, <2>1, <2>2 DEF Chain
<1>6. ASSUME NEW i \in 1 .. Len(r)
      PROVE  BufferOK(r[i]) /\ a <= r[i].off /\ r[i].end <= e
  <2>1. CASE i <= Len(c)
    <3>1. i \in 1 .. Len(c) /\ r[i] = c[i]
      BY <1>1, <1>2, <1>3, <2>1
    <3> QED BY <3>1, <1>5, ChainElement
  <2>2. CASE i > Len(c)
    <3>1. i - Len(c) \in 1 .. Len(d) /\ r[i] = d[i - Len(c)]
      BY <1>4, <2>2
    <3> QED BY <3>1, <1>5, ChainElement
  <2> QED BY <1>1, <1>2, <2>1, <2>2
<1>7. ASSUME NEW i \in 1 .. Len(r), NEW j \in 1 .. Len(r), i < j
      PROVE  r[i].end <= r[j].off
  <2>1. CASE j <= Len(c)
    BY <1>1, <1>2, <1>3, <1>7, <2>1, ChainOrder
  <2>2. CASE i > Len(c)
    <3>1. i - Len(c) \in 1 .. Len(d) /\ r[i] = d[i - Len(c)]
      BY <1>4, <2>2
    <3>2. j - Len(c) \in 1 .. Len(d) /\ r[j] = d[j - Len(c)] /\ i - Len(c) < j - Len(c)
      BY <1>1, <1>2, <1>4, <1>7, <2>2
    <3> QED BY <3>1, <3>2, ChainOrder
  <2>3. CASE i <= Len(c) /\ j > Len(c)
    <3>1. i \in 1 .. Len(c) /\ r[i] = c[i]
      BY <1>1, <1>2, <1>3, <2>3
    <3>2. j - Len(c) \in 1 .. Len(d) /\ r[j] = d[j - Len(c)]
      BY <1>4, <2>3
    <3>3. r[i].end \in Nat /\ r[i].end <= m
      BY <3>1, ChainElement
    <3>4. r[j].off \in Nat /\ m <= r[j].off
      BY <3>2, ChainElement
    <3> QED BY <3>3, <3>4
  <2> QED BY <1>1, <1>2, <2>1, <2>2, <2>3
<1>8. ASSUME NEW i \in 1 .. Len(r) - 1
      PROVE  r[i].end = r[i + 1].off
  <2>1. CASE i < Len(c)
    <3>1. i \in 1 .. Len(c) - 1 /\ r[i] = c[i] /\ r[i + 1] = c[i + 1]
      BY <1>1, <1>2, <1>3, <2>1
    <3> QED BY <3>1 DEF Chain
  <2>2. CASE i > Len(c)
    <3>1. /\ i - Len(c) \in 1 .. Len(d) - 1 /\ r[i] = d[i - Len(c)]
          /\ r[i + 1] = d[i - Len(c) + 1]
      BY <1>1, <1>2, <1>4, <2>2
    <3> QED BY <3>1 DEF Chain
  <2>3. CASE i = Len(c)
    <3>1. r[i] = c[Len(c)] /\ r[i + 1] = d[1] /\ Len(c) > 0 /\ Len(d) > 0
      BY <1>1, <1>2, <1>3, <1>4, <2>3
    <3> QED BY <3>1 DEF Chain
  <2> QED BY <1>1, <1>2, <2>1, <2>2, <2>3
<1>9. Len(r) > 0 => r[1].off = a /\ r[Len(r)].end = e
  <2> SUFFICES ASSUME Len(r) > 0 PROVE r[1].off = a /\ r[Len(r)].end = e
    OBVIOUS
  <2>1. CASE Len(c) = 0
    <3>1. r[1] = d[1] /\ r[Len(r)] = d[Len(d)] /\ Len(d) > 0
      BY <1>1, <1>2, <1>4, <2>1
    <3> QED BY <2>1, <3>1 DEF Chain
  <2>2. CASE Len(c) > 0 /\ Len(d) > 0
    <3>1. r[1] = c[1] /\ r[Len(r)] = d[Len(d)]
      BY <1>1, <1>2, <1>3, <1>4, <2>2
    <3> QED BY <2>2, <3>1 DEF Chain
  <2>3. CASE Len(c) > 0 /\ Len(d) = 0
    <3>1. r[1] = c[1] /\ r[Len(r)] = c[Len(c)]
      BY <1>1, <1>2, <1>3, <2>3
    <3> QED BY <2>3, <3>1 DEF Chain
  <2> QED BY <1>1, <2>1, <2>2, <2>3
<1>10. Len(r) = 0 => a = e
  BY <1>1, <1>2 DEF Chain
<1>11. Chain(r, a, e)
  BY <1>2, <1>6, <1>7, <1>8, <1>9, <1>10 DEF Chain
<1> QED BY <1>11 DEF r

(* What is left of a chain when its first k buffers are dropped, and the   *)
(* buffers dropped, are chains.                                            *)
LEMMA ChainSuffix ==
    ASSUME NEW a \in Nat, NEW e \in Nat, NEW d, Chain(d, a, e), NEW k \in 0 .. Len(d)
    PROVE  LET r == SubSeq(d, k + 1, Len(d)) IN
           /\ Len(r) = Len(d) - k
           /\ \A i \in 1 .. Len(r) : i + k \in 1 .. Len(d) /\ r[i] = d[i + k]
           /\ Chain(r, IF k = Len(d) THEN e ELSE d[k + 1].off, e)
<1> DEFINE r == SubSeq(d, k + 1, Len(d))
           s == IF k = Len(d) THEN e ELSE d[k + 1].off
<1>1. d \in Seq(Buffers) /\ Len(d) \in Nat /\ k \in Nat /\ k <= Len(d)
  BY LenProperties DEF Chain
<1>2. \A i \in k + 1 .. Len(d) : d[i] \in Buffers
  BY <1>1, ElementOfSeq
<1>3. /\ r \in Seq(Buffers)
      /\ Len(r) = IF k + 1 <= Len(d) THEN Len(d) - (k + 1) + 1 ELSE 0
      /\ \A i \in 1 .. Len(d) - (k + 1) + 1 : r[i] = d[(k + 1) + i - 1]
  BY <1>1, <1>2, SubSeqProperties
<1> HIDE DEF r
<1>4. Len(r) = Len(d) - k
  BY <1>1, <1>3
<1>5. \A i \in 1 .. Len(r) : i + k \in 1 .. Len(d) /\ r[i] = d[i + k]
  BY <1>1, <1>3, <1>4
<1>6. Len(r) > 0 => s = d[k + 1].off /\ r[1] = d[k + 1] /\ r[Len(r)] = d[Len(d)]
  BY <1>1, <1>4, <1>5
<1>7. Len(r) = 0 => s = e
  BY <1>1, <1>4
<1> HIDE DEF s
<1>8. ASSUME NEW i \in 1 .. Len(r)
      PROVE  BufferOK(r[i]) /\ s <= r[i].off /\ r[i].end <= e
  <2>1. i + k \in 1 .. Len(d) /\ r[i] = d[i + k] /\ k + 1 \in 1 .. Len(d)
    BY <1>1, <1>4, <1>5
  <2>2. BufferOK(r[i]) /\ r[i].end <= e
    BY <2>1, ChainElement
  <2>3. CASE i = 1
    <3>1. r[i] = d[k + 1] /\ s = d[k + 1].off
      BY <1>1, <1>4, <1>6, <2>1, <2>3
    <3>2. d[k + 1].off \in Nat
      BY <2>1, ChainElement
    <3> QED BY <2>2, <3>1, <3>2
  <2>4. CASE i > 1
    <3>1. s = d[k + 1].off /\ d[k + 1].end <= d[i + k].off
      BY <1>1, <1>4, <1>6, <2>1, <2>4, ChainOrder
    <3>2. /\ d[k + 1].off \in Nat /\ d[k + 1].end \in Nat /\ d[i + k].off \in Nat
          /\ d[k + 1].off < d[k + 1].end
      BY <2>1, ChainElement
    <3> QED BY <2>1, <2>2, <3>1, <3>2
  <2> QED BY <1>1, <1>4, <2>2, <2>3, <2>4
<1>9. ASSUME NEW i \in 1 .. Len(r), NEW j \in 1 .. Len(r), i < j
      PROVE  r[i].end <= r[j].off
  <2>1. i + k \in 1 .. Len(d) /\ r[i] = d[i + k]
    BY <1>5
  <2>2. j + k \in 1 .. Len(d) /\ r[j] = d[j + k] /\ i + k < j + k
    BY <1>1, <1>5, <1>9
  <2> QED BY <2>1, <2>2, ChainOrder
<1>10. ASSUME NEW i \in 1 .. Len(r) - 1
       PROVE  r[i].end = r[i + 1].off
  <2>0. i \in 1 .. Len(r) /\ i + 1 \in 1 .. Len(r) /\ i \in Nat
    BY <1>1, <1>4
  <2>1. r[i] = d[i + k] /\ r[i + 1] = d[(i + 1) + k]
    BY <1>5, <2>0
  <2>2. i + k \in 1 .. Len(d) - 1 /\ (i + 1) + k = (i + k) + 1
    BY <1>1, <1>4, <2>0
  <2>3. d[i + k].end = d[(i + k) + 1].off
    BY <2>2 DEF Chain
  <2> QED BY <2>1, <2>2, <2>3
<1>11. Len(r) > 0 => r[1].off = s /\ r[Len(r)].end = e
  <2>1. Len(r) > 0 => Len(d) > 0
    BY <1>1, <1>4
  <2> QED BY <1>6, <2>1 DEF Chain
<1>12. Chain(r, s, e)
  BY <1>3, <1>7, <1>8, <1>9, <1>10, <1>11 DEF Chain
<1> QED BY <1>4, <1>5, <1>12 DEF r, s

LEMMA ChainPrefix ==
    ASSUME NEW a \in Nat, NEW e \in Nat, NEW d, Chain(d, a, e), NEW k \in 0 .. Len(d)
    PROVE  LET r == SubSeq(d, 1, k) IN
           /\ Len(r) = k
           /\ \A i \in 1 .. Len(r) : i \in 1 .. Len(d) /\ r[i] = d[i]
           /\ Chain(r, a, IF k = Len(d) THEN e ELSE d[k + 1].off)
<1> DEFINE r == SubSeq(d, 1, k)
           s == IF k = Len(d) THEN e ELSE d[k + 1].off
<1>1. d \in Seq(Buffers) /\ Len(d) \in Nat /\ k \in Nat /\ k <= Len(d)
  BY LenProperties DEF Chain
<1>2. \A i \in 1 .. k : d[i] \in Buffers
  BY <1>1, ElementOfSeq
<1>3. /\ r \in Seq(Buffers)
      /\ Len(r) = IF 1 <= k THEN k - 1 + 1 ELSE 0
      /\ \A i \in 1 .. k - 1 + 1 : r[i] = d[1 + i - 1]
  BY <1>1, <1>2, SubSeqProperties
<1> HIDE DEF r
<1>4. Len(r) = k
  BY <1>1, <1>3
<1>5. \A i \in 1 .. Len(r) : i \in 1 .. Len(d) /\ r[i] = d[i]
  BY <1>1, <1>3, <1>4
<1>6. /\ k < Len(d) => s = d[k + 1].off /\ k + 1 \in 1 .. Len(d)
      /\ k = Len(d) => s = e
  BY <1>1
<1> HIDE DEF s
<1>7. ASSUME NEW i \in 1 .. Len(r)
      PROVE  BufferOK(r[i]) /\ a <= r[i].off /\ r[i].end <= s
  <2>1. i \in 1 .. Len(d) /\ r[i] = d[i]
    BY <1>5
  <2>2. BufferOK(r[i]) /\ a <= r[i].off /\ r[i].end <= e
    BY <2>1, ChainElement
  <2>3. CASE k = Len(d)
    BY <1>6, <2>2, <2>3
  <2>4. CASE k < Len(d)
    <3>1. k + 1 \in 1 .. Len(d) /\ i < k + 1 /\ s = d[k + 1].off
      BY <1>1, <1>4, <1>6, <2>4
    <3> QED BY <2>1, <2>2, <3>1, ChainOrder
  <2> QED BY <1>1, <2>3, <2>4
<1>8. ASSUME NEW i \in 1 .. Len(r), NEW j \in 1 .. Len(r), i < j
      PROVE  r[i].end <= r[j].off
  BY <1>5, <1>8, ChainOrder
<1>9. ASSUME NEW i \in 1 .. Len(r) - 1
       PROVE  r[i].end = r[i + 1].off
  <2>1. i \in 1 .. Len(d) - 1 /\ r[i] = d[i] /\ r[i + 1] = d[i + 1]
    BY <1>1, <1>4, <1>5
  <2> QED BY <2>1 DEF Chain
<1>10. ASSUME Len(r) > 0 PROVE r[1].off = a /\ r[Len(r)].end = s
  <2>1. Len(d) > 0 /\ r[1] = d[1] /\ r[Len(r)] = d[k]
    BY <1>1, <1>4, <1>5, <1>10
  <2>2. r[1].off = a
    BY <2>1 DEF Chain
  <2>3. CASE k = Len(d)
    BY <1>6, <2>1, <2>3 DEF Chain
  <2>4. CASE k < Len(d)
    <3>1. k \in 1 .. Len(d) - 1 /\ s = d[k + 1].off
      BY <1>1, <1>4, <1>6, <1>10, <2>4
    <3> QED BY <2>1, <2>2, <3>1 DEF Chain
  <2> QED BY <1>1, <2>2, <2>3, <2>4
<1>11. Len(r) = 0 => a = s
  <2>1. CASE Len(d) = 0
    BY <1>1, <1>6, <2>1 DEF Chain
  <2>2. CASE Len(d) > 0
    BY <1>1, <1>4, <1>6, <2>2 DEF Chain
  <2> QED BY <1>1, <2>1, <2>2
<1>12. Chain(r, a, s)
  BY <1>3, <1>7, <1>8, <1>9, <1>10, <1>11 DEF Chain
<1> QED BY <1>4, <1>5, <1>12 DEF r, s

(* The positions within the buffers do not matter to the chain.            *)
LEMMA ChainSame ==
    ASSUME NEW a \in Nat, NEW e \in Nat, NEW d, Chain(d, a, e), NEW r \in Seq(Buffers),
           Len(r) = Len(d),
           \A i \in 1 .. Len(d) : BufferOK(r[i]) /\ r[i].off = d[i].off /\ r[i].end = d[i].end
    PROVE  Chain(r, a, e)
<1>1. Len(d) \in Nat
  BY LenProperties DEF Chain
<1>2. \A i \in 1 .. Len(r) : BufferOK(r[i]) /\ a <= r[i].off /\ r[i].end <= e
  BY DEF Chain
<1>3. \A i, j \in 1 .. Len(r) : i < j => r[i].end <= r[j].off
  BY DEF Chain
<1>4. \A i \in 1 .. Len(r) - 1 : r[i].end = r[i + 1].off
  <2> SUFFICES ASSUME NEW i \in 1 .. Len(r) - 1 PROVE r[i].end = r[i + 1].off
    OBVIOUS
  <2>1. i \in 1 .. Len(d) /\ i + 1 \in 1 .. Len(d) /\ i \in 1 .. Len(d) - 1
    BY <1>1
  <2> QED BY <2>1 DEF Chain
<1>5. Len(r) > 0 => r[1].off = a /\ r[Len(r)].end = e
  <2>1. Len(r) > 0 => 1 \in 1 .. Len(d) /\ Len(d) \in 1 .. Len(d)
    BY <1>1
  <2> QED BY <2>1 DEF Chain
<1>6. Len(r) = 0 => a = e
  BY DEF Chain
<1> QED BY <1>2, <1>3, <1>4, <1>5, <1>6 DEF Chain

(* The front of a chain is where it starts.                                *)
LEMMA ChainFront ==
    ASSUME NEW a \in Nat, NEW e \in Nat, NEW d, Chain(d, a, e)
    PROVE  Front(d, e) = a
<1>1. Len(d) \in Nat
  BY LenProperties DEF Chain
<1> QED BY <1>1 DEF Chain, Front

----------------------------------------------------------------------------
(* Bytes held, and bytes to be sent                                        *)

LEMMA PendingAll ==
    ASSUME NEW d \in Seq(Buffers), NEW p, SentBefore(d, p)
    PROVE  Unsent(d, p) = Unsent(d, 1)
<1>1. Len(d) \in Nat /\ p \in Nat /\ p >= 1
  BY LenProperties DEF SentBefore
<1>2. ASSUME NEW i \in 1 .. Len(d), i < p, NEW x
      PROVE  x \notin Bytes(d[i].cur, d[i].end)
  <2>0. d[i] \in Buffers
    BY ElementOfSeq
  <2>1. d[i].cur = d[i].end /\ d[i].cur \in Int
    BY <1>2, <2>0, Bounds DEF SentBefore, Buffers
  <2> QED BY <2>1, InBytes
<1>3. ASSUME NEW x PROVE x \in Unsent(d, p) <=> x \in Unsent(d, 1)
  <2>1. ASSUME NEW i \in p .. Len(d) PROVE i \in 1 .. Len(d)
    BY <1>1
  <2>2. ASSUME NEW i \in 1 .. Len(d), x \in Bytes(d[i].cur, d[i].end) PROVE i \in p .. Len(d)
    BY <1>1, <1>2, <2>2
  <2> QED BY <2>1, <2>2, InUnsent
<1> QED BY <1>3

LEMMA UnsentConcat ==
    ASSUME NEW c \in Seq(Buffers), NEW d \in Seq(Buffers)
    PROVE  /\ Unsent(c \o d, 1) = Unsent(c, 1) \cup Unsent(d, 1)
           /\ Held(c \o d) = Held(c) \cup Held(d)
<1> DEFINE r == c \o d
<1>1. Len(c) \in Nat /\ Len(d) \in Nat
  BY LenProperties
<1>2. /\ Len(r) = Len(c) + Len(d)
      /\ \A i \in 1 .. Len(c) + Len(d) : r[i] = IF i <= Len(c) THEN c[i] ELSE d[i - Len(c)]
  BY ConcatProperties
<1> HIDE DEF r
<1>3. \A i \in 1 .. Len(c) : i \in 1 .. Len(r) /\ r[i] = c[i]
  BY <1>1, <1>2
<1>4. \A i \in 1 .. Len(d) : i + Len(c) \in 1 .. Len(r) /\ r[i + Len(c)] = d[i]
  BY <1>1, <1>2
<1>5. \A i \in 1 .. Len(r) : \/ i \in 1 .. Len(c)
                             \/ i - Len(c) \in 1 .. Len(d) /\ r[i] = d[i - Len(c)]
  BY <1>1, <1>2
<1>6. ASSUME NEW x PROVE x \in Unsent(r, 1) <=> x \in Unsent(c, 1) \/ x \in Unsent(d, 1)
  <2>1. ASSUME NEW i \in 1 .. Len(r), x \in Bytes(r[i].cur, r[i].end)
        PROVE  x \in Unsent(c, 1) \/ x \in Unsent(d, 1)
    BY <1>3, <1>5, <2>1, InUnsent
  <2>2. ASSUME NEW i \in 1 .. Len(c), x \in Bytes(c[i].cur, c[i].end)
        PROVE  x \in Unsent(r, 1)
    BY <1>3, <2>2, InUnsent
  <2>3. ASSUME NEW i \in 1 .. Len(d), x \in Bytes(d[i].cur, d[i].end)
        PROVE  x \in Unsent(r, 1)
    BY <1>4, <2>3, InUnsent
  <2> QED BY <2>1, <2>2, <2>3, InUnsent
<1>7. ASSUME NEW x PROVE x \in Held(r) <=> x \in Held(c) \/ x \in Held(d)
  <2>1. ASSUME NEW i \in 1 .. Len(r), x \in Bytes(r[i].off, r[i].end)
        PROVE  x \in Held(c) \/ x \in Held(d)
    BY <1>3, <1>5, <2>1, InHeld
  <2>2. ASSUME NEW i \in 1 .. Len(c), x \in Bytes(c[i].off, c[i].end)
        PROVE  x \in Held(r)
    BY <1>3, <2>2, InHeld
  <2>3. ASSUME NEW i \in 1 .. Len(d), x \in Bytes(d[i].off, d[i].end)
        PROVE  x \in Held(r)
    BY <1>4, <2>3, InHeld
  <2> QED BY <2>1, <2>2, <2>3, InHeld
<1>8. Unsent(r, 1) = Unsent(c, 1) \cup Unsent(d, 1) /\ Held(r) = Held(c) \cup Held(d)
  BY <1>6, <1>7
<1> QED BY <1>8 DEF r

(* What a chain holds lies within its bounds; what it is to send, it holds.*)
LEMMA ChainBytes ==
    ASSUME NEW a \in Nat, NEW e \in Nat, NEW d, Chain(d, a, e)
    PROVE  /\ Unsent(d, 1) \subseteq Held(d)
           /\ Held(d) \subseteq Bytes(a, e)
           /\ Held(d) \subseteq Offsets
<1>1. ASSUME NEW x \in Unsent(d, 1) PROVE x \in Held(d)
  <2>1. PICK i \in 1 .. Len(d) : x \in Bytes(d[i].cur, d[i].end)
    BY InUnsent
  <2>2. x \in Bytes(d[i].off, d[i].end)
    BY <2>1, ChainElement, InBytes
  <2> QED BY <2>2, InHeld
<1>2. ASSUME NEW x \in Held(d) PROVE x \in Bytes(a, e)
  <2>1. PICK i \in 1 .. Len(d) : x \in Bytes(d[i].off, d[i].end)
    BY InHeld
  <2> QED BY <2>1, ChainElement, InBytes
<1> QED BY <1>1, <1>2 DEF Bytes

(* A byte is held by one buffer.                                           *)
LEMMA OneHolder ==
    ASSUME NEW a \in Nat, NEW e \in Nat, NEW d, Chain(d, a, e), NEW x \in Int,
           NEW i \in 1 .. Len(d), NEW j \in 1 .. Len(d),
           d[i].off <= x, x < d[i].end, d[j].off <= x, x < d[j].end
    PROVE  i = j
<1>1. /\ d[i].off \in Nat /\ d[i].end \in Nat /\ d[j].off \in Nat /\ d[j].end \in Nat
  BY ChainElement
<1>2. ~(i < j)
  BY <1>1, ChainOrder
<1>3. ~(j < i)
  BY <1>1, ChainOrder
<1> QED BY <1>2, <1>3

----------------------------------------------------------------------------
(* Writing                                                                 *)

LEMMA Products ==
    ASSUME NEW i \in Nat, NEW j \in Nat, NEW n \in Nat, i <= j
    PROVE  i * n <= j * n /\ i * n \in Nat /\ (i + 1) * n = i * n + n
OBVIOUS

LEMMA Quotient ==
    ASSUME NEW x \in Nat, NEW n \in Nat \ {0}
    PROVE  /\ x \div n \in Nat
           /\ (x \div n) * n <= x /\ x < (x \div n + 1) * n
OBVIOUS

(* write cuts n bytes into a chain of buffers that are all to be sent.     *)
LEMMA CutChain ==
    ASSUME off \in Nat, NEW n \in Nat, off + n <= MaxOff, NEW size \in Nat \ {0}
    PROVE  /\ Chain(Cut(n, size), off, off + n)
           /\ Unsent(Cut(n, size), 1) = Bytes(off, off + n)
           /\ Held(Cut(n, size)) = Bytes(off, off + n)
           /\ n = 0 => Cut(n, size) = <<>>
<1> DEFINE c == (n + size - 1) \div size
           d == Cut(n, size)
<1>1. c \in Nat /\ c * size <= n + size - 1 /\ n + size - 1 < (c + 1) * size
  BY Quotient
<1>2. (c + 1) * size = c * size + size /\ c * size \in Nat
  BY <1>1, Products
<1>3. n <= c * size /\ c * size < n + size
  BY <1>1, <1>2
<1> HIDE DEF c
<1>4. ASSUME NEW i \in 1 .. c
      PROVE  /\ (i - 1) * size \in Nat /\ i * size \in Nat
             /\ i * size = (i - 1) * size + size
             /\ (i - 1) * size < n
  <2>1. i \in Nat /\ i - 1 \in Nat /\ c - 1 \in Nat /\ i - 1 <= c - 1
    BY <1>1
  <2>2. (i - 1) * size <= (c - 1) * size /\ (i - 1) * size \in Nat
    BY <2>1, Products
  <2>3. ((i - 1) + 1) * size = (i - 1) * size + size
    BY <2>1, Products
  <2>4. ((c - 1) + 1) * size = (c - 1) * size + size /\ (c - 1) * size \in Nat
    BY <2>1, Products
  <2>5. (i - 1) + 1 = i /\ (c - 1) + 1 = c
    BY <1>1, <2>1
  <2>6. i * size = (i - 1) * size + size /\ c * size = (c - 1) * size + size
    BY <2>3, <2>4, <2>5
  <2>7. (c - 1) * size < n
    BY <1>2, <1>3, <2>4, <2>6
  <2> QED BY <2>2, <2>4, <2>6, <2>7
<1>5. /\ Len(d) = c
      /\ \A i \in 1 .. c :
             d[i] = [off |-> off + (i - 1) * size, cur |-> off + (i - 1) * size,
                     end |-> off + Lower(i * size, n)]
  BY <1>1 DEF Cut, c
<1>6. ASSUME NEW i \in 1 .. c
      PROVE  /\ BufferOK(d[i]) /\ d[i].cur = d[i].off
             /\ d[i].off = off + (i - 1) * size
             /\ d[i].end = off + Lower(i * size, n)
             /\ off <= d[i].off /\ d[i].end <= off + n
             /\ d[i].off \in Nat /\ d[i].end \in Nat
  <2>1. PICK a \in Nat : a = (i - 1) * size
    BY <1>4
  <2>2. PICK b \in Nat : b = i * size
    BY <1>4
  <2>3. b = a + size /\ a < n
    BY <1>4, <2>1, <2>2
  <2>4. d[i] = [off |-> off + a, cur |-> off + a, end |-> off + Lower(b, n)]
    BY <1>5, <2>1, <2>2
  <2>5. Lower(b, n) \in Nat /\ a < Lower(b, n) /\ Lower(b, n) <= n
    BY <2>3 DEF Lower
  <2>6. d[i] \in Buffers
    BY <2>3, <2>4, <2>5, Bounds DEF Buffers
  <2> QED BY <2>1, <2>2, <2>3, <2>4, <2>5, <2>6 DEF BufferOK
<1>7. ASSUME NEW i \in 1 .. c, NEW j \in 1 .. c, i < j
      PROVE  d[i].end = off + i * size /\ d[i].end <= d[j].off
  <2>1. i \in Nat /\ j - 1 \in Nat /\ i <= j - 1
    BY <1>7
  <2>2. i * size <= (j - 1) * size
    BY <2>1, Products
  <2>3. i * size \in Nat /\ (j - 1) * size \in Nat /\ (j - 1) * size < n
    BY <1>4
  <2>4. Lower(i * size, n) = i * size
    BY <2>2, <2>3 DEF Lower
  <2> QED BY <1>6, <2>2, <2>3, <2>4
<1>8. ASSUME NEW i \in 1 .. c - 1
      PROVE  d[i].end = d[i + 1].off
  <2>1. i \in 1 .. c /\ i + 1 \in 1 .. c /\ i < i + 1 /\ (i + 1) - 1 = i
    BY <1>1
  <2>2. d[i].end = off + i * size /\ d[i + 1].off = off + ((i + 1) - 1) * size
    BY <1>6, <1>7, <2>1
  <2> QED BY <2>1, <2>2
<1>9. ASSUME c > 0
      PROVE  d[1].off = off /\ d[c].end = off + n
  <2>1. 1 \in 1 .. c /\ c \in 1 .. c
    BY <1>1, <1>9
  <2>2. d[1].off = off + (1 - 1) * size /\ d[c].end = off + Lower(c * size, n)
    BY <1>6, <2>1
  <2>3. (1 - 1) * size = 0 /\ Lower(c * size, n) = n
    BY <1>2, <1>3 DEF Lower
  <2> QED BY <2>2, <2>3
<1>10. c = 0 => n = 0
  BY <1>3
<1>11. n = 0 => c = 0
  BY <1>1, <1>4
<1>12. d \in Seq(Buffers)
  <2>1. \A i \in 1 .. c : d[i] \in Buffers
    BY <1>6 DEF BufferOK
  <2>2. d = [i \in 1 .. c |-> d[i]]
    BY <1>5 DEF Cut, c
  <2> HIDE DEF d
  <2>3. [i \in 1 .. c |-> d[i]] \in Seq(Buffers)
    BY <1>1, <2>1
  <2> QED BY <2>2, <2>3
<1> HIDE DEF d
<1>13. Chain(d, off, off + n)
  <2>1. \A i \in 1 .. Len(d) : BufferOK(d[i]) /\ off <= d[i].off /\ d[i].end <= off + n
    BY <1>5, <1>6
  <2>2. \A i, j \in 1 .. Len(d) : i < j => d[i].end <= d[j].off
    BY <1>5, <1>7
  <2>3. \A i \in 1 .. Len(d) - 1 : d[i].end = d[i + 1].off
    BY <1>5, <1>8
  <2>4. Len(d) = 0 => off = off + n
    BY <1>5, <1>10
  <2> QED BY <1>5, <1>9, <1>12, <2>1, <2>2, <2>3, <2>4 DEF Chain
<1>14. Held(d) \subseteq Bytes(off, off + n) /\ Unsent(d, 1) \subseteq Held(d)
  BY <1>13, ChainBytes
<1>15. ASSUME NEW x \in Bytes(off, off + n) PROVE x \in Unsent(d, 1)
  <2>1. x \in Int /\ off <= x /\ x < off + n /\ 0 <= x /\ x < MaxOff
    BY InBytes
  <2>2. PICK y \in Nat : y = x - off /\ y < n
    BY <2>1
  <2>3. PICK q \in Nat : q = y \div size /\ q * size <= y /\ y < (q + 1) * size
    BY Quotient
  <2>4. q + 1 \in 1 .. c
    <3>1. SUFFICES ASSUME c <= q PROVE FALSE
      BY <1>1
    <3>2. c * size <= q * size /\ q * size \in Nat
      BY <1>1, <3>1, Products
    <3> QED BY <1>2, <1>3, <2>2, <2>3, <3>2
  <2>5. /\ (q + 1) - 1 = q /\ q * size \in Nat /\ (q + 1) * size \in Nat
    BY <2>4, <1>4
  <2>6. /\ d[q + 1].cur = off + q * size
        /\ d[q + 1].end = off + Lower((q + 1) * size, n)
    BY <1>6, <2>4, <2>5
  <2>7. d[q + 1].cur <= x /\ x < d[q + 1].end
    <3> QED BY <2>1, <2>2, <2>3, <2>5, <2>6 DEF Lower
  <2>8. x \in Bytes(d[q + 1].cur, d[q + 1].end)
    BY <2>1, <2>7, InBytes
  <2> QED BY <1>5, <2>4, <2>8, InUnsent
<1>16. Unsent(d, 1) = Bytes(off, off + n) /\ Held(d) = Bytes(off, off + n)
  BY <1>14, <1>15
<1>17. n = 0 => d = <<>>
  BY <1>5, <1>11, <1>12, EmptySeq
<1> QED BY <1>13, <1>16, <1>17 DEF d

----------------------------------------------------------------------------
(* The ledger                                                              *)

(* Instances share no definitions; those of the ledger are SendBuf's own.  *)
LEMMA SameNames ==
    /\ Ledger!None = None /\ LedgerProofs!None = None
    /\ Ledger!Offsets = Offsets /\ LedgerProofs!Offsets = Offsets
    /\ Ledger!Frames = Frames /\ LedgerProofs!Frames = Frames
    /\ \A o, e : Ledger!Bytes(o, e) = Bytes(o, e) /\ LedgerProofs!Bytes(o, e) = Bytes(o, e)
<1>1. Ledger!Offsets = Offsets /\ LedgerProofs!Offsets = Offsets
  BY Zenon DEF Offsets, Ledger!Offsets, LedgerProofs!Offsets
<1> QED BY <1>1, Zenon DEF Ledger!None, LedgerProofs!None, None,
       Ledger!Frames, LedgerProofs!Frames, Frames, Ledger!Bytes, LedgerProofs!Bytes, Bytes

LEMMA SameSize ==
    /\ FlightSize = Ledger!FlightSize
    /\ FlightSize = LedgerProofs!FlightSize
    /\ \A S : Cardinality(S) = Ledger!Cardinality(S)
    /\ \A S : Cardinality(S) = LedgerProofs!Cardinality(S)
<1>1. \A S : Cardinality(S) = Ledger!Cardinality(S)
  BY Zenon DEF Cardinality, Ledger!Cardinality
<1>2. \A S : Cardinality(S) = LedgerProofs!Cardinality(S)
  BY Zenon DEF Cardinality, LedgerProofs!Cardinality
<1>3. Ledger!Flying = Flying /\ LedgerProofs!Flying = Flying
  BY SameNames, Zenon DEF Flying, Ledger!Flying, LedgerProofs!Flying
<1> QED BY <1>1, <1>2, <1>3, Zenon DEF FlightSize, Ledger!FlightSize, LedgerProofs!FlightSize

LEMMA SameInv == (Ledger!IInv <=> LedgerProofs!IInv) /\ (Ledger!IInv <=> LedgerProofs!IInv)'
<1> USE DEF Ledger!IInv, LedgerProofs!IInv, Ledger!TypeOK, LedgerProofs!TypeOK,
     Ledger!NothingForgotten, LedgerProofs!NothingForgotten,
     Ledger!WithinLimits, LedgerProofs!WithinLimits,
     Ledger!OneFinalSize, LedgerProofs!OneFinalSize,
     Ledger!PendInv, LedgerProofs!PendInv, Ledger!FinInv, LedgerProofs!FinInv,
     Ledger!InFlight, LedgerProofs!InFlight, Ledger!BeingLost, LedgerProofs!BeingLost,
     Ledger!Bytes, LedgerProofs!Bytes, Ledger!Offsets, LedgerProofs!Offsets,
     Ledger!Frames, LedgerProofs!Frames, Ledger!None, LedgerProofs!None
<1>1. Ledger!IInv <=> LedgerProofs!IInv
  BY Zenon
<1>2. (Ledger!IInv <=> LedgerProofs!IInv)'
  BY Zenon
<1> QED BY <1>1, <1>2

LEMMA SameNext == (Ledger!Next <=> LedgerProofs!Next) /\ Ledger!vars = LedgerProofs!vars
<1>1. Ledger!vars = LedgerProofs!vars
  BY Zenon DEF Ledger!vars, LedgerProofs!vars
<1>2. \A n, fin : Ledger!Write(n, fin) <=> LedgerProofs!Write(n, fin)
  BY SameNames, Zenon DEF Ledger!Write, LedgerProofs!Write
<1>3. \A m : Ledger!MaxStreamData(m) <=> LedgerProofs!MaxStreamData(m)
  BY Zenon DEF Ledger!MaxStreamData, LedgerProofs!MaxStreamData
<1>4. \A o, e : Ledger!Emit(o, e) <=> LedgerProofs!Emit(o, e)
  BY SameNames, SameSize, Zenon DEF Ledger!Emit, LedgerProofs!Emit
<1>5. \A f : /\ Ledger!Ack(f) <=> LedgerProofs!Ack(f)
             /\ Ledger!Retransmit(f) <=> LedgerProofs!Retransmit(f)
  BY SameNames, Zenon DEF Ledger!Ack, LedgerProofs!Ack, Ledger!Retransmit, LedgerProofs!Retransmit
<1>6. \A f : /\ Ledger!DeclareLost(f) <=> LedgerProofs!DeclareLost(f)
             /\ Ledger!Probe(f) <=> LedgerProofs!Probe(f)
  BY SameSize, Zenon DEF Ledger!DeclareLost, LedgerProofs!DeclareLost, Ledger!Probe, LedgerProofs!Probe
<1>7. /\ Ledger!Reset <=> LedgerProofs!Reset
      /\ Ledger!SendReset <=> LedgerProofs!SendReset
  BY SameNames, Zenon DEF Ledger!Reset, LedgerProofs!Reset, Ledger!SendReset, LedgerProofs!SendReset
<1>8. Ledger!Next <=> LedgerProofs!Next
  BY <1>2, <1>3, <1>4, <1>5, <1>6, <1>7, SameNames, Zenon DEF Ledger!Next, LedgerProofs!Next
<1> QED BY <1>1, <1>8

(* The ledger's own invariant, which SendQueueProofs proves.               *)
LEMMA LedgerStep == Ledger!IInv /\ [Ledger!Next]_(Ledger!vars) => Ledger!IInv'
<1> SUFFICES ASSUME Ledger!IInv, [Ledger!Next]_(Ledger!vars) PROVE Ledger!IInv'
  OBVIOUS
<1>1. LedgerProofs!IInv /\ [LedgerProofs!Next]_(LedgerProofs!vars)
  <2>1. CASE Ledger!Next
    BY <2>1, SameInv, SameNext
  <2>2. CASE UNCHANGED Ledger!vars
    <3>1. UNCHANGED LedgerProofs!vars
      BY <2>2 DEF Ledger!vars, LedgerProofs!vars
    <3> QED BY <3>1, SameInv
  <2> QED BY <2>1, <2>2
<1>2. LedgerProofs!IInv'
  BY <1>1, LedgerProofs!NextIInv, SizeAssumption
<1> QED BY <1>2, SameInv

(* The invariant in SendBuf's terms                                        *)
LEMMA Facts ==
    ASSUME SInv
    PROVE  /\ off \in 0 .. MaxOff /\ emit_off \in 0 .. MaxOff /\ max_data \in 0 .. MaxOff
           /\ fin_off \in 0 .. MaxOff \cup {None} /\ None = -1
           /\ acked \subseteq Offsets /\ Pending \subseteq Offsets
           /\ inflight \in [Frames -> Nat] /\ lost \subseteq Frames /\ finals \subseteq 0 .. MaxOff
           /\ emit_off <= off /\ off <= max_data
           /\ \A i \in acked : i < emit_off
           /\ \A f \in Frames : inflight[f] > 0 \/ f \in lost => f.end <= emit_off
           /\ \A i \in Pending : i < off
           /\ \A i \in Offsets : emit_off <= i /\ i < off => i \in Pending
           /\ fin_off # None => fin_off = off
           /\ WasReset => fin_off = emit_off
           /\ Chain(data, Front(data, off), off) /\ SentBefore(data, pos)
           /\ Bytes(0, off) \ acked \subseteq Held(data)
           /\ Front(data, off) \in Nat /\ data \in Seq(Buffers)
           /\ Pending = Unsent(data, 1)
<1>1. Ledger!TypeOK /\ Ledger!WithinLimits /\ Ledger!PendInv /\ Ledger!FinInv
  BY DEF SInv, Ledger!IInv
<1>2. /\ off \in 0 .. MaxOff /\ emit_off \in 0 .. MaxOff /\ max_data \in 0 .. MaxOff
      /\ fin_off \in 0 .. MaxOff \cup {None}
      /\ acked \subseteq Offsets /\ Pending \subseteq Offsets
      /\ inflight \in [Frames -> Nat] /\ lost \subseteq Frames /\ finals \subseteq 0 .. MaxOff
  BY <1>1, SameNames, Zenon DEF Ledger!TypeOK
<1>3. /\ emit_off <= off /\ off <= max_data
      /\ \A i \in acked : i < emit_off
      /\ \A f \in Frames : inflight[f] > 0 \/ f \in lost => f.end <= emit_off
  BY <1>1, SameNames, Zenon DEF Ledger!WithinLimits
<1>4. /\ \A i \in Pending : i < off
      /\ \A i \in Offsets : emit_off <= i /\ i < off => i \in Pending
  BY <1>1, SameNames, Zenon DEF Ledger!PendInv
<1>5. (fin_off # None => fin_off = off) /\ (WasReset => fin_off = emit_off)
  BY <1>1, SameNames, Zenon DEF Ledger!FinInv
<1>6. /\ Chain(data, Front(data, off), off) /\ SentBefore(data, pos)
      /\ Bytes(0, off) \ acked \subseteq Held(data)
  BY DEF SInv, OwnInv, BufInv
<1>7. data \in Seq(Buffers) /\ Len(data) \in Nat
  BY <1>6, LenProperties DEF Chain
<1>8. Front(data, off) \in Nat
  <2>1. CASE Len(data) = 0
    BY <1>2, <2>1, Bounds DEF Front
  <2>2. CASE Len(data) > 0
    <3>1. 1 \in 1 .. Len(data)
      BY <1>7, <2>2
    <3>2. data[1].off \in Nat
      BY <1>6, <3>1, ChainElement
    <3> QED BY <2>2, <3>2 DEF Front
  <2> QED BY <1>7, <2>1, <2>2
<1>9. Pending = Unsent(data, 1)
  BY <1>6, <1>7, PendingAll DEF Pending
<1> QED BY <1>2, <1>3, <1>4, <1>5, <1>6, <1>7, <1>8, <1>9 DEF None

LEMMA FrontOf ==
    ASSUME NEW d, NEW p, NEW o
    PROVE  /\ Unsent(d, p) \subseteq Offsets
           /\ Unsent(d, p) = {} => OffFrontOf(d, p, o) = o
           /\ Unsent(d, p) # {} => OffFrontOf(d, p, o) \in Unsent(d, p)
           /\ \A x \in Unsent(d, p) : OffFrontOf(d, p, o) <= x
<1>1. Unsent(d, p) \subseteq Offsets
  BY InUnsent DEF Bytes
<1>2. Unsent(d, p) \in SUBSET Nat
  BY <1>1, Bounds DEF Offsets
<1>3. CASE Unsent(d, p) = {}
  BY <1>1, <1>3 DEF OffFrontOf
<1>4. CASE Unsent(d, p) # {}
  BY <1>1, <1>2, <1>4, MinOf DEF OffFrontOf
<1> QED BY <1>3, <1>4

(* off_front is the lowest byte to be sent, and not beyond what was sent.  *)
LEMMA FrontFacts ==
    ASSUME SInv
    PROVE  /\ OffFront \in 0 .. MaxOff /\ OffFront <= off /\ OffFront <= emit_off
           /\ Pending = {} => OffFront = off
           /\ Pending # {} => OffFront \in Pending
           /\ \A x \in Pending : OffFront <= x
<1>1. /\ Pending = {} => OffFront = off
      /\ Pending # {} => OffFront \in Pending
      /\ \A x \in Pending : OffFront <= x
  BY FrontOf DEF Pending, OffFront
<1>2. /\ off \in 0 .. MaxOff /\ emit_off \in 0 .. MaxOff /\ emit_off <= off
      /\ Pending \subseteq Offsets
      /\ \A i \in Pending : i < off
      /\ \A i \in Offsets : emit_off <= i /\ i < off => i \in Pending
  BY Facts
<1>3. OffFront \in 0 .. MaxOff /\ OffFront <= off
  <2>1. CASE Pending = {}
    BY <1>1, <1>2, <2>1, Bounds
  <2>2. CASE Pending # {}
    <3>1. OffFront \in Offsets /\ OffFront < off
      BY <1>1, <1>2, <2>2
    <3> QED BY <1>2, <3>1, Bounds DEF Offsets
  <2> QED BY <2>1, <2>2
<1>4. OffFront <= emit_off
  <2>1. CASE emit_off = off
    BY <1>3, <2>1
  <2>2. CASE emit_off < off
    <3>1. emit_off \in Offsets
      BY <1>2, <2>2, Bounds DEF Offsets
    <3>2. emit_off \in Pending
      BY <1>2, <2>2, <3>1, Bounds
    <3> QED BY <1>1, <3>2
  <2> QED BY <1>2, <2>1, <2>2, Bounds
<1> QED BY <1>1, <1>3, <1>4

LEMMA AckOffFacts ==
    ASSUME NEW a, a \subseteq Offsets
    PROVE  /\ AckOffOf(a) \in 0 .. MaxOff /\ AckOffOf(a) \notin a
           /\ \A x \in 0 .. MaxOff : x \notin a => AckOffOf(a) <= x
           /\ \A x \in Offsets : x < AckOffOf(a) => x \in a
<1> DEFINE S == {i \in 0 .. MaxOff : i \notin a}
<1>1. S \in SUBSET Nat /\ MaxOff \in S
  BY Bounds DEF Offsets
<1>2. SetMin(S) \in S /\ \A y \in S : SetMin(S) <= y
  BY <1>1, MinOf
<1>3. AckOffOf(a) \in S /\ \A y \in S : AckOffOf(a) <= y
  BY <1>2 DEF AckOffOf
<1>4. AckOffOf(a) \in 0 .. MaxOff /\ AckOffOf(a) \notin a
  BY <1>3
<1>5. \A x \in 0 .. MaxOff : x \notin a => AckOffOf(a) <= x
  BY <1>3
<1>6. ASSUME NEW x \in Offsets, x < AckOffOf(a) PROVE x \in a
  <2>1. x \in 0 .. MaxOff /\ x \in Int
    BY Bounds DEF Offsets
  <2> QED BY <1>4, <1>5, <1>6, <2>1, Bounds
<1> QED BY <1>4, <1>5, <1>6

(* Nothing below ack_off waits for the ack of a byte that was not sent.    *)
LEMMA AckOffSent ==
    ASSUME SInv
    PROVE  AckOff \in Nat /\ AckOff <= emit_off
<1>1. /\ acked \subseteq Offsets /\ emit_off \in 0 .. MaxOff /\ \A i \in acked : i < emit_off
  BY Facts
<1>2. emit_off \notin acked
  BY <1>1, Bounds
<1> QED BY <1>1, <1>2, AckOffFacts, Bounds DEF AckOff

LEMMA BufStep ==
    ASSUME NEW a \in Nat, off' \in Nat, Chain(data', a, off'), SentBefore(data', pos'),
           Bytes(0, off') \ acked' \subseteq Held(data')
    PROVE  BufInv' /\ Pending' = Unsent(data', 1)
<1>1. Front(data', off') = a
  BY ChainFront
<1>2. data' \in Seq(Buffers)
  BY DEF Chain
<1>3. Pending' = Unsent(data', 1)
  BY <1>2, PendingAll DEF Pending
<1>4. BufInv'
  BY <1>1 DEF BufInv
<1> QED BY <1>3, <1>4

----------------------------------------------------------------------------
(* One lemma per action: the step of the ledger it makes, and the buffers  *)
(* it leaves behind                                                        *)

LEMMA StreamSendStep ==
    ASSUME SInv, NEW n \in 0 .. MaxOff, NEW fin \in BOOLEAN, NEW size \in Nat \ {0},
           StreamSend(n, fin, size)
    PROVE  /\ Ledger!Next /\ OwnInv'
           /\ \E k \in Nat : /\ off + k <= MaxOff /\ len' = len + k
                            /\ Pending' = Pending \cup Bytes(off, off + k)
<1> DEFINE r == Reserved(n, fin)
           k == IF AckOff >= off + n THEN 0 ELSE r.len
<1>1. /\ off \in 0 .. MaxOff /\ emit_off \in 0 .. MaxOff /\ max_data \in 0 .. MaxOff
      /\ fin_off \in 0 .. MaxOff \cup {None} /\ None = -1
      /\ emit_off <= off /\ off <= max_data /\ (fin_off # None => fin_off = off)
  BY Facts
<1>2. /\ ~collected /\ ~WriteErr(n, r.fin) /\ off + n <= MaxOff
      /\ fin_off' = IF r.fin THEN off + n ELSE fin_off
      /\ data' = data \o Cut(k, size) /\ off' = off + k /\ len' = len + k
      /\ UNCHANGED <<pos, emit_off, max_data, acked, acked0, error, shutdown,
                     reset, recv_fin, collected, netVars>>
  BY DEF StreamSend
<1>3. flushable' \in BOOLEAN
  BY DEF StreamSend, Queued, SInv, OwnInv, FlagsOK
<1>4. /\ r.fin \in BOOLEAN /\ r.len \in Nat /\ off + r.len <= max_data /\ r.len <= n
      /\ r.fin => r.len = n
  <2>1. CASE n > max_data - off
    BY <1>1, <2>1, Bounds DEF Reserved
  <2>2. CASE ~(n > max_data - off)
    BY <1>1, <2>2, Bounds DEF Reserved
  <2> QED BY <2>1, <2>2
<1> HIDE DEF r
<1>5. AckOff \in Nat /\ AckOff <= off
  BY <1>1, AckOffSent, Bounds
<1>6. /\ k \in Nat /\ off + k <= max_data /\ k <= n /\ (r.fin => k = n)
  BY <1>1, <1>4, <1>5, Bounds
<1> HIDE DEF k
<1>7. fin_off # None => k = 0 /\ r.fin
  BY <1>1, <1>2, <1>4, <1>6, Bounds DEF WriteErr
<1>8. /\ off \in Nat /\ off + k <= MaxOff /\ off + k \in Nat
  BY <1>1, <1>6, Bounds
<1>9. /\ Chain(Cut(k, size), off, off + k)
      /\ Unsent(Cut(k, size), 1) = Bytes(off, off + k)
      /\ Held(Cut(k, size)) = Bytes(off, off + k)
  BY <1>6, <1>8, CutChain
<1>10. /\ Chain(data, Front(data, off), off) /\ SentBefore(data, pos)
       /\ Bytes(0, off) \ acked \subseteq Held(data)
       /\ Front(data, off) \in Nat /\ data \in Seq(Buffers)
       /\ Pending = Unsent(data, 1)
  BY Facts
<1>11. Chain(data', Front(data, off), off')
  BY <1>2, <1>8, <1>9, <1>10, ChainConcat
<1>12. Cut(k, size) \in Seq(Buffers)
  BY <1>9 DEF Chain
<1>13. /\ Unsent(data', 1) = Pending \cup Bytes(off, off + k)
       /\ Held(data') = Held(data) \cup Bytes(off, off + k)
  BY <1>2, <1>9, <1>10, <1>12, UnsentConcat
<1>14. SentBefore(data', pos')
  <2>1. Len(data) \in Nat /\ Len(Cut(k, size)) \in Nat
    BY <1>10, <1>12, LenProperties
  <2>2. /\ Len(data') = Len(data) + Len(Cut(k, size))
        /\ \A i \in 1 .. Len(data) : data'[i] = data[i]
    BY <1>2, <1>10, <1>12, <2>1, ConcatProperties
  <2>3. pos' \in 1 .. Len(data') + 1
    BY <1>2, <1>10, <2>1, <2>2 DEF SentBefore
  <2>4. ASSUME NEW i \in 1 .. Len(data'), i < pos' PROVE data'[i].cur = data'[i].end
    <3>1. i \in 1 .. Len(data) /\ i < pos
      BY <1>2, <1>10, <2>1, <2>2, <2>4 DEF SentBefore
    <3> QED BY <1>10, <2>2, <3>1 DEF SentBefore
  <2> QED BY <2>3, <2>4 DEF SentBefore
<1>15. Bytes(0, off') \ acked' \subseteq Held(data')
  <2>1. ASSUME NEW x \in Bytes(0, off + k), x \notin acked PROVE x \in Held(data')
    <3>1. x \in Bytes(0, off) \/ x \in Bytes(off, off + k)
      BY <1>8, InBytes
    <3> QED BY <1>10, <1>13, <2>1, <3>1
  <2> QED BY <1>2, <2>1
<1>16. BufInv' /\ Pending' = Pending \cup Bytes(off, off + k)
  BY <1>2, <1>8, <1>10, <1>11, <1>13, <1>14, <1>15, BufStep
<1>17. OwnInv'
  BY <1>2, <1>3, <1>16 DEF SInv, OwnInv, ResetInv, CollectInv, DeliveredInv, FlagsOK, WasReset, netVars
<1>18. Ledger!Write(k, r.fin)
  <2>1. fin_off = Ledger!None \/ (k = 0 /\ r.fin)
    BY <1>7, SameNames
  <2>2. fin_off' = IF r.fin THEN off + k ELSE fin_off
    BY <1>2, <1>6
  <2>3. Pending' = Pending \cup Ledger!Bytes(off, off + k)
    BY <1>16, SameNames
  <2> QED BY <1>2, <1>6, <2>1, <2>2, <2>3 DEF Ledger!Write, netVars, WasReset
<1>19. k \in 0 .. MaxOff
  BY <1>6, Bounds
<1>20. /\ k \in Nat /\ off + k <= MaxOff /\ len' = len + k
       /\ Pending' = Pending \cup Bytes(off, off + k)
  BY <1>2, <1>6, <1>8, <1>16
<1> QED BY <1>4, <1>17, <1>18, <1>19, <1>20 DEF Ledger!Next

(* emit takes the lowest bytes that are to be sent.                        *)
LEMMA EmitFacts ==
    ASSUME SInv, NEW n \in Nat
    PROVE  /\ EmitEnd(n) \in Nat /\ OffFront <= EmitEnd(n) /\ EmitEnd(n) <= off
           /\ Bytes(OffFront, EmitEnd(n)) \subseteq Pending
<1> DEFINE m == Lower(OffFront + n, off)
           S == {x \in OffFront .. m : x = m \/ x \notin Pending}
           z == SetMin(S)
<1>1. OffFront \in Nat /\ off \in Nat /\ OffFront <= off
  BY FrontFacts, Facts, Bounds
<1>2. m \in Nat /\ OffFront <= m /\ m <= off
  BY <1>1 DEF Lower
<1> HIDE DEF m
<1>3. S \in SUBSET Nat /\ m \in S
  BY <1>1, <1>2
<1>4. z \in S /\ \A y \in S : z <= y
  BY <1>3, MinOf
<1> HIDE DEF z
<1>5. z \in OffFront .. m /\ (z = m \/ z \notin Pending) /\ z \in Nat /\ z <= m
  BY <1>1, <1>2, <1>4
<1>6. ASSUME NEW x \in Bytes(OffFront, z) PROVE x \in Pending
  <2>1. x \in Int /\ OffFront <= x /\ x < z
    BY InBytes
  <2>2. x \in OffFront .. m
    BY <1>1, <1>2, <1>5, <2>1
  <2>3. x \notin S
    BY <1>4, <1>5, <2>1
  <2> QED BY <2>2, <2>3
<1>7. \E e \in OffFront .. m : /\ Bytes(OffFront, e) \subseteq Pending
                               /\ e = m \/ e \notin Pending
  BY <1>5, <1>6
<1>8. /\ EmitEnd(n) \in OffFront .. m
      /\ Bytes(OffFront, EmitEnd(n)) \subseteq Pending
  BY <1>7 DEF EmitEnd, m
<1> QED BY <1>1, <1>2, <1>8

LEMMA StreamFrameStep ==
    ASSUME SInv, NEW n \in 0 .. MaxOff, StreamFrame(n)
    PROVE  Ledger!Next /\ OwnInv' /\ Pending' = Pending \ Bytes(OffFront, EmitEnd(n))
<1> DEFINE o == OffFront
           e == EmitEnd(n)
           f == [off |-> o, end |-> e, fin |-> fin_off = e]
<1>1. /\ ~collected /\ FlightSize < MaxFlight
      /\ data' = [i \in 1 .. Len(data) |->
                       IF pos <= i /\ data[i].cur < e
                       THEN [data[i] EXCEPT !.cur = Lower(data[i].end, e)]
                       ELSE data[i]]
      /\ pos' = EmitPos(o, e)
      /\ emit_off' = Higher(emit_off, e)
      /\ inflight' = [inflight EXCEPT ![f] = @ + 1]
      /\ finals' = IF f.fin THEN finals \cup {e} ELSE finals
      /\ flushable' = IsFlushableOf(data', pos', off, max_data)
      /\ UNCHANGED <<off, max_data, fin_off, acked, acked0, error, shutdown,
                       reset, recv_fin, collected, lost, rflight, delivered>>
  BY DEF StreamFrame
<1>2. /\ o \in Nat /\ o <= emit_off
      /\ Pending = {} => o = off
      /\ Pending # {} => o \in Pending
      /\ \A x \in Pending : o <= x
  BY FrontFacts, Bounds
<1>3. e \in Nat /\ o <= e /\ e <= off /\ Bytes(o, e) \subseteq Pending
  BY EmitFacts, Bounds
<1>4. f.fin = (fin_off = e)
  OBVIOUS
<1> HIDE DEF o, e
<1>5. /\ off \in Nat /\ emit_off \in Nat /\ off <= MaxOff /\ emit_off <= off
      /\ Chain(data, Front(data, off), off) /\ SentBefore(data, pos)
      /\ Bytes(0, off) \ acked \subseteq Held(data)
      /\ Front(data, off) \in Nat /\ data \in Seq(Buffers)
      /\ Pending = Unsent(data, 1)
  BY Facts, Bounds
<1>6. Len(data) \in Nat /\ pos \in Nat /\ 1 <= pos /\ pos <= Len(data) + 1
  BY <1>5, LenProperties DEF SentBefore
<1>7. Len(data') = Len(data)
  BY <1>1, <1>6
<1>8. ASSUME NEW i \in 1 .. Len(data)
      PROVE  /\ BufferOK(data'[i]) /\ data'[i].off = data[i].off /\ data'[i].end = data[i].end
             /\ data[i].off \in Nat /\ data[i].cur \in Nat /\ data[i].end \in Nat
             /\ data[i].off <= data[i].cur /\ data[i].cur <= data[i].end
             /\ data'[i].cur = IF pos <= i /\ data[i].cur < e THEN Lower(data[i].end, e)
                               ELSE data[i].cur
  <2>1. /\ BufferOK(data[i]) /\ data[i].off \in Nat /\ data[i].cur \in Nat /\ data[i].end \in Nat
        /\ data[i].off <= data[i].cur /\ data[i].cur <= data[i].end
        /\ data[i].end <= MaxOff
    BY <1>5, ChainElement
  <2>2. CASE pos <= i /\ data[i].cur < e
    <3>1. data'[i] = [data[i] EXCEPT !.cur = Lower(data[i].end, e)]
      BY <1>1, <2>2
    <3>2. /\ Lower(data[i].end, e) \in Nat /\ Lower(data[i].end, e) <= data[i].end
          /\ data[i].cur <= Lower(data[i].end, e)
      BY <1>3, <2>1, <2>2 DEF Lower
    <3>3. data[i] \in Buffers /\ data[i].off < data[i].end
      BY <2>1 DEF BufferOK
    <3> QED BY <2>1, <2>2, <3>1, <3>2, <3>3, Bounds DEF BufferOK, Buffers
  <2>3. CASE ~(pos <= i /\ data[i].cur < e)
    <3>1. data'[i] = data[i]
      BY <1>1, <2>3
    <3> QED BY <2>1, <2>3, <3>1
  <2> QED BY <2>2, <2>3
<1>9. data' \in Seq(Buffers)
  <2>1. \A i \in 1 .. Len(data) : data'[i] \in Buffers
    BY <1>8 DEF BufferOK
  <2>2. data' = [i \in 1 .. Len(data) |-> data'[i]]
    BY <1>1
  <2>3. [i \in 1 .. Len(data) |-> data'[i]] \in Seq(Buffers)
    BY <1>6, <2>1
  <2> QED BY <2>2, <2>3
<1>10. Chain(data', Front(data, off), off)
  BY <1>5, <1>7, <1>8, <1>9, ChainSame
<1>11. Held(data') = Held(data)
  <2>1. \A x : x \in Held(data') <=> x \in Held(data)
    BY <1>7, <1>8, InHeld
  <2> QED BY <2>1
<1>12. Unsent(data', 1) = Pending \ Bytes(o, e)
  <2>1. ASSUME NEW x \in Unsent(data', 1) PROVE x \in Pending /\ x \notin Bytes(o, e)
    <3>1. PICK i \in 1 .. Len(data) : x \in Bytes(data'[i].cur, data'[i].end)
      BY <1>7, InUnsent
    <3>2. x \in Int /\ 0 <= x /\ x < MaxOff /\ data'[i].cur <= x /\ x < data[i].end
      BY <1>8, <3>1, InBytes
    <3>3. data[i].cur <= x /\ x >= e
      <4>1. CASE pos <= i /\ data[i].cur < e
        BY <1>3, <1>8, <3>2, <4>1 DEF Lower
      <4>2. CASE ~(pos <= i)
        <5>1. data[i].cur = data[i].end
          BY <1>5, <1>6, <4>2 DEF SentBefore
        <5> QED BY <1>8, <3>2, <4>2, <5>1
      <4>3. CASE pos <= i /\ ~(data[i].cur < e)
        BY <1>3, <1>8, <3>2, <4>3
      <4> QED BY <4>1, <4>2, <4>3
    <3>4. x \in Bytes(data[i].cur, data[i].end) /\ x \notin Bytes(o, e)
      BY <1>3, <3>2, <3>3, InBytes
    <3> QED BY <1>5, <3>4, InUnsent
  <2>2. ASSUME NEW x \in Pending, x \notin Bytes(o, e) PROVE x \in Unsent(data', 1)
    <3>1. PICK i \in 1 .. Len(data) : x \in Bytes(data[i].cur, data[i].end)
      BY <1>5, InUnsent
    <3>2. x \in Int /\ 0 <= x /\ x < MaxOff /\ data[i].cur <= x /\ x < data[i].end
      BY <3>1, InBytes
    <3>3. x >= e
      BY <1>2, <1>3, <2>2, <3>2, InBytes
    <3>4. data'[i].cur <= x
      BY <1>3, <1>8, <3>2, <3>3 DEF Lower
    <3>5. x \in Bytes(data'[i].cur, data'[i].end)
      BY <1>8, <3>2, <3>4, InBytes
    <3> QED BY <1>7, <3>5, InUnsent
  <2> QED BY <2>1, <2>2
<1>13. SentBefore(data', pos')
  <2>0. ASSUME NEW i \in 1 .. Len(data), i < pos PROVE data'[i].cur = data'[i].end
    <3>1. data[i].cur = data[i].end
      BY <1>5, <2>0 DEF SentBefore
    <3>2. ~(pos <= i)
      BY <1>6, <2>0
    <3> QED BY <1>8, <3>1, <3>2
  <2>1. CASE o = e
    <3>1. pos' = pos
      BY <1>1, <2>1 DEF EmitPos
    <3> QED BY <1>6, <1>7, <2>0, <3>1 DEF SentBefore
  <2>2. CASE o < e
    <3> DEFINE L(i) == data[i].off < e /\ e <= data[i].end
               last == CHOOSE i \in pos .. Len(data) : L(i)
    <3>1. e - 1 \in Pending
      <4>1. e - 1 \in Int /\ 0 <= e - 1 /\ e - 1 < MaxOff /\ o <= e - 1 /\ e - 1 < e
        BY <1>2, <1>3, <1>5, <2>2, Bounds
      <4> QED BY <1>3, <4>1, InBytes
    <3>2. PICK k \in pos .. Len(data) : e - 1 \in Bytes(data[k].cur, data[k].end)
      BY <3>1, InUnsent DEF Pending
    <3>3. k \in 1 .. Len(data)
      BY <1>6
    <3>4. L(k)
      <4>1. data[k].cur <= e - 1 /\ e - 1 < data[k].end
        BY <3>2, InBytes
      <4> QED BY <1>3, <1>8, <3>3, <4>1
    <3>5. last \in pos .. Len(data) /\ L(last)
      BY <3>4
    <3>6. pos' = IF e = data[last].end THEN last + 1 ELSE last
      BY <1>1, <1>3, <2>2 DEF EmitPos
    <3> HIDE DEF last
    <3>7. last \in 1 .. Len(data) /\ last \in Nat
      BY <1>6, <3>5
    <3>8. pos' \in 1 .. Len(data') + 1
      BY <1>6, <1>7, <3>6, <3>7
    <3>9. ASSUME NEW i \in 1 .. Len(data), i < pos' PROVE data'[i].cur = data'[i].end
      <4>1. CASE i < pos
        BY <2>0, <4>1
      <4>2. CASE pos <= i /\ i < last
        <5>1. data[i].end <= data[last].off
          BY <1>5, <3>7, <4>2, ChainOrder
        <5>2. data[last].off \in Nat /\ data[last].off < e
          BY <1>8, <3>5, <3>7
        <5>3. data[i].cur < e /\ data[i].end < e
          BY <1>3, <1>8, <5>1, <5>2
        <5> QED BY <1>3, <1>8, <4>2, <5>3 DEF Lower
      <4>3. CASE i = last /\ e = data[last].end
        <5>1. data[i].cur <= e /\ data[i].end = e /\ pos <= i
          BY <1>6, <1>8, <3>5, <4>3
        <5> QED BY <1>3, <1>8, <5>1 DEF Lower
      <4> QED BY <1>6, <3>6, <3>7, <3>9, <4>1, <4>2, <4>3
    <3> QED BY <1>7, <3>8, <3>9 DEF SentBefore
  <2> QED BY <1>2, <1>3, <2>1, <2>2
<1>14. BufInv' /\ Pending' = Pending \ Bytes(o, e)
  BY <1>1, <1>5, <1>10, <1>11, <1>12, <1>13, BufStep
<1>15. WasReset => emit_off' = emit_off
  <2> SUFFICES ASSUME WasReset PROVE emit_off' = emit_off
    OBVIOUS
  <2>1. fin_off = emit_off /\ fin_off = off
    BY <1>5, Facts
  <2> QED BY <1>1, <1>3, <1>5, <2>1 DEF Higher
<1>16. flushable' \in BOOLEAN
  BY <1>1 DEF IsFlushableOf
<1>17. OwnInv'
  <2>1. ResetInv'
    BY <1>1, <1>15 DEF SInv, OwnInv, ResetInv, WasReset
  <2> QED BY <1>1, <1>14, <1>16, <2>1 DEF SInv, OwnInv, CollectInv, DeliveredInv, FlagsOK, WasReset
<1>18. Ledger!Emit(o, e)
  <2>1. emit_off' = IF emit_off < e THEN e ELSE emit_off
    BY <1>1 DEF Higher
  <2>2. o \in Pending \/ (Pending = {} /\ o = off)
    BY <1>2
  <2>3. finals' = IF fin_off = e THEN finals \cup {e} ELSE finals
    BY <1>1, <1>4
  <2>4. /\ Pending' = Pending \ Ledger!Bytes(o, e) /\ Ledger!Bytes(o, e) \subseteq Pending
        /\ Ledger!FlightSize < MaxFlight
    BY <1>1, <1>3, <1>14, SameNames, SameSize
  <2> QED BY <1>1, <1>2, <1>3, <2>1, <2>2, <2>3, <2>4 DEF Ledger!Emit, WasReset
<1>19. o \in 0 .. MaxOff /\ e \in 0 .. MaxOff
  BY <1>2, <1>3, <1>5, Bounds
<1> QED BY <1>14, <1>17, <1>18, <1>19 DEF Ledger!Next, o, e

(* The buffers that ack_and_drop counts are the first ones.                *)
LEMMA DroppedFacts ==
    ASSUME SInv, NEW a, a \subseteq Offsets, NEW f
    PROVE  /\ Dropped(f, a) \in 0 .. Len(data)
           /\ \A i \in 1 .. Len(data) : i <= Dropped(f, a) => data[i].end <= AckOffOf(a)
<1> DEFINE A == AckOffOf(a)
           S == {i \in 1 .. Len(data) : data[i].off < A /\ data[i].end <= A}
           T == {i \in 1 .. Len(data) + 1 : i \notin S}
           z == SetMin(T)
<1>1. Len(data) \in Nat /\ Chain(data, Front(data, off), off)
  BY Facts, LenProperties
<1>2. A \in Nat
  BY AckOffFacts, Bounds
<1> HIDE DEF A
<1>3. T \in SUBSET Nat /\ Len(data) + 1 \in T
  BY <1>1
<1>4. z \in T /\ \A y \in T : z <= y
  BY <1>3, MinOf
<1> HIDE DEF z
<1>5. z \in 1 .. Len(data) + 1 /\ z \notin S /\ z \in Nat
  BY <1>1, <1>4
<1>6. ASSUME NEW i \in 1 .. Len(data), i < z PROVE i \in S
  <2>1. i \in 1 .. Len(data) + 1 /\ ~(z <= i)
    BY <1>1, <1>5, <1>6
  <2> QED BY <1>4, <2>1
<1>7. ASSUME NEW i \in S PROVE i < z
  <2>1. i \in 1 .. Len(data) /\ data[i].off < A /\ data[i].end <= A /\ i # z
    BY <1>5
  <2>2. SUFFICES ASSUME z < i PROVE FALSE
    BY <1>5, <2>1
  <2>3. z \in 1 .. Len(data)
    BY <1>1, <1>5, <2>1, <2>2
  <2>4. /\ data[z].end <= data[i].off
        /\ data[z].end \in Nat /\ data[z].off \in Nat /\ data[z].off < data[z].end
        /\ data[i].off \in Nat
    BY <1>1, <2>1, <2>2, <2>3, ChainOrder, ChainElement
  <2>5. data[z].off < A /\ data[z].end <= A
    BY <1>2, <2>1, <2>4
  <2> QED BY <1>5, <2>3, <2>5
<1>8. S = 1 .. z - 1
  <2>1. ASSUME NEW i \in S PROVE i \in 1 .. z - 1
    BY <1>5, <1>7
  <2>2. ASSUME NEW i \in 1 .. z - 1 PROVE i \in S
    BY <1>1, <1>5, <1>6
  <2> QED BY <2>1, <2>2
<1>9. Cardinality(S) = z - 1
  <2>1. PICK b \in Int : b = z - 1
    BY <1>5
  <2>2. Cardinality(1 .. b) = IF 1 > b THEN 0 ELSE b - 1 + 1
    BY FS_Interval
  <2>3. S = 1 .. b
    BY <1>8, <2>1
  <2> HIDE DEF S
  <2>4. Cardinality(S) = IF 1 > b THEN 0 ELSE b - 1 + 1
    BY <2>2, <2>3
  <2> QED BY <1>5, <2>1, <2>4
<1>10. Dropped(f, a) = IF f.off > A THEN 0 ELSE Cardinality(S)
  BY DEF Dropped, A
<1>11. Dropped(f, a) \in {0, z - 1}
  BY <1>9, <1>10
<1>12. Dropped(f, a) \in 0 .. Len(data)
  BY <1>1, <1>5, <1>11
<1>13. ASSUME NEW i \in 1 .. Len(data), i <= Dropped(f, a) PROVE data[i].end <= A
  <2>1. i < z
    BY <1>1, <1>5, <1>11, <1>13
  <2> QED BY <1>6, <2>1
<1> QED BY <1>12, <1>13 DEF A

LEMMA AckStreamStep ==
    ASSUME SInv, NEW f \in Flying, AckStream(f)
    PROVE  Ledger!Next /\ OwnInv' /\ Pending' \subseteq Pending /\ (data = <<>> => data' = <<>>)
<1> DEFINE D == Dropped(f, acked')
           A == AckOffOf(acked')
<1>1. /\ ~collected /\ inflight[f] > 0 /\ inflight' = [inflight EXCEPT ![f] = @ - 1]
      /\ delivered' = delivered \cup Bytes(f.off, f.end)
      /\ acked' = acked \cup Bytes(f.off, f.end)
      /\ acked0' = (acked0 \/ f.off = 0)
      /\ data' = SubSeq(data, D + 1, Len(data)) /\ pos' = PosAfterDrop(D)
      /\ UNCHANGED <<lost, rflight, finals>>
      /\ UNCHANGED <<off, emit_off, len, max_data, fin_off, error, shutdown, reset, recv_fin>>
  BY DEF AckStream, AckFrame
<1>2. IF IsComplete' /\ recv_fin THEN Collect ELSE UNCHANGED <<collected, flushable>>
  BY DEF AckStream
<1>3. /\ off \in Nat /\ acked \subseteq Offsets
      /\ Chain(data, Front(data, off), off) /\ SentBefore(data, pos)
      /\ Bytes(0, off) \ acked \subseteq Held(data)
      /\ Front(data, off) \in Nat /\ data \in Seq(Buffers)
      /\ Pending = Unsent(data, 1)
  BY Facts, Bounds
<1>4. acked' \subseteq Offsets
  BY <1>1, <1>3 DEF Bytes
<1>5. /\ D \in 0 .. Len(data)
      /\ \A i \in 1 .. Len(data) : i <= D => data[i].end <= A
  BY <1>4, DroppedFacts
<1>6. /\ A \in Nat /\ \A x \in Offsets : x < A => x \in acked'
  BY <1>4, AckOffFacts, Bounds
<1> HIDE DEF D, A
<1>7. Len(data) \in Nat /\ D \in Nat /\ D <= Len(data)
  BY <1>3, <1>5, LenProperties
<1> DEFINE s == IF D = Len(data) THEN off ELSE data[D + 1].off
<1>8. /\ Len(data') = Len(data) - D
      /\ \A i \in 1 .. Len(data') : i + D \in 1 .. Len(data) /\ data'[i] = data[i + D]
      /\ Chain(data', s, off)
  BY <1>1, <1>3, <1>5, ChainSuffix
<1>9. s \in Nat
  <2>1. CASE D = Len(data)
    BY <1>3, <2>1
  <2>2. CASE D < Len(data)
    <3>1. D + 1 \in 1 .. Len(data)
      BY <1>7, <2>2
    <3>2. data[D + 1].off \in Nat
      BY <1>3, <3>1, ChainElement
    <3> QED BY <1>7, <2>2, <3>2
  <2> QED BY <1>7, <2>1, <2>2
<1> HIDE DEF s
<1>10. SentBefore(data', pos')
  <2>1. /\ pos \in Nat /\ 1 <= pos /\ pos <= Len(data) + 1
    BY <1>3, <1>7 DEF SentBefore
  <2>2. pos' = IF 1 < pos - D THEN pos - D ELSE 1
    BY <1>1 DEF PosAfterDrop, Higher
  <2>3. pos' \in 1 .. Len(data') + 1
    BY <1>7, <1>8, <2>1, <2>2
  <2>4. ASSUME NEW i \in 1 .. Len(data'), i < pos' PROVE data'[i].cur = data'[i].end
    <3>1. i + D < pos
      BY <1>7, <2>1, <2>2, <2>4
    <3> QED BY <1>3, <1>8, <3>1 DEF SentBefore
  <2> QED BY <2>3, <2>4 DEF SentBefore
<1>11. ASSUME NEW i \in 1 .. Len(data), NEW x \in Offsets, x \notin acked', x < data[i].end
       PROVE  i - D \in 1 .. Len(data') /\ data'[i - D] = data[i]
  <2>1. data[i].end \in Nat /\ x \in Int
    BY <1>3, ChainElement, Bounds DEF Offsets
  <2>2. ~(i <= D)
    BY <1>5, <1>6, <1>11, <2>1
  <2>3. i - D \in 1 .. Len(data') /\ (i - D) + D = i
    BY <1>7, <1>8, <2>2
  <2> QED BY <1>8, <2>3
<1>12. Bytes(0, off') \ acked' \subseteq Held(data')
  <2>1. ASSUME NEW x \in Bytes(0, off), x \notin acked' PROVE x \in Held(data')
    <3>1. x \in Held(data) /\ x \in Offsets
      BY <1>1, <1>3, <2>1 DEF Bytes
    <3>2. PICK i \in 1 .. Len(data) : x \in Bytes(data[i].off, data[i].end)
      BY <3>1, InHeld
    <3>3. x < data[i].end
      BY <3>2, InBytes
    <3> QED BY <1>11, <2>1, <3>1, <3>2, <3>3, InHeld
  <2> QED BY <1>1, <2>1
<1>13. BufInv' /\ Pending' = Unsent(data', 1)
  BY <1>1, <1>3, <1>8, <1>9, <1>10, <1>12, BufStep
<1>14. ASSUME NEW x \in Pending' PROVE x \in Pending
  <2>1. PICK i \in 1 .. Len(data') : x \in Bytes(data'[i].cur, data'[i].end)
    BY <1>13, InUnsent
  <2> QED BY <1>3, <1>8, <2>1, InUnsent
<1>15. ASSUME NEW x \in Pending, x \notin acked' PROVE x \in Pending'
  <2>1. PICK i \in 1 .. Len(data) : x \in Bytes(data[i].cur, data[i].end)
    BY <1>3, InUnsent
  <2>2. x \in Offsets /\ x < data[i].end
    BY <2>1 DEF Bytes
  <2> QED BY <1>11, <1>13, <1>15, <2>1, <2>2, InUnsent
<1>16. data = <<>> => data' = <<>>
  <2>1. data = <<>> => Len(data') = 0
    BY <1>7, <1>8
  <2>2. data' \in Seq(Buffers)
    BY <1>8 DEF Chain
  <2> QED BY <2>1, <2>2, EmptySeq
<1>17. OwnInv'
  <2>1. ResetInv'
    BY <1>1 DEF SInv, OwnInv, ResetInv, WasReset
  <2>2. CollectInv'
    <3>1. CASE IsComplete' /\ recv_fin
      BY <3>1 DEF CollectInv, IsComplete
    <3>2. CASE ~(IsComplete' /\ recv_fin)
      BY <1>1, <1>2, <3>2 DEF CollectInv
    <3> QED BY <3>1, <3>2
  <2>3. DeliveredInv'
    BY <1>1 DEF SInv, OwnInv, DeliveredInv, WasReset
  <2>4. collected' \in BOOLEAN /\ flushable' \in BOOLEAN
    BY <1>2 DEF Collect, SInv, OwnInv, FlagsOK
  <2>5. FlagsOK'
    BY <1>1, <2>4 DEF SInv, OwnInv, FlagsOK
  <2> QED BY <1>13, <2>1, <2>2, <2>3, <2>5 DEF OwnInv
<1>18. Ledger!Ack(f)
  <2>1. /\ Pending' \in SUBSET Pending /\ Pending \ acked' \subseteq Pending'
    BY <1>14, <1>15
  <2>2. acked' = acked \cup Ledger!Bytes(f.off, f.end)
    BY <1>1, SameNames
  <2> QED BY <1>1, <2>1, <2>2 DEF Ledger!Ack, WasReset
<1>19. f \in Ledger!Frames
  BY SameNames DEF Flying
<1> QED BY <1>14, <1>16, <1>17, <1>18, <1>19 DEF Ledger!Next

----------------------------------------------------------------------------
(* Retransmission                                                          *)

(* A rewound buffer has more to send, and nothing below the frame.         *)
LEMMA RewoundFacts ==
    ASSUME NEW b, BufferOK(b), NEW f \in Frames, Reached(b, f)
    PROVE  LET c == Rewound(b, f) IN
           /\ BufferOK(c) /\ c.off = b.off /\ c.end = b.end
           /\ c.cur <= b.cur
           /\ \A x \in Int : c.cur <= x /\ x < b.cur => f.off <= x
           /\ \A x \in Int : f.off <= x /\ b.off <= x => c.cur <= x
<1> DEFINE c == Rewound(b, f)
           v == IF f.off > b.off THEN Lower(b.cur, f.off) ELSE b.off
<1>1. /\ b.off \in Nat /\ b.cur \in Nat /\ b.end \in Nat
      /\ b.off <= b.cur /\ b.cur <= b.end /\ b.off < b.end /\ b.end <= MaxOff
      /\ b \in Buffers
  BY BufferNumbers DEF BufferOK
<1>2. f.off \in Nat /\ f.off <= b.end
  BY Bounds DEF Frames, Reached
<1>3. /\ v \in Nat /\ b.off <= v /\ v <= b.cur
      /\ \A x \in Int : v <= x /\ x < b.cur => f.off <= x
      /\ \A x \in Int : f.off <= x /\ b.off <= x => v <= x
  BY <1>1, <1>2 DEF Lower
<1> HIDE DEF v
<1>4. c = [b EXCEPT !.cur = v]
  BY DEF Rewound, v
<1>5. c \in Buffers /\ c.off = b.off /\ c.end = b.end /\ c.cur = v
  BY <1>1, <1>3, <1>4, Bounds DEF Buffers
<1> HIDE DEF c
<1>6. BufferOK(c)
  BY <1>1, <1>3, <1>5 DEF BufferOK
<1> QED BY <1>3, <1>5, <1>6 DEF c

(* split_off                                                               *)
LEMMA SplitFacts ==
    ASSUME NEW b, BufferOK(b), NEW e \in Nat, b.off < e, e < b.end
    PROVE  LET h == HeadUpTo(b, e)
               t == TailFrom(b, e)
           IN  /\ BufferOK(h) /\ h.off = b.off /\ h.end = e /\ h.cur = Lower(b.cur, e)
               /\ BufferOK(t) /\ t.off = e /\ t.end = b.end /\ t.cur = Higher(b.cur, e)
<1> DEFINE h == HeadUpTo(b, e)
           t == TailFrom(b, e)
<1>1. /\ b.off \in Nat /\ b.cur \in Nat /\ b.end \in Nat
      /\ b.off <= b.cur /\ b.cur <= b.end /\ b.end <= MaxOff /\ b \in Buffers
  BY BufferNumbers DEF BufferOK
<1>2. PICK l \in Nat : l = Lower(b.cur, e) /\ b.off <= l /\ l <= e
  BY <1>1 DEF Lower
<1>3. PICK g \in Nat : g = Higher(b.cur, e) /\ e <= g /\ g <= b.end
  BY <1>1 DEF Higher
<1>4. h \in Buffers /\ h.off = b.off /\ h.end = e /\ h.cur = l
  <2>1. h = [b EXCEPT !.end = e, !.cur = l]
    BY <1>2 DEF HeadUpTo
  <2>2. e \in 0 .. MaxOff /\ l \in 0 .. MaxOff
    BY <1>1, <1>2, Bounds
  <2> QED BY <1>1, <2>1, <2>2 DEF Buffers
<1>5. t \in Buffers /\ t.off = e /\ t.end = b.end /\ t.cur = g
  <2>1. t = [b EXCEPT !.off = e, !.cur = g]
    BY <1>3 DEF TailFrom
  <2>2. e \in 0 .. MaxOff /\ g \in 0 .. MaxOff
    BY <1>1, <1>3, Bounds
  <2> QED BY <1>1, <2>1, <2>2 DEF Buffers
<1> HIDE DEF h, t
<1>6. BufferOK(h) /\ BufferOK(t)
  BY <1>1, <1>2, <1>3, <1>4, <1>5 DEF BufferOK
<1> QED BY <1>2, <1>3, <1>4, <1>5, <1>6 DEF h, t

LEMMA ChainOfTwo ==
    ASSUME NEW h, NEW t, BufferOK(h), BufferOK(t), h.end = t.off
    PROVE  /\ Chain(<<h, t>>, h.off, t.end)
           /\ Unsent(<<h, t>>, 1) = Bytes(h.cur, h.end) \cup Bytes(t.cur, t.end)
           /\ Held(<<h, t>>) = Bytes(h.off, h.end) \cup Bytes(t.off, t.end)
<1> DEFINE d == <<h, t>>
<1>1. Len(d) = 2 /\ d[1] = h /\ d[2] = t /\ 1 .. Len(d) = {1, 2}
  OBVIOUS
<1>2. d \in Seq(Buffers)
  BY DEF BufferOK
<1> HIDE DEF d
<1>3. /\ h.off \in Nat /\ h.end \in Nat /\ h.off < h.end
      /\ t.off \in Nat /\ t.end \in Nat /\ t.off < t.end
  BY BufferNumbers
<1>4. \A i \in 1 .. Len(d) : BufferOK(d[i]) /\ h.off <= d[i].off /\ d[i].end <= t.end
  BY <1>1, <1>3
<1>5. \A i, j \in 1 .. Len(d) : i < j => d[i].end <= d[j].off
  BY <1>1, <1>3
<1>6. \A i \in 1 .. Len(d) - 1 : d[i].end = d[i + 1].off
  BY <1>1
<1>7. Chain(d, h.off, t.end)
  BY <1>1, <1>2, <1>4, <1>5, <1>6 DEF Chain
<1>8. \A x : x \in Unsent(d, 1) <=> x \in Bytes(h.cur, h.end) \/ x \in Bytes(t.cur, t.end)
  BY <1>1, InUnsent
<1>9. \A x : x \in Held(d) <=> x \in Bytes(h.off, h.end) \/ x \in Bytes(t.off, t.end)
  BY <1>1, InHeld
<1>10. /\ Unsent(d, 1) = Bytes(h.cur, h.end) \cup Bytes(t.cur, t.end)
       /\ Held(d) = Bytes(h.off, h.end) \cup Bytes(t.off, t.end)
  BY <1>8, <1>9
<1> QED BY <1>7, <1>10 DEF d

(* The buffers that retransmit reaches, rewound in place.                  *)
Again(f) == [i \in 1 .. Len(data) |->
                IF Reached(data[i], f) THEN Rewound(data[i], f) ELSE data[i]]

LEMMA AgainFacts ==
    ASSUME SInv, NEW f \in Frames
    PROVE  /\ Len(Again(f)) = Len(data)
           /\ Chain(Again(f), Front(data, off), off)
           /\ \A i \in 1 .. Len(data) :
                  LET c == Again(f)[i]
                      b == data[i]
                  IN  /\ c.off = b.off /\ c.end = b.end /\ c.cur \in Nat /\ c.cur <= b.cur
                      /\ ~Reached(b, f) => c = b
                      /\ \A x \in Int : c.cur <= x /\ x < b.cur => f.off <= x
                      /\ \A x \in Int : f.off <= x /\ b.off <= x /\ Reached(b, f) => c.cur <= x
<1> DEFINE d == Again(f)
<1>1. /\ Chain(data, Front(data, off), off) /\ off \in Nat
      /\ Front(data, off) \in Nat /\ data \in Seq(Buffers) /\ Len(data) \in Nat
  BY Facts, Bounds, LenProperties
<1>2. ASSUME NEW i \in 1 .. Len(data)
      PROVE  /\ BufferOK(d[i]) /\ d[i].off = data[i].off /\ d[i].end = data[i].end
             /\ d[i].cur \in Nat /\ d[i].cur <= data[i].cur
             /\ ~Reached(data[i], f) => d[i] = data[i]
             /\ \A x \in Int : d[i].cur <= x /\ x < data[i].cur => f.off <= x
             /\ \A x \in Int : f.off <= x /\ data[i].off <= x /\ Reached(data[i], f) => d[i].cur <= x
  <2>1. BufferOK(data[i]) /\ data[i].cur \in Nat
    BY <1>1, ChainElement
  <2>2. CASE Reached(data[i], f)
    <3>1. d[i] = Rewound(data[i], f)
      BY <2>2 DEF Again
    <3> HIDE DEF d
    <3>2. /\ BufferOK(d[i]) /\ d[i].off = data[i].off /\ d[i].end = data[i].end
          /\ d[i].cur <= data[i].cur
          /\ \A x \in Int : d[i].cur <= x /\ x < data[i].cur => f.off <= x
          /\ \A x \in Int : f.off <= x /\ data[i].off <= x => d[i].cur <= x
      BY <2>1, <2>2, <3>1, RewoundFacts
    <3>3. d[i].cur \in Nat
      BY <3>2, BufferNumbers
    <3> QED BY <2>2, <3>2, <3>3
  <2>3. CASE ~Reached(data[i], f)
    <3>1. d[i] = data[i]
      BY <2>3 DEF Again
    <3> HIDE DEF d
    <3> QED BY <2>1, <2>3, <3>1
  <2> QED BY <2>2, <2>3
<1>3. Len(d) = Len(data) /\ d = [i \in 1 .. Len(data) |-> d[i]]
  BY <1>1 DEF Again
<1> HIDE DEF d
<1>4. d \in Seq(Buffers)
  <2>1. \A i \in 1 .. Len(data) : d[i] \in Buffers
    BY <1>2 DEF BufferOK
  <2>2. [i \in 1 .. Len(data) |-> d[i]] \in Seq(Buffers)
    BY <1>1, <2>1
  <2> QED BY <1>3, <2>2
<1>5. Chain(d, Front(data, off), off)
  BY <1>1, <1>2, <1>3, <1>4, ChainSame
<1> QED BY <1>2, <1>3, <1>5 DEF d

(* No reached buffer goes beyond the frame: all of them are sent again from *)
(* the frame's offset on.                                                   *)
LEMMA WholeFacts ==
    ASSUME SInv, NEW f \in Frames, SplitAt(f) = {}
    PROVE  /\ Held(data) \subseteq Held(Again(f))
           /\ Unsent(data, 1) \subseteq Unsent(Again(f), 1)
           /\ Unsent(Again(f), 1) \subseteq Unsent(data, 1) \cup Bytes(f.off, f.end)
           /\ Held(data) \cap Bytes(f.off, f.end) \subseteq Unsent(Again(f), 1)
<1> DEFINE d == Again(f)
<1>1. /\ Len(d) = Len(data)
      /\ \A i \in 1 .. Len(data) :
             /\ d[i].off = data[i].off /\ d[i].end = data[i].end
             /\ d[i].cur \in Nat /\ d[i].cur <= data[i].cur
             /\ ~Reached(data[i], f) => d[i] = data[i]
             /\ \A x \in Int : d[i].cur <= x /\ x < data[i].cur => f.off <= x
             /\ \A x \in Int : f.off <= x /\ data[i].off <= x /\ Reached(data[i], f)
                                   => d[i].cur <= x
  BY AgainFacts
<1> HIDE DEF d
<1>2. \A i \in 1 .. Len(data) :
          data[i].off \in Nat /\ data[i].cur \in Nat /\ data[i].end \in Nat
  BY Facts, ChainElement
<1>3. f.off \in Nat /\ f.end \in Nat
  BY Bounds DEF Frames
<1>4. ASSUME NEW x \in Held(data) PROVE x \in Held(d)
  <2>1. PICK i \in 1 .. Len(data) : x \in Bytes(data[i].off, data[i].end)
    BY InHeld
  <2> QED BY <1>1, <2>1, InHeld
<1>5. ASSUME NEW x \in Unsent(data, 1) PROVE x \in Unsent(d, 1)
  <2>1. PICK i \in 1 .. Len(data) : x \in Bytes(data[i].cur, data[i].end)
    BY InUnsent
  <2>2. d[i].cur \in Nat /\ d[i].cur <= data[i].cur /\ d[i].end = data[i].end
    BY <1>1
  <2>3. x \in Bytes(d[i].cur, d[i].end)
    BY <1>2, <2>1, <2>2, InBytes
  <2> QED BY <1>1, <2>3, InUnsent
<1>6. ASSUME NEW x \in Unsent(d, 1), x \notin Unsent(data, 1) PROVE x \in Bytes(f.off, f.end)
  <2>1. PICK i \in 1 .. Len(data) : x \in Bytes(d[i].cur, d[i].end)
    BY <1>1, InUnsent
  <2>2. x \notin Bytes(data[i].cur, data[i].end)
    BY <1>6, InUnsent
  <2>3. x \in Int /\ 0 <= x /\ x < MaxOff /\ d[i].cur <= x /\ x < data[i].end
    BY <1>1, <2>1, InBytes
  <2>4. x < data[i].cur
    BY <1>2, <2>2, <2>3, InBytes
  <2>5. d[i] # data[i]
    BY <1>2, <2>3, <2>4
  <2>6. f.off <= x /\ Reached(data[i], f)
    BY <1>1, <2>3, <2>4, <2>5
  <2>7. ~(f.end < data[i].end)
    BY <2>6 DEF SplitAt
  <2>8. x < f.end
    BY <1>2, <1>3, <2>3, <2>7
  <2> QED BY <2>3, <2>6, <2>8, InBytes
<1>7. ASSUME NEW x \in Held(data), x \in Bytes(f.off, f.end) PROVE x \in Unsent(d, 1)
  <2>1. PICK i \in 1 .. Len(data) : x \in Bytes(data[i].off, data[i].end)
    BY InHeld
  <2>2. /\ x \in Int /\ 0 <= x /\ x < MaxOff /\ data[i].off <= x /\ x < data[i].end
        /\ f.off <= x /\ x < f.end
    BY <1>7, <2>1, InBytes
  <2>3. Reached(data[i], f)
    BY <1>2, <1>3, <2>2 DEF Reached
  <2>4. d[i].cur <= x /\ d[i].end = data[i].end
    BY <1>1, <2>2, <2>3
  <2>5. x \in Bytes(d[i].cur, d[i].end)
    BY <2>2, <2>4, InBytes
  <2> QED BY <1>1, <2>5, InUnsent
<1> QED BY <1>4, <1>5, <1>6, <1>7 DEF d

(* A buffer goes beyond the frame: it is split, and its tail and the       *)
(* buffers after it are left alone.                                        *)
Pieces(f, i) ==
    [before |-> SubSeq(Again(f), 1, i - 1),
     split |-> <<Rewound(HeadUpTo(data[i], f.end), f), TailFrom(data[i], f.end)>>,
     after |-> SubSeq(data, i + 1, Len(data))]

LEMMA SplitChain ==
    ASSUME SInv, NEW f \in Frames, NEW i \in SplitAt(f)
    PROVE  LET P == Pieces(f, i).before
               H == Pieces(f, i).split
               B == Pieces(f, i).after
           IN  /\ P \in Seq(Buffers) /\ H \in Seq(Buffers) /\ B \in Seq(Buffers)
               /\ Chain((P \o H) \o B, Front(data, off), off)
               /\ Len(P) = i - 1 /\ Len(H) = 2 /\ Len(B) = Len(data) - i
               /\ \A j \in 1 .. Len(P) : j \in 1 .. Len(data) /\ P[j] = Again(f)[j]
               /\ \A j \in 1 .. Len(B) : i + j \in 1 .. Len(data) /\ B[j] = data[i + j]
<1> DEFINE P == Pieces(f, i).before
           H == Pieces(f, i).split
           B == Pieces(f, i).after
           A == Again(f)
           b == data[i]
           h == Rewound(HeadUpTo(b, f.end), f)
           t == TailFrom(b, f.end)
<1>1. /\ Chain(data, Front(data, off), off) /\ off \in Nat
      /\ Front(data, off) \in Nat /\ data \in Seq(Buffers) /\ Len(data) \in Nat
  BY Facts, Bounds, LenProperties
<1>2. i \in 1 .. Len(data) /\ Reached(b, f) /\ f.end < b.end /\ i \in Nat
  BY <1>1 DEF SplitAt
<1>3. f.off \in Nat /\ f.end \in Nat /\ f.off <= f.end
  BY Bounds DEF Frames
<1>4. BufferOK(b) /\ b.off \in Nat /\ b.end \in Nat /\ b.off < f.end
  BY <1>1, <1>2, ChainElement DEF Reached
<1>5. P = SubSeq(A, 1, i - 1) /\ H = <<h, t>> /\ B = SubSeq(data, i + 1, Len(data))
  BY DEF Pieces
<1> HIDE DEF P, H, B
<1>6. Len(A) = Len(data) /\ Chain(A, Front(data, off), off) /\ A[i].off = b.off
  BY <1>2, AgainFacts
<1> HIDE DEF A
<1>7. PICK k \in 0 .. Len(data) : k = i - 1 /\ k # Len(data) /\ k + 1 = i
  BY <1>1, <1>2
<1>8. /\ Len(P) = i - 1
      /\ \A j \in 1 .. Len(P) : j \in 1 .. Len(data) /\ P[j] = A[j]
      /\ Chain(P, Front(data, off), b.off)
  <2>1. P = SubSeq(A, 1, k)
    BY <1>5, <1>7
  <2>2. /\ Len(P) = k
        /\ \A j \in 1 .. Len(P) : j \in 1 .. Len(A) /\ P[j] = A[j]
        /\ Chain(P, Front(data, off), IF k = Len(A) THEN off ELSE A[k + 1].off)
    BY <1>1, <1>6, <2>1, ChainPrefix
  <2>3. (IF k = Len(A) THEN off ELSE A[k + 1].off) = b.off
    BY <1>6, <1>7
  <2> QED BY <1>6, <1>7, <2>2, <2>3
<1>9. /\ Len(B) = Len(data) - i
      /\ \A j \in 1 .. Len(B) : i + j \in 1 .. Len(data) /\ B[j] = data[i + j]
      /\ Chain(B, b.end, off)
  <2>1. PICK l \in 0 .. Len(data) : l = i
    BY <1>1, <1>2
  <2>2. /\ Len(B) = Len(data) - l
        /\ \A j \in 1 .. Len(B) : j + l \in 1 .. Len(data) /\ B[j] = data[j + l]
        /\ Chain(B, IF l = Len(data) THEN off ELSE data[l + 1].off, off)
    BY <1>1, <1>5, <2>1, ChainSuffix
  <2>3. (IF l = Len(data) THEN off ELSE data[l + 1].off) = b.end
    <3>1. CASE i = Len(data)
      BY <1>1, <1>2, <2>1, <3>1 DEF Chain
    <3>2. CASE i < Len(data)
      <4>1. i \in 1 .. Len(data) - 1
        BY <1>1, <1>2, <3>2
      <4>2. b.end = data[i + 1].off
        BY <1>1, <4>1 DEF Chain
      <4> QED BY <1>2, <2>1, <3>2, <4>2
    <3> QED BY <1>1, <1>2, <3>1, <3>2
  <2>4. \A j \in 1 .. Len(B) : i + j = j + l
    BY <1>2, <2>1
  <2> QED BY <2>1, <2>2, <2>3, <2>4
<1>10. /\ BufferOK(h) /\ h.off = b.off /\ h.end = f.end
       /\ BufferOK(t) /\ t.off = f.end /\ t.end = b.end
  <2> DEFINE g == HeadUpTo(b, f.end)
  <2>1. /\ BufferOK(g) /\ g.off = b.off /\ g.end = f.end
        /\ BufferOK(t) /\ t.off = f.end /\ t.end = b.end
    BY <1>2, <1>3, <1>4, SplitFacts
  <2>2. Reached(g, f)
    BY <1>3, <1>4, <2>1 DEF Reached
  <2> HIDE DEF g
  <2>3. BufferOK(Rewound(g, f)) /\ Rewound(g, f).off = g.off /\ Rewound(g, f).end = g.end
    BY <2>1, <2>2, RewoundFacts
  <2> QED BY <2>1, <2>3 DEF g
<1> HIDE DEF h, t
<1>11. Chain(H, b.off, b.end) /\ Len(H) = 2
  <2>1. Chain(<<h, t>>, h.off, t.end)
    BY <1>10, ChainOfTwo
  <2> QED BY <1>5, <1>10, <2>1
<1>12. P \in Seq(Buffers) /\ H \in Seq(Buffers) /\ B \in Seq(Buffers)
  BY <1>8, <1>9, <1>11 DEF Chain
<1>13. Chain(P \o H, Front(data, off), b.end)
  BY <1>1, <1>4, <1>8, <1>11, ChainConcat
<1>14. Chain((P \o H) \o B, Front(data, off), off)
  BY <1>1, <1>4, <1>9, <1>13, ChainConcat
<1> QED BY <1>8, <1>9, <1>11, <1>12, <1>14 DEF P, H, B, A

(* The two halves of the split buffer: together they hold what it held,    *)
(* and the head is to be sent again from the frame's offset on.            *)
LEMMA HalvesFacts ==
    ASSUME NEW b, BufferOK(b), NEW f \in Frames, Reached(b, f), f.end < b.end, NEW x
    PROVE  LET H == <<Rewound(HeadUpTo(b, f.end), f), TailFrom(b, f.end)>> IN
           /\ x \in Bytes(b.off, b.end) => x \in Held(H)
           /\ x \in Bytes(b.cur, b.end) => x \in Unsent(H, 1)
           /\ x \in Unsent(H, 1) => x \in Bytes(b.cur, b.end) \/ x \in Bytes(f.off, f.end)
           /\ x \in Bytes(b.off, b.end) /\ x \in Bytes(f.off, f.end) => x \in Unsent(H, 1)
<1> DEFINE e == f.end
           g == HeadUpTo(b, f.end)
           h == Rewound(HeadUpTo(b, f.end), f)
           t == TailFrom(b, f.end)
<1>1. /\ f.off \in Nat /\ f.end \in Nat /\ f.off <= f.end
  BY Bounds DEF Frames
<1>2. /\ b.off \in Nat /\ b.cur \in Nat /\ b.end \in Nat
      /\ b.off <= b.cur /\ b.cur <= b.end /\ b.end <= MaxOff
      /\ b.off < f.end /\ f.end < b.end
  BY BufferNumbers DEF Reached
<1>3. /\ BufferOK(g) /\ g.off = b.off /\ g.end = e /\ g.cur = Lower(b.cur, e)
      /\ BufferOK(t) /\ t.off = e /\ t.end = b.end /\ t.cur = Higher(b.cur, e)
  BY <1>1, <1>2, SplitFacts
<1>4. Reached(g, f)
  BY <1>1, <1>2, <1>3 DEF Reached
<1>5. /\ BufferOK(h) /\ h.off = g.off /\ h.end = g.end /\ h.cur <= g.cur
      /\ \A y \in Int : h.cur <= y /\ y < g.cur => f.off <= y
      /\ \A y \in Int : f.off <= y /\ g.off <= y => h.cur <= y
  <2> HIDE DEF g
  <2>1. h = Rewound(g, f)
    BY DEF g
  <2> HIDE DEF h
  <2> QED BY <1>3, <1>4, <2>1, RewoundFacts
<1>6. h.cur \in Nat
  BY <1>5, BufferNumbers
<1> HIDE DEF g, h, t
<1>7. /\ Unsent(<<h, t>>, 1) = Bytes(h.cur, h.end) \cup Bytes(t.cur, t.end)
      /\ Held(<<h, t>>) = Bytes(h.off, h.end) \cup Bytes(t.off, t.end)
  BY <1>3, <1>5, ChainOfTwo
<1>8. x \in Bytes(b.off, b.end) => x \in Bytes(h.off, h.end) \/ x \in Bytes(t.off, t.end)
  BY <1>1, <1>2, <1>3, <1>5, InBytes
<1>9. x \in Bytes(b.cur, b.end) => x \in Bytes(h.cur, h.end) \/ x \in Bytes(t.cur, t.end)
  <2> SUFFICES ASSUME x \in Bytes(b.cur, b.end)
               PROVE  x \in Bytes(h.cur, h.end) \/ x \in Bytes(t.cur, t.end)
    OBVIOUS
  <2>1. x \in Int /\ 0 <= x /\ x < MaxOff /\ b.cur <= x /\ x < b.end
    BY InBytes
  <2>2. CASE x < e
    <3>1. g.cur = b.cur
      BY <1>1, <1>2, <1>3, <2>1, <2>2 DEF Lower
    <3>2. h.cur <= x /\ x < h.end
      BY <1>2, <1>3, <1>5, <1>6, <2>1, <2>2, <3>1
    <3> QED BY <2>1, <3>2, InBytes
  <2>3. CASE ~(x < e)
    <3>1. t.cur <= x /\ x < t.end
      BY <1>1, <1>2, <1>3, <2>1, <2>3 DEF Higher
    <3> QED BY <2>1, <3>1, InBytes
  <2> QED BY <2>2, <2>3
<1>10. x \in Bytes(h.cur, h.end) => x \in Bytes(b.cur, b.end) \/ x \in Bytes(f.off, f.end)
  <2> SUFFICES ASSUME x \in Bytes(h.cur, h.end)
               PROVE  x \in Bytes(b.cur, b.end) \/ x \in Bytes(f.off, f.end)
    OBVIOUS
  <2>1. x \in Int /\ 0 <= x /\ x < MaxOff /\ h.cur <= x /\ x < e
    BY <1>3, <1>5, InBytes
  <2>2. CASE x < g.cur
    <3>1. f.off <= x
      BY <1>5, <2>1, <2>2
    <3> QED BY <2>1, <3>1, InBytes
  <2>3. CASE ~(x < g.cur)
    <3>1. b.cur <= x /\ x < b.end
      BY <1>1, <1>2, <1>3, <2>1, <2>3 DEF Lower
    <3> QED BY <2>1, <3>1, InBytes
  <2> QED BY <2>2, <2>3
<1>11. x \in Bytes(t.cur, t.end) => x \in Bytes(b.cur, b.end)
  <2> SUFFICES ASSUME x \in Bytes(t.cur, t.end) PROVE x \in Bytes(b.cur, b.end)
    OBVIOUS
  <2>1. x \in Int /\ 0 <= x /\ x < MaxOff /\ t.cur <= x /\ x < b.end
    BY <1>3, InBytes
  <2>2. b.cur <= x
    BY <1>1, <1>2, <1>3, <2>1 DEF Higher
  <2> QED BY <2>1, <2>2, InBytes
<1>12. x \in Bytes(b.off, b.end) /\ x \in Bytes(f.off, f.end) => x \in Bytes(h.cur, h.end)
  <2> SUFFICES ASSUME x \in Bytes(b.off, b.end), x \in Bytes(f.off, f.end)
               PROVE  x \in Bytes(h.cur, h.end)
    OBVIOUS
  <2>1. x \in Int /\ 0 <= x /\ x < MaxOff /\ b.off <= x /\ f.off <= x /\ x < e
    BY InBytes
  <2>2. h.cur <= x /\ x < h.end
    BY <1>3, <1>5, <2>1
  <2> QED BY <2>1, <2>2, InBytes
<1>13. <<Rewound(HeadUpTo(b, f.end), f), TailFrom(b, f.end)>> = <<h, t>>
  BY DEF h, t
<1> QED BY <1>7, <1>8, <1>9, <1>10, <1>11, <1>12, <1>13

LEMMA SplitBytes ==
    ASSUME SInv, NEW f \in Frames, NEW i \in SplitAt(f)
    PROVE  LET P == Pieces(f, i).before
               H == Pieces(f, i).split
               B == Pieces(f, i).after
               d == (P \o H) \o B
           IN  /\ Held(data) \subseteq Held(d)
               /\ Unsent(data, 1) \subseteq Unsent(d, 1)
               /\ Unsent(d, 1) \subseteq Unsent(data, 1) \cup Bytes(f.off, f.end)
               /\ Held(data) \cap Bytes(f.off, f.end) \subseteq Unsent(d, 1)
<1> DEFINE P == Pieces(f, i).before
           H == Pieces(f, i).split
           B == Pieces(f, i).after
           d == (P \o H) \o B
           A == Again(f)
           b == data[i]
<1>0. H = <<Rewound(HeadUpTo(b, f.end), f), TailFrom(b, f.end)>>
  BY DEF Pieces
<1>1. /\ P \in Seq(Buffers) /\ H \in Seq(Buffers) /\ B \in Seq(Buffers)
      /\ Len(P) = i - 1 /\ Len(H) = 2 /\ Len(B) = Len(data) - i
      /\ \A j \in 1 .. Len(P) : j \in 1 .. Len(data) /\ P[j] = A[j]
      /\ \A j \in 1 .. Len(B) : i + j \in 1 .. Len(data) /\ B[j] = data[i + j]
  BY SplitChain
<1> HIDE DEF P, H, B
<1>2. P \o H \in Seq(Buffers)
  BY <1>1, ConcatProperties
<1>3. /\ Unsent(d, 1) = (Unsent(P, 1) \cup Unsent(H, 1)) \cup Unsent(B, 1)
      /\ Held(d) = (Held(P) \cup Held(H)) \cup Held(B)
  BY <1>1, <1>2, UnsentConcat
<1>4. /\ Chain(data, Front(data, off), off) /\ Len(data) \in Nat
  BY Facts, LenProperties
<1>5. /\ i \in 1 .. Len(data) /\ i \in Nat /\ Reached(b, f) /\ f.end < b.end
  BY <1>4 DEF SplitAt
<1>6. /\ f.off \in Nat /\ f.end \in Nat /\ f.off <= f.end
  BY Bounds DEF Frames
<1>7. \A j \in 1 .. Len(data) :
          /\ data[j].off \in Nat /\ data[j].cur \in Nat /\ data[j].end \in Nat
          /\ A[j].off = data[j].off /\ A[j].end = data[j].end
          /\ A[j].cur \in Nat /\ A[j].cur <= data[j].cur
          /\ \A x \in Int : A[j].cur <= x /\ x < data[j].cur => f.off <= x
          /\ \A x \in Int : f.off <= x /\ data[j].off <= x /\ Reached(data[j], f)
                                => A[j].cur <= x
  BY <1>4, ChainElement, AgainFacts
<1> HIDE DEF A, d
<1>8. \A j \in 1 .. Len(data) : j < i => j \in 1 .. Len(P) /\ P[j] = A[j]
  BY <1>1, <1>4, <1>5
<1>9. \A j \in 1 .. Len(data) : i < j => j - i \in 1 .. Len(B) /\ B[j - i] = data[j]
  <2> SUFFICES ASSUME NEW j \in 1 .. Len(data), i < j
               PROVE  j - i \in 1 .. Len(B) /\ B[j - i] = data[j]
    OBVIOUS
  <2>1. j - i \in 1 .. Len(B) /\ i + (j - i) = j
    BY <1>1, <1>4, <1>5
  <2> QED BY <1>1, <2>1
<1>10. BufferOK(b)
  BY <1>4, <1>5, ChainElement
<1>11. \A x : /\ x \in Bytes(b.off, b.end) => x \in Held(H)
              /\ x \in Bytes(b.cur, b.end) => x \in Unsent(H, 1)
              /\ x \in Unsent(H, 1) => x \in Bytes(b.cur, b.end) \/ x \in Bytes(f.off, f.end)
              /\ x \in Bytes(b.off, b.end) /\ x \in Bytes(f.off, f.end) => x \in Unsent(H, 1)
  BY <1>0, <1>5, <1>10, HalvesFacts
<1>12. ASSUME NEW x \in Held(data) PROVE x \in Held(d)
  <2>1. PICK j \in 1 .. Len(data) : x \in Bytes(data[j].off, data[j].end)
    BY InHeld
  <2>2. CASE j < i
    BY <1>3, <1>7, <1>8, <2>1, <2>2, InHeld
  <2>3. CASE j = i
    BY <1>3, <1>11, <2>1, <2>3
  <2>4. CASE i < j
    BY <1>3, <1>9, <2>1, <2>4, InHeld
  <2> QED BY <1>5, <2>2, <2>3, <2>4
<1>13. ASSUME NEW x \in Unsent(data, 1) PROVE x \in Unsent(d, 1)
  <2>1. PICK j \in 1 .. Len(data) : x \in Bytes(data[j].cur, data[j].end)
    BY InUnsent
  <2>2. CASE j < i
    <3>1. x \in Bytes(A[j].cur, A[j].end)
      BY <1>7, <2>1, InBytes
    <3> QED BY <1>3, <1>8, <2>2, <3>1, InUnsent
  <2>3. CASE j = i
    BY <1>3, <1>11, <2>1, <2>3
  <2>4. CASE i < j
    BY <1>3, <1>9, <2>1, <2>4, InUnsent
  <2> QED BY <1>5, <2>2, <2>3, <2>4
<1>14. ASSUME NEW x \in Unsent(d, 1)
       PROVE  x \in Unsent(data, 1) \/ x \in Bytes(f.off, f.end)
  <2>1. CASE x \in Unsent(P, 1)
    <3>1. PICK j \in 1 .. Len(P) : x \in Bytes(P[j].cur, P[j].end)
      BY <2>1, InUnsent
    <3>2. j \in 1 .. Len(data) /\ P[j] = A[j] /\ j < i
      BY <1>1, <1>5
    <3>3. x \in Int /\ 0 <= x /\ x < MaxOff /\ A[j].cur <= x /\ x < data[j].end
      BY <1>7, <3>1, <3>2, InBytes
    <3>4. CASE x < data[j].cur
      <4>1. f.off <= x
        BY <1>7, <3>2, <3>3, <3>4
      <4>2. data[j].end <= b.off
        BY <1>4, <1>5, <3>2, ChainOrder
      <4>3. x < f.end
        BY <1>5, <1>6, <1>7, <3>2, <3>3, <4>2 DEF Reached
      <4> QED BY <3>3, <4>1, <4>3, InBytes
    <3>5. CASE ~(x < data[j].cur)
      <4>1. x \in Bytes(data[j].cur, data[j].end)
        BY <1>7, <3>2, <3>3, <3>5, InBytes
      <4> QED BY <3>2, <4>1, InUnsent
    <3> QED BY <3>4, <3>5
  <2>2. CASE x \in Unsent(H, 1)
    BY <1>5, <1>11, <2>2, InUnsent
  <2>3. CASE x \in Unsent(B, 1)
    <3>1. PICK j \in 1 .. Len(B) : x \in Bytes(B[j].cur, B[j].end)
      BY <2>3, InUnsent
    <3> QED BY <1>1, <3>1, InUnsent
  <2> QED BY <1>3, <2>1, <2>2, <2>3
<1>15. ASSUME NEW x \in Held(data), x \in Bytes(f.off, f.end) PROVE x \in Unsent(d, 1)
  <2>1. PICK j \in 1 .. Len(data) : x \in Bytes(data[j].off, data[j].end)
    BY InHeld
  <2>2. /\ x \in Int /\ 0 <= x /\ x < MaxOff /\ data[j].off <= x /\ x < data[j].end
        /\ f.off <= x /\ x < f.end
    BY <1>15, <2>1, InBytes
  <2>3. CASE j < i
    <3>1. Reached(data[j], f)
      BY <1>6, <1>7, <2>2 DEF Reached
    <3>2. A[j].cur <= x /\ x < A[j].end
      BY <1>7, <2>2, <3>1
    <3>3. x \in Bytes(A[j].cur, A[j].end)
      BY <2>2, <3>2, InBytes
    <3> QED BY <1>3, <1>8, <2>3, <3>3, InUnsent
  <2>4. CASE j = i
    BY <1>3, <1>11, <1>15, <2>1, <2>4
  <2>5. CASE i < j
    <3>1. b.end <= data[j].off
      BY <1>4, <1>5, <2>5, ChainOrder
    <3> QED BY <1>5, <1>6, <1>7, <2>2, <3>1
  <2> QED BY <1>5, <2>3, <2>4, <2>5
<1> QED BY <1>12, <1>13, <1>14, <1>15 DEF P, H, B, d

(* retransmit: no byte is dropped, the bytes of the frame that are still   *)
(* held are to be sent again, no others are, and the buffers before the    *)
(* first one reached keep their place.                                     *)
LEMMA RetransmittedFacts ==
    ASSUME SInv, NEW f \in Frames
    PROVE  LET d == Retransmitted(f) IN
           /\ Chain(d, Front(data, off), off)
           /\ Held(data) \subseteq Held(d)
           /\ Unsent(data, 1) \subseteq Unsent(d, 1)
           /\ Unsent(d, 1) \subseteq Unsent(data, 1) \cup Bytes(f.off, f.end)
           /\ Held(data) \cap Bytes(f.off, f.end) \subseteq Unsent(d, 1)
           /\ Len(data) <= Len(d)
           /\ \A i \in 1 .. Len(data) :
                  (\A j \in 1 .. Len(data) : Reached(data[j], f) => i < j) => d[i] = data[i]
<1> DEFINE d == Retransmitted(f)
<1>1. data \in Seq(Buffers) /\ Len(data) \in Nat
  BY Facts, LenProperties
<1>2. ASSUME NEW i \in 1 .. Len(data), \A j \in 1 .. Len(data) : Reached(data[j], f) => i < j
      PROVE  Again(f)[i] = data[i]
  <2>1. ~Reached(data[i], f)
    BY <1>2
  <2> QED BY <2>1, AgainFacts
<1>3. CASE SplitAt(f) = {}
  <2>1. d = Again(f)
    BY <1>3 DEF Retransmitted, Again
  <2> HIDE DEF d
  <2>2. Chain(d, Front(data, off), off) /\ Len(d) = Len(data)
    BY <2>1, AgainFacts
  <2>3. /\ Held(data) \subseteq Held(d)
        /\ Unsent(data, 1) \subseteq Unsent(d, 1)
        /\ Unsent(d, 1) \subseteq Unsent(data, 1) \cup Bytes(f.off, f.end)
        /\ Held(data) \cap Bytes(f.off, f.end) \subseteq Unsent(d, 1)
    BY <1>3, <2>1, WholeFacts
  <2>4. Len(data) <= Len(d)
    BY <1>1, <2>2
  <2> QED BY <1>2, <2>1, <2>2, <2>3, <2>4 DEF d
<1>4. CASE SplitAt(f) # {}
  <2> DEFINE s == SetMin(SplitAt(f))
             P == Pieces(f, s).before
             H == Pieces(f, s).split
             B == Pieces(f, s).after
  <2>1. SplitAt(f) \in SUBSET Nat
    BY <1>1 DEF SplitAt
  <2>2. s \in SplitAt(f)
    BY <1>4, <2>1, MinOf
  <2>3. d = (P \o H) \o B
    BY <1>4 DEF Retransmitted, Again, Pieces
  <2> HIDE DEF d, s
  <2>4. s \in 1 .. Len(data) /\ Reached(data[s], f)
    BY <2>2 DEF SplitAt
  <2>5. /\ P \in Seq(Buffers) /\ H \in Seq(Buffers) /\ B \in Seq(Buffers)
        /\ Chain((P \o H) \o B, Front(data, off), off)
        /\ Len(P) = s - 1 /\ Len(H) = 2 /\ Len(B) = Len(data) - s
        /\ \A j \in 1 .. Len(P) : j \in 1 .. Len(data) /\ P[j] = Again(f)[j]
    BY <2>2, SplitChain
  <2>6. /\ Held(data) \subseteq Held((P \o H) \o B)
        /\ Unsent(data, 1) \subseteq Unsent((P \o H) \o B, 1)
        /\ Unsent((P \o H) \o B, 1) \subseteq Unsent(data, 1) \cup Bytes(f.off, f.end)
        /\ Held(data) \cap Bytes(f.off, f.end) \subseteq Unsent((P \o H) \o B, 1)
    BY <2>2, SplitBytes
  <2> HIDE DEF P, H, B
  <2> DEFINE Q == P \o H
  <2>7. /\ Q \in Seq(Buffers) /\ Len(Q) = s + 1
        /\ \A j \in 1 .. s - 1 : Q[j] = P[j]
    <3>1. /\ Q \in Seq(Buffers) /\ Len(Q) = Len(P) + Len(H)
          /\ \A j \in 1 .. Len(P) + Len(H) : Q[j] = IF j <= Len(P) THEN P[j] ELSE H[j - Len(P)]
      BY <2>5, ConcatProperties
    <3> HIDE DEF Q
    <3> QED BY <2>4, <2>5, <3>1
  <2>8. d = Q \o B
    BY <2>3
  <2> HIDE DEF Q
  <2>9. Len(d) = Len(data) + 1 /\ \A j \in 1 .. s - 1 : d[j] = Q[j]
    <3>1. /\ Len(d) = Len(Q) + Len(B)
          /\ \A j \in 1 .. Len(Q) + Len(B) : d[j] = IF j <= Len(Q) THEN Q[j] ELSE B[j - Len(Q)]
      BY <2>5, <2>7, <2>8, ConcatProperties
    <3>2. Len(d) = Len(data) + 1
      BY <1>1, <2>4, <2>5, <2>7, <3>1
    <3>3. ASSUME NEW j \in 1 .. s - 1 PROVE d[j] = Q[j]
      <4>1. j \in 1 .. Len(Q) + Len(B) /\ j <= Len(Q)
        BY <1>1, <2>4, <2>5, <2>7
      <4> QED BY <3>1, <4>1
    <3> QED BY <3>2, <3>3
  <2>10. ASSUME NEW i \in 1 .. Len(data),
                \A j \in 1 .. Len(data) : Reached(data[j], f) => i < j
         PROVE  d[i] = data[i]
    <3>1. i < s
      BY <2>4, <2>10
    <3>2. i \in 1 .. s - 1 /\ i \in 1 .. Len(P)
      BY <2>4, <2>5, <3>1
    <3>3. d[i] = Again(f)[i]
      BY <2>5, <2>7, <2>9, <3>2
    <3> QED BY <1>2, <2>10, <3>3
  <2>11. Len(data) <= Len(d)
    BY <1>1, <2>9
  <2> QED BY <2>3, <2>5, <2>6, <2>10, <2>11 DEF d
<1> QED BY <1>3, <1>4

(* The bytes of a lost frame that are not acked are held, so that they can *)
(* be sent again.                                                          *)
LEMMA LostHeld ==
    ASSUME SInv, NEW f \in lost
    PROVE  /\ f \in Frames /\ f.off \in Nat /\ f.end \in Nat
           /\ Bytes(f.off, f.end) \ acked \subseteq Held(data)
           /\ data = <<>> => Bytes(f.off, f.end) \subseteq acked
           /\ f.end <= AckOff => Bytes(f.off, f.end) \subseteq acked
           /\ collected => Bytes(f.off, f.end) \subseteq acked
<1>1. /\ f \in Frames /\ f.end <= emit_off /\ emit_off <= off
      /\ off \in Nat /\ emit_off \in Nat /\ acked \subseteq Offsets
      /\ Bytes(0, off) \ acked \subseteq Held(data)
      /\ fin_off # None => fin_off = off
  BY Facts, Bounds
<1>2. f.off \in Nat /\ f.end \in Nat /\ f.off <= f.end
  BY <1>1, Bounds DEF Frames
<1>3. Bytes(f.off, f.end) \subseteq Bytes(0, off)
  BY <1>1, <1>2, InBytes
<1>4. data = <<>> => Held(data) = {}
  BY InHeld
<1>5. f.end <= AckOff => Bytes(f.off, f.end) \subseteq acked
  <2> SUFFICES ASSUME f.end <= AckOff, NEW x \in Bytes(f.off, f.end) PROVE x \in acked
    OBVIOUS
  <2>1. x \in Offsets /\ x \in Int /\ x < f.end
    BY InBytes DEF Bytes
  <2>2. AckOff \in Nat /\ \A y \in Offsets : y < AckOff => y \in acked
    BY <1>1, AckOffFacts, Bounds DEF AckOff
  <2> QED BY <1>2, <2>1, <2>2
<1>6. collected => Bytes(f.off, f.end) \subseteq acked
  BY <1>1, <1>3 DEF SInv, OwnInv, CollectInv
<1> QED BY <1>1, <1>2, <1>3, <1>4, <1>5, <1>6

LEMMA HandleLostStep ==
    ASSUME SInv, NEW f \in lost, HandleLost(f)
    PROVE  Ledger!Next /\ OwnInv'
<1> DEFINE noop == data = <<>> \/ f.end <= AckOff
           reached == {i \in 1 .. Len(data) : Reached(data[i], f)}
<1>1. /\ lost' = lost \ {f}
      /\ UNCHANGED <<off, emit_off, max_data, fin_off, acked, acked0, error,
                     shutdown, reset, recv_fin, collected, inflight, rflight,
                     delivered, finals>>
  BY DEF HandleLost
<1>2. /\ collected => UNCHANGED <<data, pos, len, flushable>>
      /\ ~collected => /\ data' = IF noop THEN data ELSE Retransmitted(f)
                       /\ pos' = IF noop \/ reached = {} THEN pos
                                 ELSE Lower(pos, SetMin(reached))
                       /\ flushable' = Queued(IsFlushableOf(data', pos', off, max_data)
                                              \/ (f.off = f.end /\ f.fin))
  BY DEF HandleLost
<1>3. /\ off \in Nat /\ Front(data, off) \in Nat /\ data \in Seq(Buffers)
      /\ Chain(data, Front(data, off), off) /\ SentBefore(data, pos)
      /\ Bytes(0, off) \ acked \subseteq Held(data) /\ Pending = Unsent(data, 1)
      /\ Len(data) \in Nat
  BY Facts, Bounds, LenProperties
<1>4. /\ f \in Frames /\ Bytes(f.off, f.end) \ acked \subseteq Held(data)
      /\ collected \/ noop => Bytes(f.off, f.end) \subseteq acked
  BY LostHeld
<1>5. /\ BufInv'
      /\ Pending' \in SUBSET (Pending \cup Bytes(f.off, f.end))
      /\ Pending \cup (Bytes(f.off, f.end) \ acked) \subseteq Pending'
  <2>1. CASE collected \/ noop
    <3>1. data' = data /\ pos' = pos
      BY <1>2, <2>1
    <3>2. BufInv'
      BY <1>1, <3>1 DEF SInv, OwnInv, BufInv
    <3>3. Pending' = Pending
      BY <3>1 DEF Pending
    <3> QED BY <1>4, <2>1, <3>2, <3>3
  <2>2. CASE ~(collected \/ noop)
    <3>1. data' = Retransmitted(f)
      BY <1>2, <2>2
    <3>2. /\ Chain(data', Front(data, off), off)
          /\ Held(data) \subseteq Held(data')
          /\ Unsent(data, 1) \subseteq Unsent(data', 1)
          /\ Unsent(data', 1) \subseteq Unsent(data, 1) \cup Bytes(f.off, f.end)
          /\ Held(data) \cap Bytes(f.off, f.end) \subseteq Unsent(data', 1)
          /\ Len(data) <= Len(data')
          /\ \A i \in 1 .. Len(data) :
                 (\A j \in 1 .. Len(data) : Reached(data[j], f) => i < j) => data'[i] = data[i]
      BY <1>4, <3>1, RetransmittedFacts
    <3>3. Len(data') \in Nat
      BY <3>2, LenProperties DEF Chain
    <3>4. /\ pos' \in Nat /\ 1 <= pos' /\ pos' <= pos /\ pos \in Nat /\ pos <= Len(data) + 1
          /\ \A j \in reached : pos' <= j
      <4>1. pos \in Nat /\ 1 <= pos /\ pos <= Len(data) + 1
        BY <1>3 DEF SentBefore
      <4>2. CASE reached = {}
        <5>1. pos' = pos
          BY <1>2, <2>2, <4>2
        <5> QED BY <4>1, <4>2, <5>1
      <4>3. CASE reached # {}
        <5>1. pos' = Lower(pos, SetMin(reached))
          BY <1>2, <2>2, <4>3
        <5>2. reached \in SUBSET Nat /\ \A j \in reached : j >= 1
          BY <1>3
        <5> HIDE DEF reached
        <5>3. SetMin(reached) \in reached /\ \A j \in reached : SetMin(reached) <= j
          BY <4>3, <5>2, MinOf
        <5>4. SetMin(reached) \in Nat /\ SetMin(reached) >= 1
          BY <5>2, <5>3
        <5>5. pos' \in Nat /\ 1 <= pos' /\ pos' <= pos /\ pos' <= SetMin(reached)
          BY <4>1, <5>1, <5>4 DEF Lower
        <5>6. ASSUME NEW j \in reached PROVE pos' <= j
          <6>1. j \in Nat /\ SetMin(reached) <= j
            BY <5>2, <5>3
          <6> QED BY <5>4, <5>5, <6>1
        <5> QED BY <4>1, <5>5, <5>6
      <4> QED BY <4>2, <4>3
    <3>5. SentBefore(data', pos')
      <4>1. pos' \in 1 .. Len(data') + 1
        BY <1>3, <3>2, <3>3, <3>4
      <4>2. ASSUME NEW i \in 1 .. Len(data'), i < pos' PROVE data'[i].cur = data'[i].end
        <5>1. i \in 1 .. Len(data) /\ i < pos
          BY <1>3, <3>3, <3>4, <4>2
        <5>2. ASSUME NEW j \in 1 .. Len(data), Reached(data[j], f) PROVE i < j
          <6>1. pos' <= j
            BY <3>4, <5>2
          <6> QED BY <3>4, <4>2, <6>1
        <5>3. data'[i] = data[i]
          BY <3>2, <5>1, <5>2
        <5>4. data[i].cur = data[i].end
          BY <1>3, <5>1 DEF SentBefore
        <5> QED BY <5>3, <5>4
      <4> QED BY <4>1, <4>2 DEF SentBefore
    <3>6. Bytes(0, off') \ acked' \subseteq Held(data')
      BY <1>1, <1>3, <3>2
    <3>7. BufInv' /\ Pending' = Unsent(data', 1)
      BY <1>1, <1>3, <3>2, <3>5, <3>6, BufStep
    <3>8. Pending' \in SUBSET (Pending \cup Bytes(f.off, f.end))
      BY <1>3, <3>2, <3>7
    <3>9. Pending \cup (Bytes(f.off, f.end) \ acked) \subseteq Pending'
      BY <1>3, <1>4, <3>2, <3>7
    <3> QED BY <3>7, <3>8, <3>9
  <2> QED BY <2>1, <2>2
<1>6. OwnInv'
  <2>1. flushable' \in BOOLEAN
    <3>1. CASE collected
      BY <1>2, <3>1 DEF SInv, OwnInv, FlagsOK
    <3>2. CASE ~collected
      BY <1>2, <3>2 DEF Queued, SInv, OwnInv, FlagsOK
    <3> QED BY <3>1, <3>2
  <2>2. ResetInv' /\ CollectInv' /\ DeliveredInv'
    BY <1>1 DEF SInv, OwnInv, ResetInv, CollectInv, DeliveredInv, WasReset
  <2>3. FlagsOK'
    BY <1>1, <2>1 DEF SInv, OwnInv, FlagsOK
  <2> QED BY <1>5, <2>2, <2>3 DEF OwnInv
<1>7. Ledger!Retransmit(f)
  <2>1. Ledger!Bytes(f.off, f.end) = Bytes(f.off, f.end)
    BY SameNames
  <2> QED BY <1>1, <1>5, <2>1 DEF Ledger!Retransmit, WasReset
<1>8. f \in Ledger!Frames
  BY <1>4, SameNames
<1> QED BY <1>6, <1>7, <1>8 DEF Ledger!Next

----------------------------------------------------------------------------
(* The other actions                                                       *)

LEMMA EmptyBuffers ==
    ASSUME NEW o \in Nat
    PROVE  Chain(<<>>, o, o) /\ SentBefore(<<>>, 1) /\ Unsent(<<>>, 1) = {} /\ Held(<<>>) = {}
<1>1. <<>> \in Seq(Buffers) /\ Len(<<>>) = 0 /\ 1 .. Len(<<>>) = {} /\ 1 .. Len(<<>>) - 1 = {}
  OBVIOUS
<1>2. Chain(<<>>, o, o)
  BY <1>1 DEF Chain
<1>3. SentBefore(<<>>, 1)
  BY <1>1 DEF SentBefore
<1> QED BY <1>1, <1>2, <1>3 DEF Unsent, Held

(* reset: what was not sent is discarded, and the rest counts as acked.    *)
LEMMA ResetBufStep ==
    ASSUME SInv, NEW code, ResetBuf(code), ~collected, WasReset',
           error' \in BOOLEAN, shutdown' \in BOOLEAN,
           UNCHANGED <<emit_off, max_data, flushable, recv_fin, collected, netVars>>
    PROVE  Ledger!Next /\ OwnInv' /\ data' = <<>>
<1> DEFINE u == Higher(OffFront, emit_off)
<1>1. /\ off \in Nat /\ emit_off \in Nat
  BY Facts, Bounds
<1>2. u = emit_off
  BY <1>1, FrontFacts, Bounds DEF Higher
<1>3. /\ fin_off' = u /\ off' = u /\ data' = <<>> /\ pos' = 1
      /\ acked' = acked \cup Bytes(0, u) /\ acked0' = TRUE
      /\ reset' = [code |-> code, size |-> emit_off]
  BY DEF ResetBuf
<1> HIDE DEF u
<1>4. UNCHANGED <<inflight, lost, rflight, delivered, finals>>
  BY DEF netVars
<1>5. /\ Chain(data', off', off') /\ SentBefore(data', pos') /\ Unsent(data', 1) = {}
  BY <1>1, <1>2, <1>3, EmptyBuffers
<1>6. Bytes(0, off') \ acked' \subseteq Held(data')
  BY <1>3
<1>7. BufInv' /\ Pending' = {}
  BY <1>1, <1>2, <1>3, <1>5, <1>6, BufStep
<1>8. ResetInv'
  <2>1. reset'.size = emit_off'
    BY <1>3
  <2> QED BY <1>4, <2>1 DEF SInv, OwnInv, ResetInv
<1>9. CollectInv' /\ DeliveredInv' /\ FlagsOK'
  BY <1>3 DEF SInv, OwnInv, CollectInv, DeliveredInv, FlagsOK
<1>10. Ledger!Reset
  <2>1. acked' = acked \cup Ledger!Bytes(0, emit_off)
    BY <1>2, <1>3, SameNames
  <2>2. WasReset' = TRUE
    BY DEF WasReset
  <2> QED BY <1>2, <1>3, <1>4, <1>7, <2>1, <2>2 DEF Ledger!Reset
<1> QED BY <1>3, <1>7, <1>8, <1>9, <1>10 DEF OwnInv, Ledger!Next

LEMMA StopStep ==
    ASSUME SInv, StopSending \/ ShutdownWrite
    PROVE  Ledger!Next /\ OwnInv' /\ data' = <<>>
<1>1. error \in BOOLEAN /\ shutdown \in BOOLEAN
  BY DEF SInv, OwnInv, FlagsOK
<1>2. CASE StopSending
  BY <1>1, <1>2, ResetBufStep DEF StopSending, WasReset
<1>3. CASE ShutdownWrite
  BY <1>1, <1>3, ResetBufStep DEF ShutdownWrite, WasReset
<1> QED BY <1>2, <1>3

LEMMA MaxStreamDataStep ==
    ASSUME SInv, NEW m \in 0 .. MaxOff, MaxStreamData(m)
    PROVE  Ledger!Next /\ OwnInv'
<1>1. /\ m > max_data /\ max_data' = m
      /\ flushable' = Queued(IsFlushableOf(data, pos, off, m))
      /\ UNCHANGED <<data, pos, off, emit_off, len, fin_off, acked, acked0, error,
                     shutdown, reset, recv_fin, collected, inflight, lost, rflight,
                     delivered, finals>>
  BY DEF MaxStreamData, netVars
<1>2. Pending' = Pending /\ WasReset' = WasReset
  BY <1>1 DEF Pending, WasReset
<1>3. Ledger!MaxStreamData(m)
  BY <1>1, <1>2 DEF Ledger!MaxStreamData
<1>4. flushable' \in BOOLEAN
  BY <1>1 DEF Queued, SInv, OwnInv, FlagsOK
<1>5. OwnInv'
  BY <1>1, <1>2, <1>4 DEF SInv, OwnInv, BufInv, ResetInv, CollectInv, DeliveredInv, FlagsOK
<1> QED BY <1>3, <1>5 DEF Ledger!Next

(* The steps that leave the buffers alone.                                 *)
LEMMA QuietStep ==
    ASSUME SInv, UNCHANGED bufVars, UNCHANGED <<inflight, lost, finals>>,
           flushable' \in BOOLEAN, recv_fin' \in BOOLEAN, collected' \in BOOLEAN,
           ResetInv', collected' => collected \/ IsComplete, delivered \subseteq delivered'
    PROVE  UNCHANGED Ledger!vars /\ OwnInv'
<1>1. UNCHANGED <<data, pos, off, emit_off, len, max_data, fin_off, acked, acked0,
                  error, shutdown>>
  BY DEF bufVars
<1>2. Pending' = Pending /\ WasReset' = WasReset
  BY <1>1 DEF Pending, WasReset
<1>3. UNCHANGED Ledger!vars
  BY <1>1, <1>2 DEF Ledger!vars
<1>4. CollectInv'
  BY <1>1 DEF SInv, OwnInv, CollectInv, IsComplete
<1>5. BufInv' /\ DeliveredInv' /\ FlagsOK'
  BY <1>1, <1>2 DEF SInv, OwnInv, BufInv, DeliveredInv, FlagsOK
<1> QED BY <1>3, <1>4, <1>5 DEF OwnInv

LEMMA SkipStreamStep ==
    ASSUME SInv, SkipStream
    PROVE  UNCHANGED Ledger!vars /\ OwnInv'
<1>1. /\ UNCHANGED bufVars /\ UNCHANGED <<reset, recv_fin, collected>>
      /\ UNCHANGED <<inflight, lost, rflight, delivered, finals>> /\ flushable' = FALSE
  BY DEF SkipStream, netVars
<1>2. ResetInv'
  BY <1>1 DEF SInv, OwnInv, ResetInv, WasReset, bufVars
<1> QED BY <1>1, <1>2, QuietStep DEF SInv, OwnInv, FlagsOK

LEMMA RecvFinStep ==
    ASSUME SInv, RecvFin
    PROVE  UNCHANGED Ledger!vars /\ OwnInv'
<1>1. /\ UNCHANGED bufVars /\ UNCHANGED reset
      /\ UNCHANGED <<inflight, lost, rflight, delivered, finals>> /\ recv_fin' = TRUE
      /\ IF IsComplete THEN Collect ELSE UNCHANGED <<collected, flushable>>
  BY DEF RecvFin, netVars
<1>2. ResetInv'
  BY <1>1 DEF SInv, OwnInv, ResetInv, WasReset, bufVars
<1>3. flushable' \in BOOLEAN /\ collected' \in BOOLEAN /\ (collected' => collected \/ IsComplete)
  BY <1>1 DEF Collect, SInv, OwnInv, FlagsOK
<1> QED BY <1>1, <1>2, <1>3, QuietStep

LEMMA AckResetStep ==
    ASSUME SInv, NEW r \in rflight, AckReset(r)
    PROVE  UNCHANGED Ledger!vars /\ OwnInv'
<1>1. /\ UNCHANGED bufVars /\ UNCHANGED <<reset, recv_fin>> /\ rflight' = rflight \ {r}
      /\ UNCHANGED <<inflight, lost, delivered, finals>>
      /\ IF ~collected /\ IsComplete /\ recv_fin
         THEN Collect ELSE UNCHANGED <<collected, flushable>>
  BY DEF AckReset
<1>2. ResetInv'
  BY <1>1 DEF SInv, OwnInv, ResetInv, WasReset, bufVars
<1>3. flushable' \in BOOLEAN /\ collected' \in BOOLEAN /\ (collected' => collected \/ IsComplete)
  BY <1>1 DEF Collect, SInv, OwnInv, FlagsOK
<1> QED BY <1>1, <1>2, <1>3, QuietStep DEF SInv, OwnInv, FlagsOK

LEMMA LostResetStep ==
    ASSUME SInv, NEW r \in rflight, LostReset(r)
    PROVE  UNCHANGED Ledger!vars /\ OwnInv'
<1>1. /\ UNCHANGED bufVars /\ UNCHANGED <<flushable, recv_fin, collected>>
      /\ rflight' = rflight \ {r} /\ reset' = IF collected THEN reset ELSE r
      /\ UNCHANGED <<inflight, lost, delivered, finals>>
  BY DEF LostReset
<1>2. ResetInv'
  <2>1. WasReset' = WasReset /\ emit_off' = emit_off
    BY <1>1 DEF WasReset, bufVars
  <2>2. reset' = reset \/ reset' = r
    BY <1>1
  <2> QED BY <1>1, <2>1, <2>2 DEF SInv, OwnInv, ResetInv
<1> QED BY <1>1, <1>2, QuietStep DEF SInv, OwnInv, FlagsOK

LEMMA ResetFrameStep ==
    ASSUME SInv, ResetFrame
    PROVE  Ledger!Next /\ OwnInv'
<1>1. /\ reset # NoReset /\ rflight' = rflight \cup {reset}
      /\ finals' = finals \cup {reset.size} /\ reset' = NoReset
      /\ UNCHANGED <<data, pos, off, emit_off, len, max_data, fin_off, acked, acked0,
                     error, shutdown, flushable, recv_fin, collected, inflight, lost,
                     delivered>>
  BY DEF ResetFrame, bufVars
<1>2. Pending' = Pending /\ WasReset' = WasReset
  BY <1>1 DEF Pending, WasReset
<1>3. WasReset /\ reset.size = emit_off
  BY <1>1 DEF SInv, OwnInv, ResetInv
<1>4. fin_off = emit_off
  BY <1>3, Facts
<1>5. Ledger!SendReset
  BY <1>1, <1>2, <1>3, <1>4 DEF Ledger!SendReset
<1>6. ResetInv'
  BY <1>1, <1>2, <1>3 DEF SInv, OwnInv, ResetInv
<1>7. OwnInv'
  BY <1>1, <1>2, <1>6 DEF SInv, OwnInv, BufInv, CollectInv, DeliveredInv, FlagsOK
<1> QED BY <1>5, <1>7 DEF Ledger!Next

(* What a stream that is gone does not hear of was acked before.           *)
LEMMA AckCollectedStep ==
    ASSUME SInv, NEW f \in Flying, AckCollected(f)
    PROVE  Ledger!Next /\ OwnInv'
<1>1. /\ collected /\ inflight[f] > 0 /\ inflight' = [inflight EXCEPT ![f] = @ - 1]
      /\ delivered' = delivered \cup Bytes(f.off, f.end)
      /\ UNCHANGED <<lost, rflight, finals, reset, flushable, recv_fin, collected>>
      /\ UNCHANGED <<data, pos, off, emit_off, len, max_data, fin_off, acked, acked0,
                     error, shutdown>>
  BY DEF AckCollected, AckFrame, bufVars
<1>2. Pending' = Pending /\ WasReset' = WasReset
  BY <1>1 DEF Pending, WasReset
<1>3. /\ f \in Frames /\ f.end <= emit_off /\ emit_off <= off
      /\ off \in Nat /\ emit_off \in Nat /\ (fin_off # None => fin_off = off)
  BY <1>1, Facts, Bounds DEF Flying
<1>4. f.off \in Nat /\ f.end \in Nat
  BY <1>3, Bounds DEF Frames
<1>5. Bytes(f.off, f.end) \subseteq Bytes(0, off)
  BY <1>3, <1>4, InBytes
<1>6. acked = Bytes(0, off)
  BY <1>1, <1>3 DEF SInv, OwnInv, CollectInv
<1>7. Ledger!Ack(f)
  <2>1. acked' = acked \cup Ledger!Bytes(f.off, f.end)
    BY <1>1, <1>5, <1>6, SameNames
  <2> QED BY <1>1, <1>2, <2>1 DEF Ledger!Ack
<1>8. OwnInv'
  BY <1>1, <1>2 DEF SInv, OwnInv, BufInv, ResetInv, CollectInv, DeliveredInv, FlagsOK
<1>9. f \in Ledger!Frames
  BY <1>3, SameNames
<1> QED BY <1>7, <1>8, <1>9 DEF Ledger!Next

LEMMA LossStep ==
    ASSUME SInv, NEW f \in Flying, DeclareLost(f) \/ Probe(f)
    PROVE  Ledger!Next /\ OwnInv'
<1>1. /\ inflight[f] > 0 /\ Cardinality(lost \cup {f}) <= MaxLost /\ lost' = lost \cup {f}
      /\ UNCHANGED <<rflight, finals, reset, flushable, recv_fin, collected, delivered>>
      /\ UNCHANGED <<data, pos, off, emit_off, len, max_data, fin_off, acked, acked0,
                     error, shutdown>>
  BY DEF DeclareLost, Probe, bufVars
<1>2. Pending' = Pending /\ WasReset' = WasReset
  BY <1>1 DEF Pending, WasReset
<1>3. Ledger!Cardinality(lost \cup {f}) <= MaxLost
  BY <1>1, SameSize
<1>4. Ledger!DeclareLost(f) \/ Ledger!Probe(f)
  <2>1. CASE DeclareLost(f)
    BY <1>1, <1>2, <1>3, <2>1 DEF DeclareLost, Ledger!DeclareLost
  <2>2. CASE Probe(f)
    BY <1>1, <1>2, <1>3, <2>2 DEF Probe, Ledger!Probe
  <2> QED BY <2>1, <2>2
<1>5. OwnInv'
  BY <1>1, <1>2 DEF SInv, OwnInv, BufInv, ResetInv, CollectInv, DeliveredInv, FlagsOK
<1>6. f \in Ledger!Frames
  BY SameNames DEF Flying
<1> QED BY <1>4, <1>5, <1>6 DEF Ledger!Next

----------------------------------------------------------------------------
(* The specification                                                       *)

LEMMA InitStep == Init => Ledger!Init /\ SInv
<1> SUFFICES ASSUME Init PROVE Ledger!Init /\ SInv
  OBVIOUS
<1>1. /\ data = <<>> /\ pos = 1 /\ off = 0 /\ emit_off = 0 /\ max_data = InitMaxData
      /\ fin_off = None /\ acked = {} /\ acked0 = FALSE /\ error = FALSE /\ shutdown = FALSE
      /\ flushable = FALSE /\ reset = NoReset /\ recv_fin \in BOOLEAN /\ collected = FALSE
      /\ inflight = [f \in Frames |-> 0] /\ lost = {} /\ rflight = {} /\ finals = {}
  BY DEF Init
<1>2. /\ Chain(data, off, off) /\ SentBefore(data, pos) /\ Unsent(data, pos) = {}
      /\ Held(data) = {}
  BY <1>1, EmptyBuffers
<1>3. Pending = {} /\ WasReset = FALSE
  BY <1>1, <1>2 DEF Pending, WasReset
<1>4. Ledger!Init
  BY <1>1, <1>3, SameNames, Zenon DEF Ledger!Init
<1>5. Ledger!IInv
  <2>1. LedgerProofs!Init
    BY <1>4, SameNames, Zenon DEF Ledger!Init, LedgerProofs!Init
  <2>2. LedgerProofs!IInv
    BY <2>1, LedgerProofs!InitIInv, SizeAssumption
  <2> QED BY <2>2, SameInv
<1>6. Front(data, off) = off
  BY <1>1 DEF Front
<1>7. Bytes(0, off) = {}
  <2>1. \A x : x \notin Bytes(0, off)
    BY <1>1, InBytes
  <2> QED BY <2>1
<1>8. BufInv
  BY <1>2, <1>6, <1>7 DEF BufInv
<1>9. ResetInv /\ CollectInv /\ DeliveredInv /\ FlagsOK
  BY <1>1 DEF ResetInv, CollectInv, DeliveredInv, FlagsOK
<1> QED BY <1>4, <1>5, <1>8, <1>9 DEF SInv, OwnInv

(* Every step of the buffers is a step of the ledger, or none.             *)
LEMMA NextStep ==
    ASSUME SInv, [Next]_vars
    PROVE  [Ledger!Next]_(Ledger!vars) /\ OwnInv'
<1>1. ASSUME NEW n \in 0 .. MaxOff, NEW fin \in BOOLEAN,
             StreamSend(n, fin, SendBufferSize) \/ (n > SendBufferSize /\ StreamSend(n, fin, n))
      PROVE  Ledger!Next /\ OwnInv'
  <2>1. SendBufferSize \in Nat \ {0} /\ (n > SendBufferSize => n \in Nat \ {0})
    BY Bounds
  <2> QED BY <1>1, <2>1, StreamSendStep
<1>2. ASSUME NEW n \in (IF WideHeader THEN 0 ELSE 1) .. MaxOff, StreamFrame(n)
      PROVE  Ledger!Next /\ OwnInv'
  <2>1. n \in 0 .. MaxOff
    BY Bounds
  <2> QED BY <1>2, <2>1, StreamFrameStep
<1>3. ASSUME NEW f \in Flying,
             AckStream(f) \/ AckCollected(f) \/ DeclareLost(f) \/ Probe(f)
      PROVE  Ledger!Next /\ OwnInv'
  BY <1>3, AckStreamStep, AckCollectedStep, LossStep
<1>4. ASSUME NEW f \in lost, HandleLost(f) PROVE Ledger!Next /\ OwnInv'
  BY <1>4, HandleLostStep
<1>5. ASSUME NEW r \in rflight, AckReset(r) \/ LostReset(r)
      PROVE  UNCHANGED Ledger!vars /\ OwnInv'
  BY <1>5, AckResetStep, LostResetStep
<1>6. ASSUME NEW m \in 0 .. MaxOff, MaxStreamData(m) PROVE Ledger!Next /\ OwnInv'
  BY <1>6, MaxStreamDataStep
<1>7. ASSUME SkipStream \/ RecvFin PROVE UNCHANGED Ledger!vars /\ OwnInv'
  BY <1>7, SkipStreamStep, RecvFinStep
<1>8. ASSUME ResetFrame \/ StopSending \/ ShutdownWrite PROVE Ledger!Next /\ OwnInv'
  BY <1>8, ResetFrameStep, StopStep
<1>9. ASSUME UNCHANGED vars PROVE UNCHANGED Ledger!vars /\ OwnInv'
  <2>1. /\ UNCHANGED <<data, pos, off, emit_off, len, max_data, fin_off, acked, acked0,
                       error, shutdown>>
        /\ UNCHANGED bufVars
        /\ UNCHANGED <<flushable, reset, recv_fin, collected>>
        /\ UNCHANGED <<inflight, lost, rflight, delivered, finals>>
    BY <1>9 DEF vars, bufVars, netVars
  <2>2. ResetInv'
    BY <2>1 DEF SInv, OwnInv, ResetInv, WasReset
  <2> QED BY <2>1, <2>2, QuietStep DEF SInv, OwnInv, FlagsOK
<1> QED BY <1>1, <1>2, <1>3, <1>4, <1>5, <1>6, <1>7, <1>8, <1>9 DEF Next

LEMMA NextSInv == SInv /\ [Next]_vars => [Ledger!Next]_(Ledger!vars) /\ SInv'
BY NextStep, LedgerStep DEF SInv

(* What the invariant says of the buffers, in the terms of the runs.       *)
LEMMA InvContiguous == SInv => Contiguous
<1> SUFFICES ASSUME SInv PROVE Contiguous
  OBVIOUS
<1>1. /\ Chain(data, Front(data, off), off) /\ data \in Seq(Buffers)
      /\ Bytes(0, off) \ acked \subseteq Held(data) /\ Len(data) \in Nat
  BY Facts, LenProperties
<1>2. \A i \in 1 .. Len(data) : data[i].off <= data[i].cur /\ data[i].cur <= data[i].end
  BY <1>1, ChainElement
<1>3. \A i \in 1 .. Len(data) - 1 : data[i].end = data[i + 1].off
  BY <1>1 DEF Chain
<1>4. data # <<>> => data[Len(data)].end = off
  <2>1. data # <<>> => Len(data) > 0
    BY <1>1, EmptySeq
  <2> QED BY <1>1, <2>1 DEF Chain
<1>5. \A i \in Bytes(0, off) \ acked :
          \E k \in 1 .. Len(data) : i \in Bytes(data[k].off, data[k].end)
  BY <1>1, InHeld
<1> QED BY <1>2, <1>3, <1>4, <1>5 DEF Contiguous

LEMMA InvCollected == SInv => CollectedDelivered
<1> SUFFICES ASSUME SInv, collected, ~WasReset
             PROVE  fin_off # None /\ Bytes(0, fin_off) \subseteq delivered
  BY DEF CollectedDelivered
<1> QED BY DEF SInv, OwnInv, CollectInv, DeliveredInv

(* The queue of SendBuf keeps its promises whatever is lost, acked late or *)
(* sent again: the chunks of SendBuf::data lie end to end up to off and    *)
(* hold every byte that is not acked, through write, emit, ack_and_drop,   *)
(* the splits of retransmit and reset; and StreamMap::collect discards a   *)
(* stream only when the peer acked all of it or it was reset.              *)
THEOREM BufferSafe == Spec => [](Contiguous /\ CollectedDelivered)
<1>1. Init => SInv
  BY InitStep
<1>2. SInv /\ [Next]_vars => SInv'
  BY NextSInv
<1>3. SInv => Contiguous /\ CollectedDelivered
  BY InvContiguous, InvCollected
<1> QED BY <1>1, <1>2, <1>3, PTL DEF Spec

(* SendBuf implements the ledger of SendQueue: the index pos, the rewound  *)
(* and the split buffers, the dropped ones and the frames acked after the  *)
(* stream was collected make no step the ledger does not allow.            *)
THEOREM Implements == Spec => LedgerSpec
<1>1. Init => Ledger!Init /\ SInv
  BY InitStep
<1>2. SInv /\ [Next]_vars => [Ledger!Next]_(Ledger!vars) /\ SInv'
  BY NextSInv
<1> QED BY <1>1, <1>2, PTL DEF Spec, LedgerSpec, Ledger!Spec

(* So the ledger's safety holds of the buffers: no byte written is         *)
(* forgotten, only sent bytes are taken for delivered, and the peer is     *)
(* told one final size.                                                    *)
THEOREM LedgerSafe ==
    Spec => [](Ledger!NothingForgotten /\ Ledger!WithinLimits /\ Ledger!OneFinalSize)
<1>1. Init => SInv
  BY InitStep
<1>2. SInv /\ [Next]_vars => SInv'
  BY NextSInv
<1>3. SInv => Ledger!NothingForgotten /\ Ledger!WithinLimits /\ Ledger!OneFinalSize
  BY DEF SInv, Ledger!IInv
<1> QED BY <1>1, <1>2, <1>3, PTL DEF Spec

----------------------------------------------------------------------------
(* The queue of flushable streams                                          *)

(* Withdrawing bytes never makes a stream flushable.                       *)
LEMMA FewerToSend ==
    ASSUME NEW d, NEW p, NEW c, NEW q, NEW o \in Nat, NEW m \in Nat,
           Unsent(c, q) \subseteq Unsent(d, p), d = <<>> => c = <<>>,
           IsFlushableOf(c, q, o, m)
    PROVE  IsFlushableOf(d, p, o, m)
<1>1. c # <<>> /\ OffFrontOf(c, q, o) < o /\ OffFrontOf(c, q, o) < m
  BY DEF IsFlushableOf
<1>2. Unsent(c, q) # {}
  BY <1>1, FrontOf
<1>3. /\ OffFrontOf(c, q, o) \in Unsent(c, q)
      /\ Unsent(d, p) \subseteq Offsets /\ Unsent(d, p) # {}
      /\ OffFrontOf(d, p, o) \in Unsent(d, p)
      /\ OffFrontOf(d, p, o) <= OffFrontOf(c, q, o)
  BY <1>2, FrontOf
<1>4. OffFrontOf(d, p, o) \in Int /\ OffFrontOf(c, q, o) \in Int
  BY <1>3, Bounds DEF Offsets
<1>5. OffFrontOf(d, p, o) < o /\ OffFrontOf(d, p, o) < m
  BY <1>1, <1>3, <1>4
<1> QED BY <1>1, <1>5 DEF IsFlushableOf

(* The callers of insert_flushable test before they change the buffers     *)
(* whether the stream is queued already.                                   *)
LEMMA QueueKept ==
    ASSUME QueuedIfFlushable, NEW b, flushable' = Queued(b), IsFlushable' => b,
           UNCHANGED <<error, collected>>
    PROVE  QueuedIfFlushable'
BY DEF QueuedIfFlushable, Queued

LEMMA QueueStep ==
    ASSUME WideHeader = FALSE, SInv, QueuedIfFlushable, [Next]_vars
    PROVE  QueuedIfFlushable'
<1> SUFFICES ASSUME IsFlushable', ~error', ~collected' PROVE flushable'
  BY DEF QueuedIfFlushable
<1>0. off \in Nat /\ max_data \in Nat
  BY Facts, Bounds
<1>1. ASSUME NEW n \in 0 .. MaxOff, NEW fin \in BOOLEAN, NEW size, StreamSend(n, fin, size)
      PROVE  flushable'
  <2>1. /\ flushable' = Queued(IsFlushableOf(data', pos, off', max_data) \/ (n = 0 /\ fin))
        /\ UNCHANGED <<pos, max_data, error, collected>>
    BY <1>1 DEF StreamSend
  <2>2. IsFlushable' => IsFlushableOf(data', pos, off', max_data)
    BY <2>1 DEF IsFlushable
  <2> QED BY <2>1, <2>2, QueueKept DEF QueuedIfFlushable
<1>2. ASSUME NEW n, StreamFrame(n) PROVE flushable'
  <2>1. /\ flushable' = IsFlushableOf(data', pos', off, max_data)
        /\ UNCHANGED <<off, max_data>>
    BY <1>2 DEF StreamFrame
  <2> QED BY <2>1 DEF IsFlushable
<1>3. ASSUME NEW f \in Flying, AckStream(f) PROVE flushable'
  <2>1. /\ UNCHANGED <<off, max_data, error>>
        /\ IF IsComplete' /\ recv_fin THEN Collect ELSE UNCHANGED <<collected, flushable>>
    BY <1>3 DEF AckStream
  <2>2. Pending' \subseteq Pending /\ (data = <<>> => data' = <<>>)
    BY <1>3, AckStreamStep
  <2>3. Unsent(data', pos') \subseteq Unsent(data, pos)
    BY <2>2 DEF Pending
  <2>4. IsFlushableOf(data', pos', off, max_data)
    BY <2>1 DEF IsFlushable
  <2>5. IsFlushable
    BY <1>0, <2>2, <2>3, <2>4, FewerToSend DEF IsFlushable
  <2>6. UNCHANGED <<collected, flushable>>
    BY <2>1 DEF Collect
  <2> QED BY <2>1, <2>5, <2>6 DEF QueuedIfFlushable
<1>4. ASSUME NEW f \in lost, HandleLost(f) PROVE flushable'
  <2>1. UNCHANGED <<off, max_data, error, collected>>
    BY <1>4 DEF HandleLost
  <2>2. flushable' = Queued(IsFlushableOf(data', pos', off, max_data)
                            \/ (f.off = f.end /\ f.fin))
    BY <1>4, <2>1 DEF HandleLost
  <2>3. IsFlushable' => IsFlushableOf(data', pos', off, max_data)
    BY <2>1 DEF IsFlushable
  <2> QED BY <2>1, <2>2, <2>3, QueueKept DEF QueuedIfFlushable
<1>5. ASSUME NEW m \in 0 .. MaxOff, MaxStreamData(m) PROVE flushable'
  <2>1. /\ flushable' = Queued(IsFlushableOf(data, pos, off, m)) /\ max_data' = m
        /\ UNCHANGED <<data, pos, off, error, collected>>
    BY <1>5 DEF MaxStreamData
  <2>2. IsFlushable' => IsFlushableOf(data, pos, off, m)
    BY <2>1 DEF IsFlushable
  <2> QED BY <2>1, <2>2, QueueKept DEF QueuedIfFlushable
<1>6. ASSUME StopSending \/ ShutdownWrite PROVE FALSE
  <2>1. data' = <<>>
    BY <1>6, StopStep
  <2> QED BY <2>1 DEF IsFlushable, IsFlushableOf
<1>7. ASSUME SkipStream PROVE FALSE
  BY <1>7 DEF SkipStream, bufVars
<1>8. ASSUME UNCHANGED <<data, pos, off, max_data, error>>,
             UNCHANGED <<collected, flushable>> \/ Collect
      PROVE  flushable'
  <2>1. IsFlushable' = IsFlushable
    BY <1>8 DEF IsFlushable
  <2>2. UNCHANGED <<collected, flushable>>
    BY <1>8 DEF Collect
  <2> QED BY <1>8, <2>1, <2>2 DEF QueuedIfFlushable
<1>9. ASSUME NEW f \in Flying, AckCollected(f) \/ DeclareLost(f) \/ Probe(f) PROVE flushable'
  <2>1. UNCHANGED bufVars /\ UNCHANGED <<collected, flushable>>
    BY <1>9 DEF AckCollected, DeclareLost, Probe
  <2> QED BY <1>8, <2>1 DEF bufVars
<1>10. ASSUME NEW r \in rflight, AckReset(r) \/ LostReset(r) PROVE flushable'
  <2>1. UNCHANGED bufVars /\ (UNCHANGED <<collected, flushable>> \/ Collect)
    BY <1>10 DEF AckReset, LostReset
  <2> QED BY <1>8, <2>1 DEF bufVars
<1>11. ASSUME RecvFin \/ ResetFrame PROVE flushable'
  <2>1. UNCHANGED bufVars /\ (UNCHANGED <<collected, flushable>> \/ Collect)
    BY <1>11 DEF RecvFin, ResetFrame
  <2> QED BY <1>8, <2>1 DEF bufVars
<1>12. ASSUME UNCHANGED vars PROVE flushable'
  <2>1. UNCHANGED bufVars /\ UNCHANGED <<collected, flushable>>
    BY <1>12 DEF vars
  <2> QED BY <1>8, <2>1 DEF bufVars
<1> QED BY <1>1, <1>2, <1>3, <1>4, <1>5, <1>6, <1>7, <1>9, <1>10, <1>11, <1>12 DEF Next

(* A stream that has something to send is in StreamMap::flushable, when no *)
(* frame header exceeds MAX_STREAM_OVERHEAD: the tests for "already        *)
(* queued" before insert_flushable, made before the buffers change, never  *)
(* leave a stream out that became flushable, whatever is acked in between. *)
THEOREM QueuedSafe ==
    ASSUME WideHeader = FALSE
    PROVE  Spec => []QueuedIfFlushable
<1>1. Init => SInv /\ QueuedIfFlushable
  <2>1. Init => QueuedIfFlushable
    BY DEF Init, QueuedIfFlushable, IsFlushable, IsFlushableOf
  <2> QED BY <2>1, InitStep
<1>2. SInv /\ QueuedIfFlushable /\ [Next]_vars => SInv' /\ QueuedIfFlushable'
  BY NextSInv, QueueStep
<1> QED BY <1>1, <1>2, PTL DEF Spec

----------------------------------------------------------------------------
(* Counters                                                                *)

(* The rest of the type invariant: what the counters count, and the types  *)
(* of what the ledger does not know.                                       *)
Resets == [code : {"none", "app", "peer"}, size : 0 .. MaxOff \cup {None}]

CountInv ==
    /\ len \in Nat /\ LenCovers
    /\ inflight \in [Frames -> 0 .. MaxFlight]
    /\ delivered \subseteq Offsets
    /\ reset \in Resets /\ rflight \subseteq Resets

LEMMA FiniteBytes ==
    ASSUME NEW S, S \subseteq Offsets
    PROVE  IsFiniteSet(S) /\ Cardinality(S) \in Nat
<1>1. MaxOff - 1 \in Int
  BY Bounds
<1>2. IsFiniteSet(Offsets)
  BY <1>1, FS_Interval DEF Offsets
<1>3. IsFiniteSet(S)
  BY <1>2, FS_Subset
<1> QED BY <1>3, FS_CardinalityType

LEMMA BytesCount ==
    ASSUME NEW o \in Nat, NEW e \in Nat, o <= e, e <= MaxOff
    PROVE  Cardinality(Bytes(o, e)) = e - o
<1>1. PICK b \in Int : b = e - 1
  OBVIOUS
<1>2. Bytes(o, e) = o .. b
  <2>1. \A x : x \in Bytes(o, e) <=> x \in o .. b
    BY <1>1, Bounds, InBytes
  <2> QED BY <2>1
<1>3. Cardinality(o .. b) = IF o > b THEN 0 ELSE b - o + 1
  BY FS_Interval
<1> QED BY <1>1, <1>2, <1>3

LEMMA FiniteFrames == IsFiniteSet(Frames)
<1> DEFINE T == (0 .. MaxOff) \X ((0 .. MaxOff) \X BOOLEAN)
           R == {[off |-> p[1], end |-> p[2][1], fin |-> p[2][2]] : p \in T}
<1>1. IsFiniteSet(0 .. MaxOff) /\ IsFiniteSet(BOOLEAN)
  <2>1. IsFiniteSet({TRUE} \cup {FALSE})
    BY FS_Singleton, FS_Union
  <2>2. BOOLEAN = {TRUE} \cup {FALSE}
    OBVIOUS
  <2>3. IsFiniteSet(0 .. MaxOff)
    <3>1. 0 \in Int /\ MaxOff \in Int
      BY Bounds
    <3> QED BY <3>1, FS_Interval
  <2> QED BY <2>1, <2>2, <2>3
<1>2. IsFiniteSet(T)
  BY <1>1, FS_Product
<1>3. IsFiniteSet(R)
  <2> DEFINE g == [p \in T |-> [off |-> p[1], end |-> p[2][1], fin |-> p[2][2]]]
  <2>1. g \in Surjection(T, R)
    BY DEF Surjection
  <2> QED BY <1>2, <2>1, FS_Surjection
<1>4. ASSUME NEW f \in Frames PROVE f \in R
  <2>1. /\ f.off \in 0 .. MaxOff /\ f.end \in 0 .. MaxOff /\ f.fin \in BOOLEAN
        /\ f = [off |-> f.off, end |-> f.end, fin |-> f.fin]
    BY DEF Frames
  <2>2. <<f.off, <<f.end, f.fin>>>> \in T
    BY <2>1
  <2> QED BY <2>1, <2>2
<1> QED BY <1>3, <1>4, FS_Subset

(* No frame has more copies in flight than there are frames in flight.     *)
LEMMA CopiesInFlight ==
    ASSUME inflight \in [Frames -> 0 .. MaxFlight], NEW f \in Frames
    PROVE  inflight[f] <= FlightSize
<1> DEFINE C(g) == {g} \X (1 .. inflight[g])
           U == UNION {C(g) : g \in Flying}
<1>1. inflight[f] \in 0 .. MaxFlight /\ inflight[f] \in Nat
  BY Bounds
<1>2. IsFiniteSet(U)
  <2>1. IsFiniteSet(Frames \X (1 .. MaxFlight))
    <3>1. 1 \in Int /\ MaxFlight \in Int
      BY Bounds
    <3>2. IsFiniteSet(1 .. MaxFlight)
      BY <3>1, FS_Interval
    <3> QED BY <3>2, FiniteFrames, FS_Product
  <2>2. ASSUME NEW g \in Flying, NEW x \in C(g) PROVE x \in Frames \X (1 .. MaxFlight)
    <3>1. g \in Frames /\ inflight[g] \in 0 .. MaxFlight
      BY DEF Flying
    <3>2. \A k \in 1 .. inflight[g] : k \in 1 .. MaxFlight
      BY <3>1, Bounds
    <3> QED BY <3>1, <3>2
  <2>3. U \subseteq Frames \X (1 .. MaxFlight)
    BY <2>2
  <2> QED BY <2>1, <2>3, FS_Subset
<1>3. FlightSize = Cardinality(U) /\ Cardinality(U) \in Nat
  BY <1>2, FS_CardinalityType DEF FlightSize
<1>4. CASE inflight[f] = 0
  BY <1>3, <1>4
<1>5. CASE inflight[f] > 0
  <2>1. f \in Flying
    BY <1>5 DEF Flying
  <2>2. C(f) \in SUBSET U
    BY <2>1
  <2>3. Cardinality(C(f)) <= Cardinality(U)
    BY <1>2, <2>2, FS_Subset
  <2>4. /\ IsFiniteSet({f}) /\ Cardinality({f}) = 1
        /\ IsFiniteSet(1 .. inflight[f]) /\ Cardinality(1 .. inflight[f]) = inflight[f]
    <3>1. PICK k \in Int : k = inflight[f]
      BY <1>1
    <3>2. IsFiniteSet(1 .. k) /\ Cardinality(1 .. k) = IF 1 > k THEN 0 ELSE k - 1 + 1
      BY FS_Interval
    <3>3. Cardinality(1 .. k) = k
      BY <1>5, <3>1, <3>2
    <3>4. IsFiniteSet({f}) /\ Cardinality({f}) = 1
      BY FS_Singleton
    <3> QED BY <3>1, <3>2, <3>3, <3>4
  <2>5. Cardinality(C(f)) = Cardinality({f}) * Cardinality(1 .. inflight[f])
    BY <2>4, FS_Product
  <2> HIDE DEF C, U
  <2>6. Cardinality(C(f)) = inflight[f]
    BY <1>1, <2>4, <2>5
  <2> QED BY <1>1, <1>3, <2>3, <2>6
<1> QED BY <1>1, <1>4, <1>5

LEMMA OneMore ==
    ASSUME inflight \in [Frames -> 0 .. MaxFlight], FlightSize < MaxFlight, NEW f \in Frames,
           inflight' = [inflight EXCEPT ![f] = @ + 1]
    PROVE  inflight' \in [Frames -> 0 .. MaxFlight]
<1>1. inflight[f] \in Nat /\ inflight[f] <= FlightSize
  BY CopiesInFlight, Bounds
<1>2. FlightSize \in Int
  <2>1. IsFiniteSet(UNION {{g} \X (1 .. inflight[g]) : g \in Flying})
    <3>1. 1 \in Int /\ MaxFlight \in Int
      BY Bounds
    <3>2. IsFiniteSet(Frames \X (1 .. MaxFlight))
      BY <3>1, FS_Interval, FiniteFrames, FS_Product
    <3>3. ASSUME NEW g \in Flying PROVE {g} \X (1 .. inflight[g]) \subseteq Frames \X (1 .. MaxFlight)
      <4>1. g \in Frames /\ inflight[g] \in 0 .. MaxFlight
        BY DEF Flying
      <4>2. \A k \in 1 .. inflight[g] : k \in 1 .. MaxFlight
        BY <4>1, Bounds
      <4> QED BY <4>1, <4>2
    <3> QED BY <3>2, <3>3, FS_Subset
  <2> QED BY <2>1, FS_CardinalityType DEF FlightSize
<1>3. inflight[f] + 1 \in 0 .. MaxFlight
  BY <1>1, <1>2, Bounds
<1> QED BY <1>3

LEMMA OneLess ==
    ASSUME inflight \in [Frames -> 0 .. MaxFlight], NEW f \in Frames, inflight[f] > 0,
           inflight' = [inflight EXCEPT ![f] = @ - 1]
    PROVE  inflight' \in [Frames -> 0 .. MaxFlight]
<1>1. inflight[f] - 1 \in 0 .. MaxFlight
  BY Bounds
<1> QED BY <1>1

(* What len counts, action by action.                                      *)
LEMMA LenStep ==
    ASSUME SInv, len \in Nat, LenCovers, [Next]_vars
    PROVE  len' \in Nat /\ LenCovers'
<1>0. /\ Pending \subseteq Offsets /\ Pending' \subseteq Offsets
  BY FrontOf DEF Pending
<1>1. /\ IsFiniteSet(Pending) /\ Cardinality(Pending) \in Nat
      /\ IsFiniteSet(Pending') /\ Cardinality(Pending') \in Nat
      /\ len >= Cardinality(Pending)
  BY <1>0, FiniteBytes DEF LenCovers
<1> SUFFICES len' \in Nat /\ len' >= Cardinality(Pending')
  BY DEF LenCovers
<1>2. off \in Nat /\ OffFront \in Nat
  BY Facts, FrontFacts, Bounds
<1>3. ASSUME NEW n \in 0 .. MaxOff, NEW fin \in BOOLEAN,
             StreamSend(n, fin, SendBufferSize) \/ (n > SendBufferSize /\ StreamSend(n, fin, n))
      PROVE  len' \in Nat /\ len' >= Cardinality(Pending')
  <2>1. SendBufferSize \in Nat \ {0} /\ (n > SendBufferSize => n \in Nat \ {0})
    BY Bounds
  <2>2. PICK k \in Nat : /\ off + k <= MaxOff /\ len' = len + k
                         /\ Pending' = Pending \cup Bytes(off, off + k)
    BY <1>3, <2>1, StreamSendStep
  <2> DEFINE N == Bytes(off, off + k)
  <2>3. N \subseteq Offsets
    BY DEF Bytes
  <2>4. Cardinality(N) = k
    <3>1. off + k \in Nat /\ off <= off + k /\ (off + k) - off = k
      BY <1>2
    <3> QED BY <1>2, <2>2, <3>1, BytesCount
  <2> HIDE DEF N
  <2>5. /\ Cardinality(Pending \cup N)
             = Cardinality(Pending) + Cardinality(N) - Cardinality(Pending \cap N)
        /\ Cardinality(Pending \cap N) \in Nat
    <3>1. IsFiniteSet(N) /\ Pending \cap N \subseteq Offsets
      BY <1>0, <2>3, FiniteBytes
    <3> QED BY <1>1, <3>1, FiniteBytes, FS_Union
  <2>6. Pending' = Pending \cup N
    BY <2>2 DEF N
  <2>7. Cardinality(Pending') <= Cardinality(Pending) + k
    BY <1>1, <2>4, <2>5, <2>6
  <2> QED BY <1>1, <2>2, <2>7
<1>4. ASSUME NEW n \in (IF WideHeader THEN 0 ELSE 1) .. MaxOff, StreamFrame(n)
      PROVE  len' \in Nat /\ len' >= Cardinality(Pending')
  <2> DEFINE e == EmitEnd(n)
             E == Bytes(OffFront, e)
  <2>1. n \in 0 .. MaxOff /\ n \in Nat
    BY Bounds
  <2>2. len' = len - (e - OffFront) /\ Pending' = Pending \ E
    BY <1>4, <2>1, StreamFrameStep DEF StreamFrame
  <2>3. e \in Nat /\ OffFront <= e /\ e <= MaxOff /\ E \subseteq Pending
    <3>1. e \in Nat /\ OffFront <= e /\ e <= off /\ E \subseteq Pending
      BY <2>1, EmitFacts
    <3>2. off \in Nat /\ off <= MaxOff
      BY Facts, Bounds
    <3> QED BY <3>1, <3>2, Bounds
  <2> HIDE DEF e
  <2>4. Cardinality(E) = e - OffFront
    BY <1>2, <2>3, BytesCount
  <2> HIDE DEF E
  <2>5. Cardinality(Pending \ E) = Cardinality(Pending) - Cardinality(Pending \cap E)
    BY <1>1, FS_Difference
  <2>6. Pending \cap E = E
    BY <2>3
  <2>7. Cardinality(Pending') = Cardinality(Pending) - (e - OffFront)
    BY <2>2, <2>4, <2>5, <2>6
  <2> QED BY <1>1, <1>2, <2>2, <2>3, <2>7
<1>5. ASSUME len' = len, Pending' \subseteq Pending
      PROVE  len' \in Nat /\ len' >= Cardinality(Pending')
  <2>1. Cardinality(Pending') <= Cardinality(Pending)
    BY <1>1, <1>5, FS_Subset
  <2> QED BY <1>1, <1>5, <2>1
<1>6. ASSUME NEW f \in Flying, AckStream(f)
      PROVE  len' \in Nat /\ len' >= Cardinality(Pending')
  BY <1>5, <1>6, AckStreamStep DEF AckStream
<1>7. ASSUME NEW f \in lost, HandleLost(f)
      PROVE  len' \in Nat /\ len' >= Cardinality(Pending')
  <2>1. CASE collected
    <3>1. UNCHANGED <<data, pos, len>>
      BY <1>7, <2>1 DEF HandleLost
    <3> QED BY <1>5, <3>1 DEF Pending
  <2>2. CASE ~collected
    <3>1. len' = len + Cardinality(Unsent(data', 1) \ Unsent(data, 1))
      BY <1>7, <2>2 DEF HandleLost, LenAfter
    <3>2. Pending = Unsent(data, 1)
      BY Facts
    <3>3. Pending' = Unsent(data', 1)
      <4>1. Chain(data', Front(data', off'), off') /\ SentBefore(data', pos')
        BY <1>7, HandleLostStep DEF OwnInv, BufInv
      <4>2. data' \in Seq(Buffers)
        BY <4>1 DEF Chain
      <4> QED BY <4>1, <4>2, PendingAll DEF Pending
    <3>4. len' = len + Cardinality(Pending' \ Pending)
      BY <3>1, <3>2, <3>3
    <3>5. /\ Cardinality(Pending' \ Pending)
               = Cardinality(Pending') - Cardinality(Pending' \cap Pending)
          /\ Cardinality(Pending' \ Pending) \in Nat
          /\ Cardinality(Pending' \cap Pending) \in Nat
          /\ Cardinality(Pending' \cap Pending) <= Cardinality(Pending)
      <4>1. Pending' \ Pending \subseteq Offsets /\ Pending' \cap Pending \subseteq Offsets
        BY <1>0
      <4>2. Pending' \cap Pending \in SUBSET Pending
        OBVIOUS
      <4> QED BY <1>1, <4>1, <4>2, FiniteBytes, FS_Difference, FS_Subset
    <3> QED BY <1>1, <3>4, <3>5
  <2> QED BY <2>1, <2>2
<1>8. ASSUME StopSending \/ ShutdownWrite
      PROVE  len' \in Nat /\ len' >= Cardinality(Pending')
  <2>1. len' = 0 /\ data' = <<>> /\ pos' = 1
    BY <1>8 DEF StopSending, ShutdownWrite, ResetBuf
  <2>2. Pending' = {}
    BY <2>1, <1>2, EmptyBuffers DEF Pending
  <2> QED BY <2>1, <2>2, FS_EmptySet
<1>9. ASSUME UNCHANGED <<data, pos, len>> PROVE len' \in Nat /\ len' >= Cardinality(Pending')
  BY <1>5, <1>9 DEF Pending
<1>10. ASSUME UNCHANGED bufVars PROVE len' \in Nat /\ len' >= Cardinality(Pending')
  BY <1>9, <1>10 DEF bufVars
<1>11. ASSUME NEW f \in Flying, AckCollected(f) \/ DeclareLost(f) \/ Probe(f)
       PROVE  UNCHANGED bufVars
  BY <1>11 DEF AckCollected, DeclareLost, Probe
<1>12. ASSUME NEW r \in rflight, AckReset(r) \/ LostReset(r) PROVE UNCHANGED bufVars
  BY <1>12 DEF AckReset, LostReset
<1>13. ASSUME RecvFin \/ ResetFrame \/ SkipStream \/ UNCHANGED vars PROVE UNCHANGED bufVars
  BY <1>13 DEF RecvFin, ResetFrame, SkipStream, vars
<1>14. ASSUME NEW m \in 0 .. MaxOff, MaxStreamData(m) PROVE UNCHANGED <<data, pos, len>>
  BY <1>14 DEF MaxStreamData
<1> QED BY <1>3, <1>4, <1>6, <1>7, <1>8, <1>9, <1>10, <1>11, <1>12, <1>13, <1>14 DEF Next

LEMMA CountStep ==
    ASSUME SInv, CountInv, [Next]_vars
    PROVE  CountInv'
<1>0. /\ inflight \in [Frames -> 0 .. MaxFlight] /\ delivered \subseteq Offsets
      /\ reset \in Resets /\ rflight \subseteq Resets
  BY DEF CountInv
<1>1. len' \in Nat /\ LenCovers'
  BY LenStep DEF CountInv
<1> DEFINE Rest == /\ inflight' \in [Frames -> 0 .. MaxFlight] /\ delivered' \subseteq Offsets
                   /\ reset' \in Resets /\ rflight' \subseteq Resets
<1> SUFFICES Rest
  BY <1>1 DEF CountInv
<1>2. ASSUME UNCHANGED <<reset, netVars>> PROVE Rest
  BY <1>0, <1>2 DEF netVars
<1>3. ASSUME NEW n, NEW fin, NEW size, StreamSend(n, fin, size) PROVE Rest
  BY <1>2, <1>3 DEF StreamSend
<1>4. ASSUME NEW n \in (IF WideHeader THEN 0 ELSE 1) .. MaxOff, StreamFrame(n) PROVE Rest
  <2> DEFINE e == EmitEnd(n)
             f == [off |-> OffFront, end |-> e, fin |-> fin_off = e]
  <2>1. /\ FlightSize < MaxFlight /\ inflight' = [inflight EXCEPT ![f] = @ + 1]
        /\ UNCHANGED <<reset, rflight, delivered>>
    BY <1>4 DEF StreamFrame
  <2>2. f \in Frames
    <3>1. n \in Nat
      BY Bounds
    <3>2. e \in Nat /\ OffFront <= e /\ e <= off
      BY <3>1, EmitFacts
    <3>3. OffFront \in 0 .. MaxOff /\ off \in 0 .. MaxOff
      BY FrontFacts, Facts
    <3> HIDE DEF e
    <3>4. e \in 0 .. MaxOff
      BY <3>2, <3>3, Bounds
    <3> QED BY <3>2, <3>3, <3>4 DEF Frames
  <2> HIDE DEF f
  <2>3. inflight' \in [Frames -> 0 .. MaxFlight]
    BY <1>0, <2>1, <2>2, OneMore
  <2> QED BY <1>0, <2>1, <2>3
<1>5. ASSUME NEW f \in Flying, AckStream(f) \/ AckCollected(f) PROVE Rest
  <2>1. /\ inflight[f] > 0 /\ inflight' = [inflight EXCEPT ![f] = @ - 1]
        /\ delivered' = delivered \cup Bytes(f.off, f.end)
        /\ UNCHANGED <<reset, rflight>>
    BY <1>5 DEF AckStream, AckCollected, AckFrame
  <2>2. f \in Frames
    BY DEF Flying
  <2>3. inflight' \in [Frames -> 0 .. MaxFlight]
    BY <1>0, <2>1, <2>2, OneLess
  <2>4. delivered' \subseteq Offsets
    BY <1>0, <2>1 DEF Bytes
  <2> QED BY <1>0, <2>1, <2>3, <2>4
<1>6. ASSUME NEW f \in Flying, DeclareLost(f) PROVE Rest
  <2>1. /\ inflight[f] > 0 /\ inflight' = [inflight EXCEPT ![f] = @ - 1]
        /\ UNCHANGED <<reset, rflight, delivered>> /\ f \in Frames
    BY <1>6 DEF DeclareLost, Flying
  <2>2. inflight' \in [Frames -> 0 .. MaxFlight]
    BY <1>0, <2>1, OneLess
  <2> QED BY <1>0, <2>1, <2>2
<1>7. ASSUME UNCHANGED <<inflight, delivered, reset, rflight>> PROVE Rest
  BY <1>0, <1>7
<1>8. ASSUME NEW f \in Flying, Probe(f) PROVE Rest
  BY <1>7, <1>8 DEF Probe
<1>9. ASSUME NEW f \in lost, HandleLost(f) PROVE Rest
  BY <1>7, <1>9 DEF HandleLost
<1>10. ASSUME NEW r \in rflight, AckReset(r) \/ LostReset(r) PROVE Rest
  <2>1. /\ UNCHANGED <<inflight, delivered>> /\ rflight' = rflight \ {r}
        /\ reset' = reset \/ reset' = r
    BY <1>10 DEF AckReset, LostReset
  <2> QED BY <1>0, <2>1
<1>11. ASSUME ResetFrame PROVE Rest
  <2>1. /\ UNCHANGED <<inflight, delivered>> /\ rflight' = rflight \cup {reset}
        /\ reset' = NoReset
    BY <1>11 DEF ResetFrame
  <2>2. NoReset \in Resets
    BY DEF NoReset, Resets
  <2> QED BY <1>0, <2>1, <2>2
<1>12. ASSUME StopSending \/ ShutdownWrite PROVE Rest
  <2>1. /\ UNCHANGED netVars
        /\ reset' = [code |-> "peer", size |-> emit_off]
           \/ reset' = [code |-> "app", size |-> emit_off]
    BY <1>12 DEF StopSending, ShutdownWrite, ResetBuf
  <2>2. emit_off \in 0 .. MaxOff
    BY Facts
  <2>3. reset' \in Resets
    BY <2>1, <2>2 DEF Resets
  <2> QED BY <1>0, <2>1, <2>3 DEF netVars
<1>13. ASSUME NEW m, MaxStreamData(m) PROVE Rest
  BY <1>2, <1>13 DEF MaxStreamData
<1>14. ASSUME SkipStream \/ RecvFin \/ UNCHANGED vars PROVE Rest
  BY <1>2, <1>14 DEF SkipStream, RecvFin, vars
<1> HIDE DEF Rest
<1> QED BY <1>3, <1>4, <1>5, <1>6, <1>8, <1>9, <1>10, <1>11, <1>12, <1>13, <1>14 DEF Next

(* pos, moved back by ack_and_drop and by retransmit, always names a       *)
(* buffer or the end of the queue; and len, which ack_and_drop never       *)
(* lowers, counts at least the bytes to be sent, so that `self.len -=      *)
(* buf_len` in emit does not underflow.                                    *)
THEOREM CountersSafe == Spec => [](TypeOK /\ LenCovers)
<1>1. Init => SInv /\ CountInv
  <2> SUFFICES ASSUME Init PROVE CountInv
    BY InitStep
  <2>1. /\ data = <<>> /\ pos = 1 /\ len = 0 /\ reset = NoReset /\ rflight = {}
        /\ inflight = [f \in Frames |-> 0] /\ delivered = {}
    BY DEF Init
  <2>2. Pending = {} /\ Cardinality(Pending) = 0
    BY <2>1, EmptyBuffers, FS_EmptySet DEF Pending
  <2>3. inflight \in [Frames -> 0 .. MaxFlight]
    <3>1. 0 \in 0 .. MaxFlight
      BY Bounds
    <3> QED BY <2>1, <3>1
  <2>4. reset \in Resets
    BY <2>1 DEF NoReset, Resets
  <2> QED BY <2>1, <2>2, <2>3, <2>4 DEF CountInv, LenCovers
<1>2. SInv /\ CountInv /\ [Next]_vars => SInv' /\ CountInv'
  BY NextSInv, CountStep
<1>3. SInv /\ CountInv => TypeOK /\ LenCovers
  <2> SUFFICES ASSUME SInv, CountInv PROVE TypeOK /\ LenCovers
    OBVIOUS
  <2>1. /\ off \in 0 .. MaxOff /\ emit_off \in 0 .. MaxOff /\ max_data \in 0 .. MaxOff
        /\ fin_off \in 0 .. MaxOff \cup {None} /\ acked \subseteq Offsets
        /\ lost \subseteq Frames /\ finals \subseteq 0 .. MaxOff
        /\ data \in Seq(Buffers) /\ SentBefore(data, pos)
    BY Facts
  <2>2. pos \in 1 .. Len(data) + 1
    BY <2>1 DEF SentBefore
  <2>3. {acked0, error, shutdown, flushable, recv_fin, collected} \subseteq BOOLEAN
    BY DEF SInv, OwnInv, FlagsOK
  <2>4. /\ len \in Nat /\ LenCovers /\ inflight \in [Frames -> 0 .. MaxFlight]
        /\ delivered \subseteq Offsets
        /\ reset \in [code : {"none", "app", "peer"}, size : 0 .. MaxOff \cup {None}]
    BY DEF CountInv, Resets
  <2> QED BY <2>1, <2>2, <2>3, <2>4 DEF TypeOK
<1> QED BY <1>1, <1>2, <1>3, PTL DEF Spec

============================================================================
