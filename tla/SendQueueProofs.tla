-------------------------- MODULE SendQueueProofs --------------------------
(***************************************************************************)
(* The send ledger forgets no byte and commits to one final size, for      *)
(* every stream length, flow control limit and number of frames in flight. *)
(***************************************************************************)
EXTENDS SendQueue, TLAPS

(* The bounds are natural numbers, so the offsets below are integers.      *)
LEMMA Bounds == /\ MaxOff \in Nat /\ InitMaxData \in 0 .. MaxOff
                /\ None \notin 0 .. MaxOff /\ None \in Int
BY BoundAssumption, InitAssumption DEF None

(* Nothing has been written, sent or decided at the start.                 *)
LEMMA InitIInv == Init => IInv
<1> SUFFICES ASSUME Init PROVE IInv
    OBVIOUS
<1> USE Bounds
<1>1. TypeOK
  <2>1. inflight \in [Frames -> Nat] /\ closed \in BOOLEAN
    BY DEF Init
  <2>2. off \in 0 .. MaxOff /\ sent \in 0 .. MaxOff /\ max_data \in 0 .. MaxOff
    BY DEF Init
  <2>3. /\ fin_off \in 0 .. MaxOff \cup {None} /\ acked \subseteq Offsets
        /\ pend \subseteq Offsets /\ lost \subseteq Frames /\ finals \subseteq 0 .. MaxOff
    BY DEF Init
  <2> QED
    BY <2>1, <2>2, <2>3 DEF TypeOK
<1>2. NothingForgotten
    BY DEF Init, NothingForgotten, Bytes, Offsets
<1>3. WithinLimits
    BY DEF Init, WithinLimits
<1>4. OneFinalSize /\ PendInv /\ FinInv
    BY DEF Init, OneFinalSize, PendInv, FinInv, Offsets, None
<1> QED
    BY <1>1, <1>2, <1>3, <1>4 DEF IInv

(* Writing appends to the bytes waiting, within the peer's limit.          *)
LEMMA WriteKeeps ==
    ASSUME IInv, NEW n \in 0 .. MaxOff, NEW fin \in BOOLEAN, Write(n, fin)
    PROVE  IInv'
<1> USE Bounds DEF IInv
<1>0. /\ off + n <= MaxOff /\ off' = off + n /\ off' \in 0 .. MaxOff
      /\ fin_off = None \/ (n = 0 /\ fin)
    BY DEF Write, TypeOK
<1>1. TypeOK'
  <2>1. Bytes(off, off + n) \subseteq Offsets
    BY DEF Bytes
  <2> QED
    BY <1>0, <2>1 DEF Write, TypeOK
<1>2. NothingForgotten'
  <2> SUFFICES ASSUME NEW i \in Bytes(0, off')
               PROVE  (i \in acked \/ i \in pend \/ InFlight(i) \/ BeingLost(i))'
      BY DEF NothingForgotten
  <2>1. CASE i < off
    <3>1. i \in Bytes(0, off)
      BY <2>1 DEF Bytes
    <3>2. i \in acked \/ i \in pend \/ InFlight(i) \/ BeingLost(i)
      BY <3>1 DEF NothingForgotten
    <3> QED
      BY <3>2 DEF Write, InFlight, BeingLost
  <2>2. CASE ~(i < off)
    <3>1. i \in Bytes(off, off + n)
      BY <1>0, <2>2 DEF Bytes, TypeOK, Offsets
    <3> QED
      BY <3>1 DEF Write
  <2> QED
    BY <2>1, <2>2
<1>3. WithinLimits'
    BY <1>0 DEF Write, WithinLimits, TypeOK
<1>4. OneFinalSize'
    BY <1>0 DEF Write, OneFinalSize, FinInv, TypeOK, WithinLimits
<1>5. PendInv'
  <2>1. \A i \in pend' : i < off'
    BY <1>0 DEF Write, PendInv, Bytes, TypeOK, Offsets
  <2>2. \A i \in Offsets : sent <= i /\ i < off + n => i \in pend \cup Bytes(off, off + n)
    BY <1>0 DEF PendInv, Bytes, TypeOK, Offsets
  <2> QED
    BY <1>0, <2>1, <2>2 DEF PendInv, Write
<1>6. FinInv'
    BY <1>0 DEF Write, FinInv, TypeOK, OneFinalSize, WithinLimits
<1> QED
    BY <1>1, <1>2, <1>3, <1>4, <1>5, <1>6

(* A larger limit changes nothing else.                                    *)
LEMMA MaxStreamDataKeeps ==
    ASSUME IInv, NEW m \in 0 .. MaxOff, MaxStreamData(m)
    PROVE  IInv'
<1> USE Bounds DEF IInv
<1>1. TypeOK' /\ NothingForgotten' /\ OneFinalSize' /\ PendInv' /\ FinInv'
    BY DEF MaxStreamData, TypeOK, NothingForgotten, OneFinalSize, PendInv, FinInv,
           InFlight, BeingLost
<1>2. WithinLimits'
    BY DEF MaxStreamData, WithinLimits, TypeOK
<1> QED
    BY <1>1, <1>2

(* The frame a send step puts in flight, and what it leaves behind.        *)
LEMMA EmitKeeps ==
    ASSUME IInv, NEW o \in 0 .. MaxOff, NEW e \in 0 .. MaxOff, Emit(o, e)
    PROVE  IInv'
<1> USE Bounds DEF IInv
<1> DEFINE g == [off |-> o, end |-> e, fin |-> fin_off = e]
<1>0. /\ g \in Frames /\ g.off = o /\ g.end = e
      /\ inflight' = [inflight EXCEPT ![g] = @ + 1]
    BY Zenon DEF Emit, Frames
<1>1. /\ inflight' \in [Frames -> Nat]
      /\ inflight'[g] > 0
      /\ \A f \in Frames : f # g => inflight'[f] = inflight[f]
      /\ \A f \in Frames : inflight[f] > 0 => inflight'[f] > 0
  <2> HIDE DEF g
  <2> QED
    BY <1>0 DEF TypeOK
<1> HIDE DEF g
<1>2. e <= off
  <2>1. CASE o = e
    BY <2>1 DEF Emit, PendInv, TypeOK, Offsets
  <2>2. CASE o < e
    <3>1. e - 1 \in Bytes(o, e)
      BY <2>2 DEF Bytes, Offsets
    <3>2. e - 1 \in pend
      BY <3>1 DEF Emit
    <3> QED
      BY <3>2 DEF PendInv, TypeOK, Offsets
  <2> QED
    BY <2>1, <2>2 DEF Emit
<1>3. sent' = (IF sent < e THEN e ELSE sent) /\ sent' \in 0 .. MaxOff
      /\ sent <= sent' /\ e <= sent' /\ sent' <= off
    BY <1>2 DEF Emit, TypeOK, WithinLimits
<1>4. TypeOK'
    BY <1>1, <1>3 DEF Emit, TypeOK
<1>5. NothingForgotten'
  <2> SUFFICES ASSUME NEW i \in Bytes(0, off)
               PROVE  (i \in acked \/ i \in pend \/ InFlight(i) \/ BeingLost(i))'
      BY DEF NothingForgotten, Emit
  <2>1. i \in acked \/ i \in pend \/ InFlight(i) \/ BeingLost(i)
      BY DEF NothingForgotten
  <2>2. CASE i \in acked \/ BeingLost(i)
      BY <2>2 DEF Emit, BeingLost
  <2>3. CASE InFlight(i)
      BY <1>1, <2>3 DEF InFlight
  <2>4. CASE i \in pend
    <3>1. i \in Bytes(o, e) \/ i \in pend'
      BY <2>4 DEF Emit
    <3> QED
      BY <1>0, <1>1, <3>1 DEF InFlight
  <2> QED
    BY <2>1, <2>2, <2>3, <2>4
<1>6. WithinLimits'
  <2>1. \A i \in acked' : i < sent'
    BY <1>3 DEF Emit, WithinLimits, TypeOK, Offsets
  <2>2. ASSUME NEW f \in Frames, inflight'[f] > 0 \/ f \in lost'
        PROVE  f.end <= sent'
    <3>1. CASE f = g
      BY <1>0, <1>3, <3>1
    <3>2. CASE f # g
      <4>1. f.end <= sent
        BY <1>1, <2>2, <3>2 DEF Emit, WithinLimits
      <4>2. f.end \in 0 .. MaxOff
        BY DEF Frames
      <4> QED
        BY <1>3, <4>1, <4>2 DEF TypeOK
    <3> QED
      BY <3>1, <3>2
  <2>3. sent' <= off' /\ off' <= max_data'
    BY <1>3 DEF Emit, WithinLimits
  <2> QED
    BY <2>1, <2>2, <2>3 DEF WithinLimits
<1>7. OneFinalSize'
  <2>1. fin_off' = fin_off /\ off' = off
    BY DEF Emit
  <2>2. CASE fin_off = e
    BY <1>3, <2>1, <2>2 DEF Emit, OneFinalSize, FinInv, TypeOK
  <2>3. CASE fin_off # e
    BY <1>2, <1>3, <2>1, <2>3 DEF Emit, OneFinalSize, FinInv, TypeOK, WithinLimits
  <2> QED
    BY <2>2, <2>3
<1>8. PendInv'
  <2>1. \A i \in pend' : i < off'
    BY DEF Emit, PendInv
  <2>2. ASSUME NEW i \in Offsets, sent' <= i, i < off'
        PROVE  i \in pend'
    <3>1. sent <= i /\ i < off /\ ~(i < e)
      BY <1>3, <2>2 DEF Emit, TypeOK, Offsets
    <3>2. i \in pend /\ i \notin Bytes(o, e)
      BY <3>1 DEF PendInv, Bytes
    <3> QED
      BY <3>2 DEF Emit
  <2> QED
    BY <2>1, <2>2 DEF PendInv
<1>9. FinInv'
  <2>1. /\ fin_off' = fin_off /\ off' = off /\ closed' = closed
        /\ finals' = IF fin_off = e THEN finals \cup {e} ELSE finals
    BY DEF Emit
  <2>2. closed => sent' = sent
    BY <1>2, <1>3 DEF FinInv, TypeOK, WithinLimits
  <2>3. finals' # {} => fin_off # None
    BY <2>1 DEF FinInv
  <2> QED
    BY <2>1, <2>2, <2>3 DEF FinInv
<1> QED
    BY <1>4, <1>5, <1>6, <1>7, <1>8, <1>9

(* Taking one copy of a frame out of flight.                               *)
LEMMA OneCopyLess ==
    ASSUME TypeOK, NEW f \in Frames, inflight[f] > 0,
           inflight' = [inflight EXCEPT ![f] = @ - 1]
    PROVE  /\ inflight' \in [Frames -> Nat]
           /\ \A h \in Frames : h # f => inflight'[h] = inflight[h]
           /\ \A h \in Frames : inflight'[h] > 0 => inflight[h] > 0
BY DEF TypeOK

(* Acked bytes are delivered: withdrawing them forgets nothing.            *)
LEMMA AckKeeps ==
    ASSUME IInv, NEW f \in Frames, Ack(f)
    PROVE  IInv'
<1> USE Bounds DEF IInv
<1>1. /\ inflight' \in [Frames -> Nat]
      /\ \A h \in Frames : h # f => inflight'[h] = inflight[h]
      /\ \A h \in Frames : inflight'[h] > 0 => inflight[h] > 0
    BY OneCopyLess, Zenon DEF Ack
<1>2. Bytes(f.off, f.end) \subseteq Offsets
    BY DEF Bytes
<1>3. TypeOK'
    BY <1>1, <1>2 DEF Ack, TypeOK
<1>4. NothingForgotten'
  <2> SUFFICES ASSUME NEW i \in Bytes(0, off)
               PROVE  (i \in acked \/ i \in pend \/ InFlight(i) \/ BeingLost(i))'
      BY DEF NothingForgotten, Ack
  <2>1. i \in acked \/ i \in pend \/ InFlight(i) \/ BeingLost(i)
      BY DEF NothingForgotten
  <2>2. CASE i \in acked \/ i \in pend \/ BeingLost(i)
      BY <2>2 DEF Ack, BeingLost
  <2>3. CASE InFlight(i)
    <3>1. PICK h \in Frames : inflight[h] > 0 /\ i \in Bytes(h.off, h.end)
      BY <2>3 DEF InFlight
    <3>2. CASE h = f
      BY <3>1, <3>2 DEF Ack
    <3>3. CASE h # f
      BY <1>1, <3>1, <3>3 DEF InFlight
    <3> QED
      BY <3>2, <3>3
  <2> QED
    BY <2>1, <2>2, <2>3
<1>5. WithinLimits'
  <2>1. \A i \in Bytes(f.off, f.end) : i < sent
    <3>1. f.end <= sent /\ f.end \in 0 .. MaxOff
      BY DEF Ack, WithinLimits, Frames
    <3> QED
      BY <3>1 DEF Bytes, Offsets, TypeOK
  <2>2. \A h \in Frames : inflight'[h] > 0 \/ h \in lost' => h.end <= sent
    BY <1>1 DEF Ack, WithinLimits
  <2> QED
    BY <2>1, <2>2 DEF Ack, WithinLimits
<1>6. OneFinalSize' /\ FinInv'
    BY DEF Ack, OneFinalSize, FinInv
<1>7. PendInv'
  <2>1. \A i \in pend' : i < off'
    BY DEF Ack, PendInv
  <2>2. ASSUME NEW i \in Offsets, sent <= i, i < off
        PROVE  i \in pend'
    <3>1. i \in pend
      BY <2>2 DEF PendInv
    <3>2. i \notin acked'
      BY <1>5, <2>2 DEF WithinLimits, Ack, Offsets, TypeOK
    <3> QED
      BY <3>1, <3>2 DEF Ack
  <2> QED
    BY <2>1, <2>2 DEF PendInv, Ack
<1> QED
    BY <1>3, <1>4, <1>5, <1>6, <1>7

(* A frame given up on is remembered as lost before it leaves the flight.  *)
LEMMA LossKeeps ==
    ASSUME IInv, NEW f \in Frames, DeclareLost(f) \/ Probe(f)
    PROVE  IInv'
<1> USE Bounds DEF IInv
<1>0. /\ inflight[f] > 0 /\ lost' = lost \cup {f}
      /\ UNCHANGED <<off, max_data, fin_off, sent, acked, pend, closed, finals>>
    BY DEF DeclareLost, Probe
<1>1. /\ inflight' \in [Frames -> Nat]
      /\ \A h \in Frames : h # f => inflight'[h] = inflight[h]
      /\ \A h \in Frames : inflight'[h] > 0 => inflight[h] > 0
  <2>1. CASE Probe(f)
    BY <2>1 DEF Probe, TypeOK
  <2>2. CASE DeclareLost(f)
    BY <2>2, OneCopyLess, Zenon DEF DeclareLost
  <2> QED
    BY <2>1, <2>2
<1>2. TypeOK'
    BY <1>0, <1>1 DEF TypeOK
<1>3. NothingForgotten'
  <2> SUFFICES ASSUME NEW i \in Bytes(0, off)
               PROVE  (i \in acked \/ i \in pend \/ InFlight(i) \/ BeingLost(i))'
      BY <1>0 DEF NothingForgotten
  <2>1. i \in acked \/ i \in pend \/ InFlight(i) \/ BeingLost(i)
      BY DEF NothingForgotten
  <2>2. CASE i \in acked \/ i \in pend \/ BeingLost(i)
      BY <1>0, <2>2 DEF BeingLost
  <2>3. CASE InFlight(i)
      BY <1>0, <1>1, <2>3 DEF InFlight, BeingLost
  <2> QED
    BY <2>1, <2>2, <2>3
<1>4. WithinLimits'
    BY <1>0, <1>1 DEF WithinLimits
<1>5. OneFinalSize' /\ PendInv' /\ FinInv'
    BY <1>0 DEF OneFinalSize, PendInv, FinInv
<1> QED
    BY <1>2, <1>3, <1>4, <1>5

(* The bytes of a lost frame wait again unless they are acked.             *)
LEMMA RetransmitKeeps ==
    ASSUME IInv, NEW f \in Frames, Retransmit(f)
    PROVE  IInv'
<1> USE Bounds DEF IInv
<1>0. /\ f \in lost /\ lost' = lost \ {f}
      /\ \A i \in pend' : i \in pend \/ i \in Bytes(f.off, f.end)
      /\ \A i \in pend : i \in pend'
      /\ \A i \in Bytes(f.off, f.end) : i \in acked \/ i \in pend'
      /\ UNCHANGED <<off, max_data, fin_off, sent, acked, inflight, closed, finals>>
    BY DEF Retransmit
<1>1. TypeOK'
    BY <1>0 DEF TypeOK, Bytes
<1>2. NothingForgotten'
  <2> SUFFICES ASSUME NEW i \in Bytes(0, off)
               PROVE  (i \in acked \/ i \in pend \/ InFlight(i) \/ BeingLost(i))'
      BY <1>0 DEF NothingForgotten
  <2>1. i \in acked \/ i \in pend \/ InFlight(i) \/ BeingLost(i)
      BY DEF NothingForgotten
  <2>2. CASE i \in acked \/ i \in pend \/ InFlight(i)
      BY <1>0, <2>2 DEF InFlight
  <2>3. CASE BeingLost(i)
    <3>1. PICK h \in lost : i \in Bytes(h.off, h.end)
      BY <2>3 DEF BeingLost
    <3>2. CASE h = f
      BY <1>0, <3>1, <3>2
    <3>3. CASE h # f
      BY <1>0, <3>1, <3>3 DEF BeingLost
    <3> QED
      BY <3>2, <3>3
  <2> QED
    BY <2>1, <2>2, <2>3
<1>3. WithinLimits'
    BY <1>0 DEF WithinLimits
<1>4. OneFinalSize' /\ FinInv'
    BY <1>0 DEF OneFinalSize, FinInv
<1>5. PendInv'
  <2>1. f.end <= sent /\ sent <= off /\ f.end \in 0 .. MaxOff
    BY <1>0 DEF WithinLimits, Frames
  <2>2. \A i \in Bytes(f.off, f.end) : i < off
    BY <1>0, <2>1 DEF Bytes, Offsets, TypeOK
  <2> QED
    BY <1>0, <2>2 DEF PendInv
<1> QED
    BY <1>1, <1>2, <1>3, <1>4, <1>5

(* A reset forgets what was not sent, and fixes the final size at what was. *)
LEMMA ResetKeeps ==
    ASSUME IInv, Reset
    PROVE  IInv'
<1> USE Bounds DEF IInv
<1>0. /\ closed' = TRUE /\ off' = sent /\ fin_off' = sent /\ pend' = {}
      /\ acked' = acked \cup Bytes(0, sent)
      /\ UNCHANGED <<max_data, sent, inflight, lost, finals>>
    BY DEF Reset
<1>1. Bytes(0, sent) \subseteq Offsets /\ \A i \in Bytes(0, sent) : i < sent
    BY DEF Bytes
<1>2. TypeOK'
    BY <1>0, <1>1 DEF TypeOK
<1>3. NothingForgotten'
    BY <1>0 DEF NothingForgotten
<1>4. WithinLimits'
    BY <1>0, <1>1 DEF WithinLimits, TypeOK
<1>5. OneFinalSize'
    BY <1>0 DEF OneFinalSize
<1>6. PendInv' /\ FinInv'
    BY <1>0 DEF PendInv, FinInv, TypeOK, Offsets, None
<1> QED
    BY <1>2, <1>3, <1>4, <1>5, <1>6

(* RESET_STREAM carries the final size already fixed.                      *)
LEMMA SendResetKeeps ==
    ASSUME IInv, SendReset
    PROVE  IInv'
<1> USE Bounds DEF IInv
<1>0. /\ closed /\ finals' = finals \cup {fin_off} /\ fin_off = sent
      /\ UNCHANGED <<off, max_data, fin_off, sent, acked, pend, inflight, lost, closed>>
    BY DEF SendReset, FinInv
<1>1. TypeOK' /\ NothingForgotten' /\ WithinLimits' /\ PendInv'
    BY <1>0 DEF TypeOK, NothingForgotten, WithinLimits, PendInv, InFlight, BeingLost
<1>2. OneFinalSize' /\ FinInv'
    BY <1>0 DEF OneFinalSize, FinInv, TypeOK
<1> QED
    BY <1>1, <1>2

(* Every step of the ledger keeps the invariant.                           *)
LEMMA NextIInv == IInv /\ [Next]_vars => IInv'
<1> SUFFICES ASSUME IInv, [Next]_vars PROVE IInv'
    OBVIOUS
<1>1. CASE \E n \in 0 .. MaxOff, fin \in BOOLEAN : Write(n, fin)
    BY <1>1, WriteKeeps
<1>2. CASE \E m \in 0 .. MaxOff : MaxStreamData(m)
    BY <1>2, MaxStreamDataKeeps
<1>3. CASE \E o, e \in 0 .. MaxOff : Emit(o, e)
    BY <1>3, EmitKeeps
<1>4. CASE \E f \in Frames : Ack(f)
    BY <1>4, AckKeeps
<1>5. CASE \E f \in Frames : DeclareLost(f) \/ Probe(f)
    BY <1>5, LossKeeps
<1>6. CASE \E f \in Frames : Retransmit(f)
    BY <1>6, RetransmitKeeps
<1>7. CASE Reset
    BY <1>7, ResetKeeps
<1>8. CASE SendReset
    BY <1>8, SendResetKeeps
<1>9. CASE UNCHANGED vars
    BY <1>9 DEF vars, IInv, TypeOK, NothingForgotten, WithinLimits, OneFinalSize,
                PendInv, FinInv, InFlight, BeingLost
<1> QED
    BY <1>1, <1>2, <1>3, <1>4, <1>5, <1>6, <1>7, <1>8, <1>9 DEF Next

(* The ledger's invariant holds in every state.                            *)
THEOREM LedgerInductive == Spec => []IInv
BY InitIInv, NextIInv, PTL DEF Spec

(* Whatever is written, lost, probed, retransmitted and acked, in any       *)
(* order: no byte is forgotten, the peer's limit holds, nothing unsent is   *)
(* taken for delivered, and the peer is told one final size.                *)
THEOREM LedgerSafe ==
    Spec => []NothingForgotten /\ []WithinLimits /\ []OneFinalSize
<1>1. IInv => NothingForgotten /\ WithinLimits /\ OneFinalSize
    BY DEF IInv
<1> QED
    BY <1>1, LedgerInductive, PTL

(* A final size told to the peer is never changed, by later writes or by a  *)
(* reset from either side.                                                  *)
THEOREM FinalSizeSafe == Spec => FinalSizeKept
<1>1. IInv /\ IInv' /\ [Next]_vars =>
          [finals \subseteq finals' /\ (finals # {} => fin_off' = fin_off)]_vars
  <2> SUFFICES ASSUME IInv, IInv', Next
               PROVE  finals \subseteq finals' /\ (finals # {} => fin_off' = fin_off)
      OBVIOUS
  <2>1. finals \subseteq finals'
      BY DEF Next, Write, MaxStreamData, Emit, Ack, DeclareLost, Probe, Retransmit,
             Reset, SendReset
  <2>2. ASSUME NEW s \in finals PROVE fin_off' = fin_off
      BY <2>1, <2>2 DEF IInv, OneFinalSize
  <2> QED
      BY <2>1, <2>2
<1> QED
    BY <1>1, LedgerInductive, PTL DEF Spec, FinalSizeKept
============================================================================
