--------------------------- MODULE RecoveryProofs --------------------------
(***************************************************************************)
(* Proofs about module Recovery: what is charged as in flight is in        *)
(* flight, nothing that was sent is forgotten, and the loss timer runs     *)
(* when it must, for any delays, thresholds and number of packets.         *)
(***************************************************************************)
EXTENDS Recovery, FiniteSetTheorems, WellFoundedInduction, SequenceTheorems, TLAPS

PacketType ==
    [pn : 0 .. MaxPn, time : Nat, acked : BOOLEAN, lost : Nat \cup {None},
     elicits : BOOLEAN, in_flight : BOOLEAN, items : SUBSET Nat]

EpochType ==
    [sent : Seq(PacketType), last : Nat \cup {None}, largest : Int,
     loss_time : Nat \cup {None}, probes : Int, in_flight : Int, again : SUBSET Nat]

(* What of the items sent in a space is on its way.                        *)
OutItems(ep) == UNION {ep.sent[i].items : i \in Outstanding(ep)}

(* What is not acknowledged and will not be forgotten                      *)
Held(ep) == ep.again \cup OutItems(ep)

(* Packets that elicit an ACK are in flight.  With strict, one in flight   *)
(* is no older than the last that elicited an ACK: there is such a one.    *)
Eager(ep, strict) ==
    \A i \in DOMAIN ep.sent :
        /\ ep.sent[i].elicits => ep.sent[i].in_flight
        /\ strict /\ ep.sent[i].in_flight => ep.last # None

----------------------------------------------------------------------------
(* Numbers                                                                 *)

LEMMA MinIn ==
    ASSUME NEW S \in SUBSET Nat, S # {}
    PROVE  Min(S) \in S /\ \A y \in S : Min(S) <= y
<1>1. PICK x \in S : \A y \in S : ~(<<y, x>> \in OpToRel(<, Nat))
  BY WFMin, NatLessThanWellFounded
<1>2. x \in Nat /\ S \subseteq Nat
  OBVIOUS
<1>3. \A y \in S : ~(y < x)
  BY <1>1, <1>2, Zenon DEF OpToRel
<1>4. \A y \in S : x <= y
  BY <1>2, <1>3
<1> QED BY <1>4 DEF Min

(* 2^n counts the subsets of a set of n elements.                          *)
LEMMA BackoffType ==
    ASSUME NEW n \in Nat
    PROVE  Backoff(n) \in Nat
<1>1. IsFiniteSet(1 .. n) /\ Cardinality(1 .. n) = n
  BY FS_Interval
<1>2. IsFiniteSet(SUBSET (1 .. n)) /\ Cardinality(SUBSET (1 .. n)) = 2 ^ n
  BY <1>1, FS_SUBSET
<1> QED BY <1>2, FS_CardinalityType DEF Backoff

----------------------------------------------------------------------------
(* Packets outstanding                                                     *)

(* The two counts are numbers, since a queue is finite.                    *)
LEMMA Counts ==
    ASSUME NEW ep \in EpochType
    PROVE  /\ DOMAIN ep.sent = 1 .. Len(ep.sent) /\ Len(ep.sent) \in Nat
           /\ \A S \in SUBSET DOMAIN ep.sent : IsFiniteSet(S) /\ Cardinality(S) \in Nat
           /\ Outstanding(ep) \in SUBSET DOMAIN ep.sent
           /\ OutBytes(ep) \in Nat /\ OutCount(ep) \in Nat
           /\ \A i \in DOMAIN ep.sent : ep.sent[i] \in PacketType
<1>1. ep.sent \in Seq(PacketType)
  BY DEF EpochType
<1>2. DOMAIN ep.sent = 1 .. Len(ep.sent) /\ Len(ep.sent) \in Nat
      /\ \A i \in DOMAIN ep.sent : ep.sent[i] \in PacketType
  BY <1>1
<1>3. IsFiniteSet(DOMAIN ep.sent)
  BY <1>2, FS_Interval
<1>4. \A S \in SUBSET DOMAIN ep.sent : IsFiniteSet(S) /\ Cardinality(S) \in Nat
  BY <1>3, FS_Subset, FS_CardinalityType
<1>5. Outstanding(ep) \in SUBSET DOMAIN ep.sent
  BY DEF Outstanding
<1> QED BY <1>2, <1>4, <1>5 DEF OutBytes, OutCount

(* The counts after some of the outstanding packets are settled, and       *)
(* nothing else changed that they depend on.                               *)
LEMMA Settled ==
    ASSUME NEW ep \in EpochType, NEW new \in EpochType,
           NEW S \in SUBSET Outstanding(ep),
           DOMAIN new.sent = DOMAIN ep.sent,
           Outstanding(new) = Outstanding(ep) \ S,
           \A i \in Outstanding(new) :
              /\ new.sent[i].elicits = ep.sent[i].elicits
              /\ new.sent[i].in_flight = ep.sent[i].in_flight
    PROVE  /\ OutBytes(new) = OutBytes(ep) - Cardinality({i \in S : ep.sent[i].elicits})
           /\ OutCount(new) = OutCount(ep) - Cardinality({i \in S : ep.sent[i].in_flight})
<1> DEFINE B == {i \in Outstanding(ep) : ep.sent[i].elicits}
           C == {i \in Outstanding(ep) : ep.sent[i].in_flight}
<1>1. {i \in Outstanding(new) : new.sent[i].elicits} = B \ S
  OBVIOUS
<1>2. {i \in Outstanding(new) : new.sent[i].in_flight} = C \ S
  OBVIOUS
<1>3. B \cap S = {i \in S : ep.sent[i].elicits} /\ C \cap S = {i \in S : ep.sent[i].in_flight}
  OBVIOUS
<1>4. IsFiniteSet(B) /\ IsFiniteSet(C)
  <2>1. B \in SUBSET DOMAIN ep.sent /\ C \in SUBSET DOMAIN ep.sent
    BY DEF Outstanding
  <2> QED BY <2>1, Counts
<1>5. /\ Cardinality(B \ S) = Cardinality(B) - Cardinality(B \cap S)
      /\ Cardinality(C \ S) = Cardinality(C) - Cardinality(C \cap S)
  BY <1>4, FS_Difference
<1> QED BY <1>1, <1>2, <1>3, <1>5 DEF OutBytes, OutCount


LEMMA Shifted ==
    ASSUME NEW S \in SUBSET Nat, IsFiniteSet(S), NEW k \in Nat,
           NEW T \in SUBSET Nat,
           \A i \in T : i + k \in S, \A j \in S : j >= k /\ j - k \in T
    PROVE  Cardinality(T) = Cardinality(S)
<1> DEFINE f == [j \in S |-> j - k]
<1>1. f \in [S -> T]
  OBVIOUS
<1>2. f \in Injection(S, T)
  BY <1>1 DEF Injection, IsInjective
<1>3. f \in Surjection(S, T)
  <2> SUFFICES ASSUME NEW t \in T PROVE \E s \in S : f[s] = t
    BY <1>1 DEF Surjection
  <2>1. t + k \in S /\ f[t + k] = t
    OBVIOUS
  <2> QED BY <2>1
<1>4. ExistsBijection(S, T)
  BY <1>2, <1>3 DEF ExistsBijection, Bijection
<1> QED BY <1>4, FS_Bijection

(* drain_acked_and_lost_packets takes no outstanding packet away.          *)
LEMMA Drained ==
    ASSUME NEW ep \in EpochType
    PROVE  /\ Drain(ep) \in EpochType
           /\ OutBytes(Drain(ep)) = OutBytes(ep)
           /\ OutCount(Drain(ep)) = OutCount(ep)
           /\ OutItems(Drain(ep)) = OutItems(ep)
           /\ Drain(ep).in_flight = ep.in_flight
           /\ Drain(ep).again = ep.again
           /\ Drain(ep).last = ep.last
           /\ Drain(ep).largest = ep.largest
           /\ \A i \in DOMAIN Drain(ep).sent :
                \E j \in DOMAIN ep.sent : Drain(ep).sent[i] = ep.sent[j]
<1> DEFINE gone(p) == ~Out(p) /\ (p.lost = None \/ p.lost <= now - Rtt)
           keep == {i \in DOMAIN ep.sent : ~gone(ep.sent[i])}
           first == IF keep = {} THEN Len(ep.sent) + 1 ELSE Min(keep)
           s == SubSeq(ep.sent, first, Len(ep.sent))
           new == [ep EXCEPT !.sent = s]
           n == Len(ep.sent)
<1>1. Drain(ep) = new
  BY DEF Drain
<1>2. DOMAIN ep.sent = 1 .. n /\ n \in Nat /\ \A i \in 1 .. n : ep.sent[i] \in PacketType
  BY Counts
<1>3. Outstanding(ep) \subseteq keep
  BY DEF Outstanding
<1>4. first \in 1 .. n + 1 /\ \A i \in keep : i >= first
  <2>1. CASE keep = {}
    BY <1>2, <2>1
  <2>2. CASE keep # {}
    <3>1. keep \in SUBSET (1 .. n) /\ keep \in SUBSET Nat
      BY <1>2
    <3>2. first = Min(keep)
      BY <2>2
    <3> HIDE DEF keep, first
    <3>3. Min(keep) \in keep /\ \A y \in keep : Min(keep) <= y
      BY <2>2, <3>1, MinIn
    <3>4. first \in keep /\ \A y \in keep : first <= y
      BY <3>2, <3>3
    <3> HIDE DEF n
    <3>5. first \in 1 .. n /\ first \in Nat
      BY <3>1, <3>4
    <3>6. ASSUME NEW i \in keep PROVE i >= first
      BY <3>1, <3>4, <3>5
    <3> QED BY <1>2, <3>5, <3>6
  <2> QED BY <2>1, <2>2
<1> HIDE DEF keep, first
<1> DEFINE k == first - 1
<1>5. /\ s \in Seq(PacketType) /\ Len(s) = n - k
      /\ \A i \in 1 .. n - k : s[i] = ep.sent[i + k]
  <2>1. first \in Int /\ n \in Int /\ \A i \in first .. n : ep.sent[i] \in PacketType
    BY <1>2, <1>4
  <2>2. /\ SubSeq(ep.sent, first, n) \in Seq(PacketType)
        /\ Len(SubSeq(ep.sent, first, n)) = IF first <= n THEN n - first + 1 ELSE 0
        /\ \A i \in 1 .. n - first + 1 : SubSeq(ep.sent, first, n)[i] = ep.sent[first + i - 1]
    BY <2>1, SubSeqProperties
  <2>3. s = SubSeq(ep.sent, first, n)
    OBVIOUS
  <2> HIDE DEF s
  <2>4. Len(s) = n - k
    BY <1>2, <1>4, <2>2, <2>3
  <2>5. ASSUME NEW i \in 1 .. n - k PROVE s[i] = ep.sent[i + k]
    <3>1. i \in 1 .. n - first + 1 /\ first + i - 1 = i + k
      BY <1>2, <1>4
    <3> QED BY <2>2, <2>3, <3>1
  <2> QED BY <2>2, <2>3, <2>4, <2>5
<1> HIDE DEF s
<1>6. /\ new \in EpochType /\ new.sent = s /\ new.in_flight = ep.in_flight
      /\ new.again = ep.again /\ new.last = ep.last /\ new.largest = ep.largest
  BY <1>5 DEF EpochType
<1> HIDE DEF new
<1>7. k \in Nat /\ k <= n /\ DOMAIN s = 1 .. n - k
  BY <1>2, <1>4, <1>5
<1> HIDE DEF k
<1>8. \A i \in DOMAIN s : i + k \in DOMAIN ep.sent /\ s[i] = ep.sent[i + k]
  BY <1>2, <1>5, <1>7
<1>9. \A j \in Outstanding(ep) : j - k \in DOMAIN s /\ j > k
  BY <1>2, <1>3, <1>4, <1>7 DEF Outstanding, k
<1>10. \A i \in Outstanding(new) : i + k \in Outstanding(ep) /\ new.sent[i] = ep.sent[i + k]
  BY <1>6, <1>8 DEF Outstanding
<1>11. \A j \in Outstanding(ep) : j - k \in Outstanding(new) /\ new.sent[j - k] = ep.sent[j]
  <2> SUFFICES ASSUME NEW j \in Outstanding(ep)
               PROVE  j - k \in Outstanding(new) /\ new.sent[j - k] = ep.sent[j]
    OBVIOUS
  <2>1. j - k \in DOMAIN s /\ j > k /\ (j - k) + k = j
    BY <1>2, <1>7, <1>9 DEF Outstanding
  <2>2. s[j - k] = ep.sent[j]
    BY <1>8, <2>1
  <2> QED BY <1>6, <2>1, <2>2 DEF Outstanding
<1>12. Outstanding(ep) \in SUBSET Nat /\ Outstanding(new) \in SUBSET Nat
  BY <1>2, <1>6, <1>7 DEF Outstanding
<1>13. OutItems(new) = OutItems(ep)
  BY <1>10, <1>11 DEF OutItems
<1>14. OutBytes(new) = OutBytes(ep)
  <2> DEFINE S == {i \in Outstanding(ep) : ep.sent[i].elicits}
             T == {i \in Outstanding(new) : new.sent[i].elicits}
  <2>1. S \in SUBSET Nat /\ T \in SUBSET Nat /\ IsFiniteSet(S)
    BY <1>12, Counts DEF Outstanding
  <2>2. \A i \in T : i + k \in S
    BY <1>10
  <2>3. \A j \in S : j >= k /\ j - k \in T
    BY <1>7, <1>9, <1>11, <1>12
  <2> HIDE DEF S, T
  <2>4. Cardinality(T) = Cardinality(S)
    BY <1>7, <2>1, <2>2, <2>3, Shifted
  <2> QED BY <2>4 DEF OutBytes, S, T
<1>15. OutCount(new) = OutCount(ep)
  <2> DEFINE S == {i \in Outstanding(ep) : ep.sent[i].in_flight}
             T == {i \in Outstanding(new) : new.sent[i].in_flight}
  <2>1. S \in SUBSET Nat /\ T \in SUBSET Nat /\ IsFiniteSet(S)
    BY <1>12, Counts DEF Outstanding
  <2>2. \A i \in T : i + k \in S
    BY <1>10
  <2>3. \A j \in S : j >= k /\ j - k \in T
    BY <1>7, <1>9, <1>11, <1>12
  <2> HIDE DEF S, T
  <2>4. Cardinality(T) = Cardinality(S)
    BY <1>7, <2>1, <2>2, <2>3, Shifted
  <2> QED BY <2>4 DEF OutCount, S, T
<1> QED BY <1>1, <1>6, <1>8, <1>13, <1>14, <1>15

(* detect_lost_packets settles the packets it declares lost, and queues    *)
(* what they carried.                                                      *)
LEMMA Detected ==
    ASSUME NEW ep \in EpochType, now \in Nat
    PROVE  /\ DetectLost(ep) \in EpochType
           /\ OutBytes(DetectLost(ep)) = OutBytes(ep) - LostBytes(ep)
           /\ LostBytes(ep) \in Nat
           /\ DetectLost(ep).in_flight - OutCount(DetectLost(ep)) = ep.in_flight - OutCount(ep)
           /\ Held(ep) \subseteq Held(DetectLost(ep))
           /\ \A strict \in BOOLEAN : Eager(ep, strict) => Eager(DetectLost(ep), strict)
<1> DEFINE lost == LostNow(ep)
           left == Suspects(ep) \ lost
           mark(i) == IF i \in lost THEN [ep.sent[i] EXCEPT !.lost = now, !.items = {}]
                      ELSE ep.sent[i]
           s == [i \in DOMAIN ep.sent |-> mark(i)]
           carried == UNION {ep.sent[i].items : i \in lost}
           flying == Cardinality({i \in lost : ep.sent[i].in_flight})
           time == IF left = {} THEN None ELSE ep.sent[Min(left)].time + LossDelay
           queue == ep.again \cup carried
           left_over == ep.in_flight - flying
           new == [ep EXCEPT !.sent = s, !.again = queue,
                             !.in_flight = left_over, !.loss_time = time]
<1>1. DetectLost(ep) = new
  BY DEF DetectLost
<1>2. /\ DOMAIN ep.sent = 1 .. Len(ep.sent) /\ Len(ep.sent) \in Nat
      /\ \A S \in SUBSET DOMAIN ep.sent : IsFiniteSet(S) /\ Cardinality(S) \in Nat
      /\ \A i \in DOMAIN ep.sent : ep.sent[i] \in PacketType
      /\ OutBytes(ep) \in Nat /\ OutCount(ep) \in Nat
  BY Counts
<1>3. lost \in SUBSET Outstanding(ep) /\ left \in SUBSET DOMAIN ep.sent
      /\ lost \in SUBSET DOMAIN ep.sent
  BY DEF LostNow, Suspects, Outstanding
<1>4. time \in Nat \cup {None}
  <2>1. CASE left = {}
    BY <2>1
  <2>2. CASE left # {}
    <3>1. left \in SUBSET Nat /\ time = ep.sent[Min(left)].time + LossDelay
      BY <1>2, <1>3, <2>2
    <3> HIDE DEF left
    <3>2. Min(left) \in left
      BY <2>2, <3>1, MinIn
    <3>3. ep.sent[Min(left)].time \in Nat
      BY <1>2, <1>3, <3>2 DEF PacketType
    <3> QED BY <3>1, <3>3, RecoveryAssumption
  <2> QED BY <2>1, <2>2
<1>5. flying \in Nat /\ LostBytes(ep) \in Nat
  <2>1. {i \in lost : ep.sent[i].in_flight} \in SUBSET DOMAIN ep.sent
    BY <1>3
  <2>2. {i \in LostNow(ep) : ep.sent[i].elicits} \in SUBSET DOMAIN ep.sent
    BY <1>3
  <2> QED BY <1>2, <2>1, <2>2 DEF LostBytes
<1>6. carried \in SUBSET Nat
  BY <1>2, <1>3 DEF PacketType
<1> HIDE DEF lost, left, carried, flying, time
<1>7. ASSUME NEW i \in DOMAIN ep.sent
      PROVE  /\ mark(i) \in PacketType
             /\ mark(i).elicits = ep.sent[i].elicits
             /\ mark(i).in_flight = ep.sent[i].in_flight
             /\ i \in lost => mark(i).lost = now
             /\ i \notin lost => mark(i) = ep.sent[i]
  <2>1. ep.sent[i] \in PacketType
    BY <1>2
  <2> DEFINE p == ep.sent[i]
  <2> HIDE DEF p
  <2>2. /\ [p EXCEPT !.lost = now, !.items = {}] \in PacketType
        /\ [p EXCEPT !.lost = now, !.items = {}].elicits = p.elicits
        /\ [p EXCEPT !.lost = now, !.items = {}].in_flight = p.in_flight
        /\ [p EXCEPT !.lost = now, !.items = {}].lost = now
    BY <2>1 DEF PacketType, p
  <2> QED BY <2>1, <2>2 DEF p
<1> HIDE DEF mark
<1>8. /\ s \in Seq(PacketType) /\ DOMAIN s = DOMAIN ep.sent
      /\ \A i \in DOMAIN s : s[i] = mark(i)
  BY <1>2, <1>7
<1> HIDE DEF s
<1>8a. queue \in SUBSET Nat /\ left_over \in Int
  <2>1. ep.again \in SUBSET Nat /\ ep.in_flight \in Int
    BY DEF EpochType
  <2>2. queue \in SUBSET Nat
    BY <1>6, <2>1
  <2>3. left_over \in Int
    BY <1>5, <2>1
  <2> QED BY <2>2, <2>3
<1> HIDE DEF queue, left_over
<1>8b. /\ new \in EpochType /\ new.sent = s /\ new.again = queue
       /\ new.in_flight = left_over /\ new.last = ep.last
  BY <1>4, <1>8, <1>8a DEF EpochType
<1>9. /\ new \in EpochType /\ new.sent = s /\ new.again = ep.again \cup carried
      /\ new.in_flight = ep.in_flight - flying /\ new.last = ep.last
  BY <1>8b DEF queue, left_over
<1>9a. ep.in_flight \in Int
  BY DEF EpochType
<1> HIDE DEF new
<1>10. Outstanding(new) = Outstanding(ep) \ lost
  BY <1>3, <1>7, <1>8, <1>9 DEF Outstanding, Out, None
<1>11. /\ OutBytes(new) = OutBytes(ep) - Cardinality({i \in lost : ep.sent[i].elicits})
       /\ OutCount(new) = OutCount(ep) - Cardinality({i \in lost : ep.sent[i].in_flight})
  <2>1. \A i \in Outstanding(new) : /\ new.sent[i].elicits = ep.sent[i].elicits
                                    /\ new.sent[i].in_flight = ep.sent[i].in_flight
    BY <1>7, <1>8, <1>9 DEF Outstanding
  <2>2. DOMAIN new.sent = DOMAIN ep.sent
    BY <1>8, <1>9
  <2> QED BY <1>3, <1>9, <1>10, <2>1, <2>2, Settled
<1>12. Held(ep) \subseteq Held(new)
  <2> SUFFICES ASSUME NEW x \in OutItems(ep) PROVE x \in carried \/ x \in OutItems(new)
    BY <1>9 DEF Held
  <2>1. PICK i \in Outstanding(ep) : x \in ep.sent[i].items
    BY DEF OutItems
  <2>2. CASE i \in lost
    BY <2>1, <2>2 DEF carried
  <2>3. CASE i \notin lost
    <3>1. i \in Outstanding(new) /\ i \in DOMAIN s
      BY <1>8, <1>10, <2>3 DEF Outstanding
    <3>2. new.sent[i] = ep.sent[i]
      BY <1>7, <1>8, <1>9, <2>3, <3>1
    <3> QED BY <2>1, <3>1, <3>2 DEF OutItems
  <2> QED BY <2>2, <2>3
<1>13. \A strict \in BOOLEAN : Eager(ep, strict) => Eager(new, strict)
  BY <1>7, <1>8, <1>9 DEF Eager
<1>14. /\ Cardinality({i \in lost : ep.sent[i].elicits}) = LostBytes(ep)
       /\ Cardinality({i \in lost : ep.sent[i].in_flight}) = flying
  BY DEF lost, flying, LostBytes
<1>15. new.in_flight - OutCount(new) = ep.in_flight - OutCount(ep)
  BY <1>2, <1>5, <1>9, <1>9a, <1>11, <1>14
<1>16. OutBytes(new) = OutBytes(ep) - LostBytes(ep)
  BY <1>11, <1>14
<1> QED BY <1>1, <1>5, <1>9, <1>12, <1>13, <1>15, <1>16

(* detect_and_remove_acked_packets settles the packets newly acknowledged  *)
(* and no others: a packet declared lost before is not taken off again.    *)
LEMMA MarkedAcked ==
    ASSUME NEW ep \in EpochType, NEW acks
    PROVE  /\ Marked(ep, acks) \in EpochType
           /\ OutBytes(Marked(ep, acks)) = OutBytes(ep) - AckedBytes(ep, acks)
           /\ AckedBytes(ep, acks) \in Nat
           /\ Marked(ep, acks).in_flight - OutCount(Marked(ep, acks))
                = ep.in_flight - OutCount(ep)
           /\ Held(ep) \subseteq Held(Marked(ep, acks))
                                 \cup UNION {ep.sent[i].items : i \in NewlyAcked(ep, acks)}
           /\ \A strict \in BOOLEAN : Eager(ep, strict) => Eager(Marked(ep, acks), strict)
<1> DEFINE fresh == NewlyAcked(ep, acks)
           late == Spurious(ep, acks)
           mark(i) == IF i \in fresh THEN [ep.sent[i] EXCEPT !.acked = TRUE, !.items = {}]
                      ELSE IF i \in late THEN [ep.sent[i] EXCEPT !.acked = TRUE]
                      ELSE ep.sent[i]
           s == [i \in DOMAIN ep.sent |-> mark(i)]
           flying == Cardinality({i \in fresh : ep.sent[i].in_flight})
           left_over == ep.in_flight - flying
           new == [ep EXCEPT !.sent = s, !.in_flight = left_over]
<1>1. Marked(ep, acks) = new
  BY DEF Marked
<1>2. /\ DOMAIN ep.sent = 1 .. Len(ep.sent) /\ Len(ep.sent) \in Nat
      /\ \A S \in SUBSET DOMAIN ep.sent : IsFiniteSet(S) /\ Cardinality(S) \in Nat
      /\ \A i \in DOMAIN ep.sent : ep.sent[i] \in PacketType
      /\ OutBytes(ep) \in Nat /\ OutCount(ep) \in Nat
  BY Counts
<1>3. /\ fresh \in SUBSET Outstanding(ep) /\ fresh \in SUBSET DOMAIN ep.sent
      /\ \A i \in late : i \notin Outstanding(ep)
  BY DEF NewlyAcked, Spurious, Outstanding, Out
<1>4. flying \in Nat /\ AckedBytes(ep, acks) \in Nat
  <2>1. {i \in fresh : ep.sent[i].in_flight} \in SUBSET DOMAIN ep.sent
    BY <1>3
  <2>2. {i \in NewlyAcked(ep, acks) : ep.sent[i].elicits} \in SUBSET DOMAIN ep.sent
    BY <1>3
  <2> QED BY <1>2, <2>1, <2>2 DEF AckedBytes
<1>5. ep.in_flight \in Int /\ left_over \in Int
  BY <1>4 DEF EpochType
<1> HIDE DEF fresh, late, flying, left_over
<1>6. ASSUME NEW i \in DOMAIN ep.sent
      PROVE  /\ mark(i) \in PacketType
             /\ mark(i).elicits = ep.sent[i].elicits
             /\ mark(i).in_flight = ep.sent[i].in_flight
             /\ i \in fresh \/ i \in late => mark(i).acked
             /\ i \notin fresh /\ i \notin late => mark(i) = ep.sent[i]
  <2>1. ep.sent[i] \in PacketType
    BY <1>2
  <2> DEFINE p == ep.sent[i]
             q == [p EXCEPT !.acked = TRUE]
             t == [q EXCEPT !.items = {}]
  <2>2. p \in PacketType
    BY <2>1
  <2> HIDE DEF p
  <2>3. q \in PacketType /\ q.elicits = p.elicits /\ q.in_flight = p.in_flight
    BY <2>2 DEF PacketType
  <2>4. q.acked
    BY <2>2 DEF PacketType
  <2> HIDE DEF q
  <2>5. t \in PacketType /\ t.elicits = q.elicits /\ t.in_flight = q.in_flight /\ t.acked = q.acked
    BY <2>3 DEF PacketType
  <2>6. t = [p EXCEPT !.acked = TRUE, !.items = {}]
    BY <2>2 DEF PacketType, q
  <2> HIDE DEF t
  <2>7. CASE i \in fresh
    <3>1. mark(i) = t
      BY <2>6, <2>7 DEF p
    <3> QED BY <2>3, <2>4, <2>5, <2>7, <3>1 DEF p
  <2>8. CASE i \notin fresh /\ i \in late
    <3>1. mark(i) = q
      BY <2>8 DEF p, q
    <3> QED BY <2>3, <2>4, <2>8, <3>1 DEF p
  <2>9. CASE i \notin fresh /\ i \notin late
    BY <2>2, <2>9 DEF p
  <2> QED BY <2>7, <2>8, <2>9
<1> HIDE DEF mark
<1>7. /\ s \in Seq(PacketType) /\ DOMAIN s = DOMAIN ep.sent
      /\ \A i \in DOMAIN s : s[i] = mark(i)
  BY <1>2, <1>6
<1> HIDE DEF s
<1>8. /\ new \in EpochType /\ new.sent = s /\ new.in_flight = left_over
      /\ new.last = ep.last /\ new.again = ep.again
  BY <1>5, <1>7 DEF EpochType
<1> HIDE DEF new
<1>9. Outstanding(new) = Outstanding(ep) \ fresh
  <2>1. ASSUME NEW i \in Outstanding(new) PROVE i \in Outstanding(ep) \ fresh
    <3>1. i \in DOMAIN ep.sent /\ Out(mark(i))
      BY <1>7, <1>8 DEF Outstanding
    <3>2. i \notin fresh /\ i \notin late
      BY <1>6, <3>1 DEF Out
    <3>3. mark(i) = ep.sent[i]
      BY <1>6, <3>1, <3>2
    <3> QED BY <3>1, <3>2, <3>3 DEF Outstanding
  <2>2. ASSUME NEW i \in Outstanding(ep) \ fresh PROVE i \in Outstanding(new)
    <3>1. i \in DOMAIN ep.sent /\ Out(ep.sent[i]) /\ i \notin late
      BY <1>3 DEF Outstanding
    <3>2. mark(i) = ep.sent[i]
      BY <1>6, <3>1, <2>2
    <3> QED BY <1>7, <1>8, <3>1, <3>2 DEF Outstanding
  <2> QED BY <2>1, <2>2
<1>10. /\ OutBytes(new) = OutBytes(ep) - Cardinality({i \in fresh : ep.sent[i].elicits})
       /\ OutCount(new) = OutCount(ep) - Cardinality({i \in fresh : ep.sent[i].in_flight})
  <2>1. \A i \in Outstanding(new) : /\ new.sent[i].elicits = ep.sent[i].elicits
                                    /\ new.sent[i].in_flight = ep.sent[i].in_flight
    BY <1>6, <1>7, <1>8 DEF Outstanding
  <2>2. DOMAIN new.sent = DOMAIN ep.sent
    BY <1>7, <1>8
  <2> QED BY <1>3, <1>8, <1>9, <2>1, <2>2, Settled
<1>11. Held(ep) \subseteq Held(new) \cup UNION {ep.sent[i].items : i \in fresh}
  <2> SUFFICES ASSUME NEW x \in OutItems(ep)
               PROVE  x \in UNION {ep.sent[i].items : i \in fresh} \/ x \in OutItems(new)
    BY <1>8 DEF Held
  <2>1. PICK i \in Outstanding(ep) : x \in ep.sent[i].items
    BY DEF OutItems
  <2>2. CASE i \in fresh
    BY <2>1, <2>2
  <2>3. CASE i \notin fresh
    <3>1. i \in Outstanding(new) /\ i \in DOMAIN s /\ i \notin late
      BY <1>3, <1>7, <1>9, <2>3 DEF Outstanding
    <3>2. new.sent[i] = ep.sent[i]
      BY <1>6, <1>7, <1>8, <2>3, <3>1
    <3> QED BY <2>1, <3>1, <3>2 DEF OutItems
  <2> QED BY <2>2, <2>3
<1>12. \A strict \in BOOLEAN : Eager(ep, strict) => Eager(new, strict)
  BY <1>6, <1>7, <1>8 DEF Eager
<1>13. /\ Cardinality({i \in fresh : ep.sent[i].elicits}) = AckedBytes(ep, acks)
       /\ Cardinality({i \in fresh : ep.sent[i].in_flight}) = flying
  BY DEF fresh, flying, AckedBytes
<1>14. new.in_flight - OutCount(new) = ep.in_flight - OutCount(ep)
  BY <1>2, <1>4, <1>5, <1>8, <1>10, <1>13 DEF left_over
<1>15. OutBytes(new) = OutBytes(ep) - AckedBytes(ep, acks)
  BY <1>10, <1>13
<1>16. Held(ep) \subseteq Held(new) \cup UNION {ep.sent[i].items : i \in NewlyAcked(ep, acks)}
  BY <1>11 DEF fresh
<1> QED BY <1>1, <1>4, <1>8, <1>12, <1>14, <1>15, <1>16

LEMMA DrainedHolds ==
    ASSUME NEW ep \in EpochType
    PROVE  /\ Held(Drain(ep)) = Held(ep)
           /\ Drain(ep).in_flight - OutCount(Drain(ep)) = ep.in_flight - OutCount(ep)
           /\ \A strict \in BOOLEAN : Eager(ep, strict) => Eager(Drain(ep), strict)
<1>1. Held(Drain(ep)) = Held(ep)
  BY Drained DEF Held
<1>2. Drain(ep).in_flight - OutCount(Drain(ep)) = ep.in_flight - OutCount(ep)
  BY Drained
<1>3. \A strict \in BOOLEAN : Eager(ep, strict) => Eager(Drain(ep), strict)
  <2>1. \A i \in DOMAIN Drain(ep).sent :
            \E j \in DOMAIN ep.sent : Drain(ep).sent[i] = ep.sent[j]
    BY Drained
  <2>2. Drain(ep).last = ep.last
    BY Drained
  <2> QED BY <2>1, <2>2 DEF Eager
<1> QED BY <1>1, <1>2, <1>3

LEMMA MaxIn ==
    ASSUME NEW m \in Nat, NEW S \in SUBSET (0 .. m), S # {}
    PROVE  Max(S) \in S
<1> DEFINE U == {u \in Nat : \A x \in S : x <= u}
<1>1. m \in U /\ U \in SUBSET Nat
  OBVIOUS
<1>2. Min(U) \in U /\ \A u \in U : Min(U) <= u
  BY <1>1, MinIn
<1> DEFINE b == Min(U)
<1>3. b \in Nat /\ \A x \in S : x \in Nat /\ x <= b
  BY <1>2
<1>4. \A u \in Nat : (\A x \in S : x <= u) => b <= u
  BY <1>2
<1> HIDE DEF b, U
<1>5. b \in S
  <2> SUFFICES ASSUME b \notin S PROVE FALSE
    OBVIOUS
  <2>1. \A x \in S : x \in Nat /\ x < b
    BY <1>3
  <2>2. b - 1 \in Nat /\ \A x \in S : x <= b - 1
    <3>1. PICK y \in S : TRUE
      OBVIOUS
    <3>2. b > 0
      BY <1>3, <2>1, <3>1
    <3> QED BY <1>3, <2>1, <3>2
  <2> QED BY <1>3, <1>4, <2>2
<1> QED BY <1>3, <1>5 DEF Max

(* The largest packet number acknowledged is noted, nothing else changes.  *)
LEMMA AckedOut ==
    ASSUME NEW ep \in EpochType, NEW acks, NewlyAcked(ep, acks) # {}
    PROVE  /\ WithoutAcked(ep, acks) \in EpochType
           /\ OutBytes(WithoutAcked(ep, acks)) = OutBytes(ep) - AckedBytes(ep, acks)
           /\ WithoutAcked(ep, acks).in_flight - OutCount(WithoutAcked(ep, acks))
                = ep.in_flight - OutCount(ep)
           /\ Held(ep) \subseteq Held(WithoutAcked(ep, acks))
                                 \cup UNION {ep.sent[i].items : i \in NewlyAcked(ep, acks)}
           /\ \A strict \in BOOLEAN : Eager(ep, strict) => Eager(WithoutAcked(ep, acks), strict)
<1> DEFINE d == Drain(Marked(ep, acks))
           pns == {ep.sent[i].pn : i \in NewlyAcked(ep, acks)}
           l == Larger(d.largest, Larger(0, Max(pns)))
           new == [d EXCEPT !.largest = l]
<1>1. WithoutAcked(ep, acks) = new
  BY DEF WithoutAcked
<1>2. Marked(ep, acks) \in EpochType
  BY MarkedAcked
<1>3. /\ d \in EpochType
      /\ OutBytes(d) = OutBytes(ep) - AckedBytes(ep, acks)
      /\ d.in_flight - OutCount(d) = ep.in_flight - OutCount(ep)
      /\ Held(ep) \subseteq Held(d) \cup UNION {ep.sent[i].items : i \in NewlyAcked(ep, acks)}
      /\ \A strict \in BOOLEAN : Eager(ep, strict) => Eager(d, strict)
  BY <1>2, MarkedAcked, Drained, DrainedHolds
<1>4. l \in Int
  <2>1. pns \in SUBSET (0 .. MaxPn)
    <3>1. \A i \in NewlyAcked(ep, acks) : ep.sent[i] \in PacketType
      BY Counts DEF NewlyAcked
    <3> QED BY <3>1 DEF PacketType
  <2>2. pns # {}
    OBVIOUS
  <2> HIDE DEF pns
  <2>3. Max(pns) \in Int
    <3>1. MaxPn \in Nat
      BY RecoveryAssumption
    <3>2. Max(pns) \in pns
      BY <2>1, <2>2, <3>1, MaxIn
    <3>3. pns \in SUBSET Int
      BY <2>1
    <3> QED BY <3>2, <3>3, Zenon
  <2>4. d.largest \in Int
    BY <1>3 DEF EpochType
  <2> QED BY <2>3, <2>4 DEF Larger
<1> HIDE DEF d, l
<1>5. /\ new \in EpochType /\ new.sent = d.sent /\ new.in_flight = d.in_flight
      /\ new.again = d.again /\ new.last = d.last
  BY <1>3, <1>4 DEF EpochType
<1> HIDE DEF new
<1>6. Outstanding(new) = Outstanding(d)
  BY <1>5 DEF Outstanding
<1>7. /\ OutBytes(new) = OutBytes(d) /\ OutCount(new) = OutCount(d)
      /\ Held(new) = Held(d) /\ (\A strict \in BOOLEAN : Eager(d, strict) => Eager(new, strict))
  BY <1>5, <1>6 DEF OutBytes, OutCount, Held, OutItems, Eager
<1> QED BY <1>1, <1>3, <1>5, <1>7

(* One more packet                                                         *)
LEMMA Sent ==
    ASSUME NEW ep \in EpochType, NEW kind, now \in Nat, next_pn \in Nat, next_pn < MaxPn
    PROVE  /\ PacketSent(ep, kind) \in EpochType
           /\ OutBytes(PacketSent(ep, kind))
                = IF Elicits(kind) THEN OutBytes(ep) + 1 ELSE OutBytes(ep)
           /\ PacketSent(ep, kind).in_flight - OutCount(PacketSent(ep, kind))
                = ep.in_flight - OutCount(ep)
           /\ Held(ep) \cup ItemsToSend(ep, kind) \subseteq Held(PacketSent(ep, kind))
           /\ \A strict \in BOOLEAN :
                Eager(ep, strict) /\ (strict /\ InFlight(kind) => Elicits(kind))
                  => Eager(PacketSent(ep, kind), strict)
<1> DEFINE p == [pn |-> next_pn, time |-> now, acked |-> FALSE, lost |-> None,
                 elicits |-> Elicits(kind), in_flight |-> InFlight(kind),
                 items |-> ItemsToSend(ep, kind)]
           n == Len(ep.sent)
           s == Append(ep.sent, p)
           queue == IF kind = "data" THEN {} ELSE ep.again
           l == IF Elicits(kind) THEN now ELSE ep.last
           owed == IF Elicits(kind) /\ kind # "mtu" THEN Larger(0, ep.probes - 1) ELSE ep.probes
           flying == IF InFlight(kind) THEN ep.in_flight + 1 ELSE ep.in_flight
           a == [ep EXCEPT !.sent = s, !.again = queue]
           new == [a EXCEPT !.last = l, !.probes = owed, !.in_flight = flying]
<1>1. /\ DOMAIN ep.sent = 1 .. n /\ n \in Nat
      /\ \A S \in SUBSET DOMAIN ep.sent : IsFiniteSet(S) /\ Cardinality(S) \in Nat
      /\ \A i \in DOMAIN ep.sent : ep.sent[i] \in PacketType
      /\ OutBytes(ep) \in Nat /\ OutCount(ep) \in Nat
  BY Counts
<1>2. /\ ep.sent \in Seq(PacketType) /\ ep.last \in Nat \cup {None} /\ ep.probes \in Int
      /\ ep.in_flight \in Int /\ ep.again \in SUBSET Nat
  BY DEF EpochType
<1>3. ItemsToSend(ep, kind) \in SUBSET Nat
  BY <1>2 DEF ItemsToSend
<1>4. p \in PacketType
  <2>1. Elicits(kind) \in BOOLEAN /\ InFlight(kind) \in BOOLEAN
    BY DEF Elicits, InFlight
  <2>2. next_pn \in 0 .. MaxPn
    BY RecoveryAssumption
  <2> QED BY <1>3, <2>1, <2>2 DEF PacketType
<1>5. queue \in SUBSET Nat /\ l \in Nat \cup {None} /\ owed \in Int /\ flying \in Int
  BY <1>2 DEF Larger
<1>6. p.items = ItemsToSend(ep, kind) /\ p.elicits = Elicits(kind)
      /\ p.in_flight = InFlight(kind) /\ Out(p)
  BY DEF Out
<1>6a. PacketSent(ep, kind) =
          [ep EXCEPT !.sent = s, !.again = queue, !.last = l, !.probes = owed, !.in_flight = flying]
  BY DEF PacketSent
<1> HIDE DEF p, queue, l, owed, flying
<1>7. /\ s \in Seq(PacketType) /\ DOMAIN s = 1 .. n + 1
      /\ s[n + 1] = p /\ \A i \in 1 .. n : s[i] = ep.sent[i]
  BY <1>1, <1>2, <1>4
<1> HIDE DEF s
<1>8. /\ a \in EpochType /\ a.sent = s /\ a.again = queue
  BY <1>5, <1>7 DEF EpochType
<1>8a. PacketSent(ep, kind) = new
  BY <1>6a
<1> HIDE DEF a
<1>9. /\ new \in EpochType /\ new.sent = s /\ new.again = queue
      /\ new.last = l /\ new.in_flight = flying
  BY <1>5, <1>8 DEF EpochType
<1> HIDE DEF new
<1>10. Outstanding(new) = Outstanding(ep) \cup {n + 1}
  BY <1>1, <1>6, <1>7, <1>9 DEF Outstanding
<1>11. Outstanding(ep) \in SUBSET (1 .. n) /\ n + 1 \notin Outstanding(ep)
  BY <1>1 DEF Outstanding
<1>12. OutBytes(new) = IF Elicits(kind) THEN OutBytes(ep) + 1 ELSE OutBytes(ep)
  <2> DEFINE B == {i \in Outstanding(ep) : ep.sent[i].elicits}
             C == {i \in Outstanding(new) : new.sent[i].elicits}
  <2>1. C = IF Elicits(kind) THEN B \cup {n + 1} ELSE B
    BY <1>6, <1>7, <1>9, <1>10, <1>11
  <2>2. IsFiniteSet(B) /\ n + 1 \notin B
    BY <1>1, <1>11
  <2> HIDE DEF B, C
  <2>3. Cardinality(B \cup {n + 1}) = Cardinality(B) + 1
    BY <2>2, FS_AddElement
  <2> QED BY <2>1, <2>3 DEF OutBytes, B, C
<1>13. OutCount(new) = IF InFlight(kind) THEN OutCount(ep) + 1 ELSE OutCount(ep)
  <2> DEFINE B == {i \in Outstanding(ep) : ep.sent[i].in_flight}
             C == {i \in Outstanding(new) : new.sent[i].in_flight}
  <2>1. C = IF InFlight(kind) THEN B \cup {n + 1} ELSE B
    BY <1>6, <1>7, <1>9, <1>10, <1>11
  <2>2. IsFiniteSet(B) /\ n + 1 \notin B
    BY <1>1, <1>11
  <2> HIDE DEF B, C
  <2>3. Cardinality(B \cup {n + 1}) = Cardinality(B) + 1
    BY <2>2, FS_AddElement
  <2> QED BY <2>1, <2>3 DEF OutCount, B, C
<1>14. new.in_flight - OutCount(new) = ep.in_flight - OutCount(ep)
  <2>1. CASE InFlight(kind)
    <3>1. new.in_flight = ep.in_flight + 1 /\ OutCount(new) = OutCount(ep) + 1
      BY <1>9, <1>13, <2>1 DEF flying
    <3> QED BY <1>1, <1>2, <3>1
  <2>2. CASE ~InFlight(kind)
    <3>1. new.in_flight = ep.in_flight /\ OutCount(new) = OutCount(ep)
      BY <1>9, <1>13, <2>2 DEF flying
    <3> QED BY <3>1
  <2> QED BY <2>1, <2>2
<1>15. OutItems(new) = OutItems(ep) \cup ItemsToSend(ep, kind)
  BY <1>6, <1>7, <1>9, <1>10, <1>11 DEF OutItems
<1>16. Held(ep) \cup ItemsToSend(ep, kind) \subseteq Held(new)
  BY <1>9, <1>15 DEF Held, queue, ItemsToSend
<1>17. ASSUME NEW strict \in BOOLEAN, Eager(ep, strict), strict /\ InFlight(kind) => Elicits(kind)
       PROVE  Eager(new, strict)
  <2> SUFFICES ASSUME NEW i \in 1 .. n + 1
               PROVE  (s[i].elicits => s[i].in_flight) /\ (strict /\ s[i].in_flight => new.last # None)
    BY <1>7, <1>9 DEF Eager
  <2>1. Elicits(kind) => InFlight(kind)
    BY DEF Elicits, InFlight
  <2>2. /\ Elicits(kind) => new.last # None
        /\ ~Elicits(kind) => new.last = ep.last
    BY <1>9 DEF l, None
  <2>3. CASE i = n + 1
    BY <1>6, <1>7, <1>17, <2>1, <2>2, <2>3
  <2>4. CASE i \in 1 .. n
    BY <1>1, <1>7, <1>17, <2>2, <2>4 DEF Eager
  <2> QED BY <1>1, <2>3, <2>4
<1> QED BY <1>8a, <1>9, <1>12, <1>14, <1>16, <1>17

----------------------------------------------------------------------------
(* The state handed on                                                     *)

RState ==
    [epochs : [Epochs -> EpochType], bif : Int, timer : Nat \cup {None}, count : Nat,
     passed : BOOLEAN]

(* The counts of a state are those of its packets.                         *)
Counted(r) ==
    /\ \A e \in Epochs : r.epochs[e].in_flight - OutCount(r.epochs[e]) = 0
    /\ r.bif = OutBytes(r.epochs[Initial]) + OutBytes(r.epochs[Handshake])
                + OutBytes(r.epochs[Application])

(* Bytes taken off, or added, with the packets of one space                *)
LEMMA Replaced ==
    ASSUME NEW r \in RState, NEW q \in RState, Counted(r), NEW e \in Epochs,
           q.epochs = [r.epochs EXCEPT ![e] = q.epochs[e]],
           q.epochs[e].in_flight - OutCount(q.epochs[e])
             = r.epochs[e].in_flight - OutCount(r.epochs[e]),
           q.bif - OutBytes(q.epochs[e]) = r.bif - OutBytes(r.epochs[e])
    PROVE  Counted(q)
<1>1. /\ r.epochs \in [Epochs -> EpochType] /\ q.epochs \in [Epochs -> EpochType]
      /\ r.bif \in Int /\ q.bif \in Int
  BY DEF RState
<1>2. \A f \in Epochs : f # e => q.epochs[f] = r.epochs[f]
  BY <1>1
<1>3. \A f \in Epochs : OutBytes(q.epochs[f]) \in Nat /\ OutBytes(r.epochs[f]) \in Nat
  BY <1>1, Counts
<1>4. \A f \in Epochs : q.epochs[f].in_flight - OutCount(q.epochs[f]) = 0
  BY <1>2 DEF Counted
<1>5. e \in {Initial, Handshake, Application}
      /\ {Initial, Handshake, Application} \subseteq Epochs
      /\ Initial # Handshake /\ Initial # Application /\ Handshake # Application
  BY DEF Epochs, Initial, Handshake, Application
<1>6. r.bif = OutBytes(r.epochs[Initial]) + OutBytes(r.epochs[Handshake])
               + OutBytes(r.epochs[Application])
  BY DEF Counted
<1>7. q.bif = OutBytes(q.epochs[Initial]) + OutBytes(q.epochs[Handshake])
               + OutBytes(q.epochs[Application])
  <2>1. CASE e = Initial
    <3>1. q.epochs[Handshake] = r.epochs[Handshake] /\ q.epochs[Application] = r.epochs[Application]
      BY <1>2, <1>5, <2>1
    <3> QED BY <1>1, <1>3, <1>5, <1>6, <2>1, <3>1
  <2>2. CASE e = Handshake
    <3>1. q.epochs[Initial] = r.epochs[Initial] /\ q.epochs[Application] = r.epochs[Application]
      BY <1>2, <1>5, <2>2
    <3> QED BY <1>1, <1>3, <1>5, <1>6, <2>2, <3>1
  <2>3. CASE e = Application
    <3>1. q.epochs[Initial] = r.epochs[Initial] /\ q.epochs[Handshake] = r.epochs[Handshake]
      BY <1>2, <1>5, <2>3
    <3> QED BY <1>1, <1>3, <1>5, <1>6, <2>3, <3>1
  <2> QED BY <1>5, <2>1, <2>2, <2>3
<1> QED BY <1>4, <1>7 DEF Counted

TimeAndSpace == (Nat \cup {None}) \X Epochs

LEMMA EarlierType ==
    ASSUME NEW a \in Nat \cup {None}, NEW b \in Nat \cup {None},
           NEW s \in Epochs, NEW e \in Epochs
    PROVE  EarlierOf(a, s, b, e) \in TimeAndSpace
  BY DEF EarlierOf, TimeAndSpace

LEMMA EpochNames == {Initial, Handshake, Application} = Epochs
  BY DEF Epochs, Initial, Handshake, Application

LEMMA LossTimeType ==
    ASSUME NEW es \in [Epochs -> EpochType]
    PROVE  LossTimeAndSpace(es) \in TimeAndSpace
<1>1. \A e \in Epochs : es[e].loss_time \in Nat \cup {None}
  BY DEF EpochType
<1> DEFINE h == EarlierOf(es[Initial].loss_time, Initial, es[Handshake].loss_time, Handshake)
<1>2. h \in TimeAndSpace
  BY <1>1, EarlierType, EpochNames
<1>3. LossTimeAndSpace(es) = EarlierOf(h[1], h[2], es[Application].loss_time, Application)
  BY DEF LossTimeAndSpace
<1> HIDE DEF h
<1>4. h[1] \in Nat \cup {None} /\ h[2] \in Epochs
  BY <1>2 DEF TimeAndSpace
<1>5. Application \in Epochs /\ es[Application].loss_time \in Nat \cup {None}
  BY <1>1, EpochNames
<1>6. EarlierOf(h[1], h[2], es[Application].loss_time, Application) \in TimeAndSpace
  BY <1>4, <1>5, EarlierType
<1> QED BY <1>3, <1>6

LEMMA DurationType ==
    ASSUME NEW n \in Nat
    PROVE  Pto * Backoff(n) \in Nat /\ MaxAckDelay * Backoff(n) \in Nat
<1>1. Pto \in Nat /\ MaxAckDelay \in Nat /\ Backoff(n) \in Nat
  BY RecoveryAssumption, BackoffType
<1>2. \A x, y \in Nat : x * y \in Nat
  OBVIOUS
<1> QED BY <1>1, <1>2

LEMMA PtoStepType ==
    ASSUME NEW es \in [Epochs -> EpochType], NEW best \in TimeAndSpace,
           NEW e \in Epochs, NEW d \in Nat
    PROVE  PtoStep(best, es, e, d) \in TimeAndSpace
<1>1. best[1] \in Nat \cup {None} /\ best[2] \in Epochs
  BY DEF TimeAndSpace
<1> DEFINE t == IF es[e].last = None THEN None ELSE es[e].last + d
<1>2. es[e].last \in Nat \cup {None}
  BY DEF EpochType
<1>3. t \in Nat \cup {None}
  BY <1>2
<1> HIDE DEF t
<1>4. EarlierOf(best[1], best[2], t, e) \in TimeAndSpace
  BY <1>1, <1>3, EarlierType
<1> QED BY <1>4 DEF PtoStep, t

LEMMA PtoTimeType ==
    ASSUME NEW es \in [Epochs -> EpochType], NEW bytes, NEW n \in Nat, NEW h, now \in Nat
    PROVE  PtoTimeAndSpace(es, bytes, n, h) \in TimeAndSpace
<1> DEFINE d == Pto * Backoff(n)
           x == MaxAckDelay * Backoff(n)
           one == PtoStep(<<None, Initial>>, es, Initial, d)
           two == PtoStep(one, es, Handshake, d)
<1>1. d \in Nat /\ x \in Nat
  BY DurationType
<1>2. PtoTimeAndSpace(es, bytes, n, h) =
        CASE bytes = 0 -> <<now + d, IF Handshake \in h.keys THEN Handshake ELSE Initial>>
          [] bytes # 0 /\ ~h.completed -> two
          [] OTHER -> PtoStep(two, es, Application, d + x)
  BY DEF PtoTimeAndSpace
<1> HIDE DEF d, x
<1>3. <<None, Initial>> \in TimeAndSpace
  BY EpochNames DEF TimeAndSpace
<1>4. one \in TimeAndSpace
  BY <1>1, <1>3, PtoStepType, EpochNames
<1> HIDE DEF one
<1>5. two \in TimeAndSpace
  BY <1>1, <1>4, PtoStepType, EpochNames
<1> HIDE DEF two
<1>6. d + x \in Nat
  BY <1>1
<1>7. PtoStep(two, es, Application, d + x) \in TimeAndSpace
  BY <1>5, <1>6, PtoStepType, EpochNames
<1>8. <<now + d, IF Handshake \in h.keys THEN Handshake ELSE Initial>> \in TimeAndSpace
  BY <1>1, EpochNames DEF TimeAndSpace
<1> QED BY <1>2, <1>5, <1>7, <1>8

(* set_loss_detection_timer sets the timer, and notes what it passed over. *)
LEMMA TimerSet ==
    ASSUME NEW r \in RState, NEW h, now \in Nat
    PROVE  /\ SetTimer(r, h) \in RState
           /\ SetTimer(r, h).epochs = r.epochs /\ SetTimer(r, h).bif = r.bif
           /\ SetTimer(r, h).timer = LossDetectionTimer(r, h)
           /\ SetTimer(r, h).passed = PassedOver(r, h)
<1> DEFINE loss == LossTimeAndSpace(r.epochs)[1]
           pto == PtoTimeAndSpace(r.epochs, r.bif, r.count, h)[1]
<1>1. r.epochs \in [Epochs -> EpochType] /\ r.count \in Nat /\ r.timer \in Nat \cup {None}
  BY DEF RState
<1>2. loss \in Nat \cup {None} /\ pto \in Nat \cup {None}
  BY <1>1, LossTimeType, PtoTimeType DEF TimeAndSpace
<1>3. LossDetectionTimer(r, h) =
        CASE loss # None -> loss
          [] loss = None /\ r.bif = 0 /\ h.verified -> None
          [] OTHER -> IF pto # None THEN pto ELSE r.timer
  BY DEF LossDetectionTimer
<1> HIDE DEF loss, pto
<1>4. LossDetectionTimer(r, h) \in Nat \cup {None}
  BY <1>1, <1>2, <1>3
<1>5. PassedOver(r, h) \in BOOLEAN
  BY DEF PassedOver
<1> QED BY <1>4, <1>5 DEF SetTimer, RState

----------------------------------------------------------------------------
(* When the timer is set                                                   *)

(* The server's own address needs no verification.                         *)
HsType ==
    {h \in [server : BOOLEAN, keys : SUBSET Epochs, verified : BOOLEAN, completed : BOOLEAN] :
       h.server => h.verified}

(* Only application packets may be in flight without one that elicits an   *)
(* ACK before them.                                                        *)
Watchable(r) == \A e \in Epochs : Eager(r.epochs[e], e # Application)

LEMMA EagerCounts ==
    ASSUME NEW ep \in EpochType, NEW strict \in BOOLEAN, Eager(ep, strict)
    PROVE  /\ OutCount(ep) = 0 => OutBytes(ep) = 0
           /\ strict /\ OutCount(ep) # 0 => ep.last # None
<1> DEFINE B == {i \in Outstanding(ep) : ep.sent[i].elicits}
           C == {i \in Outstanding(ep) : ep.sent[i].in_flight}
<1>1. B \subseteq C /\ C \in SUBSET DOMAIN ep.sent
  BY DEF Outstanding, Eager
<1>2. IsFiniteSet(C)
  BY <1>1, Counts
<1>3. OutBytes(ep) = Cardinality(B) /\ OutCount(ep) = Cardinality(C)
  BY DEF OutBytes, OutCount
<1>4. C # {} /\ strict => ep.last # None
  BY <1>1 DEF Eager
<1> HIDE DEF B, C
<1>5. OutCount(ep) = 0 <=> C = {}
  BY <1>2, <1>3, FS_EmptySet
<1>6. B = {} => OutBytes(ep) = 0
  BY <1>3, FS_EmptySet
<1> QED BY <1>1, <1>4, <1>5, <1>6

LEMMA PtoStepSet ==
    ASSUME NEW es \in [Epochs -> EpochType], NEW best \in TimeAndSpace,
           NEW e \in Epochs, NEW d \in Nat, Eager(es[e], e # Application),
           es[e].in_flight - OutCount(es[e]) = 0,
           e = Application => es[e].in_flight <= 0 \/ es[e].last # None,
           best[1] # None \/ OutBytes(es[e]) # 0
    PROVE  PtoStep(best, es, e, d)[1] # None
<1>1. /\ es[e] \in EpochType /\ es[e].in_flight \in Int /\ OutCount(es[e]) \in Nat
      /\ es[e].last \in Nat \cup {None}
  BY Counts DEF EpochType
<1>2. es[e].in_flight = OutCount(es[e])
  BY <1>1
<1>3. CASE OutCount(es[e]) = 0
  <2>1. PtoStep(best, es, e, d) = best
    BY <1>2, <1>3 DEF PtoStep
  <2>2. OutBytes(es[e]) = 0
    BY <1>1, <1>3, EagerCounts
  <2> QED BY <2>1, <2>2
<1>4. CASE OutCount(es[e]) # 0
  <2>1. es[e].last # None
    <3>1. e # Application => es[e].last # None
      BY <1>1, <1>4, EagerCounts
    <3> QED BY <1>1, <1>2, <1>4, <3>1
  <2>2. es[e].last + d \in Nat /\ es[e].last + d # None
    BY <1>1, <2>1 DEF None
  <2>3. PtoStep(best, es, e, d) = EarlierOf(best[1], best[2], es[e].last + d, e)
    BY <1>2, <1>4, <2>1 DEF PtoStep
  <2> QED BY <2>2, <2>3 DEF EarlierOf
<1> QED BY <1>3, <1>4

LEMMA NoneOut ==
    ASSUME NEW ep, ep.sent = <<>>
    PROVE  OutBytes(ep) = 0 /\ OutCount(ep) = 0 /\ OutItems(ep) = {}
           /\ \A strict \in BOOLEAN : Eager(ep, strict)
<1>1. DOMAIN ep.sent = {} /\ Outstanding(ep) = {}
  BY DEF Outstanding
<1>2. /\ {i \in Outstanding(ep) : ep.sent[i].elicits} = {}
      /\ {i \in Outstanding(ep) : ep.sent[i].in_flight} = {}
  BY <1>1
<1> QED BY <1>1, <1>2, FS_EmptySet DEF OutBytes, OutCount, Eager, OutItems

(* The timer is off only with nothing in flight and a verified address, or *)
(* after passing over application packets.                                 *)
LEMMA TimerOff ==
    ASSUME NEW r \in RState, NEW h, now \in Nat, Counted(r), Watchable(r),
           LossDetectionTimer(r, h) = None, ~PassedOver(r, h)
    PROVE  r.bif = 0 /\ h.verified
<1> DEFINE es == r.epochs
           loss == LossTimeAndSpace(es)[1]
           pto == PtoTimeAndSpace(es, r.bif, r.count, h)[1]
<1>1. es \in [Epochs -> EpochType] /\ r.count \in Nat
  BY DEF RState
<1>2. LossDetectionTimer(r, h) =
        CASE loss # None -> loss
          [] loss = None /\ r.bif = 0 /\ h.verified -> None
          [] OTHER -> IF pto # None THEN pto ELSE r.timer
  BY DEF LossDetectionTimer
<1>3. pto # None
  <2> DEFINE d == Pto * Backoff(r.count)
             x == MaxAckDelay * Backoff(r.count)
             one == PtoStep(<<None, Initial>>, es, Initial, d)
             two == PtoStep(one, es, Handshake, d)
  <2>1. d \in Nat /\ x \in Nat
    BY <1>1, DurationType
  <2>2. PtoTimeAndSpace(es, r.bif, r.count, h) =
          CASE r.bif = 0 -> <<now + d, IF Handshake \in h.keys THEN Handshake ELSE Initial>>
            [] r.bif # 0 /\ ~h.completed -> two
            [] OTHER -> PtoStep(two, es, Application, d + x)
    BY DEF PtoTimeAndSpace
  <2> HIDE DEF d, x
  <2>3. /\ \A e \in Epochs : es[e] \in EpochType /\ Eager(es[e], e # Application)
                             /\ es[e].in_flight - OutCount(es[e]) = 0 /\ OutBytes(es[e]) \in Nat
        /\ r.bif = OutBytes(es[Initial]) + OutBytes(es[Handshake]) + OutBytes(es[Application])
    BY <1>1, Counts DEF Watchable, Counted
  <2>3a. /\ es[Application].in_flight <= 0 \/ (h.completed /\ es[Application].last # None)
         /\ Application # Initial /\ Application # Handshake
    <3>1. es[Application].in_flight \in Int
      BY <2>3, EpochNames DEF EpochType
    <3> QED BY <3>1 DEF PassedOver, Application, Initial, Handshake
  <2> HIDE DEF es
  <2>4. <<None, Initial>> \in TimeAndSpace
    BY EpochNames DEF TimeAndSpace
  <2>5. one \in TimeAndSpace /\ (OutBytes(es[Initial]) # 0 => one[1] # None)
    BY <1>1, <2>1, <2>3, <2>3a, <2>4, PtoStepType, PtoStepSet, EpochNames
  <2> HIDE DEF one
  <2>6. /\ two \in TimeAndSpace
        /\ one[1] # None \/ OutBytes(es[Handshake]) # 0 => two[1] # None
    BY <1>1, <2>1, <2>3, <2>3a, <2>5, PtoStepType, PtoStepSet, EpochNames
  <2> HIDE DEF two
  <2>7. two[1] # None \/ OutBytes(es[Application]) # 0
           => PtoStep(two, es, Application, d + x)[1] # None
    <3>1. d + x \in Nat
      BY <2>1
    <3> QED BY <1>1, <2>3, <2>3a, <2>6, <3>1, PtoStepSet, EpochNames
  <2>8. CASE r.bif = 0
    <3>1. pto = now + d
      BY <2>2, <2>8
    <3> QED BY <2>1, <3>1 DEF None
  <2>9. CASE r.bif # 0 /\ ~h.completed
    <3>1. OutCount(es[Application]) = 0
      <4>1. /\ es[Application] \in EpochType /\ es[Application].in_flight \in Int
            /\ es[Application].in_flight - OutCount(es[Application]) = 0
            /\ OutCount(es[Application]) \in Nat
        BY <2>3, Counts, EpochNames DEF EpochType
      <4> QED BY <2>3a, <2>9, <4>1
    <3>2. OutBytes(es[Application]) = 0
      <4>1. es[Application] \in EpochType /\ Eager(es[Application], Application # Application)
        BY <2>3, EpochNames
      <4> QED BY <3>1, <4>1, EagerCounts
    <3>3. OutBytes(es[Initial]) # 0 \/ OutBytes(es[Handshake]) # 0
      BY <2>3, <2>9, <3>2, EpochNames
    <3>4. PtoTimeAndSpace(es, r.bif, r.count, h) = two
      BY <2>2, <2>9
    <3> QED BY <2>5, <2>6, <3>3, <3>4
  <2>10. CASE r.bif # 0 /\ h.completed
    <3>1. OutBytes(es[Initial]) # 0 \/ OutBytes(es[Handshake]) # 0 \/ OutBytes(es[Application]) # 0
      BY <2>3, <2>10, EpochNames
    <3>2. PtoTimeAndSpace(es, r.bif, r.count, h) = PtoStep(two, es, Application, d + x)
      BY <2>2, <2>10
    <3> QED BY <2>5, <2>6, <2>7, <3>1, <3>2
  <2> QED BY <2>8, <2>9, <2>10
<1> HIDE DEF pto, loss
<1> QED BY <1>2, <1>3

(* The timer runs, or it passed over application packets, or there is      *)
(* nothing to wait for.                                                    *)
Ringing(r, h) == r.timer # None \/ r.passed \/ (r.bif = 0 /\ h.verified)

LEMMA TimerKeeps ==
    ASSUME NEW r \in RState, NEW h, now \in Nat, Counted(r)
    PROVE  /\ Counted(SetTimer(r, h))
           /\ Watchable(r) => Watchable(SetTimer(r, h)) /\ Ringing(SetTimer(r, h), h)
<1>1. /\ SetTimer(r, h).epochs = r.epochs /\ SetTimer(r, h).bif = r.bif
      /\ SetTimer(r, h).timer = LossDetectionTimer(r, h)
      /\ SetTimer(r, h).passed = PassedOver(r, h)
  BY TimerSet
<1>2. Counted(SetTimer(r, h))
  BY <1>1 DEF Counted
<1>3. ASSUME Watchable(r) PROVE Watchable(SetTimer(r, h)) /\ Ringing(SetTimer(r, h), h)
  <2>1. Watchable(SetTimer(r, h))
    BY <1>1, <1>3 DEF Watchable
  <2>2. LossDetectionTimer(r, h) = None /\ ~PassedOver(r, h) => r.bif = 0 /\ h.verified
    BY <1>3, TimerOff
  <2> QED BY <1>1, <2>1, <2>2 DEF Ringing
<1> QED BY <1>2, <1>3

LEMMA EmptyEpoch ==
    /\ NewEpoch \in EpochType /\ NewEpoch.sent = <<>> /\ NewEpoch.in_flight = 0
    /\ NewEpoch.again = {}
<1>1. <<>> \in Seq(PacketType) /\ {} \in SUBSET Nat /\ None \in Int
  BY DEF None
<1> HIDE DEF None
<1> QED BY <1>1 DEF NewEpoch, EpochType

(* drop_epoch_state takes the packets of one space off.                    *)
LEMMA Dropped ==
    ASSUME NEW r \in RState, NEW h \in HsType, NEW e \in Epochs, now \in Nat, Counted(r)
    PROVE  /\ DropState(r, e, h) \in RState /\ Counted(DropState(r, e, h))
           /\ \A f \in Epochs : f # e => DropState(r, e, h).epochs[f] = r.epochs[f]
           /\ Watchable(r) => Watchable(DropState(r, e, h))
           /\ Watchable(r) /\ (e \in h.keys \/ Ringing(r, h)) => Ringing(DropState(r, e, h), h)
<1>1. CASE e \notin h.keys
  <2>1. DropState(r, e, h) = r
    BY <1>1 DEF DropState
  <2> QED BY <1>1, <2>1
<1>2. CASE e \in h.keys
  <2> DEFINE new == [NewEpoch EXCEPT !.largest = r.epochs[e].largest]
             b == r.bif - OutBytes(r.epochs[e])
             es == [r.epochs EXCEPT ![e] = new]
             q == [r EXCEPT !.epochs = es, !.bif = b]
             k == [h EXCEPT !.keys = @ \ {e}]
  <2>1. DropState(r, e, h) = SetTimer(q, k)
    BY <1>2 DEF DropState
  <2>2. k.completed = h.completed /\ k.verified = h.verified
    BY DEF HsType
  <2> HIDE DEF k
  <2>3. r.epochs \in [Epochs -> EpochType] /\ r.bif \in Int /\ r.epochs[e] \in EpochType
    BY DEF RState
  <2>4. new \in EpochType /\ new.sent = <<>> /\ new.in_flight = 0
    <3>1. r.epochs[e].largest \in Int
      BY <2>3 DEF EpochType
    <3>2. NewEpoch \in EpochType /\ NewEpoch.sent = <<>> /\ NewEpoch.in_flight = 0
      BY EmptyEpoch
    <3> QED BY <3>1, <3>2 DEF EpochType
  <2> HIDE DEF new
  <2>5. OutBytes(new) = 0 /\ OutCount(new) = 0
        /\ \A strict \in BOOLEAN : Eager(new, strict)
    BY <2>4, NoneOut
  <2>6. OutBytes(r.epochs[e]) \in Nat /\ r.epochs[e].in_flight - OutCount(r.epochs[e]) = 0
    BY <2>3, Counts DEF Counted
  <2>7. b \in Int /\ b - 0 = r.bif - OutBytes(r.epochs[e])
    BY <2>3, <2>6
  <2>8. /\ es \in [Epochs -> EpochType] /\ es[e] = new
        /\ \A f \in Epochs : f # e => es[f] = r.epochs[f]
        /\ es = [r.epochs EXCEPT ![e] = es[e]]
    BY <2>3, <2>4
  <2> HIDE DEF es, b
  <2>9. q \in RState /\ q.epochs = es /\ q.bif = b
    BY <2>7, <2>8 DEF RState
  <2> HIDE DEF q
  <2>10. Counted(q)
    <3>1. q.epochs[e].in_flight - OutCount(q.epochs[e])
            = r.epochs[e].in_flight - OutCount(r.epochs[e])
      BY <2>4, <2>5, <2>6, <2>8, <2>9
    <3>2. q.bif - OutBytes(q.epochs[e]) = r.bif - OutBytes(r.epochs[e])
      BY <2>5, <2>7, <2>8, <2>9
    <3>3. q.epochs = [r.epochs EXCEPT ![e] = q.epochs[e]]
      BY <2>8, <2>9
    <3> QED BY <2>9, <3>1, <3>2, <3>3, Replaced
  <2>11. ASSUME Watchable(r) PROVE Watchable(q)
    BY <2>5, <2>8, <2>9, <2>11 DEF Watchable
  <2>12. /\ SetTimer(q, k) \in RState /\ SetTimer(q, k).epochs = q.epochs
         /\ Counted(SetTimer(q, k))
    BY <2>9, <2>10, TimerSet, TimerKeeps
  <2>13. Watchable(q) => Watchable(SetTimer(q, k)) /\ Ringing(SetTimer(q, k), k)
    BY <2>9, <2>10, TimerKeeps
  <2>14. Ringing(SetTimer(q, k), k) = Ringing(SetTimer(q, k), h)
    BY <2>2 DEF Ringing
  <2>15. \A f \in Epochs : f # e => DropState(r, e, h).epochs[f] = r.epochs[f]
    BY <2>1, <2>8, <2>9, <2>12
  <2>16. Watchable(r) => /\ Watchable(DropState(r, e, h))
                            /\ Ringing(DropState(r, e, h), h)
    BY <2>1, <2>11, <2>13, <2>14
  <2> QED BY <2>1, <2>12, <2>15, <2>16
<1> QED BY <1>1, <1>2

----------------------------------------------------------------------------
(* The invariant                                                           *)

TypeOK ==
    /\ State \in RState
    /\ now \in Nat /\ next_pn \in Nat /\ hs \in HsType
    /\ made \in [Epochs -> SUBSET Nat] /\ done \in [Epochs -> SUBSET Nat]

(* Nothing was sent in a space before its keys arrived, and they arrive    *)
(* only once.                                                              *)
KeysInOrder ==
    \/ Application \in hs.keys
    \/ hs.keys = {Initial} /\ made[Handshake] = {} /\ made[Application] = {}

Remembered == \A e \in hs.keys : made[e] \subseteq done[e] \cup Held(epochs[e])

IInv == TypeOK /\ Counted(State) /\ KeysInOrder /\ Remembered

(* The same of the timer                                                   *)
TInv == Watchable(State) /\ (Ringing(State, hs) \/ (bif = 0 /\ next_pn = 0))

LEMMA InitOK == Init => IInv /\ TInv
<1> SUFFICES ASSUME Init PROVE IInv /\ TInv
  OBVIOUS
<1>1. epochs \in [Epochs -> EpochType] /\ \A e \in Epochs : epochs[e] = NewEpoch
  BY EmptyEpoch DEF Init
<1>2. State \in RState
  <2>1. bif = 0 /\ timer = None /\ pto_count = 0
    BY DEF Init
  <2>2. passed \in BOOLEAN
    BY DEF Init
  <2>3. bif \in Int /\ timer \in Nat \cup {None} /\ pto_count \in Nat
    BY <2>1
  <2> QED BY <1>1, <2>2, <2>3 DEF State, RState
<1>3. hs \in HsType /\ hs.keys = {Initial}
  BY EpochNames DEF Init, HsType
<1>4. TypeOK
  BY <1>2, <1>3 DEF TypeOK, Init
<1>5. /\ NewEpoch.sent = <<>> /\ NewEpoch.in_flight = 0
      /\ OutBytes(NewEpoch) = 0 /\ OutCount(NewEpoch) = 0
      /\ \A strict \in BOOLEAN : Eager(NewEpoch, strict)
  BY EmptyEpoch, NoneOut
<1>6. State.epochs = epochs /\ State.bif = 0
  BY DEF State, Init
<1>7. Counted(State)
  BY <1>1, <1>5, <1>6, EpochNames DEF Counted
<1>8. KeysInOrder /\ Remembered
  BY <1>3, EpochNames DEF KeysInOrder, Remembered, Init
<1>9. TInv
  BY <1>1, <1>5, <1>6 DEF TInv, Watchable, Init
<1> QED BY <1>4, <1>7, <1>8, <1>9 DEF IInv

(* What a step has to do to keep the invariant: m is what it sends, d what *)
(* it settles, in space e.                                                 *)
LEMMA StepKeeps ==
    ASSUME IInv, NEW q \in RState, Counted(q), Became(q),
           NEW h \in HsType, hs' = h, NEW e \in Epochs, now' \in Nat, next_pn' \in Nat,
           NEW m \in SUBSET Nat, made' = [made EXCEPT ![e] = @ \cup m],
           NEW d \in SUBSET Nat, done' = [done EXCEPT ![e] = @ \cup d],
           h.keys \subseteq hs.keys, Application \in hs.keys => Application \in h.keys,
           hs.keys = {Initial} => h.keys = {Initial}, m # {} => e \in hs.keys,
           \A f \in h.keys \ {e} : Held(epochs[f]) \subseteq Held(q.epochs[f]),
           e \in h.keys => Held(epochs[e]) \cup m \subseteq Held(q.epochs[e]) \cup d
    PROVE  IInv' /\ State' = q
<1>1. State' = q
  BY DEF State, RState, Became
<1>2. /\ made \in [Epochs -> SUBSET Nat] /\ done \in [Epochs -> SUBSET Nat]
      /\ hs \in HsType /\ hs.keys \in SUBSET Epochs
  BY DEF IInv, TypeOK, HsType
<1>3. /\ made' \in [Epochs -> SUBSET Nat] /\ done' \in [Epochs -> SUBSET Nat]
      /\ made'[e] = made[e] \cup m /\ done'[e] = done[e] \cup d
      /\ \A f \in Epochs : f # e => made'[f] = made[f] /\ done'[f] = done[f]
  BY <1>2
<1>4. TypeOK'
  BY <1>1, <1>3 DEF TypeOK
<1>5. Counted(State)'
  <2>1. Counted(State)' = Counted(q)
    BY <1>1 DEF Counted, OutBytes, OutCount, Outstanding, Out
  <2> QED BY <2>1
<1>6. KeysInOrder'
  <2>1. CASE Application \in hs.keys
    BY <2>1 DEF KeysInOrder
  <2>2. CASE hs.keys = {Initial} /\ made[Handshake] = {} /\ made[Application] = {}
    <3>1. m # {} => e = Initial
      BY <2>2
    <3>2. made'[Handshake] = {} /\ made'[Application] = {}
      <4>1. Initial # Handshake /\ Initial # Application
        BY DEF Initial, Handshake, Application
      <4> QED BY <1>3, <2>2, <3>1, <4>1, EpochNames
    <3> QED BY <2>2, <3>2 DEF KeysInOrder
  <2> QED BY <2>1, <2>2 DEF IInv, KeysInOrder
<1>7. Remembered'
  <2> SUFFICES ASSUME NEW f \in h.keys
               PROVE  made'[f] \subseteq done'[f] \cup Held(q.epochs[f])
    <3>1. epochs' = q.epochs
      BY DEF Became
    <3> QED BY <3>1 DEF Remembered, Held, OutItems, Outstanding, Out
  <2>1. made[f] \subseteq done[f] \cup Held(epochs[f]) /\ f \in Epochs
    BY <1>2 DEF IInv, Remembered
  <2>2. CASE f = e
    BY <1>3, <2>1, <2>2
  <2>3. CASE f # e
    BY <1>3, <2>1, <2>3
  <2> QED BY <2>2, <2>3
<1> QED BY <1>1, <1>4, <1>5, <1>6, <1>7 DEF IInv

(* The same for a step that neither sends nor settles anything             *)
LEMMA StepHolds ==
    ASSUME IInv, NEW q \in RState, Counted(q), Became(q),
           NEW h \in HsType, hs' = h, now' \in Nat, next_pn' = next_pn,
           made' = made, done' = done,
           h.keys \subseteq hs.keys, Application \in hs.keys => Application \in h.keys,
           hs.keys = {Initial} => h.keys = {Initial},
           \A f \in h.keys : Held(epochs[f]) \subseteq Held(q.epochs[f])
    PROVE  IInv' /\ State' = q
<1> DEFINE none == {}
<1>1. none \in SUBSET Nat /\ none = {}
  OBVIOUS
<1> HIDE DEF none
<1>2. /\ made' = [made EXCEPT ![Initial] = @ \cup none]
      /\ done' = [done EXCEPT ![Initial] = @ \cup none]
      /\ next_pn' \in Nat /\ Initial \in Epochs
  BY <1>1, EpochNames DEF IInv, TypeOK
<1>3. /\ \A f \in h.keys \ {Initial} : Held(epochs[f]) \subseteq Held(q.epochs[f])
      /\ Initial \in h.keys =>
           Held(epochs[Initial]) \cup none \subseteq Held(q.epochs[Initial]) \cup none
  BY <1>1
<1> QED BY <1>1, <1>2, <1>3, StepKeeps

(* The state with another epoch, byte count and backoff                    *)
With(e, new, b, c) ==
    [epochs |-> [epochs EXCEPT ![e] = new], bif |-> b, timer |-> timer, count |-> c,
     passed |-> passed]

LEMMA WithFields ==
    ASSUME NEW e, NEW new, NEW b
    PROVE  /\ [State EXCEPT !.epochs[e] = new] = With(e, new, bif, pto_count)
           /\ [State EXCEPT !.epochs[e] = new, !.bif = b] = With(e, new, b, pto_count)
<1>1. [State EXCEPT !.epochs[e] = new] = With(e, new, bif, pto_count)
  BY DEF State, With
<1>2. [State EXCEPT !.epochs[e] = new, !.bif = b]
        = [[State EXCEPT !.epochs[e] = new] EXCEPT !.bif = b]
  OBVIOUS
<1>3. [With(e, new, bif, pto_count) EXCEPT !.bif = b] = With(e, new, b, pto_count)
  BY DEF With
<1> QED BY <1>1, <1>2, <1>3

LEMMA WithCount ==
    ASSUME NEW e, NEW new, NEW c
    PROVE  [State EXCEPT !.epochs[e] = new, !.count = c] = With(e, new, bif, c)
<1>1. [State EXCEPT !.epochs[e] = new] = With(e, new, bif, pto_count)
  BY DEF State, With
<1>2. [State EXCEPT !.epochs[e] = new, !.count = c]
        = [[State EXCEPT !.epochs[e] = new] EXCEPT !.count = c]
  OBVIOUS
<1>3. [With(e, new, bif, pto_count) EXCEPT !.count = c] = With(e, new, bif, c)
  BY DEF With
<1> QED BY <1>1, <1>2, <1>3

LEMMA WithAll ==
    ASSUME NEW e, NEW new, NEW b, NEW c
    PROVE  [State EXCEPT !.epochs[e] = new, !.bif = b, !.count = c] = With(e, new, b, c)
<1>1. [State EXCEPT !.epochs[e] = new, !.bif = b, !.count = c]
        = [[State EXCEPT !.epochs[e] = new, !.bif = b] EXCEPT !.count = c]
  OBVIOUS
<1>2. [State EXCEPT !.epochs[e] = new, !.bif = b] = With(e, new, b, pto_count)
  BY WithFields
<1>3. [With(e, new, b, pto_count) EXCEPT !.count = c] = With(e, new, b, c)
  BY DEF With
<1> QED BY <1>1, <1>2, <1>3

LEMMA WithOne ==
    ASSUME IInv, NEW e \in Epochs, NEW new \in EpochType, NEW b \in Int, NEW c \in Nat,
           new.in_flight - OutCount(new) = epochs[e].in_flight - OutCount(epochs[e]),
           b - OutBytes(new) = bif - OutBytes(epochs[e])
    PROVE  /\ With(e, new, b, c) \in RState /\ Counted(With(e, new, b, c))
           /\ With(e, new, b, c).epochs[e] = new
           /\ \A f \in Epochs : f # e => With(e, new, b, c).epochs[f] = epochs[f]
           /\ With(e, new, b, c).bif = b /\ With(e, new, b, c).timer = timer
           /\ With(e, new, b, c).passed = passed
           /\ Watchable(State) /\ Eager(new, e # Application) => Watchable(With(e, new, b, c))
<1> DEFINE q == With(e, new, b, c)
<1>1. State \in RState /\ Counted(State) /\ epochs \in [Epochs -> EpochType]
      /\ timer \in Nat \cup {None} /\ State.epochs = epochs /\ State.bif = bif
      /\ passed \in BOOLEAN
  BY DEF IInv, TypeOK, RState, State
<1>2. /\ q.epochs = [epochs EXCEPT ![e] = new] /\ q.epochs \in [Epochs -> EpochType]
      /\ q.bif = b /\ q.timer = timer /\ q.count = c /\ q.passed = passed
  BY <1>1 DEF With
<1>3. q \in RState
  BY <1>1, <1>2 DEF With, RState
<1> HIDE DEF q
<1>4. q.epochs[e] = new /\ \A f \in Epochs : f # e => q.epochs[f] = epochs[f]
  BY <1>1, <1>2
<1>5. Counted(q)
  <2>1. q.epochs = [State.epochs EXCEPT ![e] = q.epochs[e]]
    BY <1>1, <1>2, <1>4
  <2>2. q.epochs[e].in_flight - OutCount(q.epochs[e])
          = State.epochs[e].in_flight - OutCount(State.epochs[e])
    BY <1>1, <1>4
  <2>3. q.bif - OutBytes(q.epochs[e]) = State.bif - OutBytes(State.epochs[e])
    BY <1>1, <1>2, <1>4
  <2> QED BY <1>1, <1>3, <2>1, <2>2, <2>3, Replaced
<1>6. ASSUME Watchable(State), Eager(new, e # Application) PROVE Watchable(q)
  BY <1>1, <1>4, <1>6 DEF Watchable
<1> QED BY <1>2, <1>3, <1>4, <1>5, <1>6 DEF q

(* From the state of a step to the invariant of the timer                  *)
LEMMA StepRings ==
    ASSUME NEW q, State' = q, NEW h, hs' = h, Watchable(q),
           Ringing(q, h) \/ (q.bif = 0 /\ next_pn' = 0)
    PROVE  TInv'
<1>1. State'.bif = bif'
  BY DEF State
<1>2. Watchable(State)'
  BY DEF Watchable, Eager
<1>3. (Ringing(State, hs) \/ (bif = 0 /\ next_pn = 0))'
  BY <1>1 DEF Ringing
<1> QED BY <1>2, <1>3 DEF TInv

LEMMA Facts ==
    ASSUME IInv
    PROVE  /\ State \in RState /\ Counted(State) /\ State.epochs = epochs /\ State.bif = bif
           /\ State.timer = timer /\ State.count = pto_count /\ State.passed = passed
           /\ epochs \in [Epochs -> EpochType] /\ bif \in Int /\ timer \in Nat \cup {None}
           /\ pto_count \in Nat /\ now \in Nat /\ next_pn \in Nat /\ hs \in HsType
           /\ hs.keys \in SUBSET Epochs
           /\ made \in [Epochs -> SUBSET Nat] /\ done \in [Epochs -> SUBSET Nat]
           /\ \A e \in Epochs : epochs[e] \in EpochType /\ OutBytes(epochs[e]) \in Nat
<1>1. /\ State \in RState /\ Counted(State) /\ State.epochs = epochs /\ State.bif = bif
      /\ State.timer = timer /\ State.count = pto_count /\ State.passed = passed
      /\ epochs \in [Epochs -> EpochType] /\ bif \in Int /\ timer \in Nat \cup {None}
      /\ pto_count \in Nat
  BY DEF IInv, TypeOK, State, RState
<1>2. \A e \in Epochs : epochs[e] \in EpochType /\ OutBytes(epochs[e]) \in Nat
  BY <1>1, Counts
<1> QED BY <1>1, <1>2 DEF IInv, TypeOK, HsType

(* The keys of a space dropped by a step                                   *)
LEMMA WithoutKeys ==
    ASSUME NEW h \in HsType, NEW e \in Epochs
    PROVE  /\ [h EXCEPT !.keys = @ \ {e}] \in HsType
           /\ [h EXCEPT !.keys = @ \ {e}].keys = h.keys \ {e}
           /\ [h EXCEPT !.keys = @ \ {e}].completed = h.completed
           /\ [h EXCEPT !.keys = @ \ {e}].verified = h.verified
  BY DEF HsType

LEMMA SendPacketOK ==
    ASSUME IInv, NEW e \in Epochs, NEW kind \in Kinds, SendPacket(e, kind)
    PROVE  IInv' /\ (TInv => TInv')
<1> DEFINE new == PacketSent(epochs[e], kind)
           b == IF Elicits(kind) THEN bif + 1 ELSE bif
           r == With(e, new, b, pto_count)
           sent == IF InFlight(kind) THEN SetTimer(r, hs) ELSE r
           drops == ~hs.server /\ e = Handshake
           q == IF drops THEN DropState(sent, Initial, hs) ELSE sent
           h == IF drops THEN [hs EXCEPT !.keys = @ \ {Initial}] ELSE hs
           m == ItemsToSend(epochs[e], kind)
<1>1. /\ next_pn < MaxPn /\ CanSend(e) /\ Became(q) /\ hs' = h
      /\ (~Elicits(kind) => hs.server \/ next_pn > 0) /\ (kind = "padded" => e = Application)
      /\ made' = [made EXCEPT ![e] = @ \cup m] /\ next_pn' = next_pn + 1
      /\ now' = now /\ done' = done
  <2>1. [State EXCEPT !.epochs[e] = PacketSent(@, kind),
                      !.bif = IF Elicits(kind) THEN @ + 1 ELSE @] = r
    <3>1. State.epochs[e] = epochs[e] /\ State.bif = bif
      BY DEF State
    <3> HIDE DEF new, b
    <3>2. [State EXCEPT !.epochs[e] = new, !.bif = b] = r
      BY WithFields
    <3> QED BY <3>1, <3>2 DEF new, b
  <2> HIDE DEF r
  <2> QED BY <2>1 DEF SendPacket
<1>2. /\ e \in hs.keys
      /\ e # Application /\ InFlight(kind) => Elicits(kind)
  <2>1. kind \in {"data", "ping", "ack", "padded", "mtu"}
    BY RecoveryAssumption
  <2> QED BY <1>1, <2>1 DEF CanSend, InFlight, Elicits
<1>3. epochs[e] \in EpochType /\ OutBytes(epochs[e]) \in Nat /\ bif \in Int /\ pto_count \in Nat
      /\ now \in Nat /\ next_pn \in Nat /\ hs \in HsType
  BY Facts
<1>4. /\ new \in EpochType
      /\ OutBytes(new) = IF Elicits(kind) THEN OutBytes(epochs[e]) + 1 ELSE OutBytes(epochs[e])
      /\ new.in_flight - OutCount(new) = epochs[e].in_flight - OutCount(epochs[e])
      /\ Held(epochs[e]) \cup m \subseteq Held(new)
      /\ \A strict \in BOOLEAN :
           Eager(epochs[e], strict) /\ (strict /\ InFlight(kind) => Elicits(kind))
             => Eager(new, strict)
  BY <1>1, <1>3, Sent
<1>5. m \in SUBSET Nat
  BY <1>3 DEF ItemsToSend, EpochType
<1> HIDE DEF new, m
<1>6. b \in Int /\ b - OutBytes(new) = bif - OutBytes(epochs[e])
  <2>1. CASE Elicits(kind)
    <3>1. b = bif + 1 /\ OutBytes(new) = OutBytes(epochs[e]) + 1
      BY <1>4, <2>1
    <3> QED BY <1>3, <3>1
  <2>2. CASE ~Elicits(kind)
    <3>1. b = bif /\ OutBytes(new) = OutBytes(epochs[e])
      BY <1>4, <2>2
    <3> QED BY <1>3, <3>1
  <2> QED BY <2>1, <2>2
<1> HIDE DEF b
<1>7. /\ r \in RState /\ Counted(r) /\ r.epochs[e] = new
      /\ \A f \in Epochs : f # e => r.epochs[f] = epochs[f]
      /\ r.bif = b /\ r.timer = timer /\ r.passed = passed
  BY <1>3, <1>4, <1>6, WithOne
<1>7a. ~Elicits(kind) => b = bif
  BY DEF b
<1>8. TInv => Watchable(r)
  <2>1. Watchable(State) /\ Eager(new, e # Application) => Watchable(r)
    BY <1>3, <1>4, <1>6, WithOne
  <2>2. TInv => Watchable(State) /\ Eager(epochs[e], e # Application)
    BY Facts DEF TInv, Watchable
  <2>3. Eager(epochs[e], e # Application) => Eager(new, e # Application)
    BY <1>2, <1>4
  <2> QED BY <2>1, <2>2, <2>3
<1> HIDE DEF r
<1>9. sent \in RState /\ Counted(sent) /\ sent.epochs = r.epochs
  BY <1>3, <1>7, TimerSet, TimerKeeps
<1>10. TInv => Watchable(sent) /\ Ringing(sent, hs)
  <2>1. CASE InFlight(kind)
    BY <1>3, <1>7, <1>8, <2>1, TimerKeeps
  <2>2. CASE ~InFlight(kind)
    <3>1. sent = r /\ r.bif = bif /\ (hs.server \/ next_pn > 0)
      BY <1>1, <1>7, <1>7a, <2>2 DEF InFlight, Elicits
    <3>2. hs.server => hs.verified
      BY <1>3 DEF HsType
    <3>3. TInv => Ringing(r, hs)
      BY <1>7, <3>1, <3>2, Facts DEF TInv, Ringing
    <3> QED BY <1>8, <3>1, <3>3
  <2> QED BY <2>1, <2>2
<1> HIDE DEF sent
<1>11. /\ q \in RState /\ Counted(q)
       /\ \A f \in Epochs : f # Initial \/ ~drops => q.epochs[f] = r.epochs[f]
       /\ Watchable(sent) /\ Ringing(sent, hs) => Watchable(q) /\ Ringing(q, hs)
  BY <1>3, <1>9, Dropped, EpochNames
<1>12. /\ h \in HsType /\ h.completed = hs.completed /\ h.verified = hs.verified
       /\ h.keys = IF drops THEN hs.keys \ {Initial} ELSE hs.keys
  BY <1>3, WithoutKeys, EpochNames
<1> HIDE DEF q, h
<1>13. IInv' /\ State' = q
  <2>1. /\ h.keys \subseteq hs.keys /\ (Application \in hs.keys => Application \in h.keys)
        /\ hs.keys = {Initial} => h.keys = {Initial}
    BY <1>2, <1>12 DEF Application, Initial, Handshake
  <2>2. \A f \in h.keys : f \in Epochs /\ q.epochs[f] = r.epochs[f]
    BY <1>11, <1>12, Facts
  <2>3. \A f \in h.keys \ {e} : Held(epochs[f]) \subseteq Held(q.epochs[f])
    BY <1>7, <2>2
  <2>4. e \in h.keys => Held(epochs[e]) \cup m \subseteq Held(q.epochs[e]) \cup {}
    BY <1>4, <1>7, <2>2
  <2>5. /\ done' = [done EXCEPT ![e] = @ \cup {}] /\ now' \in Nat /\ next_pn' \in Nat
        /\ {} \in SUBSET Nat /\ (m # {} => e \in hs.keys)
    BY <1>1, <1>2, <1>3, Facts
  <2> QED BY <1>1, <1>2, <1>5, <1>11, <1>12, <2>1, <2>3, <2>4, <2>5, StepKeeps
<1>14. ASSUME TInv PROVE TInv'
  <2>1. Watchable(q) /\ Ringing(q, hs)
    BY <1>10, <1>11, <1>14
  <2>2. Ringing(q, h)
    BY <1>12, <2>1 DEF Ringing
  <2> QED BY <1>1, <1>13, <2>1, <2>2, StepRings
<1> QED BY <1>13, <1>14

(* An ACK: what is newly acknowledged leaves the flight, then what is now  *)
(* late is declared lost.                                                  *)
LEMMA RecvAckOK ==
    ASSUME IInv, NEW e \in Epochs, NEW acks, RecvAck(e, acks)
    PROVE  IInv' /\ (TInv => TInv')
<1> DEFINE ep == epochs[e]
           fresh == NewlyAcked(ep, acks)
           marked == Drain(Marked(ep, acks))
           left == WithoutAcked(ep, acks)
           new == Drain(DetectLost(left))
           b == bif - LostBytes(left) - AckedBytes(ep, acks)
           v == hs.verified \/ e = Handshake \/ (e = Application /\ hs.completed)
           h == [hs EXCEPT !.verified = v]
           same == With(e, marked, bif, pto_count)
           fewer == With(e, new, b, 0)
           acked == IF fresh = {} THEN same ELSE SetTimer(fewer, h)
           drops == hs.server /\ e = Handshake
           q == IF drops THEN DropState(acked, Initial, h) ELSE acked
           k == IF drops THEN [h EXCEPT !.keys = @ \ {Initial}] ELSE h
           d == UNION {ep.sent[i].items : i \in fresh}
<1>1. /\ e \in hs.keys /\ Became(q) /\ hs' = k
      /\ done' = [done EXCEPT ![e] = @ \cup d]
      /\ made' = made /\ next_pn' = next_pn /\ now' = now
  <2>1. /\ [State EXCEPT !.epochs[e] = marked] = same
        /\ [State EXCEPT !.epochs[e] = new, !.bif = b, !.count = 0] = fewer
    <3> HIDE DEF marked, new, b
    <3>1. [State EXCEPT !.epochs[e] = marked] = same
      BY WithFields, Zenon
    <3>2. [State EXCEPT !.epochs[e] = new, !.bif = b, !.count = 0] = fewer
      BY WithAll
    <3> QED BY <3>1, <3>2
  <2>2. State.bif = bif
    BY DEF State
  <2> HIDE DEF same, fewer
  <2> QED BY <2>1, <2>2 DEF RecvAck
<1>2. ep \in EpochType /\ OutBytes(ep) \in Nat /\ bif \in Int /\ now \in Nat /\ next_pn \in Nat
      /\ pto_count \in Nat /\ hs \in HsType
  BY Facts
<1>3. /\ h \in HsType /\ h.keys = hs.keys /\ h.completed = hs.completed
      /\ (hs.verified => h.verified) /\ (e = Handshake => h.verified)
  <2>1. v \in BOOLEAN
    OBVIOUS
  <2>2. (hs.verified => v) /\ (e = Handshake => v)
    OBVIOUS
  <2> HIDE DEF v
  <2>3. h \in HsType /\ h.keys = hs.keys /\ h.completed = hs.completed
    BY <1>2, <2>1, <2>2 DEF HsType
  <2>4. h.verified = v
    BY <1>2 DEF HsType
  <2> QED BY <2>2, <2>3, <2>4
<1> HIDE DEF h
<1>4. d \in SUBSET Nat
  <2>1. \A i \in fresh : ep.sent[i] \in PacketType
    BY <1>2, Counts DEF NewlyAcked
  <2> QED BY <2>1 DEF PacketType
<1>5. /\ acked \in RState /\ Counted(acked)
      /\ \A f \in Epochs : f # e => acked.epochs[f] = epochs[f]
      /\ Held(ep) \subseteq Held(acked.epochs[e]) \cup d
      /\ TInv => Watchable(acked)
      /\ TInv => Ringing(acked, h) \/ (fresh = {} /\ acked.bif = 0 /\ next_pn = 0)
  <2>1. CASE fresh = {}
    <3>1. AckedBytes(ep, acks) = 0 /\ d = {}
      <4>1. {i \in fresh : ep.sent[i].elicits} = {}
        BY <2>1
      <4> QED BY <2>1, <4>1, FS_EmptySet DEF AckedBytes
    <3>2. Marked(ep, acks) \in EpochType
      BY <1>2, MarkedAcked
    <3>3. /\ marked \in EpochType /\ OutBytes(marked) = OutBytes(ep)
          /\ marked.in_flight - OutCount(marked) = ep.in_flight - OutCount(ep)
          /\ Held(ep) \subseteq Held(marked) \cup d /\ (\A strict \in BOOLEAN : Eager(ep, strict) => Eager(marked, strict))
      BY <1>2, <3>1, <3>2, MarkedAcked, Drained, DrainedHolds
    <3> HIDE DEF marked
    <3>5. /\ same \in RState /\ Counted(same) /\ same.epochs[e] = marked
          /\ \A f \in Epochs : f # e => same.epochs[f] = epochs[f]
          /\ same.bif = bif /\ same.timer = timer /\ same.passed = passed
      BY <1>2, <3>3, WithOne
    <3>6. Watchable(State) /\ Eager(marked, e # Application) => Watchable(same)
      BY <1>2, <3>3, WithOne
    <3> HIDE DEF same
    <3>7. ASSUME TInv PROVE Watchable(same) /\ (Ringing(same, h) \/ (bif = 0 /\ next_pn = 0))
      <4>1. Watchable(State) /\ Eager(ep, e # Application)
        BY <3>7, Facts DEF TInv, Watchable
      <4>2. Ringing(State, hs) => Ringing(same, h)
        BY <1>3, <3>5, Facts DEF Ringing
      <4> QED BY <3>3, <3>6, <3>7, <4>1, <4>2 DEF TInv
    <3> QED BY <2>1, <3>3, <3>5, <3>7
  <2>2. CASE fresh # {}
    <3>1. /\ left \in EpochType /\ OutBytes(left) = OutBytes(ep) - AckedBytes(ep, acks)
          /\ left.in_flight - OutCount(left) = ep.in_flight - OutCount(ep)
          /\ Held(ep) \subseteq Held(left) \cup d /\ (\A strict \in BOOLEAN : Eager(ep, strict) => Eager(left, strict))
      BY <1>2, <2>2, AckedOut
    <3>2. AckedBytes(ep, acks) \in Nat
      BY <1>2, MarkedAcked
    <3> HIDE DEF left, d
    <3>3. /\ DetectLost(left) \in EpochType /\ LostBytes(left) \in Nat
          /\ OutBytes(DetectLost(left)) = OutBytes(left) - LostBytes(left)
          /\ DetectLost(left).in_flight - OutCount(DetectLost(left))
               = left.in_flight - OutCount(left)
          /\ Held(left) \subseteq Held(DetectLost(left))
          /\ \A strict \in BOOLEAN : Eager(left, strict) => Eager(DetectLost(left), strict)
      BY <1>2, <3>1, Detected
    <3>4. /\ new \in EpochType /\ OutBytes(new) = OutBytes(left) - LostBytes(left)
          /\ new.in_flight - OutCount(new) = ep.in_flight - OutCount(ep)
          /\ Held(ep) \subseteq Held(new) \cup d /\ (\A strict \in BOOLEAN : Eager(ep, strict) => Eager(new, strict))
      BY <3>1, <3>3, Drained, DrainedHolds
    <3>5. b \in Int /\ b - OutBytes(new) = bif - OutBytes(ep)
      BY <1>2, <3>1, <3>2, <3>3, <3>4
    <3> HIDE DEF new, b
    <3>7. /\ fewer \in RState /\ Counted(fewer) /\ fewer.epochs[e] = new
          /\ \A f \in Epochs : f # e => fewer.epochs[f] = epochs[f]
      BY <1>2, <3>4, <3>5, WithOne
    <3>8. Watchable(State) /\ Eager(new, e # Application) => Watchable(fewer)
      BY <1>2, <3>4, <3>5, WithOne
    <3> HIDE DEF fewer
    <3>9. /\ SetTimer(fewer, h) \in RState /\ SetTimer(fewer, h).epochs = fewer.epochs
          /\ Counted(SetTimer(fewer, h))
          /\ Watchable(fewer) => /\ Watchable(SetTimer(fewer, h))
                                    /\ Ringing(SetTimer(fewer, h), h)
      BY <1>2, <3>7, TimerSet, TimerKeeps
    <3>10. ASSUME TInv PROVE Watchable(fewer)
      <4>1. Watchable(State) /\ Eager(ep, e # Application)
        BY <3>10, Facts DEF TInv, Watchable
      <4> QED BY <3>4, <3>8, <4>1
    <3> QED BY <2>2, <3>4, <3>7, <3>9, <3>10
  <2> QED BY <2>1, <2>2
<1> HIDE DEF acked, d, fresh
<1>6. /\ q \in RState /\ Counted(q)
      /\ \A f \in Epochs : f # Initial \/ ~drops => q.epochs[f] = acked.epochs[f]
      /\ Watchable(acked) => Watchable(q)
      /\ Watchable(acked) /\ Ringing(acked, h) => Ringing(q, h)
      /\ ~drops => q.bif = acked.bif
  BY <1>2, <1>3, <1>5, Dropped, EpochNames
<1>7. /\ k \in HsType /\ k.completed = h.completed /\ k.verified = h.verified
      /\ k.keys = IF drops THEN hs.keys \ {Initial} ELSE hs.keys
  BY <1>3, WithoutKeys, EpochNames
<1> HIDE DEF q, k
<1>8. IInv' /\ State' = q
  <2>1. /\ k.keys \subseteq hs.keys /\ (Application \in hs.keys => Application \in k.keys)
        /\ hs.keys = {Initial} => k.keys = {Initial}
    BY <1>1, <1>7 DEF Application, Initial, Handshake
  <2>2. \A f \in k.keys : f \in Epochs /\ q.epochs[f] = acked.epochs[f]
    BY <1>6, <1>7, Facts
  <2>3. \A f \in k.keys \ {e} : Held(epochs[f]) \subseteq Held(q.epochs[f])
    BY <1>5, <2>2
  <2>4. e \in k.keys => Held(epochs[e]) \cup {} \subseteq Held(q.epochs[e]) \cup d
    BY <1>5, <2>2
  <2>5. /\ made' = [made EXCEPT ![e] = @ \cup {}] /\ now' \in Nat /\ next_pn' \in Nat
        /\ {} \in SUBSET Nat
    BY <1>1, <1>2, Facts
  <2> QED BY <1>1, <1>4, <1>6, <1>7, <2>1, <2>3, <2>4, <2>5, StepKeeps
<1>9. ASSUME TInv PROVE TInv'
  <2>1. Watchable(q)
    BY <1>5, <1>6, <1>7, <1>9 DEF Watchable
  <2>2. Ringing(acked, h) \/ (acked.bif = 0 /\ next_pn' = 0)
    BY <1>1, <1>5, <1>9
  <2>3. Ringing(q, h) \/ (q.bif = 0 /\ next_pn' = 0)
    <3>1. drops => h.verified
      BY <1>3
    <3>2. drops => Ringing(acked, h)
      BY <2>2, <3>1 DEF Ringing
    <3> QED BY <1>5, <1>6, <1>9, <2>2, <3>2
  <2>4. Ringing(q, k) \/ (q.bif = 0 /\ next_pn' = 0)
    BY <1>7, <2>3 DEF Ringing
  <2> QED BY <1>1, <1>8, <2>1, <2>4, StepRings
<1> QED BY <1>8, <1>9

(* Detection in one space, with what is drained after it                   *)
LEMMA DetectDrain ==
    ASSUME NEW ep \in EpochType, now \in Nat
    PROVE  /\ Drain(DetectLost(ep)) \in EpochType /\ LostBytes(ep) \in Nat
           /\ OutBytes(Drain(DetectLost(ep))) = OutBytes(ep) - LostBytes(ep)
           /\ Drain(DetectLost(ep)).in_flight - OutCount(Drain(DetectLost(ep)))
                = ep.in_flight - OutCount(ep)
           /\ Held(ep) \subseteq Held(Drain(DetectLost(ep)))
           /\ \A strict \in BOOLEAN : Eager(ep, strict) => Eager(Drain(DetectLost(ep)), strict)
<1> DEFINE dl == DetectLost(ep)
           new == Drain(dl)
<1>1. /\ dl \in EpochType /\ LostBytes(ep) \in Nat
      /\ OutBytes(dl) = OutBytes(ep) - LostBytes(ep)
      /\ dl.in_flight - OutCount(dl) = ep.in_flight - OutCount(ep)
      /\ Held(ep) \subseteq Held(dl) /\ (\A strict \in BOOLEAN : Eager(ep, strict) => Eager(dl, strict))
  BY Detected
<1> HIDE DEF dl
<1>3. /\ new \in EpochType /\ OutBytes(new) = OutBytes(dl)
      /\ new.in_flight - OutCount(new) = dl.in_flight - OutCount(dl)
      /\ Held(new) = Held(dl) /\ (\A strict \in BOOLEAN : Eager(dl, strict) => Eager(new, strict))
  BY <1>1, Drained, DrainedHolds
<1> HIDE DEF new
<1> QED BY <1>1, <1>3 DEF dl, new

LEMMA OnTimeoutOK ==
    ASSUME IInv, OnTimeout
    PROVE  IInv' /\ (TInv => TInv')
<1> DEFINE at == LossTimeAndSpace(epochs)
           found == Drain(DetectLost(epochs[at[2]]))
           b == bif - LostBytes(epochs[at[2]])
           space == IF bif > 0 THEN PtoTimeAndSpace(epochs, bif, pto_count, hs)[2]
                    ELSE IF Handshake \in hs.keys THEN Handshake ELSE Initial
           probes == Smaller(pto_count + 1, MaxProbes)
           queue == epochs[space].again \cup ProbeItems(epochs[space], probes)
           probing == Probing(epochs[space], probes)
           r == IF at[1] # None THEN With(at[2], found, b, pto_count)
                ELSE With(space, probing, bif, pto_count + 1)
<1>1. /\ Became(SetTimer(r, hs)) /\ hs' = hs /\ now' = now /\ next_pn' = next_pn
      /\ made' = made /\ done' = done
  <2>1. [State EXCEPT !.epochs[at[2]] = Drain(DetectLost(@)),
                      !.bif = @ - LostBytes(epochs[at[2]])] = With(at[2], found, b, pto_count)
    <3>1. State.epochs = epochs /\ State.bif = bif
      BY DEF State
    <3>2. [State EXCEPT !.epochs[at[2]] = Drain(DetectLost(@)),
                        !.bif = @ - LostBytes(epochs[at[2]])]
            = [State EXCEPT !.epochs[at[2]] = found, !.bif = b]
      BY <3>1
    <3> HIDE DEF found, b, at
    <3>3. [State EXCEPT !.epochs[at[2]] = found, !.bif = b] = With(at[2], found, b, pto_count)
      BY WithFields
    <3> QED BY <3>2, <3>3
  <2>2. [State EXCEPT !.epochs[space] = Probing(@, probes), !.count = @ + 1]
          = With(space, probing, bif, pto_count + 1)
    <3> HIDE DEF space, probes
    <3>1. State.epochs[space] = epochs[space] /\ State.count = pto_count
      BY DEF State
    <3>2. [State EXCEPT !.epochs[space] = Probing(@, probes), !.count = @ + 1]
            = [State EXCEPT !.epochs[space] = probing, !.count = pto_count + 1]
      BY <3>1
    <3> HIDE DEF probing
    <3>3. [State EXCEPT !.epochs[space] = probing, !.count = pto_count + 1]
            = With(space, probing, bif, pto_count + 1)
      BY WithCount
    <3> QED BY <3>2, <3>3
  <2> QED BY <2>1, <2>2 DEF OnTimeout
<1>2. epochs \in [Epochs -> EpochType] /\ bif \in Int /\ pto_count \in Nat /\ now \in Nat
      /\ next_pn \in Nat /\ hs \in HsType
  BY Facts
<1>3. \E e \in Epochs :
        /\ r \in RState /\ Counted(r)
        /\ \A f \in Epochs : f # e => r.epochs[f] = epochs[f]
        /\ Held(epochs[e]) \subseteq Held(r.epochs[e])
        /\ TInv => Watchable(r)
  <2>1. CASE at[1] # None
    <3>1. at[2] \in Epochs
      BY <1>2, LossTimeType DEF TimeAndSpace
    <3> DEFINE e == at[2]
    <3> HIDE DEF at
    <3>2. /\ epochs[e] \in EpochType /\ OutBytes(epochs[e]) \in Nat
      BY <3>1, Facts
    <3>3. /\ found \in EpochType /\ LostBytes(epochs[e]) \in Nat
          /\ OutBytes(found) = OutBytes(epochs[e]) - LostBytes(epochs[e])
          /\ found.in_flight - OutCount(found) = epochs[e].in_flight - OutCount(epochs[e])
          /\ Held(epochs[e]) \subseteq Held(found)
          /\ \A strict \in BOOLEAN : Eager(epochs[e], strict) => Eager(found, strict)
      BY <1>2, <3>2, DetectDrain
    <3>4. b \in Int /\ b - OutBytes(found) = bif - OutBytes(epochs[e])
      BY <1>2, <3>2, <3>3
    <3> HIDE DEF found, b
    <3>5. r = With(e, found, b, pto_count)
      BY <2>1
    <3> HIDE DEF r
    <3>6. /\ r \in RState /\ Counted(r) /\ r.epochs[e] = found
          /\ \A f \in Epochs : f # e => r.epochs[f] = epochs[f]
      BY <1>2, <3>1, <3>3, <3>4, <3>5, WithOne
    <3>7. Watchable(State) /\ Eager(found, e # Application) => Watchable(r)
      BY <1>2, <3>1, <3>3, <3>4, <3>5, WithOne
    <3>8. ASSUME TInv PROVE Watchable(r)
      <4>1. Watchable(State) /\ Eager(epochs[e], e # Application)
        BY <3>1, <3>8, Facts DEF TInv, Watchable
      <4> QED BY <3>3, <3>7, <4>1
    <3> QED BY <3>1, <3>3, <3>6, <3>8
  <2>2. CASE at[1] = None
    <3>1. space \in Epochs
      BY <1>2, PtoTimeType, EpochNames DEF TimeAndSpace
    <3> HIDE DEF space
    <3>2. epochs[space] \in EpochType
      BY <1>2, <3>1
    <3>3. probes \in Int
      BY <1>2, RecoveryAssumption DEF Smaller
    <3>4. queue \in SUBSET Nat /\ epochs[space].again \subseteq queue
      <4>1. \A i \in Outstanding(epochs[space]) : epochs[space].sent[i].items \in SUBSET Nat
        BY <3>2, Counts DEF PacketType
      <4>2. ProbeItems(epochs[space], probes) \in SUBSET Nat
        BY <4>1 DEF ProbeItems
      <4>3. epochs[space].again \in SUBSET Nat
        BY <3>2 DEF EpochType
      <4> HIDE DEF probes
      <4> QED BY <4>2, <4>3
    <3> HIDE DEF probes, queue
    <3>5. /\ probing \in EpochType /\ probing.sent = epochs[space].sent
          /\ probing.in_flight = epochs[space].in_flight /\ probing.last = epochs[space].last
          /\ probing.again = queue
      <4>1. probing = [epochs[space] EXCEPT !.probes = probes, !.again = queue]
        BY DEF Probing, queue
      <4> QED BY <3>2, <3>3, <3>4, <4>1 DEF EpochType
    <3> HIDE DEF probing
    <3>6. Outstanding(probing) = Outstanding(epochs[space])
      BY <3>5 DEF Outstanding
    <3>7. /\ OutBytes(probing) = OutBytes(epochs[space])
          /\ OutCount(probing) = OutCount(epochs[space])
          /\ Held(epochs[space]) \subseteq Held(probing)
          /\ \A strict \in BOOLEAN : Eager(epochs[space], strict) => Eager(probing, strict)
      BY <3>4, <3>5, <3>6 DEF OutBytes, OutCount, Held, OutItems, Eager
    <3>8. /\ pto_count + 1 \in Nat /\ bif - OutBytes(probing) = bif - OutBytes(epochs[space])
          /\ probing.in_flight - OutCount(probing)
               = epochs[space].in_flight - OutCount(epochs[space])
      BY <1>2, <3>5, <3>7
    <3>9. r = With(space, probing, bif, pto_count + 1)
      BY <2>2
    <3> DEFINE c == pto_count + 1
    <3> HIDE DEF r, c
    <3>10. c \in Nat /\ r = With(space, probing, bif, c)
      BY <3>8, <3>9 DEF c
    <3>11. /\ r \in RState /\ Counted(r) /\ r.epochs[space] = probing
           /\ \A f \in Epochs : f # space => r.epochs[f] = epochs[f]
      BY <1>2, <3>1, <3>5, <3>8, <3>10, WithOne
    <3>12. Watchable(State) /\ Eager(probing, space # Application) => Watchable(r)
      BY <1>2, <3>1, <3>5, <3>8, <3>10, WithOne
    <3>13. ASSUME TInv PROVE Watchable(r)
      <4>1. Watchable(State) /\ Eager(epochs[space], space # Application)
        BY <3>1, <3>13, Facts DEF TInv, Watchable
      <4> QED BY <3>5, <3>7, <3>12, <4>1
    <3> QED BY <3>1, <3>7, <3>11, <3>13
  <2> QED BY <2>1, <2>2
<1> HIDE DEF r
<1>4. PICK e \in Epochs :
        /\ r \in RState /\ Counted(r)
        /\ \A f \in Epochs : f # e => r.epochs[f] = epochs[f]
        /\ Held(epochs[e]) \subseteq Held(r.epochs[e])
        /\ TInv => Watchable(r)
  BY <1>3
<1> DEFINE q == SetTimer(r, hs)
<1>5. /\ q \in RState /\ Counted(q) /\ q.epochs = r.epochs
      /\ Watchable(r) => Watchable(q) /\ Ringing(q, hs)
  BY <1>2, <1>4, TimerSet, TimerKeeps
<1> HIDE DEF q
<1>6. IInv' /\ State' = q
  <2>1. \A f \in hs.keys : Held(epochs[f]) \subseteq Held(q.epochs[f])
    BY <1>4, <1>5, Facts
  <2>2. now' \in Nat /\ Became(q)
    BY <1>1, <1>2 DEF q
  <2> QED BY <1>1, <1>2, <1>5, <2>1, <2>2, StepHolds
<1> QED BY <1>1, <1>4, <1>5, <1>6, StepRings

LEMMA PathChangeOK ==
    ASSUME IInv, PathChange
    PROVE  IInv' /\ (TInv => TInv')
<1> DEFINE det(e) == Drain(DetectLost(epochs[e]))
           es == [e \in Epochs |-> det(e)]
           b == bif - (LostBytes(epochs[Initial]) + LostBytes(epochs[Handshake])
                        + LostBytes(epochs[Application]))
           q == [epochs |-> es, bif |-> b, timer |-> timer, count |-> pto_count,
                 passed |-> passed]
<1>1. /\ epochs' = es /\ bif' = b /\ timer' = timer /\ pto_count' = pto_count
      /\ passed' = passed /\ hs' = hs /\ now' = now /\ next_pn' = next_pn
      /\ made' = made /\ done' = done
  BY DEF PathChange
<1>2. Became(q)
  BY <1>1 DEF Became
<1>3. \A e \in Epochs :
        /\ det(e) \in EpochType /\ LostBytes(epochs[e]) \in Nat
        /\ OutBytes(det(e)) = OutBytes(epochs[e]) - LostBytes(epochs[e])
        /\ det(e).in_flight - OutCount(det(e)) = epochs[e].in_flight - OutCount(epochs[e])
        /\ Held(epochs[e]) \subseteq Held(det(e)) /\ (\A strict \in BOOLEAN : Eager(epochs[e], strict) => Eager(det(e), strict))
  BY Facts, DetectDrain
<1> HIDE DEF det
<1>4. es \in [Epochs -> EpochType] /\ \A e \in Epochs : es[e] = det(e)
  BY <1>3
<1>5. bif = OutBytes(epochs[Initial]) + OutBytes(epochs[Handshake]) + OutBytes(epochs[Application])
      /\ \A e \in Epochs : epochs[e].in_flight - OutCount(epochs[e]) = 0
  BY Facts DEF Counted
<1>6. b \in Int /\ b = OutBytes(es[Initial]) + OutBytes(es[Handshake]) + OutBytes(es[Application])
  <2>1. {Initial, Handshake, Application} \subseteq Epochs
    BY EpochNames
  <2>2. \A e \in Epochs : /\ OutBytes(epochs[e]) \in Nat /\ LostBytes(epochs[e]) \in Nat
                          /\ OutBytes(es[e]) = OutBytes(epochs[e]) - LostBytes(epochs[e])
    BY <1>3, <1>4, Facts
  <2> HIDE DEF es
  <2> QED BY <1>5, <2>1, <2>2
<1> HIDE DEF es, b
<1>7. q \in RState /\ q.epochs = es /\ q.bif = b /\ q.timer = timer /\ q.passed = passed
  <2>1. passed \in BOOLEAN
    BY Facts DEF RState
  <2> QED BY <1>4, <1>6, <2>1, Facts DEF RState
<1> HIDE DEF q
<1>8. Counted(q)
  BY <1>3, <1>4, <1>5, <1>6, <1>7 DEF Counted
<1>9. IInv' /\ State' = q
  <2>1. /\ \A f \in hs.keys : Held(epochs[f]) \subseteq Held(q.epochs[f])
        /\ now' \in Nat /\ hs \in HsType
    BY <1>1, <1>3, <1>4, <1>7, Facts
  <2> QED BY <1>1, <1>2, <1>7, <1>8, <2>1, StepHolds
<1>10. ASSUME TInv PROVE TInv'
  <2>1. \A e \in Epochs : Eager(epochs[e], e # Application)
    BY <1>10, Facts DEF TInv, Watchable
  <2>2. Watchable(q)
    BY <1>1, <1>3, <1>4, <1>7, <2>1 DEF Watchable
  <2>3. bif = 0 => b = 0
    <3>1. \A e \in Epochs : OutBytes(epochs[e]) \in Nat /\ OutBytes(es[e]) \in Nat
                            /\ OutBytes(es[e]) <= OutBytes(epochs[e])
      <4>1. \A e \in Epochs : OutBytes(epochs[e]) \in Nat /\ OutBytes(es[e]) \in Nat
        BY <1>4, Facts, Counts
      <4> QED BY <1>3, <1>4, <4>1
    <3>2. {Initial, Handshake, Application} \subseteq Epochs
      BY EpochNames
    <3>3. \A e \in {Initial, Handshake, Application} :
            /\ OutBytes(epochs[e]) \in Nat /\ OutBytes(es[e]) \in Nat
            /\ OutBytes(es[e]) <= OutBytes(epochs[e])
      BY <3>1, <3>2
    <3>4. bif = OutBytes(epochs[Initial]) + OutBytes(epochs[Handshake])
                 + OutBytes(epochs[Application])
      BY <1>5
    <3>5. bif = 0 => /\ OutBytes(es[Initial]) = 0 /\ OutBytes(es[Handshake]) = 0
                     /\ OutBytes(es[Application]) = 0
      BY <3>3, <3>4
    <3> QED BY <1>6, <3>5
  <2>4. Ringing(q, hs) \/ (q.bif = 0 /\ next_pn' = 0)
    BY <1>1, <1>7, <1>10, <2>3, Facts DEF TInv, Ringing
  <2> QED BY <1>1, <1>9, <2>2, <2>4, StepRings
<1> QED BY <1>9, <1>10

LEMMA HandshakeKeysOK ==
    ASSUME IInv, HandshakeKeys
    PROVE  IInv' /\ (TInv => TInv')
<1>1. /\ hs.keys = {Initial} /\ hs' = [hs EXCEPT !.keys = Epochs]
      /\ epochs' = epochs /\ bif' = bif /\ timer' = timer /\ pto_count' = pto_count
      /\ passed' = passed /\ now' = now /\ next_pn' = next_pn /\ made' = made /\ done' = done
  BY DEF HandshakeKeys, rec
<1>2. /\ hs' \in HsType /\ hs'.keys = Epochs
      /\ hs'.verified = hs.verified /\ hs'.completed = hs.completed
  BY <1>1, Facts DEF HsType
<1>3. State' = State
  BY <1>1 DEF State
<1>4. TypeOK'
  BY <1>1, <1>2, <1>3 DEF IInv, TypeOK
<1>5. Counted(State)'
  <2>1. Counted(State)' = Counted(State)
    BY <1>3 DEF Counted, OutBytes, OutCount, Outstanding, Out
  <2> QED BY <2>1 DEF IInv
<1>6. KeysInOrder'
  BY <1>2, EpochNames DEF KeysInOrder
<1>7. Remembered'
  <2>1. made[Handshake] = {} /\ made[Application] = {}
    BY <1>1 DEF IInv, KeysInOrder, Application, Initial
  <2>2. \A e \in Epochs : made[e] \subseteq done[e] \cup Held(epochs[e])
    BY <1>1, <2>1, EpochNames DEF IInv, Remembered
  <2> QED BY <1>1, <1>2, <2>2 DEF Remembered, Held, OutItems, Outstanding, Out
<1>8. TInv => TInv'
  BY <1>1, <1>2, <1>3 DEF TInv, Watchable, Ringing, Eager
<1> QED BY <1>4, <1>5, <1>6, <1>7, <1>8 DEF IInv

(* Spaces that are done with are dropped, with their keys.                 *)
LEMMA DropOK ==
    ASSUME IInv, NEW q \in RState, Counted(q), Became(q), NEW k \in HsType, hs' = k,
           k.keys \subseteq hs.keys, hs.keys # {Initial},
           Application \in hs.keys => Application \in k.keys,
           \A f \in k.keys : q.epochs[f] = epochs[f],
           Watchable(State) => Watchable(q) /\ Ringing(q, k),
           now' = now, next_pn' = next_pn, made' = made, done' = done
    PROVE  IInv' /\ (TInv => TInv')
<1>1. IInv' /\ State' = q
  <2>1. /\ \A f \in k.keys : Held(epochs[f]) \subseteq Held(q.epochs[f])
        /\ now' \in Nat
    BY Facts
  <2> QED BY <2>1, StepHolds
<1>2. TInv => TInv'
  BY <1>1, StepRings DEF TInv
<1> QED BY <1>1, <1>2

(* The state with one space dropped                                        *)
LEMMA DropOne ==
    ASSUME IInv, NEW h \in HsType, NEW e \in Epochs, e \in h.keys
    PROVE  /\ DropState(State, e, h) \in RState /\ Counted(DropState(State, e, h))
           /\ \A f \in Epochs : f # e => DropState(State, e, h).epochs[f] = epochs[f]
           /\ Watchable(State) =>
                Watchable(DropState(State, e, h)) /\ Ringing(DropState(State, e, h), h)
<1>1. now \in Nat /\ State \in RState /\ Counted(State) /\ State.epochs = epochs
  BY Facts
<1> QED BY <1>1, Dropped

LEMMA DropOneOK ==
    ASSUME IInv, NEW h \in HsType, NEW e \in Epochs, h.keys = hs.keys, e \in hs.keys,
           e # Application, Handshake \in hs.keys,
           Became(DropState(State, e, h)), hs' = [h EXCEPT !.keys = @ \ {e}],
           now' = now, next_pn' = next_pn, made' = made, done' = done
    PROVE  IInv' /\ (TInv => TInv')
<1> DEFINE q == DropState(State, e, h)
           k == [h EXCEPT !.keys = @ \ {e}]
<1>1. /\ q \in RState /\ Counted(q)
      /\ \A f \in Epochs : f # e => q.epochs[f] = epochs[f]
      /\ Watchable(State) => Watchable(q) /\ Ringing(q, h)
  BY DropOne
<1>2. /\ k \in HsType /\ k.keys = hs.keys \ {e}
      /\ k.completed = h.completed /\ k.verified = h.verified
  BY WithoutKeys
<1>3. Became(q) /\ hs' = k
  OBVIOUS
<1> HIDE DEF q, k
<1>4. Ringing(q, h) => Ringing(q, k)
  BY <1>2 DEF Ringing
<1>5. /\ \A f \in k.keys : q.epochs[f] = epochs[f]
      /\ k.keys \subseteq hs.keys /\ (Application \in hs.keys => Application \in k.keys)
  BY <1>1, <1>2, Facts
<1>6. hs.keys # {Initial}
  BY DEF Initial, Handshake
<1> QED BY <1>1, <1>2, <1>3, <1>4, <1>5, <1>6, DropOK

LEMMA RecvHandshakeOK ==
    ASSUME IInv, RecvHandshake
    PROVE  IInv' /\ (TInv => TInv')
<1>1. /\ {Initial, Handshake} \subseteq hs.keys /\ Became(DropState(State, Initial, hs))
      /\ hs' = [hs EXCEPT !.keys = @ \ {Initial}]
      /\ now' = now /\ next_pn' = next_pn /\ made' = made /\ done' = done
  BY DEF RecvHandshake
<1>2. hs \in HsType /\ Initial \in Epochs /\ Initial # Application
  BY Facts, EpochNames DEF Initial, Application
<1> QED BY <1>1, <1>2, DropOneOK

LEMMA CompleteOK ==
    ASSUME IInv, Complete
    PROVE  IInv' /\ (TInv => TInv')
<1> DEFINE h == [hs EXCEPT !.completed = TRUE]
           k == [h EXCEPT !.keys = @ \ {Handshake}]
           j == [k EXCEPT !.keys = @ \ {Initial}]
           one == DropState(State, Handshake, h)
           q == DropState(one, Initial, k)
<1>1. /\ Handshake \in hs.keys /\ now' = now /\ next_pn' = next_pn /\ made' = made /\ done' = done
      /\ hs' = IF hs.server THEN j ELSE h
      /\ Became(IF hs.server THEN q ELSE State)
  BY DEF Complete
<1>2. h \in HsType /\ h.keys = hs.keys /\ h.verified = hs.verified
  BY Facts DEF HsType
<1> HIDE DEF h
<1>3. /\ k \in HsType /\ k.keys = hs.keys \ {Handshake} /\ k.verified = h.verified
      /\ {Initial, Handshake} \subseteq Epochs
  BY <1>2, WithoutKeys, EpochNames
<1> HIDE DEF k
<1>4. CASE hs.server
  <2>1. /\ j \in HsType /\ j.keys = k.keys \ {Initial} /\ j.verified = h.verified
    BY <1>3, WithoutKeys
  <2>2. /\ one \in RState /\ Counted(one)
        /\ \A f \in Epochs : f # Handshake => one.epochs[f] = epochs[f]
        /\ Watchable(State) => Watchable(one) /\ Ringing(one, h)
    BY <1>1, <1>2, <1>3, DropOne
  <2>3. hs' = j /\ Became(q)
    BY <1>1, <1>4
  <2> HIDE DEF j, one
  <2>4. Ringing(one, h) => Ringing(one, k)
    BY <1>3 DEF Ringing
  <2>5. now \in Nat
    BY Facts
  <2>6. /\ q \in RState /\ Counted(q)
        /\ \A f \in Epochs : f # Initial => q.epochs[f] = one.epochs[f]
        /\ Watchable(one) => Watchable(q)
        /\ Watchable(one) /\ Ringing(one, k) => Ringing(q, k)
    BY <1>3, <2>2, <2>5, Dropped
  <2> HIDE DEF q
  <2>7. Watchable(State) => Watchable(q) /\ Ringing(q, j)
    <3>1. Ringing(q, k) => Ringing(q, j)
      BY <1>3, <2>1 DEF Ringing
    <3> QED BY <2>2, <2>4, <2>6, <3>1
  <2>8. /\ \A f \in j.keys : q.epochs[f] = epochs[f]
        /\ j.keys \subseteq hs.keys /\ (Application \in hs.keys => Application \in j.keys)
    <3>1. Application # Initial /\ Application # Handshake
      BY DEF Application, Initial, Handshake
    <3> QED BY <1>3, <2>1, <2>2, <2>6, <3>1, Facts
  <2>9. hs.keys # {Initial}
    BY <1>1 DEF Initial, Handshake
  <2> QED BY <1>1, <2>1, <2>3, <2>6, <2>7, <2>8, <2>9, DropOK
<1>5. CASE ~hs.server
  <2>1. hs' = h /\ Became(State)
    BY <1>1, <1>5
  <2>2. IInv' /\ State' = State
    <3>1. /\ \A f \in h.keys : Held(epochs[f]) \subseteq Held(State.epochs[f])
          /\ now' \in Nat /\ State \in RState /\ Counted(State)
      BY <1>1, Facts
    <3> QED BY <1>1, <1>2, <2>1, <3>1, StepHolds
  <2>3. ASSUME TInv PROVE TInv'
    <3>1. Watchable(State) /\ (Ringing(State, h) \/ (State.bif = 0 /\ next_pn' = 0))
      BY <1>1, <1>2, <2>3, Facts DEF TInv, Ringing
    <3> QED BY <2>1, <2>2, <3>1, StepRings
  <2> QED BY <2>2, <2>3
<1> QED BY <1>4, <1>5

LEMMA HandshakeDoneOK ==
    ASSUME IInv, RecvHandshakeDone
    PROVE  IInv' /\ (TInv => TInv')
<1> DEFINE h == [hs EXCEPT !.verified = TRUE]
<1>1. /\ Handshake \in hs.keys /\ hs.completed
      /\ now' = now /\ next_pn' = next_pn /\ made' = made /\ done' = done
      /\ hs' = [h EXCEPT !.keys = @ \ {Handshake}]
      /\ Became(DropState(State, Handshake, h))
  BY DEF RecvHandshakeDone
<1>2. h \in HsType /\ h.keys = hs.keys
  <2> DEFINE v == TRUE
  <2>1. v \in BOOLEAN /\ v /\ h = [hs EXCEPT !.verified = v]
    OBVIOUS
  <2> HIDE DEF v
  <2> QED BY <2>1, Facts DEF HsType
<1>3. Handshake \in Epochs /\ Handshake # Application
  BY EpochNames DEF Handshake, Application
<1> HIDE DEF h
<1> QED BY <1>1, <1>2, <1>3, DropOneOK

LEMMA TickOK ==
    ASSUME IInv, hs' = hs, now' \in Nat, next_pn' = next_pn, made' = made, done' = done,
           epochs' = epochs, bif' = bif, timer' = timer, pto_count' = pto_count,
           passed' = passed
    PROVE  IInv' /\ (TInv => TInv')
<1>1. State' = State
  BY DEF State
<1>2. TypeOK'
  BY <1>1 DEF IInv, TypeOK
<1>3. Counted(State)'
  <2>1. Counted(State)' = Counted(State)
    BY <1>1 DEF Counted, OutBytes, OutCount, Outstanding, Out
  <2> QED BY <2>1 DEF IInv
<1>4. KeysInOrder' /\ Remembered'
  BY DEF IInv, KeysInOrder, Remembered, Held, OutItems, Outstanding, Out
<1>5. TInv => TInv'
  BY <1>1 DEF TInv, Watchable, Ringing, Eager
<1> QED BY <1>2, <1>3, <1>4, <1>5 DEF IInv

LEMMA NextOK ==
    ASSUME IInv, [Next]_vars
    PROVE  IInv' /\ (TInv => TInv')
<1>1. CASE \E e \in Epochs, kind \in Kinds : SendPacket(e, kind)
  BY <1>1, SendPacketOK
<1>2. CASE \E e \in Epochs : \E acks \in SUBSET SentPns(e) \ {{}} : RecvAck(e, acks)
  BY <1>2, RecvAckOK
<1>3. CASE OnTimeout
  BY <1>3, OnTimeoutOK
<1>4. CASE PathChange
  BY <1>4, PathChangeOK
<1>5. CASE HandshakeKeys
  BY <1>5, HandshakeKeysOK
<1>5a. CASE RecvHandshake
  BY <1>5a, RecvHandshakeOK
<1>6. CASE Complete
  BY <1>6, CompleteOK
<1>7. CASE RecvHandshakeDone
  BY <1>7, HandshakeDoneOK
<1>8. CASE Tick
  <2>1. now' \in Nat
    BY <1>8, Facts DEF Tick
  <2> QED BY <1>8, <2>1, TickOK DEF Tick, rec
<1>9. CASE UNCHANGED vars
  <2>1. now' \in Nat
    BY <1>9, Facts DEF vars
  <2> QED BY <1>9, <2>1, TickOK DEF vars
<1> QED BY <1>1, <1>2, <1>3, <1>4, <1>5, <1>5a, <1>6, <1>7, <1>8, <1>9 DEF Next

----------------------------------------------------------------------------
(* Whatever is sent, acknowledged, lost, acknowledged late, probed, or     *)
(* dropped with its keys, by on_packet_sent, on_ack_received,              *)
(* on_loss_detection_timeout and on_pkt_num_space_discarded: the bytes and *)
(* packets charged as in flight are those outstanding, and what was sent   *)
(* in a live space is acknowledged, outstanding or queued again.           *)
THEOREM RecoverySafe == Spec => [](InFlightCounted /\ NothingForgotten)
<1>1. Init => IInv
  BY InitOK
<1>2. IInv /\ [Next]_vars => IInv'
  BY NextOK
<1>3. IInv => InFlightCounted /\ NothingForgotten
  <2> SUFFICES ASSUME IInv PROVE InFlightCounted /\ NothingForgotten
    OBVIOUS
  <2>1. InFlightCounted
    <3>1. \A e \in Epochs : epochs[e].in_flight \in Int /\ OutCount(epochs[e]) \in Nat
      BY Facts, Counts DEF EpochType
    <3>2. \A e \in Epochs : epochs[e].in_flight = OutCount(epochs[e])
      <4>1. \A e \in Epochs : epochs[e].in_flight - OutCount(epochs[e]) = 0
        BY Facts DEF Counted
      <4> QED BY <3>1, <4>1
    <3> QED BY <3>2, Facts DEF Counted, InFlightCounted
  <2>2. NothingForgotten
    BY DEF IInv, Remembered, NothingForgotten, Held, OutItems
  <2> QED BY <2>1, <2>2
<1> QED BY <1>1, <1>2, <1>3, PTL DEF Spec

(* Whatever is sent, the timer of set_loss_detection_timer runs while a    *)
(* packet that elicits an ACK is outstanding, and at a client until the    *)
(* server has verified its address, unless it was last set over            *)
(* application packets that give no probe timeout: those sent before the   *)
(* handshake is complete, or padded ACKs before anything else.             *)
THEOREM TimerSafe == Spec => []TimerArmed
<1>1. Init => IInv /\ TInv
  BY InitOK
<1>2. IInv /\ TInv /\ [Next]_vars => IInv' /\ TInv'
  BY NextOK
<1>3. IInv /\ TInv => TimerArmed
  <2> SUFFICES ASSUME IInv, TInv, timer = None, ~passed PROVE TimerArmed
    BY DEF TimerArmed
  <2>1. bif = 0 /\ (hs.verified \/ next_pn = 0)
    BY Facts DEF TInv, Ringing
  <2>2. \A e \in Epochs : OutBytes(epochs[e]) = 0
    <3>1. /\ \A e \in Epochs : OutBytes(epochs[e]) \in Nat
          /\ bif = OutBytes(epochs[Initial]) + OutBytes(epochs[Handshake])
                     + OutBytes(epochs[Application])
      BY Facts DEF Counted
    <3> QED BY <2>1, <3>1, EpochNames
  <2>3. ASSUME NEW e \in Epochs, NEW i \in Outstanding(epochs[e]) PROVE ~epochs[e].sent[i].elicits
    <3> DEFINE B == {j \in Outstanding(epochs[e]) : epochs[e].sent[j].elicits}
    <3>1. Cardinality(B) = 0
      BY <2>2 DEF OutBytes
    <3>2. IsFiniteSet(B)
      <4>1. epochs[e] \in EpochType
        BY Facts
      <4>2. B \in SUBSET DOMAIN epochs[e].sent
        BY DEF Outstanding
      <4> QED BY <4>1, <4>2, Counts
    <3>3. B = {}
      BY <3>1, <3>2, FS_EmptySet
    <3> QED BY <3>3
  <2> QED BY <2>1, <2>3 DEF TimerArmed
<1> QED BY <1>1, <1>2, <1>3, PTL DEF Spec
============================================================================
