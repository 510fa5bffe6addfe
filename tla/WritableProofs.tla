--------------------------- MODULE WritableProofs --------------------------
(***************************************************************************)
(* Proofs about module Writable: no wake-up of a waiting application is    *)
(* lost and no window is overrun, for any streams, windows, lengths and    *)
(* congestion windows.                                                     *)
(***************************************************************************)
EXTENDS Writable, TLAPS

SendStream == [off : Nat, max_data : Nat, lowat : Nat \ {0},
               stopped : BOOLEAN, over : BOOLEAN]

TypeOK ==
    /\ str \in [Streams -> SendStream]
    /\ room \in Nat /\ tx_cap \in Nat
    /\ listed \subseteq Streams /\ waiting \subseteq Streams

(* No stream sends past its window, and the capacity of the connection,    *)
(* which bounds what stream_do_send takes, is never more than its window   *)
(* has left.                                                               *)
WithinWindows ==
    /\ \A s \in Streams : str[s].off <= str[s].max_data
    /\ tx_cap <= room

IInv == TypeOK /\ WithinWindows /\ NoLostWakeup

----------------------------------------------------------------------------
(* What the smaller of two numbers is                                      *)
LEMMA Smallest ==
    \A a, b \in Nat : /\ Smaller(a, b) \in Nat
                      /\ Smaller(a, b) <= a /\ Smaller(a, b) <= b
                      /\ Smaller(a, b) \in {a, b}
BY DEF Smaller

(* Whatever the congestion window, update_tx_cap keeps to the window.      *)
LEMMA CapUpdated ==
    ASSUME NEW left \in Nat, UpdateTxCap(left)
    PROVE  tx_cap' \in Nat /\ tx_cap' <= left
BY WritableAssumption, Smallest DEF UpdateTxCap

(* A stream that ended has nothing in flight and no room.                  *)
LEMMA EndedStream ==
    ASSUME NEW how
    PROVE  Ended(how) \in SendStream /\ Ended(how).off <= Ended(how).max_data
           /\ ~IsWritable(Ended(how))
BY DEF Ended, SendStream, IsWritable

(* A step that changes one stream only has to care for that one.           *)
LEMMA OneStream ==
    ASSUME IInv, NEW s \in Streams, NEW st \in SendStream,
           st.off <= st.max_data,
           str' = [str EXCEPT ![s] = st],
           listed' \subseteq Streams, waiting' \subseteq Streams,
           listed \ {s} \subseteq listed', waiting' \ {s} \subseteq waiting,
           s \in waiting' /\ IsWritable(st) => s \in listed',
           room' \in Nat, tx_cap' \in Nat, tx_cap' <= room'
    PROVE  IInv'
<1>1. \A t \in Streams : str'[t] = IF t = s THEN st ELSE str[t]
  BY DEF IInv, TypeOK
<1>2. TypeOK'
  BY DEF IInv, TypeOK
<1>3. WithinWindows'
  BY <1>1 DEF IInv, WithinWindows
<1>4. NoLostWakeup'
  <2> SUFFICES ASSUME NEW t \in waiting', IsWritable(str'[t]) PROVE t \in listed'
    BY DEF NoLostWakeup
  <2>1. CASE t = s
    BY <1>1, <2>1
  <2>2. CASE t # s
    BY <1>1, <2>2 DEF IInv, NoLostWakeup
  <2> QED BY <2>1, <2>2
<1> QED BY <1>2, <1>3, <1>4 DEF IInv

----------------------------------------------------------------------------
(* stream_do_send that takes fewer bytes than it was given: either the     *)
(* stream's own window is used up, and the stream is not writable, or the  *)
(* connection's capacity cut the data, and a stream that still is writable *)
(* is listed again.                                                        *)
LEMMA SendKeeps ==
    ASSUME IInv, NEW s \in Streams, NEW len \in Lens, StreamSend(s, len)
    PROVE  IInv'
<1> DEFINE cap == Smaller(tx_cap, len)
           sent == Smaller(cap, Cap(str[s]))
           after == [str[s] EXCEPT !.off = @ + sent]
<1>1. /\ ~str[s].over /\ ~str[s].stopped
      /\ str' = [str EXCEPT ![s] = after]
      /\ tx_cap' = tx_cap - sent /\ room' = room - sent
      /\ listed' = Relist(s, after, tx_cap < len)
      /\ waiting' = IF sent < len THEN waiting \cup {s} ELSE waiting
  BY DEF StreamSend
<1>2. str[s] \in SendStream /\ str[s].off <= str[s].max_data
  BY DEF IInv, TypeOK, WithinWindows
<1>3. len \in Nat /\ tx_cap \in Nat /\ room \in Nat /\ tx_cap <= room
  BY DEF IInv, TypeOK, WithinWindows, Lens
<1>4. Cap(str[s]) \in Nat /\ Cap(str[s]) = str[s].max_data - str[s].off
  BY <1>2 DEF Cap, SendStream
<1>5. /\ cap \in Nat /\ cap \in {tx_cap, len} /\ cap <= tx_cap /\ cap <= len
      /\ sent \in Nat /\ sent \in {cap, Cap(str[s])} /\ sent <= cap
      /\ sent <= Cap(str[s])
  BY <1>3, <1>4, Smallest
<1> HIDE DEF sent, cap
<1>6. /\ after \in SendStream
      /\ after.off = str[s].off + sent /\ after.max_data = str[s].max_data
      /\ after.lowat = str[s].lowat
      /\ after.over = str[s].over /\ after.stopped = str[s].stopped
  BY <1>2, <1>5 DEF SendStream
<1>7. after.off <= after.max_data
  BY <1>2, <1>4, <1>5, <1>6 DEF SendStream
<1> HIDE DEF after
<1>8. sent < len /\ IsWritable(after) => tx_cap < len
  BY <1>2, <1>3, <1>4, <1>5, <1>6 DEF IsWritable, SendStream
<1>9. IsWritable(after) => IsWritable(str[s])
  BY <1>2, <1>5, <1>6 DEF IsWritable, SendStream
<1>10. s \in waiting' /\ IsWritable(after) => s \in listed'
  <2> SUFFICES ASSUME s \in waiting', IsWritable(after) PROVE s \in listed'
    OBVIOUS
  <2>1. s \notin waiting
    BY DEF StreamSend
  <2>2. sent < len
    BY <1>1, <2>1
  <2> QED BY <1>1, <1>8, <1>9, <2>2 DEF Relist
<1>11. /\ listed' \subseteq Streams /\ waiting' \subseteq Streams
       /\ listed \ {s} \subseteq listed' /\ waiting' \ {s} \subseteq waiting
  BY <1>1 DEF Relist, IInv, TypeOK
<1>12. room' \in Nat /\ tx_cap' \in Nat /\ tx_cap' <= room'
  BY <1>1, <1>3, <1>5
<1> QED BY <1>1, <1>6, <1>7, <1>10, <1>11, <1>12, OneStream

(* stream_writable raises the low watermark to len, which the stream's     *)
(* window does not have when the connection's capacity is not to blame.    *)
LEMMA AskKeeps ==
    ASSUME IInv, NEW s \in Streams, NEW len \in Lens, StreamWritable(s, len)
    PROVE  IInv'
<1> DEFINE st == [str[s] EXCEPT !.lowat = Larger(1, len)]
<1>1. /\ str' = [str EXCEPT ![s] = st]
      /\ listed' = IF Cap(st) >= len /\ IsWritable(st) THEN listed \cup {s} ELSE listed
      /\ waiting' = waiting \cup {s}
      /\ room' = room /\ tx_cap' = tx_cap
  BY DEF StreamWritable
<1>2. len \in Nat /\ Larger(1, len) \in Nat \ {0} /\ Larger(1, len) >= len
  BY WritableAssumption DEF Lens, Larger
<1>3. str[s] \in SendStream /\ str[s].off <= str[s].max_data
  BY DEF IInv, TypeOK, WithinWindows
<1>4. /\ st \in SendStream /\ st.off = str[s].off /\ st.max_data = str[s].max_data
      /\ st.lowat >= len
  BY <1>2, <1>3 DEF SendStream
<1>5. IsWritable(st) => Cap(st) >= len
  BY <1>2, <1>4 DEF IsWritable, Cap, SendStream
<1> HIDE DEF st
<1>6. s \in waiting' /\ IsWritable(st) => s \in listed'
  BY <1>1, <1>5
<1>7. /\ listed' \subseteq Streams /\ waiting' \subseteq Streams
      /\ listed \ {s} \subseteq listed' /\ waiting' \ {s} \subseteq waiting
      /\ room' \in Nat /\ tx_cap' \in Nat /\ tx_cap' <= room'
  BY <1>1 DEF IInv, TypeOK, WithinWindows
<1>8. st.off <= st.max_data
  BY <1>3, <1>4
<1> QED BY <1>1, <1>4, <1>6, <1>7, <1>8, OneStream

(* MAX_STREAM_DATA lists the stream that its limit makes writable.         *)
LEMMA LimitKeeps ==
    ASSUME IInv, NEW s \in Streams, RecvMaxStreamData(s)
    PROVE  IInv'
<1> DEFINE st == [str[s] EXCEPT !.max_data = str[s].off + StreamWindow]
<1>1. /\ str' = [str EXCEPT ![s] = st]
      /\ listed' = ListWritable(s, st)
      /\ UpdateTxCap(room)
      /\ room' = room /\ waiting' = waiting
  BY DEF RecvMaxStreamData
<1>2. str[s] \in SendStream /\ room \in Nat
  BY DEF IInv, TypeOK
<1>3. st \in SendStream /\ st.off <= st.max_data
  BY <1>2, WritableAssumption DEF SendStream
<1> HIDE DEF st
<1>4. IsWritable(st) => s \in listed'
  BY <1>1 DEF ListWritable
<1>5. /\ listed' \subseteq Streams /\ waiting' \subseteq Streams
      /\ listed \ {s} \subseteq listed' /\ waiting' \ {s} \subseteq waiting
  BY <1>1 DEF ListWritable, IInv, TypeOK
<1>6. tx_cap' \in Nat /\ tx_cap' <= room
  BY <1>1, <1>2, CapUpdated
<1> QED BY <1>1, <1>2, <1>3, <1>4, <1>5, <1>6, OneStream

(* The steps that end a stream give back some of the connection's window.  *)
LEMMA EndKeeps ==
    ASSUME IInv, NEW s \in Streams,
           SendStopped(s) \/ StreamShutdownWrite(s) \/ RecvStopSending(s)
    PROVE  IInv'
<1>1. PICK how : str' = [str EXCEPT ![s] = Ended(how)]
  BY DEF SendStopped, StreamShutdownWrite, RecvStopSending
<1>2. /\ listed' \subseteq Streams /\ waiting' \subseteq Streams
      /\ listed \ {s} \subseteq listed' /\ waiting' \ {s} \subseteq waiting
  BY DEF SendStopped, StreamShutdownWrite, RecvStopSending, Mark, IInv, TypeOK
<1>3. room' \in Nat /\ tx_cap' \in Nat /\ tx_cap' <= room'
  <2>1. CASE SendStopped(s)
    BY <2>1 DEF SendStopped, IInv, TypeOK, WithinWindows
  <2>2. CASE StreamShutdownWrite(s) \/ RecvStopSending(s)
    <3>1. PICK unsent \in {0, str[s].off} :
             room' = room + unsent /\ UpdateTxCap(room + unsent)
      BY <2>2 DEF StreamShutdownWrite, RecvStopSending
    <3>2. room + unsent \in Nat
      <4>1. str[s] \in SendStream /\ room \in Nat
        BY DEF IInv, TypeOK
      <4> QED BY <4>1 DEF SendStream
    <3> QED BY <3>1, <3>2, CapUpdated
  <2> QED BY <2>1, <2>2
<1>4. /\ Ended(how) \in SendStream /\ Ended(how).off <= Ended(how).max_data
      /\ ~IsWritable(Ended(how))
  BY EndedStream
<1> QED BY <1>1, <1>2, <1>3, <1>4, OneStream

(* stream_writable_next forgets the stream only as it names it.            *)
LEMMA NextKeeps ==
    ASSUME IInv,
           \/ \E s \in Streams, len \in Lens : SendBlocked(s, len)
           \/ \E s \in Streams : StreamWritableNext(s)
           \/ RecvOther \/ RecvMaxData
    PROVE  IInv'
<1>1. str' = str
  BY DEF SendBlocked, StreamWritableNext, RecvOther, RecvMaxData
<1>2. room' \in Nat /\ tx_cap' \in Nat /\ tx_cap' <= room'
  BY CapUpdated, WritableAssumption
     DEF SendBlocked, StreamWritableNext, RecvOther, RecvMaxData, IInv, TypeOK,
         WithinWindows
<1>3. listed' \subseteq Streams /\ waiting' \subseteq Streams
  BY DEF SendBlocked, StreamWritableNext, RecvOther, RecvMaxData, Mark, IInv, TypeOK
<1>4. NoLostWakeup'
  <2>1. CASE \E s \in Streams, len \in Lens : SendBlocked(s, len)
    BY <1>1, <2>1 DEF SendBlocked, IInv, NoLostWakeup
  <2>2. CASE \E s \in Streams : StreamWritableNext(s)
    BY <1>1, <2>2 DEF StreamWritableNext, Mark, IInv, NoLostWakeup
  <2>3. CASE RecvOther \/ RecvMaxData
    BY <1>1, <2>3 DEF RecvOther, RecvMaxData, IInv, NoLostWakeup
  <2> QED BY <2>1, <2>2, <2>3
<1> QED BY <1>1, <1>2, <1>3, <1>4 DEF IInv, TypeOK, WithinWindows

----------------------------------------------------------------------------
LEMMA InitIInv == Init => IInv
<1> SUFFICES ASSUME Init PROVE IInv
  OBVIOUS
<1>1. str \in [Streams -> SendStream]
  BY WritableAssumption DEF Init, SendStream
<1>2. tx_cap \in Nat /\ tx_cap <= room /\ room \in Nat
  BY WritableAssumption, Smallest DEF Init
<1>3. \A s \in Streams : str[s].off <= str[s].max_data
  <2> TAKE s \in Streams
  <2>1. str[s].off = 0 /\ str[s].max_data = StreamWindow
    BY DEF Init
  <2> QED BY <2>1, WritableAssumption
<1> QED BY <1>1, <1>2, <1>3 DEF Init, IInv, TypeOK, WithinWindows, NoLostWakeup

LEMMA StepIInv == IInv /\ [Next]_vars => IInv'
<1> SUFFICES ASSUME IInv, [Next]_vars PROVE IInv'
  OBVIOUS
<1>1. CASE UNCHANGED vars
  BY <1>1 DEF vars, IInv, TypeOK, WithinWindows, NoLostWakeup, IsWritable
<1>2. CASE Next
  BY <1>2, SendKeeps, AskKeeps, LimitKeeps, EndKeeps, NextKeeps DEF Next
<1> QED BY <1>1, <1>2

(* However calls of the application, MAX_DATA, MAX_STREAM_DATA,            *)
(* STOP_SENDING and the congestion window interleave, a stream that the    *)
(* application waits for is listed as soon as it has more room than the    *)
(* low watermark, and no stream and not the connection overruns a window.  *)
THEOREM WakeupSafe == Spec => [](NoLostWakeup /\ WithinWindows)
<1>1. IInv => NoLostWakeup /\ WithinWindows
  BY DEF IInv
<1> QED BY <1>1, InitIInv, StepIInv, PTL DEF Spec
============================================================================
