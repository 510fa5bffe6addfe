------------------------------ MODULE Recovery -----------------------------
(***************************************************************************)
(* Loss detection and the loss timer of one path:                          *)
(* quiche/src/recovery/congestion/recovery.rs (LegacyRecovery) with the    *)
(* code of lib.rs that drives it: packets sent, ACK frames, on_timeout,    *)
(* keys obtained and dropped during the handshake, change of path.         *)
(*                                                                         *)
(* Time is counted in ticks and the round-trip estimate is fixed, so the   *)
(* loss delay and the probe timeout are constants.  Every ack-eliciting    *)
(* packet has size 1, as the others have size 0.  What a packet carries is *)
(* a set of items; items to be sent again are the lost frames of the epoch *)
(* and whatever the streams made of them.                                  *)
(***************************************************************************)
EXTENDS Integers, Sequences, FiniteSets, FiniteSetsExt

CONSTANTS
    LossDelay,      \* time threshold: 9/8 of a round trip
    Rtt,            \* rtt()
    Pto,            \* pto()
    MaxAckDelay,    \* the peer's max_ack_delay
    PktThresh,      \* INITIAL_PACKET_THRESHOLD
    MaxPktThresh,   \* MAX_PACKET_THRESHOLD
    MaxProbes,      \* MAX_PTO_PROBES_COUNT
    Kinds,          \* kinds of packets sent
    Early,          \* application packets may precede the handshake's end
    PathChanges,    \* the path may stop being the active one
    MaxTime,        \* bound: the clock
    MaxPn,          \* bound: packets sent
    MaxPto          \* bound: probe timeouts in a row

ASSUME RecoveryAssumption ==
    /\ LossDelay \in Nat \ {0} /\ Rtt \in Nat \ {0} /\ Pto \in Nat \ {0}
    /\ MaxAckDelay \in Nat /\ PktThresh \in Nat \ {0} /\ MaxPktThresh \in Nat
    /\ MaxProbes \in Nat \ {0} /\ Kinds \subseteq {"data", "ping", "ack", "padded", "mtu"}
    /\ {Early, PathChanges} \subseteq BOOLEAN
    /\ MaxTime \in Nat /\ MaxPn \in Nat /\ MaxPto \in Nat

Initial == 1
Handshake == 2
Application == 3
Epochs == Initial .. Application

None == -1
Larger(a, b) == IF a > b THEN a ELSE b
Smaller(a, b) == IF a < b THEN a ELSE b

VARIABLES
    epochs,     \* RecoveryEpoch of each packet number space
    bif,        \* bytes_in_flight
    timer,      \* loss_timer
    pto_count, pkt_thresh,
    hs,         \* the handshake: role, keys, verified address, completion
    now,
    next_pn,    \* next_pkt_num, shared by the spaces
    made, done, \* history: items sent, and items acknowledged, of each epoch
    passed      \* history: the timer was last set passing over application packets

rec == <<epochs, bif, timer, pto_count, pkt_thresh, passed>>
vars == <<epochs, bif, timer, pto_count, pkt_thresh, hs, now, next_pn, made, done, passed>>

NewEpoch ==
    [sent |-> <<>>, last |-> None, largest |-> None, loss_time |-> None,
     probes |-> 0, in_flight |-> 0, again |-> {}]

Init ==
    /\ epochs = [e \in Epochs |-> NewEpoch]
    /\ bif = 0 /\ timer = None /\ pto_count = 0 /\ pkt_thresh = PktThresh
    /\ \E server \in BOOLEAN :
         hs = [server |-> server, keys |-> {Initial}, verified |-> server,
               completed |-> FALSE]
    /\ now = 0 /\ next_pn = 0
    /\ made = [e \in Epochs |-> {}] /\ done = [e \in Epochs |-> {}]
    /\ passed = FALSE

Out(p) == ~p.acked /\ p.lost = None
Outstanding(ep) == {i \in DOMAIN ep.sent : Out(ep.sent[i])}
OutBytes(ep) == Cardinality({i \in Outstanding(ep) : ep.sent[i].elicits})
OutCount(ep) == Cardinality({i \in Outstanding(ep) : ep.sent[i].in_flight})

----------------------------------------------------------------------------
(* The timer.  An Option that is None is smaller than any other.           *)

EarlierOf(time, space, new_time, e) ==
    IF time = None \/ new_time < time THEN <<new_time, e>> ELSE <<time, space>>

(* loss_time_and_space                                                     *)
LossTimeAndSpace(es) ==
    LET h == EarlierOf(es[Initial].loss_time, Initial, es[Handshake].loss_time, Handshake)
    IN  EarlierOf(h[1], h[2], es[Application].loss_time, Application)

Backoff(count) == 2 ^ count

(* One round of the loop of pto_time_and_space                             *)
PtoStep(best, es, e, duration) ==
    IF es[e].in_flight = 0 THEN best
    ELSE EarlierOf(best[1], best[2],
                   IF es[e].last = None THEN None ELSE es[e].last + duration, e)

(* pto_time_and_space: application data waits for the handshake.           *)
PtoTimeAndSpace(es, bytes, count, h) ==
    LET duration == Pto * Backoff(count)
        two == PtoStep(PtoStep(<<None, Initial>>, es, Initial, duration),
                       es, Handshake, duration)
    IN  CASE bytes = 0 ->
               <<now + duration, IF Handshake \in h.keys THEN Handshake ELSE Initial>>
          [] bytes # 0 /\ ~h.completed -> two
          [] OTHER -> PtoStep(two, es, Application, duration + MaxAckDelay * Backoff(count))

(* The state of recovery that the operations below hand on                 *)
State ==
    [epochs |-> epochs, bif |-> bif, timer |-> timer, count |-> pto_count, passed |-> passed]

Became(r) ==
    /\ epochs' = r.epochs /\ bif' = r.bif /\ timer' = r.timer /\ pto_count' = r.count
    /\ passed' = r.passed

(* Faulty variant: an address that is not verified needs no timer.         *)
TimerOffWhenIdle(r, h) ==
    LET loss == LossTimeAndSpace(r.epochs)[1]
        pto == PtoTimeAndSpace(r.epochs, r.bif, r.count, h)[1]
    IN  CASE loss # None -> loss
          [] loss = None /\ r.bif = 0 -> None
          [] OTHER -> IF pto # None THEN pto ELSE r.timer

(* set_loss_detection_timer: without a probe timeout it is left as it was. *)
LossDetectionTimer(r, h) ==
    LET loss == LossTimeAndSpace(r.epochs)[1]
        pto == PtoTimeAndSpace(r.epochs, r.bif, r.count, h)[1]
    IN  CASE loss # None -> loss
          [] loss = None /\ r.bif = 0 /\ h.verified -> None
          [] OTHER -> IF pto # None THEN pto ELSE r.timer

(* pto_time_and_space gets no time from the application space although     *)
(* packets of it are in flight: the handshake is not complete, or none of  *)
(* those sent so far elicits an ACK.                                       *)
PassedOver(r, h) ==
    /\ r.epochs[Application].in_flight > 0
    /\ ~h.completed \/ r.epochs[Application].last = None

SetTimer(r, h) ==
    [r EXCEPT !.timer = LossDetectionTimer(r, h), !.passed = PassedOver(r, h)]

----------------------------------------------------------------------------
(* RecoveryEpoch                                                           *)

(* drain_acked_and_lost_packets: only from the front, and a lost packet is *)
(* kept for a round trip.                                                  *)
Drain(ep) ==
    LET gone(p) == ~Out(p) /\ (p.lost = None \/ p.lost <= now - Rtt)
        keep == {i \in DOMAIN ep.sent : ~gone(ep.sent[i])}
        first == IF keep = {} THEN Len(ep.sent) + 1 ELSE Min(keep)
    IN  [ep EXCEPT !.sent = SubSeq(@, first, Len(@))]

(* The packets detect_lost_packets declares lost: up to the first of those *)
(* outstanding, not after the largest acknowledged, that is neither old    *)
(* enough nor far enough behind.                                           *)
Suspects(ep) ==
    {i \in Outstanding(ep) : ep.sent[i].pn <= Larger(ep.largest, 0)}
Expired(ep, i) ==
    \/ ep.sent[i].time <= now - LossDelay
    \/ Larger(ep.largest, 0) >= ep.sent[i].pn + pkt_thresh
LostNow(ep) ==
    {i \in Suspects(ep) : \A j \in Suspects(ep) : j <= i => Expired(ep, j)}

(* Faulty variant: the frames of the packets declared lost are dropped     *)
(* with the packets.                                                       *)
DetectLostForgetting(ep) ==
    LET lost == LostNow(ep)
        left == Suspects(ep) \ lost
    IN  [ep EXCEPT
          !.sent = [i \in DOMAIN @ |->
                      IF i \in lost THEN [@[i] EXCEPT !.lost = now, !.items = {}] ELSE @[i]],
          !.in_flight = @ - Cardinality({i \in lost : ep.sent[i].in_flight}),
          !.loss_time = IF left = {} THEN None ELSE ep.sent[Min(left)].time + LossDelay]

(* RecoveryEpoch::detect_lost_packets                                      *)
DetectLost(ep) ==
    LET lost == LostNow(ep)
        left == Suspects(ep) \ lost
    IN  [ep EXCEPT
          !.sent = [i \in DOMAIN @ |->
                      IF i \in lost THEN [@[i] EXCEPT !.lost = now, !.items = {}] ELSE @[i]],
          !.again = @ \cup UNION {ep.sent[i].items : i \in lost},
          !.in_flight = @ - Cardinality({i \in lost : ep.sent[i].in_flight}),
          !.loss_time = IF left = {} THEN None ELSE ep.sent[Min(left)].time + LossDelay]

LostBytes(ep) == Cardinality({i \in LostNow(ep) : ep.sent[i].elicits})

----------------------------------------------------------------------------
(* drop_epoch_state: the space's keys and recovery state go.               *)
DropState(r, e, h) ==
    IF e \in h.keys
    THEN SetTimer([r EXCEPT
                     !.epochs[e] = [NewEpoch EXCEPT !.largest = r.epochs[e].largest],
                     !.bif = @ - OutBytes(r.epochs[e])],
                  [h EXCEPT !.keys = @ \ {e}])
    ELSE r

CanSend(e) ==
    /\ e \in hs.keys
    /\ e = Application => hs.completed \/ Early

Elicits(kind) == kind \in {"data", "ping", "mtu"}
InFlight(kind) == kind # "ack"

(* send_single: lost items go first.                                       *)
ItemsToSend(ep, kind) ==
    CASE kind # "data" -> {}
      [] kind = "data" /\ ep.again # {} -> ep.again
      [] OTHER -> {next_pn}

(* on_packet_sent: a packet that elicits an ACK settles one probe, an MTU  *)
(* probe does not.                                                         *)
PacketSent(ep, kind) ==
    [ep EXCEPT
       !.sent = Append(@, [pn |-> next_pn, time |-> now, acked |-> FALSE, lost |-> None,
                           elicits |-> Elicits(kind), in_flight |-> InFlight(kind),
                           items |-> ItemsToSend(ep, kind)]),
       !.again = IF kind = "data" THEN {} ELSE @,
       !.last = IF Elicits(kind) THEN now ELSE @,
       !.probes = IF Elicits(kind) /\ kind # "mtu" THEN Larger(0, @ - 1) ELSE @,
       !.in_flight = IF InFlight(kind) THEN @ + 1 ELSE @]

(* A packet without a frame that elicits an ACK acknowledges something, so *)
(* at a client it follows the client's first; only short ones are padded.  *)
(* A client that sends a Handshake packet drops the Initial space.         *)
SendPacket(e, kind) ==
    /\ next_pn < MaxPn /\ CanSend(e)
    /\ ~Elicits(kind) => epochs[e].probes = 0 /\ (hs.server \/ next_pn > 0)
    /\ kind = "padded" => e = Application
    /\ LET r == [State EXCEPT !.epochs[e] = PacketSent(@, kind),
                              !.bif = IF Elicits(kind) THEN @ + 1 ELSE @]
           sent == IF InFlight(kind) THEN SetTimer(r, hs) ELSE r
           drops == ~hs.server /\ e = Handshake
       IN  /\ Became(IF drops THEN DropState(sent, Initial, hs) ELSE sent)
           /\ hs' = IF drops THEN [hs EXCEPT !.keys = @ \ {Initial}] ELSE hs
    /\ made' = [made EXCEPT ![e] = @ \cup ItemsToSend(epochs[e], kind)]
    /\ next_pn' = next_pn + 1
    /\ UNCHANGED <<pkt_thresh, now, done>>

(* Faulty variant: a packet declared lost earlier counts once more.        *)
NewlyAckedTwice(ep, acks) ==
    {i \in DOMAIN ep.sent : ep.sent[i].pn \in acks /\ ~ep.sent[i].acked}

(* detect_and_remove_acked_packets: packets newly acknowledged, and those  *)
(* that were declared lost although they had arrived.                      *)
NewlyAcked(ep, acks) ==
    {i \in DOMAIN ep.sent : ep.sent[i].pn \in acks /\ Out(ep.sent[i])}
Spurious(ep, acks) ==
    {i \in DOMAIN ep.sent : ep.sent[i].pn \in acks /\ ~ep.sent[i].acked
                            /\ ep.sent[i].lost # None}

Marked(ep, acks) ==
    LET new == NewlyAcked(ep, acks) IN
    [ep EXCEPT
       !.sent = [i \in DOMAIN @ |->
                   IF i \in new THEN [@[i] EXCEPT !.acked = TRUE, !.items = {}]
                   ELSE IF i \in Spurious(ep, acks) THEN [@[i] EXCEPT !.acked = TRUE]
                   ELSE @[i]],
       !.in_flight = @ - Cardinality({i \in new : ep.sent[i].in_flight})]

(* The epoch once the packets acks are acknowledged                        *)
WithoutAcked(ep, acks) ==
    [Drain(Marked(ep, acks)) EXCEPT
       !.largest = Larger(@, Larger(0, Max({ep.sent[i].pn : i \in NewlyAcked(ep, acks)})))]

(* The bytes that leave the flight by it                                   *)
AckedBytes(ep, acks) == Cardinality({i \in NewlyAcked(ep, acks) : ep.sent[i].elicits})

(* The ACK handler and on_ack_received, for an ACK of the packets acks.    *)
(* Without a newly acknowledged packet only the threshold adapts.          *)
(* The first spurious packet, the oldest, sets it.                         *)
RecvAck(e, acks) ==
    /\ e \in hs.keys /\ CanSend(e)
    /\ LET ep == epochs[e]
           new == NewlyAcked(ep, acks)
           spurious == Spurious(ep, acks)
           largest_seen == Larger(Larger(ep.largest, 0), Max(acks))
           left == WithoutAcked(ep, acks)
           h == [hs EXCEPT !.verified = @ \/ e = Handshake
                                          \/ (e = Application /\ hs.completed)]
           acked == IF new = {} THEN [State EXCEPT !.epochs[e] = Drain(Marked(ep, acks))]
                    ELSE SetTimer([State EXCEPT
                                     !.epochs[e] = Drain(DetectLost(left)),
                                     !.bif = @ - LostBytes(left) - AckedBytes(ep, acks),
                                     !.count = 0], h)
           drops == hs.server /\ e = Handshake
       IN  /\ Became(IF drops THEN DropState(acked, Initial, h) ELSE acked)
           /\ hs' = IF drops THEN [h EXCEPT !.keys = @ \ {Initial}] ELSE h
           /\ pkt_thresh' = IF spurious = {} THEN pkt_thresh
                            ELSE Larger(pkt_thresh, Smaller(MaxPktThresh,
                                    largest_seen - ep.sent[Min(spurious)].pn + 1))
           /\ done' = [done EXCEPT ![e] = @ \cup UNION {ep.sent[i].items : i \in new}]
    /\ UNCHANGED <<now, next_pn, made>>

(* The oldest packets with data whose items are sent again on a PTO        *)
ProbeItems(ep, n) ==
    LET data == {i \in Outstanding(ep) : ep.sent[i].items # {}}
    IN  UNION {ep.sent[i].items : i \in {j \in data :
                  Cardinality({k \in data : k < j}) < n}}

(* The epoch that is to send n probes                                      *)
Probing(ep, n) == [ep EXCEPT !.probes = n, !.again = @ \cup ProbeItems(ep, n)]

(* Connection::on_timeout and on_loss_detection_timeout: packets that are  *)
(* late by now are lost, or else it is time to probe.                      *)
OnTimeout ==
    /\ timer # None /\ timer <= now
    /\ LossTimeAndSpace(epochs)[1] = None => pto_count < MaxPto
    /\ LET at == LossTimeAndSpace(epochs)
           ep == epochs[at[2]]
           space == IF bif > 0 THEN PtoTimeAndSpace(epochs, bif, pto_count, hs)[2]
                    ELSE IF Handshake \in hs.keys THEN Handshake ELSE Initial
           probes == Smaller(pto_count + 1, MaxProbes)
           r == IF at[1] # None
                THEN [State EXCEPT !.epochs[at[2]] = Drain(DetectLost(@)),
                                   !.bif = @ - LostBytes(ep)]
                ELSE [State EXCEPT !.epochs[space] = Probing(@, probes), !.count = @ + 1]
       IN  Became(SetTimer(r, hs))
    /\ UNCHANGED <<pkt_thresh, hs, now, next_pn, made, done>>

(* set_active_path for another path: packets of every epoch are checked,   *)
(* the timer is left as it was.                                            *)
PathChange ==
    /\ PathChanges /\ hs.completed
    /\ epochs' = [e \in Epochs |-> Drain(DetectLost(epochs[e]))]
    /\ bif' = bif - (LostBytes(epochs[Initial]) + LostBytes(epochs[Handshake])
                      + LostBytes(epochs[Application]))
    /\ UNCHANGED <<timer, pto_count, pkt_thresh, passed, hs, now, next_pn, made, done>>

(* The TLS stack delivers keys, to a client in answer to what it sent.     *)
HandshakeKeys ==
    /\ hs.keys = {Initial} /\ (hs.server \/ next_pn > 0)
    /\ hs' = [hs EXCEPT !.keys = Epochs]
    /\ UNCHANGED <<rec, now, next_pn, made, done>>

(* A server that gets a Handshake packet drops the Initial space.          *)
RecvHandshake ==
    /\ hs.server /\ {Initial, Handshake} \subseteq hs.keys
    /\ Became(DropState(State, Initial, hs))
    /\ hs' = [hs EXCEPT !.keys = @ \ {Initial}]
    /\ UNCHANGED <<pkt_thresh, now, next_pn, made, done>>

(* do_handshake completes; a server drops the Handshake space, and then,   *)
(* as the packet was a Handshake packet, the Initial one.                  *)
Complete ==
    /\ ~hs.completed /\ Handshake \in hs.keys
    /\ LET h == [hs EXCEPT !.completed = TRUE]
           k == [h EXCEPT !.keys = @ \ {Handshake}]
       IN  /\ Became(IF hs.server THEN DropState(DropState(State, Handshake, h), Initial, k)
                     ELSE State)
           /\ hs' = IF hs.server THEN [k EXCEPT !.keys = @ \ {Initial}] ELSE h
    /\ UNCHANGED <<pkt_thresh, now, next_pn, made, done>>

(* HANDSHAKE_DONE: a client drops the Handshake space.                     *)
RecvHandshakeDone ==
    /\ ~hs.server /\ hs.completed /\ Handshake \in hs.keys
    /\ LET h == [hs EXCEPT !.verified = TRUE] IN
         /\ Became(DropState(State, Handshake, h))
         /\ hs' = [h EXCEPT !.keys = @ \ {Handshake}]
    /\ UNCHANGED <<pkt_thresh, now, next_pn, made, done>>

Tick ==
    /\ now < MaxTime
    /\ now' = now + 1
    /\ UNCHANGED <<rec, hs, next_pn, made, done>>

----------------------------------------------------------------------------
SentPns(e) == {epochs[e].sent[i].pn : i \in DOMAIN epochs[e].sent}

Next ==
    \/ \E e \in Epochs, kind \in Kinds : SendPacket(e, kind)
    \/ \E e \in Epochs : \E acks \in SUBSET SentPns(e) \ {{}} : RecvAck(e, acks)
    \/ OnTimeout
    \/ PathChange
    \/ HandshakeKeys
    \/ RecvHandshake
    \/ Complete
    \/ RecvHandshakeDone
    \/ Tick

Spec == Init /\ [][Next]_vars

----------------------------------------------------------------------------
(* The bytes charged against the congestion window and the packet counts   *)
(* are those of the packets still outstanding, however packets are         *)
(* declared lost, acknowledged late, or dropped with their keys.           *)
InFlightCounted ==
    /\ bif = OutBytes(epochs[Initial]) + OutBytes(epochs[Handshake])
              + OutBytes(epochs[Application])
    /\ \A e \in Epochs : epochs[e].in_flight = OutCount(epochs[e])

(* What was sent in a space whose keys are still there was acknowledged,   *)
(* is outstanding, or is queued to be sent again.                          *)
NothingForgotten ==
    \A e \in hs.keys : made[e] \subseteq
        done[e] \cup epochs[e].again
        \cup UNION {epochs[e].sent[i].items : i \in Outstanding(epochs[e])}

(* While a packet that elicits an ACK is outstanding the loss timer runs;  *)
(* at a client also while the server may be waiting for proof of its       *)
(* address.  The exception is a timer last set while application packets   *)
(* in flight gave no probe timeout.                                        *)
TimerArmed ==
    \/ timer # None
    \/ passed
    \/ /\ \A e \in Epochs : \A i \in Outstanding(epochs[e]) : ~epochs[e].sent[i].elicits
       /\ hs.verified \/ next_pn = 0

(* The same without the exception.                                         *)
TimerAlwaysArmed ==
    \/ timer # None
    \/ /\ \A e \in Epochs : \A i \in Outstanding(epochs[e]) : ~epochs[e].sent[i].elicits
       /\ hs.verified \/ next_pn = 0

(* "The time at which the next packet in that packet number space can be   *)
(* considered lost": the timer fires by then, in every space.              *)
LossTimeWatched ==
    \A e \in Epochs : epochs[e].loss_time # None =>
        timer # None /\ timer <= epochs[e].loss_time
============================================================================
