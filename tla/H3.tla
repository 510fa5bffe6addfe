--------------------------------- MODULE H3 --------------------------------
(***************************************************************************)
(* The server side of quiche/src/h3: Connection (mod.rs) with its streams  *)
(* (stream.rs), over the receive side of the QUIC streams it reads.        *)
(*                                                                         *)
(* What the client sends on a stream is a fixed sequence of units: a type, *)
(* a length and the payload of one frame after the other, with the type of *)
(* the stream in front if the stream is unidirectional.  A unit is a pair  *)
(* of its kind and its value; kind "h" marks a header section, kind "d" a  *)
(* unit of a body.  The units arrive in pieces of any size, so the parser  *)
(* is interrupted in all its states.  A variable-length integer takes one  *)
(* unit, QPACK is not modelled, and a call that returns StreamBlocked has  *)
(* changed nothing.                                                        *)
(***************************************************************************)
EXTENDS Integers, Sequences, FiniteSets, SequencesExt

CONSTANTS
    Clients,    \* what a client sends, by stream: the units, and how it may
                \* end the stream, a subset of {"fin", "reset"}
    Reads,      \* sizes of the buffers passed to recv_body
    MaxStreams, \* max_streams_bidi
    MaxState,   \* MAX_STATE_BUF_SIZE
    ReadsOn,    \* the application reads on after a Reset event
    LateReset   \* RESET_STREAM may follow a FIN that has arrived

IsBidi(s) == s % 4 = 0

ASSUME H3Assumption ==
    /\ \A c \in Clients : \A s \in DOMAIN c :
         s \in Nat /\ s % 4 \in {0, 2} /\ c[s].ends \subseteq {"fin", "reset"}
    /\ Reads \subseteq Nat \ {0} /\ {MaxStreams, MaxState} \subseteq Nat
    /\ {ReadsOn, LateReset} \subseteq BOOLEAN

None == -1

VARIABLES
    client, \* the client at the other end
    tr,     \* the QUIC streams
    h3,     \* h3::Connection
    app     \* what the application was told and did

vars == <<client, tr, h3, app>>

Ids == DOMAIN client
Requests == {s \in Ids : IsBidi(s)}
Units(s) == client[s].units

----------------------------------------------------------------------------
(* The QUIC streams: rx units received, off read; fin when the final size  *)
(* is known; pend when an empty buffer marks the end; listed in readable.  *)

NewTransport ==
    [rx |-> 0, off |-> 0, fin |-> FALSE, err |-> FALSE, pend |-> FALSE,
     drain |-> FALSE, listed |-> FALSE, open |-> FALSE, gone |-> FALSE,
     send |-> "open", acked |-> FALSE]

IsFin(t) == t.fin /\ t.off = t.rx
Readable(t) == ~t.gone /\ (t.pend \/ (t.off < t.rx /\ ~t.drain))
StreamFinished(t) == ~t.open \/ t.gone \/ IsFin(t)
Collected(t, s) ==
    IF IsFin(t) /\ (IsBidi(s) => t.acked) THEN [t EXCEPT !.gone = TRUE, !.listed = FALSE] ELSE t

(* Connection::stream_recv with a buffer of cap units                      *)
StreamRecv(t, s, cap) ==
    LET n == IF cap < t.rx - t.off THEN cap ELSE t.rx - t.off
        u == [t EXCEPT !.off = @ + n, !.pend = @ /\ cap = n]
    IN  CASE ~t.open \/ t.gone -> [r |-> "Invalid", n |-> 0, fin |-> FALSE, t |-> t]
          [] t.open /\ ~t.gone /\ ~Readable(t) -> [r |-> "Done", n |-> 0, fin |-> FALSE, t |-> t]
          [] Readable(t) /\ t.err ->
               [r |-> "Reset", n |-> 0, fin |-> FALSE,
                t |-> Collected([t EXCEPT !.pend = FALSE, !.listed = FALSE], s)]
          [] OTHER -> [r |-> "Ok", n |-> n, fin |-> IsFin(u),
                       t |-> Collected([u EXCEPT !.listed = Readable(u)], s)]

(* A STREAM or RESET_STREAM frame was handled: the stream is listed if it  *)
(* became readable.                                                        *)
Arrived(t, u) == [u EXCEPT !.open = TRUE, !.listed = @ \/ (~Readable(t) /\ Readable(u))]

----------------------------------------------------------------------------
(* h3::stream::Stream                                                      *)

NewStream(s) ==
    [ty |-> IF IsBidi(s) THEN "request" ELSE "none",
     state |-> IF IsBidi(s) THEN "FrameType" ELSE "StreamType",
     need |-> 1, have |-> 0, frame |-> "none",
     remote |-> FALSE, local |-> FALSE, triggered |-> FALSE, prio |-> FALSE,
     headers |-> 0, data |-> FALSE, trailers |-> FALSE, trailers_sent |-> FALSE]

Transition(x, state, need) == [x EXCEPT !.state = state, !.need = need, !.have = 0]
Complete(x) == x.have = x.need
Critical(x) == x.ty \in {"control", "encoder", "decoder"}

(* set_frame_type for the peer's streams                                   *)
FrameTypeError(x, f) ==
    IF x.ty = "control"
    THEN IF ~x.remote THEN f # "SETTINGS"
         ELSE f \in {"SETTINGS", "DATA", "HEADERS", "PUSH_PROMISE"}
    ELSE CASE f = "HEADERS" -> x.remote /\ x.trailers
           [] f = "DATA" -> ~x.remote \/ x.trailers
           [] OTHER -> f \in {"CANCEL_PUSH", "SETTINGS", "GOAWAY", "MAX_PUSH_ID",
                              "PRIORITY_UPDATE"}
SetFrameType(x, f) ==
    LET first == [x EXCEPT !.remote = @ \/ f = (IF x.ty = "control" THEN "SETTINGS" ELSE "HEADERS")]
        seen == [first EXCEPT !.trailers = @ \/ (f = "HEADERS" /\ x.remote /\ x.data),
                              !.data = @ \/ f = "DATA"]
    IN  Transition([seen EXCEPT !.frame = f], "FramePayloadLen", 1)

(* set_frame_payload_len: a body is not kept in the state buffer, so only  *)
(* the other frames are limited by its size.                               *)
PayloadLenError(x, len) ==
    \/ len = 0 /\ x.frame \in {"GOAWAY", "PUSH_PROMISE", "CANCEL_PUSH", "MAX_PUSH_ID"}
    \/ len > MaxState /\ x.frame # "DATA"
SetFramePayloadLen(x, len) ==
    Transition(x, IF x.frame = "DATA" THEN "Data" ELSE "FramePayload", len)

----------------------------------------------------------------------------
(* h3::Connection.  A call works on w, the connection and its transport,   *)
(* and returns it with a result: "Done", an error or an event for a stream *)

Result(w, k, s) == [w |-> w, k |-> k, s |-> s]
Done(w) == Result(w, "Done", None)
Put(w, s, x) == [w EXCEPT !.h3.streams = [i \in DOMAIN @ \cup {s} |-> IF i = s THEN x ELSE @[i]]]
Dropped(w, s) == [w EXCEPT !.h3.streams = [i \in DOMAIN @ \ {s} |-> @[i]]]
Close(w, error) == Result([w EXCEPT !.h3.closed = error], "Error", None)
Finished(w, s) == StreamFinished(w.tr[s])
Unit(w, s) == Units(s)[w.tr[s].off][2]

(* Faulty variant: a read that ends early leaves the Data event triggered. *)
TryFillNotRearming(w, s) ==
    LET x == w.h3.streams[s]
        g == StreamRecv(w.tr[s], s, x.need - x.have)
        v == [w EXCEPT !.tr[s] = g.t]
        more == [x EXCEPT !.have = @ + g.n]
    IN  CASE Complete(x) -> Result(w, "Ok", s)
          [] ~Complete(x) /\ g.r \in {"Ok", "Reset"} /\ Critical(x) /\ (g.fin \/ g.r = "Reset") ->
               Close(v, "ClosedCriticalStream")
          [] ~Complete(x) /\ g.r = "Ok" /\ ~(Critical(x) /\ g.fin) ->
               IF Complete(more) THEN Result(Put(v, s, more), "Ok", s) ELSE Done(Put(v, s, more))
          [] ~Complete(x) /\ g.r = "Done" -> Done(w)
          [] OTHER -> Result(v, g.r, s)

(* Stream::try_fill_buffer: "Ok" once the state has all its units          *)
TryFill(w, s) ==
    LET x == w.h3.streams[s]
        g == StreamRecv(w.tr[s], s, x.need - x.have)
        v == [w EXCEPT !.tr[s] = g.t]
        more == [x EXCEPT !.have = @ + g.n]
    IN  CASE Complete(x) -> Result(w, "Ok", s)
          [] ~Complete(x) /\ g.r \in {"Ok", "Reset"} /\ Critical(x) /\ (g.fin \/ g.r = "Reset") ->
               Close(v, "ClosedCriticalStream")
          [] ~Complete(x) /\ g.r = "Ok" /\ ~(Critical(x) /\ g.fin) ->
               IF Complete(more) THEN Result(Put(v, s, more), "Ok", s)
               ELSE Done(Put(v, s, [more EXCEPT !.triggered = FALSE]))
          [] ~Complete(x) /\ g.r = "Done" -> Done(Put(w, s, [x EXCEPT !.triggered = FALSE]))
          [] OTHER -> Result(v, g.r, s)

(* The StreamType state: "Ok" when the stream's type is settled            *)
SetStreamType(w, s, ty) ==
    LET x == [w.h3.streams[s] EXCEPT !.ty = ty, !.remote = ty \in {"encoder", "decoder"}]
        v == Put(w, s, Transition(x, CASE ty = "control" -> "FrameType"
                                       [] ty \in {"encoder", "decoder"} -> "QpackInstruction"
                                       [] OTHER -> "Drain", 1))
    IN  CASE ty \notin {"control", "encoder", "decoder"} -> Result(v, "Ok", s)
          [] OTHER -> IF w.h3.peer[ty] # None THEN Close(v, "StreamCreationError")
                      ELSE IF Finished(v, s) THEN Close(v, "ClosedCriticalStream")
                      ELSE Result([v EXCEPT !.h3.peer[ty] = s], "Ok", s)

(* process_frame, for a frame f whose payload has been read                *)
ProcessFrame(w, s, f) ==
    LET x == w.h3.streams[s]
        id == Unit(w, s)
        known == IF id \in DOMAIN w.h3.streams THEN w.h3.streams[id] ELSE NewStream(id)
    IN  CASE f = "SETTINGS" -> Done([w EXCEPT !.h3.settings = TRUE])
          [] f = "HEADERS" ->
               IF x.headers = 2 THEN Close(w, "FrameUnexpected")
               ELSE Result(Put(w, s, [x EXCEPT !.headers = @ + 1]), "Headers", s)
          [] f = "GOAWAY" ->
               IF w.h3.goaway # None /\ id > w.h3.goaway THEN Close(w, "IdError")
               ELSE Result([w EXCEPT !.h3.goaway = id], "GoAway", id)
          [] f = "MAX_PUSH_ID" ->
               IF id < w.h3.max_push_id THEN Close(w, "IdError")
               ELSE Done([w EXCEPT !.h3.max_push_id = id])
          [] f = "PUSH_PROMISE" -> Close(w, "FrameUnexpected")
          [] f = "PRIORITY_UPDATE" ->
               IF id % 4 # 0 THEN Close(w, "FrameUnexpected")
               ELSE IF id > MaxStreams * 4 THEN Close(w, "IdError")
               ELSE IF w.tr[id].gone THEN Done(w)
               ELSE LET v == Put(w, id, [known EXCEPT !.prio = TRUE])
                    IN  IF known.prio THEN Done(v) ELSE Result(v, "PriorityUpdate", id)
          [] OTHER -> Done(w)

RECURSIVE Loop(_, _, _)
RECURSIVE Round(_, _, _, _)

(* process_readable_stream, one round of its loop after another            *)
Loop(w, s, polling) == Round(w, s, polling, TryFill(w, s))

(* One round, f being what try_fill_buffer would return in it              *)
Round(w, s, polling, f) ==
    LET x == w.h3.streams[s]
        y == f.w.h3.streams[s]
        unit == Unit(f.w, s)
        next(z) == Loop(Put(f.w, s, z), s, polling)
        settled == SetStreamType(f.w, s, unit)
        framed == ProcessFrame(Put(f.w, s, Transition([y EXCEPT !.triggered = FALSE],
                                                      "FrameType", 1)), s, x.frame)
        g == StreamRecv(w.tr[s], s, Len(Units(s)))
    IN  CASE x.state \in {"StreamType", "FrameType", "FramePayloadLen"} /\ f.k # "Ok" -> f
          [] x.state = "StreamType" /\ f.k = "Ok" ->
               IF settled.k = "Ok" THEN Loop(settled.w, s, polling) ELSE settled
          [] x.state = "FrameType" /\ f.k = "Ok" ->
               IF FrameTypeError(x, unit) THEN Close(f.w, "FrameUnexpected")
               ELSE next(SetFrameType(y, unit))
          [] x.state = "FramePayloadLen" /\ f.k = "Ok" ->
               IF PayloadLenError(x, unit)
               THEN Close(f.w, IF unit = 0 THEN "FrameError" ELSE "ExcessiveLoad")
               ELSE next(SetFramePayloadLen(y, unit))
          [] x.state = "FramePayload" ->
               IF ~polling THEN Done(w)
               ELSE IF f.k # "Ok" THEN f
               ELSE IF framed.k # "Done" THEN framed
               ELSE IF Finished(framed.w, s) THEN framed
               ELSE Loop(framed.w, s, polling)
          [] x.state = "Data" ->
               IF ~polling \/ x.triggered THEN Done(w)
               ELSE Result(Put(w, s, [x EXCEPT !.triggered = TRUE]), "Data", s)
          [] x.state = "QpackInstruction" ->
               IF g.r = "Ok" /\ g.fin THEN Close([w EXCEPT !.tr[s] = g.t], "ClosedCriticalStream")
               ELSE Result([w EXCEPT !.tr[s] = g.t], IF g.r = "Ok" THEN "Done" ELSE g.r, s)
          [] x.state = "Drain" ->
               Done(IF w.tr[s].gone THEN w
                    ELSE [w EXCEPT !.tr[s].drain = TRUE, !.tr[s].pend = FALSE,
                                   !.tr[s].off = w.tr[s].rx, !.tr[s].listed = FALSE])
          [] OTHER -> Done(w)

ProcessReadable(w, s, polling) ==
    Loop(IF s \in DOMAIN w.h3.streams THEN w ELSE Put(w, s, NewStream(s)), s, polling)

(* Faulty variant: a stream already marked as finished is not left alone.  *)
ProcessFinishedAgain(w, s) ==
    IF s \in DOMAIN w.h3.streams /\ w.h3.streams[s].ty = "request"
    THEN [Put(w, s, Transition(w.h3.streams[s], "Finished", 0)) EXCEPT
             !.h3.finished = Append(@, s)]
    ELSE w

(* process_finished_stream                                                 *)
ProcessFinished(w, s) ==
    IF s \in DOMAIN w.h3.streams /\ w.h3.streams[s].state # "Finished"
       /\ w.h3.streams[s].ty = "request"
    THEN [Put(w, s, Transition(w.h3.streams[s], "Finished", 0)) EXCEPT
             !.h3.finished = Append(@, s)]
    ELSE w

(* Faulty variant: the end of a critical stream is seen only when read.    *)
ProcessControlUnwatched(w, s) ==
    IF s = None \/ ~Readable(w.tr[s]) THEN Done(w) ELSE ProcessReadable(w, s, TRUE)

(* process_control_stream, for the control and QPACK streams once known    *)
ProcessControl(w, s) ==
    IF s = None THEN Done(w)
    ELSE IF Finished(w, s) THEN Close(w, "ClosedCriticalStream")
    ELSE IF ~Readable(w.tr[s]) THEN Done(w)
    ELSE LET p == ProcessReadable(w, s, TRUE)
         IN  IF p.k = "Done" /\ Finished(p.w, s) THEN Close(p.w, "ClosedCriticalStream") ELSE p

(* One readable stream of the loop of poll                                 *)
PollStream(w, s) ==
    LET p == ProcessReadable(w, s, TRUE)
    IN  IF p.k \notin {"Reset", "Invalid", "Error"} /\ Finished(p.w, s)
        THEN [p EXCEPT !.w = ProcessFinished(@, s)] ELSE p

(* A stream that is finished is reported, as reset if a reset is pending.  *)
PopFinished(w, check) ==
    LET s == Head(w.h3.finished)
        v == [w EXCEPT !.h3.finished = Tail(@)]
        g == StreamRecv(w.tr[s], s, 0)
    IN  IF w.h3.finished = <<>> THEN Done(w)
        ELSE IF check /\ Readable(w.tr[s]) /\ g.r = "Reset"
             THEN Result([v EXCEPT !.tr[s] = g.t], "Reset", s)
        ELSE Result(IF check /\ Readable(w.tr[s]) THEN [v EXCEPT !.tr[s] = g.t] ELSE v,
                    "Finished", s)

(* Connection::poll, with the readable streams in the given order          *)
Poll(w, order) ==
    LET then(a, Op(_)) == IF a.k = "Done" THEN Op(a.w) ELSE a
        a1 == ProcessControl(w, w.h3.peer["control"])
        a2 == then(a1, LAMBDA v : ProcessControl(v, v.h3.peer["encoder"]))
        a3 == then(a2, LAMBDA v : ProcessControl(v, v.h3.peer["decoder"]))
        a4 == then(a3, LAMBDA v : PopFinished(v, FALSE))
        a5 == FoldLeft(LAMBDA a, s : then(a, LAMBDA v : PollStream(v, s)), a4, order)
    IN  IF w.h3.closed # "no" THEN Done(w)
        ELSE then(a5, LAMBDA v : PopFinished(v, TRUE))

----------------------------------------------------------------------------
RECURSIVE Body(_, _, _, _)

(* recv_body with room for so many more units after total were read.  It   *)
(* takes a read of nothing, at a DATA frame without payload, for the end   *)
(* of what can be read (empty, for the properties).                        *)
Body(w, s, room, total) ==
    LET x == w.h3.streams[s]
        left == x.need - x.have
        g == StreamRecv(w.tr[s], s, IF room < left THEN room ELSE left)
        read == [x EXCEPT !.have = @ + g.n, !.triggered = @ /\ Readable(g.t)]
        v == Put([w EXCEPT !.tr[s] = g.t], s,
                 IF Complete(read) THEN Transition(read, "FrameType", 1) ELSE read)
        p == ProcessReadable(v, s, FALSE)
        over(u, n) == [w |-> IF Finished(u, s) THEN ProcessFinished(u, s) ELSE u,
                       k |-> IF n = 0 THEN "Done" ELSE "Ok", n |-> n, empty |-> FALSE]
    IN  CASE room = 0 \/ x.state # "Data" -> over(w, total)
          [] room # 0 /\ x.state = "Data" /\ g.r = "Done" ->
               over(Put(w, s, [x EXCEPT !.triggered = FALSE]), total)
          [] room # 0 /\ x.state = "Data" /\ g.r \in {"Reset", "Invalid"} ->
               [w |-> [w EXCEPT !.tr[s] = g.t], k |-> g.r, n |-> 0, empty |-> FALSE]
          [] OTHER -> IF g.n = 0 \/ g.fin
                      THEN [over(v, total + g.n) EXCEPT !.empty = ~g.fin]
                      ELSE IF p.k # "Done" THEN [w |-> p.w, k |-> p.k, n |-> 0, empty |-> FALSE]
                      ELSE IF Finished(p.w, s) THEN over(p.w, total + g.n)
                      ELSE Body(p.w, s, room - g.n, total + g.n)

----------------------------------------------------------------------------
Content(s) ==
    SelectSeq([i \in DOMAIN Units(s) |-> Units(s)[i][1]], LAMBDA u : u \in {"h", "d"})

Init ==
    /\ client \in Clients
    /\ tr = [s \in Ids |-> NewTransport]
    /\ h3 = [streams |-> <<>>, peer |-> [ty \in {"control", "encoder", "decoder"} |-> None],
             settings |-> FALSE, finished |-> <<>>, goaway |-> None, max_push_id |-> 0,
             closed |-> "no"]
    /\ app = [owes |-> {}, got |-> [s \in Ids |-> <<>>], end |-> [s \in Ids |-> "no"],
              late |-> {}, quiet |-> FALSE, empty |-> {}]

World == [tr |-> tr, h3 |-> h3]
Becomes(w) == tr' = w.tr /\ h3' = w.h3 /\ UNCHANGED client

(* A STREAM frame with the next n units arrives, with FIN or without.      *)
RecvStream(s, n, fin) ==
    LET t == tr[s]
        u == [t EXCEPT !.rx = @ + n, !.fin = fin, !.pend = n = 0 /\ t.off = t.rx /\ ~t.drain]
    IN  /\ h3.closed = "no" /\ ~t.fin /\ t.rx + n <= Len(Units(s)) /\ (n > 0 \/ fin)
        /\ fin => t.rx + n = Len(Units(s)) /\ "fin" \in client[s].ends
        /\ tr' = [tr EXCEPT ![s] = Arrived(t, u)]
        /\ app' = [app EXCEPT !.quiet = FALSE]
        /\ UNCHANGED <<client, h3>>

(* RESET_STREAM arrives: what was not read is dropped.                     *)
RecvReset(s) ==
    LET t == tr[s]
        u == [t EXCEPT !.err = TRUE, !.off = t.rx, !.fin = TRUE,
                       !.pend = ~t.fin /\ ~t.drain]
    IN  /\ h3.closed = "no" /\ "reset" \in client[s].ends /\ ~t.err /\ ~t.gone /\ (t.fin => LateReset)
        /\ tr' = [tr EXCEPT ![s] = Arrived(t, u)]
        /\ app' = [app EXCEPT !.quiet = FALSE]
        /\ UNCHANGED <<client, h3>>

(* STOP_SENDING arrives; an acknowledgement covers all that was sent.      *)
RecvStopSending(s) ==
    /\ h3.closed = "no" /\ tr[s].send = "open" /\ tr[s].open
    /\ tr' = [tr EXCEPT ![s].send = "stopped"]
    /\ UNCHANGED <<client, h3, app>>

Acked(s) ==
    /\ h3.closed = "no" /\ tr[s].send # "open" /\ ~tr[s].acked /\ ~tr[s].gone
    /\ LET t == [tr[s] EXCEPT !.acked = TRUE]
       IN  tr' = [tr EXCEPT ![s] = IF Readable(t) THEN t ELSE Collected(t, s)]
    /\ UNCHANGED <<client, h3, app>>

----------------------------------------------------------------------------
(* The application is told k of stream s: Headers hands it the payload,    *)
(* Data obliges it to call recv_body until Done.                           *)
Told(a, w, k, s) ==
    LET x == w.h3.streams[s]
        b == [a EXCEPT !.late = IF a.end[s] = "no" THEN @ ELSE @ \cup {s}]
    IN  CASE k = "Done" -> [a EXCEPT !.quiet = TRUE]
          [] k = "Headers" -> [b EXCEPT !.got[s] = Append(@, "h"), !.quiet = FALSE]
          [] k = "Data" -> [b EXCEPT !.owes = @ \cup {s}, !.quiet = FALSE, !.empty = @ \ {s}]
          [] k = "Finished" -> [b EXCEPT !.end[s] = k, !.quiet = FALSE]
          [] k = "Reset" -> [b EXCEPT !.end[s] = k, !.quiet = FALSE,
                                      !.owes = IF ReadsOn THEN @ ELSE @ \ {s}]
          [] OTHER -> [a EXCEPT !.quiet = FALSE]

AppPoll ==
    \E order \in SetToSeqs({s \in Ids : tr[s].listed}) :
        \E p \in {Poll(World, order)} :
            Becomes(p.w) /\ app' = Told(app, p.w, p.k, p.s)

AppRecvBody(s, n) ==
    /\ s \in app.owes /\ h3.closed = "no"
    /\ s \in DOMAIN h3.streams
    /\ \E b \in {Body(World, s, n, 0)} :
        /\ Becomes(b.w)
        /\ app' = [app EXCEPT
                     !.owes = IF b.k = "Ok" THEN @ ELSE @ \ {s},
                     !.got[s] = @ \o [i \in 1 .. b.n |-> "d"],
                     !.end[s] = IF b.k = "Reset" THEN "Reset" ELSE @,
                     !.empty = IF b.empty THEN @ \cup {s} ELSE @,
                     !.late = IF b.k \in {"Ok", "Reset"} /\ app.end[s] # "no"
                              THEN @ \cup {s} ELSE @,
                     !.quiet = FALSE]

(* A stream tidied away meanwhile has nothing to read.                     *)
AppRecvBodyGone(s) ==
    /\ s \in app.owes /\ s \notin DOMAIN h3.streams
    /\ app' = [app EXCEPT !.owes = @ \ {s}]
    /\ UNCHANGED <<client, tr, h3>>

(* Faulty variant: the stream goes with the last unit of the response.     *)
TidiedAlways(w, s) == Dropped(w, s)

(* Once all is sent the HTTP/3 stream goes if all has been received.       *)
Tidied(w, s) == IF Finished(w, s) THEN Dropped(w, s) ELSE w

(* send_response, send_body and send_additional_headers (trailers).  If    *)
(* the peer stopped the stream the call fails.                             *)
AppSend(s, what, fin) ==
    /\ s \in DOMAIN h3.streams /\ app.got[s] # <<>> /\ h3.closed = "no"
    /\ IF what = "headers" THEN ~h3.streams[s].local
       ELSE h3.streams[s].local /\ ~h3.streams[s].trailers_sent
    /\ tr[s].send # "fin"
    /\ LET x == [h3.streams[s] EXCEPT !.local = TRUE, !.trailers_sent = what = "trailers"]
           sent == Put([World EXCEPT !.tr[s].send = IF fin THEN "fin" ELSE @], s, x)
       IN  Becomes(IF tr[s].send = "stopped" \/ tr[s].gone THEN Tidied(World, s)
                   ELSE IF fin THEN Tidied(sent, s) ELSE sent)
    /\ UNCHANGED app

(* take_last_priority_update                                               *)
AppTakePriority(s) ==
    /\ s \in DOMAIN h3.streams /\ h3.streams[s].prio /\ h3.closed = "no"
    /\ h3' = [h3 EXCEPT !.streams[s].prio = FALSE]
    /\ UNCHANGED <<client, tr, app>>

Next ==
    \/ \E s \in Ids : \E n \in 0 .. Len(Units(s)), fin \in BOOLEAN : RecvStream(s, n, fin)
    \/ \E s \in Ids : RecvReset(s)
    \/ \E s \in Requests : RecvStopSending(s)
    \/ \E s \in Requests : Acked(s)
    \/ AppPoll
    \/ \E s \in Requests, n \in Reads : AppRecvBody(s, n)
    \/ \E s \in Requests : AppRecvBodyGone(s)
    \/ \E s \in Requests, what \in {"headers", "body", "trailers"}, fin \in BOOLEAN :
         AppSend(s, what, fin)
    \/ \E s \in Requests : AppTakePriority(s)

Spec == Init /\ [][Next]_vars

----------------------------------------------------------------------------
(* Unread units of a request that the application was not told to read     *)
Unreported(s) == Readable(tr[s]) /\ s \notin app.owes /\ app.end[s] = "no"

(* Since its last Data event recv_body stopped at an empty DATA frame with *)
(* more behind it, and the event was not armed again.                      *)
Hushed(s) ==
    s \in app.empty /\ s \in DOMAIN h3.streams /\ h3.streams[s].triggered

(* Events are edge-triggered, so none may be missed: when poll has nothing *)
(* left to report, what is unread on a request stream is what the          *)
(* application has yet to read, unless an empty DATA frame stopped it, and *)
(* a stream that is over was reported.                                     *)
NoLostEvent ==
    app.quiet /\ h3.closed = "no" => \A s \in Requests :
        /\ Unreported(s) => Hushed(s)
        /\ tr[s].open /\ IsFin(tr[s]) => app.end[s] # "no"

(* "Done if there is no data to read": once recv_body has said so and poll *)
(* has no event left, nothing is unread.                                   *)
NothingUnread ==
    app.quiet /\ h3.closed = "no" => \A s \in Requests : ~Unreported(s)

(* A request stream that is not reset is reported finished when all its    *)
(* content was handed over, in order, and nothing is reported afterwards   *)
(* while the response is still open.                                       *)
EndsOnce ==
    \A s \in Requests : ~tr[s].err =>
        /\ IsPrefix(app.got[s], Content(s))
        /\ app.end[s] = "Finished" => app.got[s] = Content(s)
        /\ tr[s].send = "open" => s \notin app.late

(* The parser of a request stream is tidied away, when the response is     *)
(* complete, only if nothing of the request is left to parse.              *)
ParserKept ==
    \A s \in Requests :
        tr[s].off > 0 /\ ~StreamFinished(tr[s]) => s \in DOMAIN h3.streams

(* The end of the peer's control or QPACK stream closes the connection.    *)
CriticalClosed ==
    app.quiet /\ h3.closed = "no" => \A ty \in DOMAIN h3.peer :
        h3.peer[ty] # None => ~StreamFinished(tr[h3.peer[ty]])

(* "Return early if the stream was reset, to avoid returning a Finished    *)
(* event later as well": Finished means that nothing was cut off.          *)
FinishedIsComplete ==
    \A s \in Requests : app.end[s] = "Finished" => app.got[s] = Content(s)
============================================================================
