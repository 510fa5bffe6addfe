------------------------------- MODULE Engine -------------------------------
(***************************************************************************)
(* The C++ engine around a quiche client connection                        *)
(* (quiche/engine/src/quiche_engine_impl.cpp): a control thread calls      *)
(* start, shutdown and the destructor, a writer thread calls write, and    *)
(* both hand commands to the event loop thread through CommandQueue and    *)
(* libev's ev_async_send.  The loop thread alone drives the connection.    *)
(*                                                                         *)
(* mIsRunning, mLoop and libev's loop_done are plain fields that the       *)
(* threads share without a lock; each access is a step of its own here.    *)
(* Payload, the socket, read and the stream read buffers are left out.     *)
(***************************************************************************)
EXTENDS Naturals, Sequences

CONSTANTS
    MaxStarts,      \* bound: calls of start that get past setupConnection
    MaxWrites       \* bound: calls of write

ASSUME BoundsAssumption == MaxStarts \in Nat /\ MaxWrites \in Nat

VARIABLES
    ctl,            \* where the control thread is
    wr,             \* where the writer thread is
    thr,            \* where the event loop thread is
    running,        \* mIsRunning
    started,        \* mThreadStarted: mLoopThread is joinable
    loop,           \* mLoop: null, live, or passed to ev_loop_destroy
    loop_done,      \* libev: ev_break was called
    async,          \* libev: mAsyncWatcher.sent
    armed,          \* libev: mTimer is active
    pending,        \* libev: watchers whose callback is still to be invoked
    cmdq,           \* mCmdQueue
    connected,      \* mIsConnected
    phase,          \* the connection: none, open, draining or closed
    heard,          \* the connection processed a packet (recv_count > 0)
    est,            \* quiche_conn_is_established
    events,         \* history: events reported for the current connection
    stale,          \* history: commands in cmdq older than the last start
    refused,        \* history: stream_send did not take a whole write
    starts, writes  \* counters for the bounds

ctlVars  == <<ctl, started, starts>>
wrVars   == <<wr, writes>>
libVars  == <<loop, loop_done, async, armed, pending>>
connVars == <<connected, phase, heard, est, events>>
qVars    == <<cmdq, stale, refused>>
vars     == <<ctlVars, wrVars, libVars, connVars, qVars, thr, running>>

Commands == {"WRITE", "CLOSE", "STOP"}
Watchers == {"timer", "io", "async"}

\* The loop thread has entered eventLoopThread and ev_run has not returned.
Looping == thr \in {"boot", "top", "poll", "callbacks", "commands"}

\* The destructor has begun.
Destroying == ctl \in {"dtor wake", "dtor join", "dtor free", "gone", "terminated"}

Init ==
    /\ ctl = "idle" /\ wr = "idle" /\ thr = "none"
    /\ running = FALSE /\ started = FALSE
    /\ loop = "none" /\ loop_done = FALSE /\ async = FALSE /\ armed = FALSE
    /\ pending = {}
    /\ cmdq = <<>> /\ stale = 0 /\ refused = FALSE
    /\ connected = FALSE /\ phase = "none" /\ heard = FALSE /\ est = FALSE
    /\ events = <<>>
    /\ starts = 0 /\ writes = 0

-----------------------------------------------------------------------------
(* flushEgress: send what the connection has, re-arm the timer, report the *)
(* handshake.  ph, es and hd are the connection's phase, est and heard by  *)
(* then; tail is what the caller reports after it and left the watchers    *)
(* libev has still to invoke.                                              *)

(* Faulty variant: a draining connection has no timeout.                  *)
TimeoutOnlyOpen(ph, es) == {ph = "open"}
\* Whether quiche_conn_timeout_as_nanos gives a timeout.  A closed connection
\* has none, a draining one has its draining timer, one in its handshake a
\* probe timer, and an established one only if it set an idle or a loss timer.
HasTimeout(ph, es) ==
    CASE ph = "closed"                    -> {FALSE}
      [] ph = "draining"                  -> {TRUE}
      [] ph = "open" /\ ~es               -> {TRUE}
      [] OTHER                            -> BOOLEAN

(* Faulty variant: CONNECTED is reported by every flush.                  *)
ConnectedAlways(es) == IF es THEN <<"CONNECTED">> ELSE <<>>
\* The event flushEgress reports.
ConnectedEvent(es) == IF es /\ ~connected THEN <<"CONNECTED">> ELSE <<>>

\* ev_timer_stop, which also drops a pending timer event, and ev_timer_start;
\* left is what is still to be invoked when flushEgress is called.
Restart(timeout, left) ==
    /\ armed' = (armed \/ timeout)
    /\ pending' = IF timeout THEN left \ {"timer"} ELSE left

FlushEgress(ph, es, hd, tail, left) ==
    \/ /\ ph = "open" /\ hd               \* quiche_conn_send failed
       /\ events' = events \o tail
       /\ pending' = left
       /\ UNCHANGED <<armed, connected>>
    \/ /\ \E timeout \in HasTimeout(ph, es) : Restart(timeout, left)
       /\ connected' = (connected \/ es)
       /\ events' = events \o ConnectedEvent(es) \o tail

\* What recvCallback and timeoutCallback report last.
ClosedEvent(ph) == IF ph = "closed" THEN <<"CLOSED">> ELSE <<>>

-----------------------------------------------------------------------------
(* The control thread: start.                                              *)

\* setupConnection: a new connection.  mIsConnected keeps its value.
NewConnection ==
    phase' = "open" /\ heard' = FALSE /\ est' = FALSE /\ events' = <<>>

\* setupConnection, the watchers, the first flushEgress and the new thread.
Start ==
    /\ ctl = "idle" /\ ~started /\ starts < MaxStarts
    /\ starts' = starts + 1
    /\ NewConnection
    /\ loop' = "live" /\ async' = FALSE /\ armed' = TRUE
    /\ running' = TRUE
    /\ thr' = "boot" /\ started' = TRUE
    /\ stale' = Len(cmdq)
    /\ UNCHANGED <<ctl, wrVars, loop_done, pending, cmdq, connected, refused>>

\* ev_loop_new or std::thread failed: the connection is kept, the loop is not.
StartFailed ==
    /\ ctl = "idle" /\ ~started /\ starts < MaxStarts
    /\ starts' = starts + 1
    /\ NewConnection
    /\ loop' = "none" /\ async' = FALSE /\ armed' = FALSE
    /\ running' = FALSE
    /\ UNCHANGED <<ctl, started, wrVars, loop_done, pending, qVars, connected,
                   thr>>

-----------------------------------------------------------------------------
(* The control thread: shutdown.                                           *)

\* The first test of mIsRunning: push CLOSE, or go on to the second test.
Shutdown ==
    /\ ctl = "idle"
    /\ IF running /\ loop = "live"
         THEN cmdq' = Append(cmdq, "CLOSE") /\ ctl' = "wake"
         ELSE cmdq' = cmdq /\ ctl' = "break"
    /\ UNCHANGED <<started, starts, wrVars, libVars, connVars, stale, refused,
                   thr, running>>

ShutdownWake ==
    /\ ctl = "wake"
    /\ async' = TRUE /\ ctl' = "break"
    /\ UNCHANGED <<started, starts, wrVars, loop, loop_done, armed, pending,
                   connVars, qVars, thr, running>>

\* The second test of mIsRunning, and ev_break, which does not wake the loop.
ShutdownBreak ==
    /\ ctl = "break"
    /\ loop_done' = (loop_done \/ (running /\ loop = "live"))
    /\ ctl' = "join"
    /\ UNCHANGED <<started, starts, wrVars, loop, async, armed, pending,
                   connVars, qVars, thr, running>>

ShutdownJoin ==
    /\ ctl = "join" /\ (started => thr = "done")
    /\ started' = FALSE /\ running' = FALSE
    /\ ctl' = "idle"
    /\ UNCHANGED <<starts, wrVars, libVars, connVars, qVars, thr>>

-----------------------------------------------------------------------------
(* The control thread: the destructor.                                     *)

\* Push STOP if mIsRunning.  The application no longer calls write.
Destroy ==
    /\ ctl = "idle" /\ wr = "idle"
    /\ IF running /\ loop = "live"
         THEN cmdq' = Append(cmdq, "STOP") /\ ctl' = "dtor wake"
         ELSE cmdq' = cmdq /\ ctl' = "dtor free"
    /\ UNCHANGED <<started, starts, wrVars, libVars, connVars, stale, refused,
                   thr, running>>

DestroyWake ==
    /\ ctl = "dtor wake"
    /\ async' = TRUE /\ ctl' = "dtor join"
    /\ UNCHANGED <<started, starts, wrVars, loop, loop_done, armed, pending,
                   connVars, qVars, thr, running>>

(* Faulty variant: the loop thread is detached, not joined.               *)
DestroyNotWaiting ==
    /\ ctl = "dtor join"
    /\ started' = FALSE /\ ctl' = "dtor free"
    /\ UNCHANGED <<starts, wrVars, libVars, connVars, qVars, thr, running>>
DestroyJoin ==
    /\ ctl = "dtor join" /\ thr = "done"
    /\ started' = FALSE /\ ctl' = "dtor free"
    /\ UNCHANGED <<starts, wrVars, libVars, connVars, qVars, thr, running>>

\* Free the loop, the connection and the queue.  The destructor of a
\* std::thread that is still joinable calls std::terminate.
DestroyFree ==
    /\ ctl = "dtor free"
    /\ loop' = IF loop = "live" THEN "freed" ELSE loop
    /\ phase' = "none"
    /\ cmdq' = <<>> /\ stale' = 0
    /\ ctl' = IF started THEN "terminated" ELSE "gone"
    /\ UNCHANGED <<started, starts, wrVars, loop_done, async, armed, pending,
                   connected, heard, est, events, refused, thr, running>>

-----------------------------------------------------------------------------
(* The writer thread: write pushes its command and then wakes the loop.    *)

Write ==
    /\ wr = "idle" /\ ~Destroying /\ writes < MaxWrites
    /\ cmdq' = Append(cmdq, "WRITE")
    /\ writes' = writes + 1 /\ wr' = "wake"
    /\ UNCHANGED <<ctlVars, libVars, connVars, stale, refused, thr, running>>

WriteWake ==
    /\ wr = "wake"
    /\ async' = (async \/ loop = "live")
    /\ wr' = "idle"
    /\ UNCHANGED <<ctlVars, writes, loop, loop_done, armed, pending, connVars,
                   qVars, thr, running>>

-----------------------------------------------------------------------------
(* The event loop thread: ev_run.                                          *)

\* ev_run forgets an ev_break that came before it.
Boot ==
    /\ thr = "boot"
    /\ loop_done' = FALSE /\ thr' = "top"
    /\ UNCHANGED <<ctlVars, wrVars, loop, async, armed, pending, connVars,
                   qVars, running>>

\* The loop's tests of loop_done: leave ev_run, which cancels EVBREAK_ONE, or
\* go on to the poll.
Iterate ==
    /\ thr = "top"
    /\ thr' = IF loop_done THEN "exit" ELSE "poll"
    /\ loop_done' = FALSE
    /\ UNCHANGED <<ctlVars, wrVars, loop, async, armed, pending, connVars,
                   qVars, running>>

\* backend_poll returns with the watchers S: the async watcher if it was sent
\* to (a send that comes between the poll's return and the reset of
\* pipe_write_wanted is seen by the next poll), the timer if it expired, the
\* socket if a packet came.  The two assertions around backend_poll assign
\* loop_done for their side effect: an ev_break of another thread that falls
\* between the loop's test and the end of the poll is forgotten.
PollReturns(S) ==
    /\ thr = "poll"
    /\ S # {} /\ ("async" \in S => async) /\ ("timer" \in S => armed)
    /\ pending' = S
    /\ armed' = (armed /\ "timer" \notin S)
    /\ loop_done' = FALSE
    /\ thr' = "callbacks"
    /\ UNCHANGED <<ctlVars, wrVars, loop, async, connVars, qVars, running>>

\* eventLoopThread's last assignment.
Exit ==
    /\ thr = "exit"
    /\ running' = FALSE /\ thr' = "done"
    /\ UNCHANGED <<ctlVars, wrVars, libVars, connVars, qVars>>

-----------------------------------------------------------------------------
(* The event loop thread: callbacks.  The pipe's watcher has the highest   *)
(* priority and its callback queues the async watcher; events of the same  *)
(* priority are invoked last queued first: async, timer, socket.           *)

Invoked(w) ==
    /\ thr = "callbacks" /\ w \in pending
    /\ w # "async" => "async" \notin pending
    /\ w = "io" => "timer" \notin pending

\* A callback is over: the next one that is pending, or the next iteration.
Return == thr' = IF pending' = {} THEN "top" ELSE "callbacks"

\* What the connection is after on_timeout.
AfterTimeout == CASE phase = "open"     -> {"open", "closed"}
                  [] phase = "draining" -> {"closed"}
                  [] OTHER              -> {phase}

\* How recvCallback and timeoutCallback end when the connection is closed.
(* Faulty variant: the loop goes on after the connection closed.          *)
BreakNever(ph) == loop_done
BreakIfClosed(ph) == loop_done \/ ph = "closed"

TimeoutCallback ==
    /\ Invoked("timer")
    /\ \E ph \in AfterTimeout :
         /\ phase' = ph
         /\ FlushEgress(ph, est, heard, ClosedEvent(ph), pending \ {"timer"})
         /\ loop_done' = BreakIfClosed(ph)
    /\ Return
    /\ UNCHANGED <<ctlVars, wrVars, loop, async, heard, est, qVars, running>>

\* What quiche_conn_recv makes of a batch of packets: nothing, handshake
\* progress, and then perhaps an error or the peer's CONNECTION_CLOSE, or a
\* stateless reset.
Received ==
    IF phase = "open"
      THEN {r \in {"open", "draining", "closed"} \X {heard, TRUE} \X {est, TRUE} :
              (r[1] = "draining" \/ r[3] # est) => r[2]}
      ELSE {<<phase, heard, est>>}

RecvCallback ==
    /\ Invoked("io")
    /\ \E r \in Received :
         /\ phase' = r[1] /\ heard' = r[2] /\ est' = r[3]
         /\ FlushEgress(r[1], r[3], r[2], ClosedEvent(r[1]), pending \ {"io"})
         /\ loop_done' = BreakIfClosed(r[1])
    /\ Return
    /\ UNCHANGED <<ctlVars, wrVars, loop, async, qVars, running>>

\* pipecb clears the watcher's flag and queues asyncCallback, which is invoked
\* next.
AsyncCallback ==
    /\ Invoked("async")
    /\ async' = FALSE
    /\ thr' = "commands"
    /\ UNCHANGED <<ctlVars, wrVars, loop, loop_done, armed, pending, connVars,
                   qVars, running>>

-----------------------------------------------------------------------------
(* The event loop thread: processCommands, one command a step.             *)

Popped(c) ==
    /\ thr = "commands" /\ cmdq # <<>> /\ Head(cmdq) = c
    /\ cmdq' = Tail(cmdq)
    /\ stale' = IF stale > 0 THEN stale - 1 ELSE 0

\* stream_send takes nothing before the peer's limits are known or once the
\* connection closes, and may take a part at any time; the rest is dropped.
ProcessWrite ==
    /\ Popped("WRITE")
    /\ \E whole \in (IF heard /\ phase = "open" THEN BOOLEAN ELSE {FALSE}) :
         refused' = (refused \/ (~whole /\ phase = "open" /\ stale = 0))
    /\ FlushEgress(phase, est, heard, <<>>, pending)
    /\ UNCHANGED <<ctlVars, wrVars, loop, loop_done, async, phase, heard, est,
                   thr, running>>

\* quiche_conn_close: a connection that heard nothing is closed at once, any
\* other drains after flushEgress has sent its CONNECTION_CLOSE.
Closing == IF phase = "open" THEN (IF heard THEN "draining" ELSE "closed")
                             ELSE phase

ProcessClose ==
    /\ Popped("CLOSE")
    /\ phase' = Closing
    /\ FlushEgress(Closing, est, heard, <<>>, pending)
    /\ UNCHANGED <<ctlVars, wrVars, loop, loop_done, async, heard, est,
                   refused, thr, running>>

ProcessStop ==
    /\ Popped("STOP")
    /\ loop_done' = TRUE
    /\ UNCHANGED <<ctlVars, wrVars, loop, async, armed, pending, connVars,
                   refused, thr, running>>

(* Faulty variant: a wakeup handles some of the commands, not all.        *)
CommandsDoneEarly ==
    /\ thr = "commands"
    /\ pending' = pending \ {"async"} /\ Return
    /\ UNCHANGED <<ctlVars, wrVars, loop, loop_done, async, armed, connVars,
                   qVars, running>>
\* pop returned null.
CommandsDone ==
    /\ thr = "commands" /\ cmdq = <<>>
    /\ pending' = pending \ {"async"} /\ Return
    /\ UNCHANGED <<ctlVars, wrVars, loop, loop_done, async, armed, connVars,
                   qVars, running>>

-----------------------------------------------------------------------------
LoopStep ==
    \/ Boot \/ Iterate \/ Exit
    \/ TimeoutCallback \/ RecvCallback \/ AsyncCallback
    \/ ProcessWrite \/ ProcessClose \/ ProcessStop \/ CommandsDone

JoinStep == ShutdownWake \/ ShutdownBreak \/ ShutdownJoin
            \/ DestroyWake \/ DestroyJoin \/ DestroyFree

Next ==
    \/ Start \/ StartFailed \/ Shutdown \/ Destroy \/ JoinStep
    \/ Write \/ WriteWake
    \/ LoopStep
    \/ \E S \in SUBSET Watchers : PollReturns(S)

Spec == Init /\ [][Next]_vars

\* Threads are scheduled; a poll that begins after the async watcher was sent
\* to returns with it, so at most one poll misses it; and the timer of a
\* connection that drains or is closed is never put off, so it expires however
\* often other events wake the loop.
Fairness ==
    /\ WF_vars(LoopStep) /\ WF_vars(JoinStep) /\ WF_vars(WriteWake)
    /\ SF_vars(\E S \in SUBSET Watchers : "async" \in S /\ PollReturns(S))
    /\ SF_vars(/\ phase \in {"draining", "closed"}
               /\ \E S \in SUBSET Watchers : "timer" \in S /\ PollReturns(S))

FairSpec == Spec /\ Fairness

-----------------------------------------------------------------------------
(* Properties.                                                             *)

\* The fields keep their types; at most MaxWrites writes and one CLOSE a
\* start are queued, and a connection reports at most three events: those of
\* one batch of callbacks are the last ones (ev_break in both callbacks).
TypeOK ==
    /\ ctl \in {"idle", "wake", "break", "join", "dtor wake", "dtor join",
                "dtor free", "gone", "terminated"}
    /\ wr \in {"idle", "wake"}
    /\ thr \in {"none", "boot", "top", "poll", "callbacks", "commands", "exit",
                "done"}
    /\ {running, started, loop_done, async, armed, connected, heard, est,
        refused} \subseteq BOOLEAN
    /\ loop \in {"none", "live", "freed"}
    /\ pending \subseteq Watchers
    /\ cmdq \in Seq(Commands) /\ Len(cmdq) <= MaxWrites + MaxStarts + 1
    /\ stale \in 0 .. Len(cmdq)
    /\ phase \in {"none", "open", "draining", "closed"}
    /\ events \in Seq({"CONNECTED", "CLOSED"}) /\ Len(events) <= 3
    /\ starts \in 0 .. MaxStarts /\ writes \in 0 .. MaxWrites

\* The destructor frees the loop, the connection and the stream buffers only
\* after the event loop thread has left ev_run and eventLoopThread's last
\* write, whichever of shutdown, STOP or the connection's end stopped it.
NoUseAfterFree == ctl \in {"gone", "terminated"} => thr \in {"none", "done"}

\* A command pushed since start is never left behind by a sleeping loop: while
\* the loop polls, either the async watcher is set or the thread that pushed
\* has yet to call ev_async_send (the flag is cleared before the queue is
\* drained, and write pushes before it wakes).
NoLostWakeup ==
    thr = "poll" /\ Len(cmdq) > stale
        => async \/ wr = "wake" \/ ctl \in {"wake", "dtor wake"}

\* While the event loop runs, isRunning says so: otherwise shutdown would skip
\* CLOSE and ev_break and then join a thread that nobody stops.
RunningWhileLooping == Looping => running

\* A connection reported as closed is never polled for again: the callback
\* that reports CONNECTION_CLOSED also breaks the loop.
StopsAfterClosed ==
    thr = "poll" => \A i \in 1 .. Len(events) : events[i] # "CLOSED"

\* CONNECTED is reported at most once and never after CONNECTION_CLOSED, also
\* when the flush that should have reported it failed.
ConnectedFirst ==
    \A i \in 1 .. Len(events) : events[i] = "CONNECTED" => i = 1

\* shutdown and the destructor return: join does not wait for ever, although
\* shutdown's ev_break wakes nobody and is forgotten when it precedes ev_run or
\* falls into a poll.  The CLOSE command has to end the loop then: through the
\* draining timer, or through the timer that was armed before a connection
\* that heard nothing was closed at once.
JoinReturns == ctl \in {"join", "dtor join"} ~> ctl \notin {"join", "dtor join"}

\* The destructor never brings the process down: "the destructor calls
\* shutdown()" says the API document.
DestructorReturns == ctl # "terminated"

\* A shutdown that has returned has closed an established connection: "sends
\* the QUIC connection close frame" says the API document.
ShutdownCloses ==
    ctl = "idle" /\ starts > 0 /\ ~started /\ est => phase # "open"

\* A write made after start reaches the connection whole: "data submitted by
\* write() is transmitted reliably" says the API document.
WritesKept == ~refused

=============================================================================
