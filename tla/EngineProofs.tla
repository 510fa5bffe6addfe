---------------------------- MODULE EngineProofs ----------------------------
(***************************************************************************)
(* Proofs about the engine's threads, for any number of starts and writes. *)
(***************************************************************************)
EXTENDS Engine, TLAPS

\* The event loop thread is past std::thread's constructor and before its end.
Alive == thr \notin {"none", "done"}

\* Commands pushed since start are in the queue.
Behind == Len(cmdq) > stale

QueueOK == cmdq \in Seq(Commands) /\ stale \in Nat

\* Outside processCommands, which drains the queue itself, the loop thread has
\* to be woken for them.
Owed == thr \in {"boot", "top", "poll", "callbacks"} /\ Behind

Woken == async = TRUE \/ wr = "wake" \/ ctl \in {"wake", "dtor wake"}

\* The inductive invariant: a live loop thread is joinable, flagged as running
\* and has its loop; the destructor frees nothing under it; and every command
\* it has not been woken for is about to be announced.
IInv ==
    /\ QueueOK
    /\ Alive => started /\ running /\ loop = "live"
    /\ ctl \in {"dtor free", "gone", "terminated"} => ~Alive
    /\ Owed => Woken

\* The constructor's state satisfies the invariant.
LEMMA InitIInv == Init => IInv
  BY DEF Init, IInv, QueueOK, Alive, Owed, Behind, Woken

\* Pushing and popping keep a queue of commands.
LEMMA PushPop ==
    ASSUME QueueOK
    PROVE  /\ \A c \in Commands : Append(cmdq, c) \in Seq(Commands)
           /\ cmdq # <<>> => Tail(cmdq) \in Seq(Commands)
           /\ Len(cmdq) \in Nat
  BY DEF QueueOK

\* A step that leaves the queue alone keeps its type and what is behind.
LEMMA QueueKept ==
    ASSUME QueueOK, UNCHANGED <<cmdq, stale>>
    PROVE  QueueOK' /\ (Behind' <=> Behind)
  BY DEF QueueOK, Behind

\* Nothing is behind in an empty queue.
LEMMA EmptyQueue ==
    ASSUME cmdq = <<>>, stale \in Nat
    PROVE  QueueOK /\ ~Behind
<1>1. Len(cmdq) = 0 /\ <<>> \in Seq(Commands)
  OBVIOUS
<1> QED BY <1>1 DEF QueueOK, Behind

\* start: no loop thread is left, and what is queued by then is older.
LEMMA StartStep == IInv /\ (Start \/ StartFailed) => IInv'
<1> SUFFICES ASSUME IInv, Start \/ StartFailed PROVE IInv'
  OBVIOUS
<1>0. QueueOK
  BY DEF IInv
<1>1. CASE Start
  <2>1. QueueOK' /\ ~Behind'
    BY <1>0, <1>1, PushPop DEF Start, QueueOK, Behind
  <2> QED BY <1>1, <2>1 DEF Start, IInv, Alive, Owed
<1>2. CASE StartFailed
  <2>1. QueueOK' /\ (Behind' <=> Behind)
    BY <1>0, <1>2, QueueKept DEF StartFailed, qVars
  <2> QED BY <1>2, <2>1 DEF StartFailed, IInv, Alive, Owed
<1> QED BY <1>1, <1>2

\* shutdown: the pushed CLOSE is announced next, and running is cleared only
\* once the joined thread is done.
LEMMA ShutdownStep ==
    IInv /\ (Shutdown \/ ShutdownWake \/ ShutdownBreak \/ ShutdownJoin) => IInv'
<1> SUFFICES ASSUME IInv,
                    Shutdown \/ ShutdownWake \/ ShutdownBreak \/ ShutdownJoin
             PROVE  IInv'
  OBVIOUS
<1>0. QueueOK
  BY DEF IInv
<1>1. CASE Shutdown
  <2>1. QueueOK'
    BY <1>0, <1>1, PushPop DEF Shutdown, QueueOK, Commands
  <2>2. cmdq' = cmdq => (Behind' <=> Behind)
    BY <1>1 DEF Shutdown, Behind
  <2> QED BY <1>1, <2>1, <2>2 DEF Shutdown, IInv, Alive, Owed, Woken, wrVars, libVars
<1>2. CASE ShutdownWake
  <2>1. QueueOK' /\ (Behind' <=> Behind)
    BY <1>0, <1>2, QueueKept DEF ShutdownWake, qVars
  <2> QED BY <1>2, <2>1 DEF ShutdownWake, IInv, Alive, Owed, Woken, wrVars, libVars
<1>3. CASE ShutdownBreak
  <2>1. QueueOK' /\ (Behind' <=> Behind)
    BY <1>0, <1>3, QueueKept DEF ShutdownBreak, qVars
  <2> QED BY <1>3, <2>1 DEF ShutdownBreak, IInv, Alive, Owed, Woken, wrVars, libVars
<1>4. CASE ShutdownJoin
  <2>1. QueueOK' /\ (Behind' <=> Behind)
    BY <1>0, <1>4, QueueKept DEF ShutdownJoin, qVars
  <2> QED BY <1>4, <2>1 DEF ShutdownJoin, IInv, Alive, Owed, Woken, wrVars, libVars
<1> QED BY <1>1, <1>2, <1>3, <1>4

\* The destructor: it frees after the join, or when running is already
\* cleared, which the loop thread does last.
LEMMA DestroyStep ==
    IInv /\ (Destroy \/ DestroyWake \/ DestroyJoin \/ DestroyFree) => IInv'
<1> SUFFICES ASSUME IInv,
                    Destroy \/ DestroyWake \/ DestroyJoin \/ DestroyFree
             PROVE  IInv'
  OBVIOUS
<1>0. QueueOK
  BY DEF IInv
<1>1. CASE Destroy
  <2>1. QueueOK'
    BY <1>0, <1>1, PushPop DEF Destroy, QueueOK, Commands
  <2>2. cmdq' = cmdq => (Behind' <=> Behind)
    BY <1>1 DEF Destroy, Behind
  <2> QED BY <1>1, <2>1, <2>2 DEF Destroy, IInv, Alive, Owed, Woken, wrVars, libVars
<1>2. CASE DestroyWake
  <2>1. QueueOK' /\ (Behind' <=> Behind)
    BY <1>0, <1>2, QueueKept DEF DestroyWake, qVars
  <2> QED BY <1>2, <2>1 DEF DestroyWake, IInv, Alive, Owed, Woken, wrVars, libVars
<1>3. CASE DestroyJoin
  <2>1. QueueOK' /\ (Behind' <=> Behind)
    BY <1>0, <1>3, QueueKept DEF DestroyJoin, qVars
  <2> QED BY <1>3, <2>1 DEF DestroyJoin, IInv, Alive, Owed, Woken, wrVars, libVars
<1>4. CASE DestroyFree
  <2>1. cmdq' = <<>> /\ stale' = 0
    BY <1>4 DEF DestroyFree
  <2>2. Len(cmdq') = 0 /\ <<>> \in Seq(Commands)
    BY <2>1
  <2>3. QueueOK' /\ ~Behind'
    BY <2>1, <2>2 DEF QueueOK, Behind
  <2> QED BY <1>4, <2>3 DEF DestroyFree, IInv, Alive, Owed, Woken, wrVars, libVars
<1> QED BY <1>1, <1>2, <1>3, <1>4

\* write: the push is followed by the wakeup, whatever the loop does between.
LEMMA WriteStep == IInv /\ (Write \/ WriteWake) => IInv'
<1> SUFFICES ASSUME IInv,
                    Write \/ WriteWake
             PROVE  IInv'
  OBVIOUS
<1>0. QueueOK
  BY DEF IInv
<1>1. CASE Write
  <2>1. QueueOK'
    BY <1>0, <1>1, PushPop DEF Write, QueueOK, Commands
  <2> QED BY <1>1, <2>1 DEF Write, IInv, Alive, Owed, Woken, ctlVars, libVars
<1>2. CASE WriteWake
  <2>1. QueueOK' /\ (Behind' <=> Behind)
    BY <1>0, <1>2, QueueKept DEF WriteWake, qVars
  <2> QED BY <1>2, <2>1 DEF WriteWake, IInv, Alive, Owed, Woken, ctlVars, libVars
<1> QED BY <1>1, <1>2

\* ev_run: only the last step ends the thread, and clears running with it.
LEMMA RunStep == IInv /\ (Boot \/ Iterate \/ Exit) => IInv'
<1> SUFFICES ASSUME IInv,
                    Boot \/ Iterate \/ Exit
             PROVE  IInv'
  OBVIOUS
<1>0. QueueOK
  BY DEF IInv
<1>1. CASE Boot
  <2>1. QueueOK' /\ (Behind' <=> Behind)
    BY <1>0, <1>1, QueueKept DEF Boot, qVars
  <2> QED BY <1>1, <2>1 DEF Boot, IInv, Alive, Owed, Woken, ctlVars, wrVars, libVars
<1>2. CASE Iterate
  <2>1. QueueOK' /\ (Behind' <=> Behind)
    BY <1>0, <1>2, QueueKept DEF Iterate, qVars
  <2> QED BY <1>2, <2>1 DEF Iterate, IInv, Alive, Owed, Woken, ctlVars, wrVars, libVars
<1>3. CASE Exit
  <2>1. QueueOK' /\ (Behind' <=> Behind)
    BY <1>0, <1>3, QueueKept DEF Exit, qVars
  <2> QED BY <1>3, <2>1 DEF Exit, IInv, Alive, Owed, Woken, ctlVars, wrVars, libVars
<1> QED BY <1>1, <1>2, <1>3

\* Callbacks: asyncCallback takes the wakeup and goes on to drain the queue.
LEMMA CallbackStep ==
    IInv /\ (TimeoutCallback \/ RecvCallback \/ AsyncCallback) => IInv'
<1> SUFFICES ASSUME IInv,
                    TimeoutCallback \/ RecvCallback \/ AsyncCallback
             PROVE  IInv'
  OBVIOUS
<1>0. QueueOK
  BY DEF IInv
<1>1. CASE TimeoutCallback
  <2>1. QueueOK' /\ (Behind' <=> Behind)
    BY <1>0, <1>1, QueueKept DEF TimeoutCallback, qVars
  <2> QED BY <1>1, <2>1 DEF TimeoutCallback, IInv, Alive, Owed, Woken, ctlVars, wrVars, Invoked, Return
<1>2. CASE RecvCallback
  <2>1. QueueOK' /\ (Behind' <=> Behind)
    BY <1>0, <1>2, QueueKept DEF RecvCallback, qVars
  <2> QED BY <1>2, <2>1 DEF RecvCallback, IInv, Alive, Owed, Woken, ctlVars, wrVars, Invoked, Return
<1>3. CASE AsyncCallback
  <2>1. QueueOK' /\ (Behind' <=> Behind)
    BY <1>0, <1>3, QueueKept DEF AsyncCallback, qVars
  <2> QED BY <1>3, <2>1 DEF AsyncCallback, IInv, Alive, Owed, Woken, ctlVars, wrVars, Invoked, Return
<1> QED BY <1>1, <1>2, <1>3

\* The poll returns without touching the queue.
LEMMA PollStep == IInv /\ (\E S \in SUBSET Watchers : PollReturns(S)) => IInv'
<1> SUFFICES ASSUME IInv, NEW S \in SUBSET Watchers, PollReturns(S) PROVE IInv'
  OBVIOUS
<1>1. QueueOK' /\ (Behind' <=> Behind)
  BY QueueKept DEF PollReturns, qVars, IInv
<1> QED BY <1>1 DEF PollReturns, IInv, Alive, Owed, Woken, ctlVars, wrVars

\* pop returned null: the queue is empty, so nothing is owed.
LEMMA DoneStep == IInv /\ CommandsDone => IInv'
<1> SUFFICES ASSUME IInv, CommandsDone PROVE IInv'
  OBVIOUS
<1>1. QueueOK' /\ ~Behind'
  <2>1. cmdq = <<>> /\ UNCHANGED <<cmdq, stale>> /\ QueueOK
    BY DEF CommandsDone, qVars, IInv
  <2>2. ~Behind
    BY <2>1, EmptyQueue DEF QueueOK
  <2> QED BY <2>1, <2>2, QueueKept
<1> QED BY <1>1 DEF CommandsDone, Return, IInv, Alive, Owed, Woken, ctlVars,
                    wrVars

\* processCommands: a pop leaves the thread in its loop.
LEMMA CommandStep ==
    IInv /\ (ProcessWrite \/ ProcessClose \/ ProcessStop) => IInv'
<1> SUFFICES ASSUME IInv, ProcessWrite \/ ProcessClose \/ ProcessStop
             PROVE  IInv'
  OBVIOUS
<1>1. thr = "commands" /\ thr' = thr /\ ctl' = ctl /\ wr' = wr
  BY DEF ProcessWrite, ProcessClose, ProcessStop, Popped, ctlVars, wrVars
<1>2. QueueOK'
  <2>1. cmdq # <<>> /\ cmdq' = Tail(cmdq)
        /\ stale' = IF stale > 0 THEN stale - 1 ELSE 0
    BY DEF ProcessWrite, ProcessClose, ProcessStop, Popped
  <2>2. QueueOK
    BY DEF IInv
  <2> QED BY <2>1, <2>2, PushPop DEF QueueOK
<1>3. started' = started /\ running' = running /\ loop' = loop
  BY DEF ProcessWrite, ProcessClose, ProcessStop, ctlVars
<1> QED BY <1>1, <1>2, <1>3 DEF IInv, Alive, Owed

\* Every step of the engine's threads keeps the invariant.
THEOREM ThreadsInductive == IInv /\ [Next]_vars => IInv'
<1> SUFFICES ASSUME IInv, [Next]_vars PROVE IInv'
  OBVIOUS
<1>1. CASE UNCHANGED vars
  <2>1. QueueOK' /\ (Behind' <=> Behind)
    BY <1>1, QueueKept DEF vars, qVars, IInv
  <2> QED BY <1>1, <2>1 DEF vars, ctlVars, wrVars, libVars, IInv, Alive, Owed,
                            Woken
<1>2. CASE Next
  BY <1>2, StartStep, ShutdownStep, DestroyStep, WriteStep, RunStep, PollStep,
     CallbackStep, DoneStep, CommandStep DEF Next, LoopStep, JoinStep
<1> QED BY <1>1, <1>2

\* In every execution, however many starts and writes: the destructor frees
\* nothing under the loop thread, isRunning is true while the loop runs, and
\* no command pushed since start is left behind by a polling loop.
THEOREM ThreadsSafe ==
    Spec => [](NoUseAfterFree /\ RunningWhileLooping /\ NoLostWakeup)
<1>1. IInv => NoUseAfterFree /\ RunningWhileLooping /\ NoLostWakeup
  BY DEF IInv, Alive, Owed, Behind, Woken, NoUseAfterFree, RunningWhileLooping,
         Looping, NoLostWakeup
<1> QED BY <1>1, InitIInv, ThreadsInductive, PTL DEF Spec

-----------------------------------------------------------------------------
(* The events reported to the application.                                 *)

EventNames == {"CONNECTED", "CLOSED"}

HasClosed(s) == \E i \in 1 .. Len(s) : s[i] = "CLOSED"
OnlyFirst(s) == \A i \in 1 .. Len(s) : s[i] = "CONNECTED" => i = 1

ClosedReported == HasClosed(events)

\* The inductive invariant of the events.  A flush that reported anything has
\* reported CONNECTED as well, unless the connection is over and never was
\* established; and after CLOSED the loop is on its way out: ev_break stays in
\* force until the next test of loop_done.
EventsInv ==
    /\ events \in Seq(EventNames)
    /\ {connected, heard, est, loop_done} \subseteq BOOLEAN
    /\ ConnectedFirst
    /\ events # <<>> => connected \/ (~est /\ phase \in {"closed", "none"})
    /\ ClosedReported => \/ thr \in {"exit", "done", "none"}
                         \/ loop_done /\ thr \in {"callbacks", "top", "commands"}

\* What appending the events of one flush does to a sequence of events.
LEMMA AddEvents ==
    ASSUME NEW s \in Seq(EventNames), NEW c \in {<<>>, <<"CONNECTED">>},
           NEW t \in {<<>>, <<"CLOSED">>},
           OnlyFirst(s), c = <<>> \/ s = <<>>,
           NEW r, r = s \o c \o t
    PROVE  /\ r \in Seq(EventNames)
           /\ OnlyFirst(r)
           /\ HasClosed(r) => t # <<>> \/ HasClosed(s)
           /\ r # <<>> => s # <<>> \/ c # <<>> \/ t # <<>>
<1>1. CASE c = <<>> /\ t = <<>>
  <2>1. r = s
    BY <1>1
  <2> QED BY <2>1, <1>1 DEF OnlyFirst, HasClosed
<1>2. CASE c = <<>> /\ t = <<"CLOSED">>
  <2>1. r = Append(s, "CLOSED")
    BY <1>2
  <2> QED BY <2>1, <1>2 DEF EventNames, OnlyFirst, HasClosed
<1>3. CASE s = <<>> /\ c = <<"CONNECTED">> /\ t = <<>>
  <2>1. r = <<"CONNECTED">>
    BY <1>3
  <2> QED BY <2>1, <1>3 DEF EventNames, OnlyFirst, HasClosed
<1>4. CASE s = <<>> /\ c = <<"CONNECTED">> /\ t = <<"CLOSED">>
  <2>1. s \o c = <<"CONNECTED">>
    BY <1>4
  <2>2. r = Append(<<"CONNECTED">>, "CLOSED")
    BY <2>1, <1>4
  <2> QED BY <2>2, <1>4 DEF EventNames, OnlyFirst, HasClosed
<1> QED BY <1>1, <1>2, <1>3, <1>4

\* One flush: nothing new precedes CONNECTED, and CLOSED is what the caller
\* reports.
LEMMA Flushed ==
    ASSUME EventsInv, NEW ph, NEW es \in BOOLEAN, NEW hd,
           NEW t \in {<<>>, ClosedEvent(ph)}, NEW left,
           FlushEgress(ph, es, hd, t, left),
           events # <<>> /\ ~connected => ~es /\ ph \in {"closed", "none"}
    PROVE  /\ events' \in Seq(EventNames) /\ connected' \in BOOLEAN
           /\ ConnectedFirst'
           /\ events' # <<>> => connected' \/ (~es /\ ph \in {"closed", "none"})
           /\ ClosedReported' => ClosedReported \/ (t # <<>> /\ ph = "closed")
<1>1. t \in {<<>>, <<"CLOSED">>} /\ (t # <<>> => ph = "closed")
  BY DEF ClosedEvent
<1>2. connected \in BOOLEAN /\ events \in Seq(EventNames)
      /\ OnlyFirst(events)
  BY DEF EventsInv, ConnectedFirst, OnlyFirst
<1>3. CASE ph = "open" /\ events' = events \o t /\ UNCHANGED connected
  <2>1. t = <<>>
    BY <1>1, <1>3
  <2>2. events' = events
    BY <2>1, <1>2, <1>3
  <2> QED BY <2>2, <1>2, <1>3 DEF EventsInv, ConnectedFirst, ClosedReported, OnlyFirst
<1>4. CASE connected' = (connected \/ es) /\ events' = events \o ConnectedEvent(es) \o t
  <2> DEFINE c == ConnectedEvent(es)
  <2>1. c \in {<<>>, <<"CONNECTED">>} /\ (c # <<>> => es /\ ~connected)
    BY DEF ConnectedEvent
  <2>2. c = <<>> \/ events = <<>>
    BY <2>1
  <2> HIDE DEF c
  <2>3. /\ events' \in Seq(EventNames)
        /\ OnlyFirst(events')
        /\ HasClosed(events') => t # <<>> \/ HasClosed(events)
        /\ events' # <<>> => events # <<>> \/ c # <<>> \/ t # <<>>
    <3>1. events' = events \o c \o t
      BY <1>4 DEF c
    <3> QED BY <3>1, <2>1, <2>2, <1>1, <1>2, AddEvents, Zenon
  <2>4. connected' \in BOOLEAN /\ (connected' <=> connected \/ es)
    BY <1>4, <1>2
  <2>5. events' # <<>> => connected' \/ (~es /\ ph \in {"closed", "none"})
    BY <2>1, <2>3, <2>4, <1>1
  <2> QED BY <1>1, <2>3, <2>4, <2>5 DEF ConnectedFirst, ClosedReported, OnlyFirst
<1> QED BY <1>3, <1>4 DEF FlushEgress

\* No events: the order is kept, and CLOSED is not among them.
LEMMA EmptyEvents == <<>> \in Seq(EventNames) /\ OnlyFirst(<<>>) /\ ~HasClosed(<<>>)
<1>1. Len(<<>>) = 0 /\ <<>> \in Seq(EventNames)
  OBVIOUS
<1> QED BY <1>1 DEF OnlyFirst, HasClosed

\* The constructor has reported nothing.
LEMMA InitEvents == Init => EventsInv
<1> SUFFICES ASSUME Init PROVE EventsInv
  OBVIOUS
<1>1. events \in Seq(EventNames) /\ ConnectedFirst /\ ~ClosedReported
  BY EmptyEvents DEF Init, ConnectedFirst, OnlyFirst, ClosedReported
<1> QED BY <1>1 DEF Init, EventsInv

\* The control and writer threads report nothing; start forgets the events of
\* the connection before.
LEMMA OuterEvents ==
    ASSUME IInv, EventsInv,
           \/ Start \/ StartFailed \/ Shutdown \/ Destroy \/ JoinStep \/ Write \/ WriteWake
    PROVE  EventsInv'
<1>1. CASE Start \/ StartFailed
  <2>0. events' = <<>>
    BY <1>1 DEF Start, StartFailed, NewConnection
  <2>1. events' \in Seq(EventNames) /\ ConnectedFirst' /\ ~ClosedReported'
    BY <2>0, EmptyEvents DEF ConnectedFirst, OnlyFirst, ClosedReported
  <2>2. {connected, heard, est, loop_done}' \subseteq BOOLEAN
    BY <1>1 DEF Start, StartFailed, NewConnection, EventsInv
  <2> QED BY <2>0, <2>1, <2>2 DEF EventsInv
<1>2. CASE Shutdown \/ Destroy \/ ShutdownWake \/ ShutdownJoin \/ DestroyWake \/ DestroyJoin
           \/ Write \/ WriteWake
  <2>1. UNCHANGED <<events, connected, heard, est, phase, loop_done, thr>>
    BY <1>2 DEF Shutdown, Destroy, ShutdownWake, ShutdownJoin, DestroyWake, DestroyJoin,
                Write, WriteWake, connVars, libVars
  <2> QED BY <2>1 DEF EventsInv, ConnectedFirst, ClosedReported
<1>3. CASE ShutdownBreak
  BY <1>3 DEF ShutdownBreak, EventsInv, ConnectedFirst, ClosedReported, connVars
<1>4. CASE DestroyFree
  <2>1. ~Alive
    BY <1>4 DEF DestroyFree, IInv
  <2> QED BY <1>4, <2>1 DEF DestroyFree, EventsInv, ConnectedFirst, ClosedReported, Alive
<1> QED BY <1>1, <1>2, <1>3, <1>4 DEF JoinStep

\* ev_run: a loop that was told to break leaves at its next test, before it
\* polls, and only a thread without events has yet to enter ev_run.
LEMMA RunEvents ==
    ASSUME EventsInv,
           \/ Boot \/ Iterate \/ Exit \/ AsyncCallback \/ ProcessStop \/ CommandsDone
           \/ \E S \in SUBSET Watchers : PollReturns(S)
    PROVE  EventsInv'
<1>1. UNCHANGED <<events, connected, heard, est, phase>>
  BY DEF Boot, Iterate, Exit, AsyncCallback, ProcessStop, CommandsDone, PollReturns, connVars
<1>2. loop_done' \in BOOLEAN
  BY DEF EventsInv, Boot, Iterate, Exit, AsyncCallback, ProcessStop, CommandsDone,
         PollReturns, libVars
<1>3. ASSUME ClosedReported
      PROVE  \/ thr' \in {"exit", "done", "none"}
             \/ loop_done' /\ thr' \in {"callbacks", "top", "commands"}
  BY <1>3 DEF EventsInv, Boot, Iterate, Exit, AsyncCallback, ProcessStop, CommandsDone,
              PollReturns, libVars, Invoked, Popped, Return
<1> QED BY <1>1, <1>2, <1>3 DEF EventsInv, ConnectedFirst, ClosedReported

\* Callbacks: the one that reports CLOSED also breaks the loop.
LEMMA CallbackEvents ==
    ASSUME IInv, EventsInv, TimeoutCallback \/ RecvCallback
    PROVE  EventsInv'
<1>1. PICK ph, hd, es :
         /\ phase' = ph /\ heard' = hd /\ est' = es
         /\ hd \in BOOLEAN /\ es \in BOOLEAN
         /\ phase \in {"closed", "none"} => ph \in {"closed", "none"} /\ es = est
         /\ \E left : FlushEgress(ph, es, hd, ClosedEvent(ph), left)
         /\ loop_done' = BreakIfClosed(ph)
         /\ thr = "callbacks" /\ thr' \in {"top", "callbacks"}
  <2>1. CASE TimeoutCallback
    BY <2>1 DEF TimeoutCallback, AfterTimeout, EventsInv, Invoked, Return
  <2>2. CASE RecvCallback
    <3>1. PICK r \in Received :
             /\ phase' = r[1] /\ heard' = r[2] /\ est' = r[3]
             /\ \E left : FlushEgress(r[1], r[3], r[2], ClosedEvent(r[1]), left)
             /\ loop_done' = BreakIfClosed(r[1])
      BY <2>2 DEF RecvCallback
    <3>2. /\ r[2] \in BOOLEAN /\ r[3] \in BOOLEAN
          /\ phase \in {"closed", "none"} => r[1] \in {"closed", "none"} /\ r[3] = est
      <4>1. heard \in BOOLEAN /\ est \in BOOLEAN
        BY DEF EventsInv
      <4>2. CASE phase = "open"
        BY <4>1, <4>2 DEF Received
      <4>3. CASE phase # "open"
        <5>1. r[1] = phase /\ r[2] = heard /\ r[3] = est
          BY <4>3 DEF Received
        <5> QED BY <4>1, <5>1
      <4> QED BY <4>2, <4>3
    <3>3. thr = "callbacks" /\ thr' \in {"top", "callbacks"}
      BY <2>2 DEF RecvCallback, Invoked, Return
    <3> DEFINE ph == r[1]
               hd == r[2]
               es == r[3]
    <3> HIDE DEF ph, hd, es
    <3>4. /\ phase' = ph /\ heard' = hd /\ est' = es
          /\ hd \in BOOLEAN /\ es \in BOOLEAN
          /\ phase \in {"closed", "none"} => ph \in {"closed", "none"} /\ es = est
          /\ \E left : FlushEgress(ph, es, hd, ClosedEvent(ph), left)
          /\ loop_done' = BreakIfClosed(ph)
      BY <3>1, <3>2 DEF ph, hd, es
    <3> QED BY <3>3, <3>4, Zenon
  <2> QED BY <2>1, <2>2
<1>2. events # <<>> /\ ~connected => ~es /\ ph \in {"closed", "none"}
  BY <1>1 DEF EventsInv
<1>3. /\ events' \in Seq(EventNames) /\ connected' \in BOOLEAN
      /\ ConnectedFirst'
      /\ events' # <<>> => connected' \/ (~es /\ ph \in {"closed", "none"})
      /\ ClosedReported' => ClosedReported \/ ph = "closed"
  BY <1>1, <1>2, Flushed
<1>4. loop_done' \in BOOLEAN /\ (loop_done \/ ph = "closed" => loop_done')
  BY <1>1 DEF BreakIfClosed, EventsInv
<1>5. ClosedReported => loop_done
  BY <1>1 DEF EventsInv
<1> QED BY <1>1, <1>3, <1>4, <1>5 DEF EventsInv

\* processCommands reports at most CONNECTED.
LEMMA CommandEvents ==
    ASSUME IInv, EventsInv, ProcessWrite \/ ProcessClose
    PROVE  EventsInv'
<1>1. PICK ph :
         /\ phase' = ph /\ UNCHANGED <<heard, est, loop_done, thr>>
         /\ phase \in {"closed", "none"} => ph = phase
         /\ FlushEgress(ph, est, heard, <<>>, pending)
  <2>1. CASE ProcessWrite
    BY <2>1 DEF ProcessWrite
  <2>2. CASE ProcessClose
    BY <2>2 DEF ProcessClose, Closing
  <2> QED BY <2>1, <2>2
<1>2. events # <<>> /\ ~connected => ~est /\ ph \in {"closed", "none"}
  BY <1>1 DEF EventsInv
<1>3. est \in BOOLEAN
  BY DEF EventsInv
<1>4. /\ events' \in Seq(EventNames) /\ connected' \in BOOLEAN
      /\ ConnectedFirst'
      /\ events' # <<>> => connected' \/ (~est /\ ph \in {"closed", "none"})
      /\ ClosedReported' => ClosedReported
  BY <1>1, <1>2, <1>3, Flushed
<1> QED BY <1>1, <1>4 DEF EventsInv

\* Every step keeps the order of the events.
LEMMA EventsInductive == IInv /\ EventsInv /\ [Next]_vars => EventsInv'
<1> SUFFICES ASSUME IInv, EventsInv, [Next]_vars PROVE EventsInv'
  OBVIOUS
<1>1. CASE UNCHANGED vars
  BY <1>1 DEF vars, libVars, connVars, EventsInv, ConnectedFirst, ClosedReported
<1>2. CASE Next
  BY <1>2, OuterEvents, RunEvents, CallbackEvents, CommandEvents DEF Next, LoopStep
<1> QED BY <1>1, <1>2

\* In every execution a connection reports CONNECTED at most once and before
\* CONNECTION_CLOSED, and a loop that has reported CONNECTION_CLOSED never
\* polls again, whichever callbacks and commands share its last iteration.
THEOREM EventsSafe == Spec => [](ConnectedFirst /\ StopsAfterClosed)
<1>1. EventsInv => ConnectedFirst /\ StopsAfterClosed
  BY DEF EventsInv, ClosedReported, HasClosed, StopsAfterClosed
<1> QED BY <1>1, InitIInv, InitEvents, ThreadsInductive, EventsInductive, PTL DEF Spec

=============================================================================
