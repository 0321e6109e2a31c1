---------------------------- MODULE SfuLifecycle ----------------------------
(***************************************************************************)
(* Start and shutdown of the server process: the main thread (main.cpp,    *)
(* Start, Stop and the destructors of SfuServerFull), the event loop       *)
(* thread with its 5 ms hold timer and the watchdog thread (SfuEvPool),    *)
(* and the STUN thread.                                                    *)
(*                                                                         *)
(* SfuServerFull and SfuServerBase each have an m_running of their own:    *)
(* fullRunning and baseRunning.  The signal handler interrupts the main    *)
(* thread, so its steps are taken by that thread; the signal comes once.   *)
(* The flags are atomic and the request lists are used under listMx, which *)
(* the hold timer holds while it serves them.  A step reads or writes one  *)
(* thing that another thread writes, or several under that lock.           *)
(***************************************************************************)
EXTENDS Naturals

VARIABLES
    main,        \* what the main thread does next
    resume,      \* where the main thread was when the signal handler ran
    gServer,     \* g_server is set
    signal,      \* history: "none", "lost" (g_server was not set yet) or "taken"
    fullRunning, \* SfuServerFull::m_running
    baseRunning, \* SfuServerBase::m_running
    server,      \* "alive", "members gone" (~SfuServerFull is done) or "gone"
    stun,        \* what the STUN thread does next
    stunFd,      \* m_stunSocketFd is set
    willStart,   \* the server is in willStartList
    willStop,    \* the server is in willStopList
    poolRunning, \* SfuEvPool::running and ThreadInfo::running
    watchdog,    \* the watchdog thread runs
    loopDone,    \* ev_break was called on the loop
    loop,        \* what the loop thread does next
    evStopped,   \* OnEvStop has run
    misuse       \* the loop thread has called into a server that is gone

vars == <<main, resume, gServer, signal, fullRunning, baseRunning, server, stun, stunFd,
          willStart, willStop, poolRunning, watchdog, loopDone, loop, evStopped, misuse>>

caller == <<resume, gServer, signal>>
mainVars == <<main, caller>>
pool == <<poolRunning, watchdog>>
stunVars == <<stun, stunFd>>
loopVars == <<loop, evStopped, misuse>>
queues == <<willStart, willStop>>

Init ==
    /\ main = "boot"
    /\ resume = "none"
    /\ gServer = FALSE
    /\ signal = "none"
    /\ fullRunning = FALSE
    /\ baseRunning = FALSE
    /\ server = "alive"
    /\ stun = "none"
    /\ stunFd = FALSE
    /\ willStart = FALSE
    /\ willStop = FALSE
    /\ poolRunning = TRUE
    /\ watchdog = TRUE
    /\ loopDone = FALSE
    /\ loop = "poll"
    /\ evStopped = FALSE
    /\ misuse = FALSE

-----------------------------------------------------------------------------
(* The main thread: main and SfuServerFull::Start *)

Go(from, to) == main = from /\ main' = to

\* The pool runs and the signal handlers are installed; the configuration is read
\* and the server built before g_server is set.
Boot ==
    /\ Go("boot", "start")
    /\ gServer' = TRUE
    /\ UNCHANGED <<resume, signal, fullRunning, baseRunning, server, stunVars, queues,
                   pool, loopDone, loopVars>>

\* The sockets are opened, or Start fails.
StartSockets ==
    /\ main = "start"
    /\ main' \in {"spawn", "leave"}
    /\ UNCHANGED <<caller, fullRunning, baseRunning, server, stunVars, queues,
                   pool, loopDone, loopVars>>

StartStun ==
    /\ Go("spawn", "schedule")
    /\ stun' = "open"
    /\ UNCHANGED <<caller, fullRunning, baseRunning, server, stunFd, queues,
                   pool, loopDone, loopVars>>

\* The loop thread holds listMx.
ListsTaken == loop \in {"starts", "started", "stops", "stopped"}

\* EvStart
ScheduleStart ==
    /\ ~ListsTaken
    /\ Go("schedule", "running")
    /\ willStart' = TRUE
    /\ UNCHANGED <<caller, fullRunning, baseRunning, server, stunVars, willStop,
                   pool, loopDone, loopVars>>

StartDone ==
    /\ Go("running", "wait")
    /\ fullRunning' = TRUE
    /\ UNCHANGED <<caller, baseRunning, server, stunVars, queues,
                   pool, loopDone, loopVars>>

\* while (g_server) sleep(1): the signal ends the sleep.
LeaveWait ==
    /\ ~gServer
    /\ Go("wait", "leave")
    /\ UNCHANGED <<caller, fullRunning, baseRunning, server, stunVars, queues,
                   pool, loopDone, loopVars>>

-----------------------------------------------------------------------------
(* SfuServerFull::Stop, called by the signal handler and by the destructor *)

\* Mutant: Stop does not look at m_running.
SignalUnchecked ==
    /\ signal = "none"
    /\ gServer
    /\ main \in {"start", "spawn", "schedule", "running", "wait"}
    /\ main' = "stop"
    /\ resume' = main
    /\ signal' = "taken"
    /\ UNCHANGED <<gServer, fullRunning, baseRunning, server, stunVars, queues, pool, loopDone, loopVars>>

\* The signal handler, at any point of main up to the end of the wait; it returns
\* there.  It does nothing before g_server is set, and Stop does nothing while
\* m_running is not.
Signal ==
    /\ signal = "none"
    /\ main \in {"boot", "start", "spawn", "schedule", "running", "wait"}
    /\ signal' = IF gServer THEN "taken" ELSE "lost"
    /\ IF gServer /\ fullRunning
       THEN main' = "stop" /\ resume' = main /\ UNCHANGED gServer
       ELSE gServer' = FALSE /\ UNCHANGED <<main, resume>>
    /\ UNCHANGED <<fullRunning, baseRunning, server, stunVars, queues, pool, loopDone, loopVars>>

\* ~SfuServerFull calls Stop.
Destructor ==
    /\ main = "leave"
    /\ main' = IF fullRunning THEN "stop" ELSE "members"
    /\ resume' = "members"
    /\ gServer' = FALSE
    /\ UNCHANGED <<signal, fullRunning, baseRunning, server, stunVars, queues, pool, loopDone, loopVars>>

StopRunning ==
    /\ Go("stop", "close")
    /\ fullRunning' = FALSE
    /\ UNCHANGED <<caller, baseRunning, server, stunVars, queues, pool, loopDone, loopVars>>

StopCloseStun ==
    /\ Go("close", "join")
    /\ stunFd' = FALSE
    /\ UNCHANGED <<caller, fullRunning, baseRunning, server, stun, queues,
                   pool, loopDone, loopVars>>

\* Mutant: Stop does not wait for the STUN thread.
StopJoinStunNot ==
    /\ Go("join", "evstop")
    /\ UNCHANGED <<caller, fullRunning, baseRunning, server, stunVars, queues,
                   pool, loopDone, loopVars>>

StopJoinStun ==
    /\ stun \in {"none", "ended"}
    /\ Go("join", "evstop")
    /\ UNCHANGED <<caller, fullRunning, baseRunning, server, stunVars, queues,
                   pool, loopDone, loopVars>>

\* EvStop, and back to where Stop was called.
ScheduleStop ==
    /\ ~ListsTaken
    /\ Go("evstop", resume)
    /\ willStop' = TRUE
    /\ gServer' = FALSE
    /\ UNCHANGED <<resume, signal, fullRunning, baseRunning, server, stunVars, willStart,
                   pool, loopDone, loopVars>>

-----------------------------------------------------------------------------
(* The destructors, and SfuEvPool::Stop *)

\* The members of SfuServerFull are destroyed: sessions, streams, the thread object.
DestroyMembers ==
    /\ Go("members", "stopall")
    /\ server' = "members gone"
    /\ UNCHANGED <<caller, fullRunning, baseRunning, stunVars, queues,
                   pool, loopDone, loopVars>>

\* ~SfuServerBase: StopAll stops timers and watchers from this thread and breaks
\* the loop, if OnEvStop has not stopped them yet.
StopAll ==
    /\ Go("stopall", "pool")
    /\ baseRunning' = FALSE
    /\ loopDone' = (loopDone \/ baseRunning)
    /\ server' = "gone"
    /\ UNCHANGED <<caller, fullRunning, stunVars, queues, pool, loopVars>>

PoolStop ==
    /\ Go("pool", "poolJoin")
    /\ poolRunning' = FALSE
    /\ UNCHANGED <<caller, fullRunning, baseRunning, server, stunVars, queues, watchdog,
                   loopDone, loopVars>>

\* The watchdog and the loop thread are joined, then the loop is destroyed.
PoolJoin ==
    /\ ~watchdog
    /\ loop = "ended"
    /\ Go("poolJoin", "exit")
    /\ UNCHANGED <<caller, fullRunning, baseRunning, server, stunVars, queues,
                   pool, loopDone, loopVars>>

\* WatchdogFun looks at the flag every 700 ms.
WatchdogEnds ==
    /\ watchdog
    /\ ~poolRunning
    /\ watchdog' = FALSE
    /\ UNCHANGED <<mainVars, fullRunning, baseRunning, server, stunVars, queues, poolRunning,
                   loopDone, loopVars>>

-----------------------------------------------------------------------------
(* The STUN thread *)

\* The socket is opened and bound, or the thread gives up.
StunOpen ==
    /\ stun = "open"
    /\ \/ stun' = "check" /\ stunFd' = TRUE
       \/ stun' = "ended" /\ UNCHANGED stunFd
    /\ UNCHANGED <<mainVars, fullRunning, baseRunning, server, queues, pool, loopDone, loopVars>>


StunCheck ==
    /\ stun = "check"
    /\ stun' = IF fullRunning THEN "receive" ELSE "close"
    /\ UNCHANGED <<mainVars, fullRunning, baseRunning, server, stunFd, queues,
                   pool, loopDone, loopVars>>

\* recvfrom returns with a packet, an error or after the 3 s timeout.
StunReceive ==
    /\ stun = "receive"
    /\ stun' = "check"
    /\ UNCHANGED <<mainVars, fullRunning, baseRunning, server, stunFd, queues,
                   pool, loopDone, loopVars>>

StunClose ==
    /\ stun = "close"
    /\ stun' = "ended"
    /\ stunFd' = FALSE
    /\ UNCHANGED <<mainVars, fullRunning, baseRunning, server, queues, pool, loopDone, loopVars>>

-----------------------------------------------------------------------------
(* The loop thread *)

\* The hold timer is due.
HoldTimer ==
    /\ loop = "poll"
    /\ loop' = "hold"
    /\ UNCHANGED <<mainVars, fullRunning, baseRunning, server, stunVars, queues,
                   pool, loopDone, evStopped, misuse>>

\* Its callback: with the pool stopped it breaks the loop, otherwise it takes listMx.
HoldTimerCb ==
    /\ loop = "hold"
    /\ loop' = IF poolRunning THEN "starts" ELSE "after"
    /\ loopDone' = (loopDone \/ ~poolRunning)
    /\ UNCHANGED <<mainVars, fullRunning, baseRunning, server, stunVars, queues, pool, evStopped, misuse>>

\* The loop thread calls into the server, which the main thread may have destroyed.
CallsServer(called) == misuse' = (misuse \/ (called /\ server # "alive"))

\* Mutant: with a stop request waiting, the start request is left for the next time.
ServeStartsLater ==
    /\ loop = "starts"
    /\ willStart' = (willStart /\ willStop)
    /\ loop' = IF willStart /\ ~willStop /\ ~baseRunning THEN "started" ELSE "stops"
    /\ CallsServer(willStart /\ ~willStop)
    /\ UNCHANGED <<mainVars, fullRunning, baseRunning, server, stunVars, willStop,
                   pool, loopDone, evStopped>>

\* The start requests are served: OnEvStart does nothing for a server that runs ...
ServeStarts ==
    /\ loop = "starts"
    /\ willStart' = FALSE
    /\ loop' = IF willStart /\ ~baseRunning THEN "started" ELSE "stops"
    /\ CallsServer(willStart)
    /\ UNCHANGED <<mainVars, fullRunning, baseRunning, server, stunVars, willStop,
                   pool, loopDone, evStopped>>

\* ... and else starts its watchers and timers and sets m_running.
OnEvStartDone ==
    /\ loop = "started"
    /\ baseRunning' = TRUE
    /\ loop' = "stops"
    /\ CallsServer(TRUE)
    /\ UNCHANGED <<mainVars, fullRunning, server, stunVars, queues, pool, loopDone, evStopped>>

\* Then a stop request: OnEvStop clears m_running ...
ServeStops ==
    /\ loop = "stops"
    /\ willStop' = FALSE
    /\ baseRunning' = (baseRunning /\ ~willStop)
    /\ loop' = IF willStop THEN "stopped" ELSE "after"
    /\ CallsServer(willStop)
    /\ UNCHANGED <<mainVars, fullRunning, server, stunVars, willStart, pool, loopDone, evStopped>>

\* ... stops the watchers and timers, if it was set, and frees sessions and streams.
OnEvStopDone ==
    /\ loop = "stopped"
    /\ evStopped' = TRUE
    /\ loop' = "after"
    /\ CallsServer(TRUE)
    /\ UNCHANGED <<mainVars, fullRunning, baseRunning, server, stunVars, queues, pool, loopDone>>

\* A watcher of the running server fires: a UDP packet, a connection, data on one,
\* or the 500 ms or 1 s timer.
Handler ==
    /\ loop = "poll"
    /\ baseRunning
    /\ loop' = "handler"
    /\ UNCHANGED <<mainVars, fullRunning, baseRunning, server, stunVars, queues,
                   pool, loopDone, evStopped, misuse>>

\* Its callback uses the server to its end.
HandlerDone ==
    /\ loop = "handler"
    /\ loop' = "after"
    /\ CallsServer(TRUE)
    /\ UNCHANGED <<mainVars, fullRunning, baseRunning, server, stunVars, queues,
                   pool, loopDone, evStopped>>

\* ev_run goes on polling unless the loop was broken.
LoopNext ==
    /\ loop = "after"
    /\ loop' = IF loopDone THEN "ended" ELSE "poll"
    /\ UNCHANGED <<mainVars, fullRunning, baseRunning, server, stunVars, queues,
                   pool, loopDone, evStopped, misuse>>

-----------------------------------------------------------------------------

MainStep ==
    \/ Boot \/ StartSockets \/ StartStun \/ ScheduleStart \/ StartDone \/ LeaveWait
    \/ Destructor \/ StopRunning \/ StopCloseStun \/ StopJoinStun \/ ScheduleStop
    \/ DestroyMembers \/ StopAll \/ PoolStop \/ PoolJoin
StunStep == StunOpen \/ StunCheck \/ StunReceive \/ StunClose
LoopStep ==
    \/ HoldTimer \/ HoldTimerCb \/ ServeStarts \/ OnEvStartDone \/ ServeStops \/ OnEvStopDone
    \/ Handler \/ HandlerDone \/ LoopNext
Exited == main = "exit" /\ UNCHANGED vars

Next == MainStep \/ Signal \/ StunStep \/ LoopStep \/ WatchdogEnds \/ Exited

\* The kernel schedules every thread; the main thread gets listMx, which the loop
\* thread leaves free for the 5 ms between two hold timers; and the hold timer
\* fires whenever it is due, however busy the sockets are.
Fairness ==
    /\ SF_vars(MainStep)
    /\ WF_vars(StunStep)
    /\ WF_vars(LoopStep)
    /\ WF_vars(WatchdogEnds)
    /\ SF_vars(HoldTimer)

Spec == Init /\ [][Next]_vars /\ Fairness

-----------------------------------------------------------------------------
(* Properties *)

\* Every thread is at one of its steps; Stop returns to where it was called.
TypeOK ==
    /\ main \in {"boot", "start", "spawn", "schedule", "running", "wait", "leave", "stop", "close", "join",
                 "evstop", "members", "stopall", "pool", "poolJoin", "exit"}
    /\ resume \in {"none", "wait", "members"}
    /\ server \in {"alive", "members gone", "gone"}
    /\ stun \in {"none", "open", "check", "receive", "close", "ended"}
    /\ loop \in {"poll", "hold", "starts", "started", "stops", "stopped", "handler", "after", "ended"}
    /\ signal \in {"none", "lost", "taken"}
    /\ {gServer, fullRunning, baseRunning, stunFd, willStart, willStop, poolRunning,
        watchdog, loopDone, evStopped, misuse} \subseteq BOOLEAN

\* Whenever the signal comes, during Start included, the STUN thread, which uses
\* the server, has ended before the server's members are destroyed; destroying
\* a thread object that is still joinable would end the process.
StunEndsFirst == server # "alive" => stun \in {"none", "ended"}

\* A stop request that follows its start request closely, both waiting for the
\* hold timer, still leaves the server stopped.
StopIsFinal == evStopped => ~baseRunning


-----------------------------------------------------------------------------
(* What the source promises and the code does not keep *)

\* The usage text, "SIGINT/SIGTERM Shutdown server gracefully": a signal that comes
\* after the handlers are installed and before g_server is set does nothing.
SignalEnds == signal # "none" ~> main = "exit"

\* Sessions and streams are "cleaned up in OnEvStop, on the loop thread", after
\* which the loop calls nothing of the server: no handler of the loop thread
\* begins or ends on a server that the main thread has destroyed.
CleanupOnLoopThread == ~misuse

\* Start "starts the STUN service on a dedicated thread": it has not ended while
\* the server runs, unless it failed to open its socket.
StunServes == main = "wait" /\ fullRunning => stun # "close"

=============================================================================
