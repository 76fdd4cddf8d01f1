---------------------------- MODULE ClockServer ----------------------------
(***************************************************************************)
(* The clock server of clock_srv.c, its notifier, the 1 ms timer and its    *)
(* clients, tasks that exchange messages as in MessagePassing.  The server  *)
(* keeps the delayed tasks in a queue of module PriorityQueue.  A step of   *)
(* the server or notifier ends with each call of the kernel.  The name      *)
(* server is external: WhoIs("clock") returns once "clock" is registered.   *)
(***************************************************************************)
EXTENDS MessagePassing

CONSTANTS Clk,           \* the server's descriptor
          Notifier,      \* the notifier's
          Mortal,        \* bound: the clients that die and are born again
          MaxTasks,      \* MAX_TASKS, the size of the priority queue
          IntMax,        \* INT_MAX; addition wraps round to -IntMax - 1
          MaxOverflows,  \* bound: how often the timer overflows
          Delays,        \* the numbers of ticks that clients pass to Delay
          Times          \* the times they pass to DelayUntil

Clients == Task \ {Clk, Notifier}
ASSUME ClockAssumption == /\ FirstTasks \subseteq Task
                          /\ Clk \in FirstTasks /\ Notifier \in Task \ FirstTasks
                          /\ MaxTasks \in Nat /\ Task \subseteq 0 .. MaxTasks - 1
                          /\ IntMax \in Nat /\ MaxOverflows \in Nat

VARIABLES request, answer,   \* as in NameServer
          serving,           \* the TID of the client whose message is handled
          server,            \* "create", "register", "loop" or "undelay"
          notifier,          \* "none", "start", "whois", "await", "send" or "sent"
          ms_ticks,
          tids,              \* by the low byte of a TID
          delays, earliest, added,   \* the queue, its front, its last answer
          pending,           \* the timer's overflow flag
          overflows,         \* how often the timer has overflowed
          failed             \* an assert has failed

queueVars == <<delays, earliest, added>>
timerVars == <<pending, overflows>>
clkVars   == <<mpVars, request, answer, serving, server, notifier, ms_ticks,
               tids, queueVars, timerVars, failed>>

None     == [type |-> "none"]
NoAnswer == "none"
Wrap(n) == IF n > IntMax THEN n - 2 * (IntMax + 1) ELSE n

PQ == INSTANCE PriorityQueue WITH
          MaxSize <- MaxTasks, Keys <- -IntMax - 1 .. IntMax,
          queue <- delays, front <- earliest, answer <- added

ClkInit ==
    /\ MpInit /\ PQ!PqInit
    /\ request = [c \in Clients |-> None]
    /\ answer = [c \in Clients |-> NoAnswer]
    /\ serving = Nobody
    /\ server = "create"
    /\ notifier = "none"
    /\ ms_ticks = 0
    /\ tids = [c \in Task |-> Nobody]
    /\ pending = FALSE
    /\ overflows = 0
    /\ failed = FALSE

-----------------------------------------------------------------------------
(* The timer and the notifier *)

Registered == server \in {"loop", "undelay"}

\* The timer raises its flag; an overflow that finds it raised is lost.
Overflow ==
    /\ notifier # "none" /\ notifier # "start"
    /\ overflows < MaxOverflows
    /\ pending' = TRUE
    /\ overflows' = overflows + 1
    /\ UNCHANGED <<mpVars, request, answer, serving, server, notifier, ms_ticks,
                   tids, queueVars, failed>>

\* clksrv_notify up to WhoIs: the timer runs before the notifier awaits it.
NotifierStart ==
    /\ notifier = "start"
    /\ notifier' = "whois"
    /\ UNCHANGED <<mpVars, request, answer, serving, server, ms_ticks, tids,
                   queueVars, timerVars, failed>>

\* WhoIs("clock") returns; or Send does, and the loop comes to AwaitEvent.
NotifierAwait ==
    /\ \/ notifier = "whois" /\ Registered
       \/ notifier = "sent" /\ mode[Notifier] = "running"
    /\ notifier' = "await"
    /\ UNCHANGED <<mpVars, request, answer, serving, server, ms_ticks, tids,
                   queueVars, timerVars, failed>>

\* Mutant: the callback leaves the flag set.
NotifierIrqUncleared ==
    /\ notifier = "await"
    /\ pending
    /\ notifier' = "send"
    /\ UNCHANGED <<mpVars, request, answer, serving, server, ms_ticks, tids,
                   queueVars, timerVars, failed>>

\* The IRQ: clksrv_notify_cb clears the flag and AwaitEvent returns 0.
NotifierIrq ==
    /\ notifier = "await"
    /\ pending
    /\ pending' = FALSE
    /\ notifier' = "send"
    /\ UNCHANGED <<mpVars, request, answer, serving, server, ms_ticks, tids,
                   queueVars, overflows, failed>>

SendsToClock(t) ==
    \/ SendsToReceiver(t, Clk) /\ serving' = TidOf(t)
    \/ SendsToInbox(t, Clk) /\ UNCHANGED serving

NotifierSend ==
    /\ notifier = "send"
    /\ SendsToClock(Notifier)
    /\ notifier' = "sent"
    /\ UNCHANGED <<request, answer, server, ms_ticks, tids, queueVars, timerVars,
                   failed>>

-----------------------------------------------------------------------------
(* Clients.  at is the server's time when the call is made. *)

Ask(c, type, ticks) ==
    /\ Registered
    /\ SendsToClock(c)
    /\ request' = [request EXCEPT ![c] = [type |-> type, ticks |-> ticks, at |-> ms_ticks]]
    /\ answer' = [answer EXCEPT ![c] = NoAnswer]
    /\ UNCHANGED <<server, notifier, ms_ticks, tids, queueVars, timerVars, failed>>

ComeAndGo(c) ==
    /\ c \in Mortal
    /\ Born(c) \/ Dies(c)
    /\ answer' = [answer EXCEPT ![c] = NoAnswer]
    /\ UNCHANGED <<request, serving, server, notifier, ms_ticks, tids, queueVars,
                   timerVars, failed>>

ClientStep(c) ==
    \/ ComeAndGo(c)
    \/ Ask(c, "time", 0)
    \/ \E n \in Delays : Ask(c, "delay", n)
    \/ \E n \in Times : Ask(c, "delayuntil", n)

-----------------------------------------------------------------------------
(* The server *)

\* clksrv_init, and then RegisterAs("clock")
ServerCreate ==
    /\ server = "create"
    /\ Born(Notifier)
    /\ server' = "register"
    /\ notifier' = "start"
    /\ UNCHANGED <<request, answer, serving, ms_ticks, tids, queueVars, timerVars,
                   failed>>

ServerRegister ==
    /\ server = "register"
    /\ server' = "loop"
    /\ UNCHANGED <<mpVars, request, answer, serving, notifier, ms_ticks, tids,
                   queueVars, timerVars, failed>>

ServerReceive ==
    /\ server = "loop" /\ serving = Nobody
    /\ \/ ReceivesMessage(Clk) /\ serving' = TidOf(Head(inbox[Clk]))
       \/ WaitsForMessage(Clk) /\ UNCHANGED serving
    /\ UNCHANGED <<request, answer, server, notifier, ms_ticks, tids, queueVars,
                   timerVars, failed>>

CanReply(tid) == Alive(tid.ix) /\ TidOf(tid.ix) = tid /\ mode[tid.ix] = "received"

\* Reply to a client, or the failure of the assert on its result
Answer(tid, rply) ==
    IF CanReply(tid)
    THEN /\ IsAnswered(tid.ix)
         /\ request' = [request EXCEPT ![tid.ix] = None]
         /\ answer' = [answer EXCEPT ![tid.ix] = rply]
         /\ UNCHANGED failed
    ELSE failed' = TRUE /\ UNCHANGED <<mpVars, request, answer>>

Handling(type) == /\ server = "loop" /\ serving.ix \in Clients
                  /\ request[serving.ix].type = type

\* Mutant: the notifier is not answered.
HandleTickSilent ==
    /\ server = "loop" /\ serving.ix = Notifier
    /\ ms_ticks' = Wrap(ms_ticks + 1)
    /\ server' = "undelay"
    /\ serving' = Nobody
    /\ UNCHANGED <<mpVars, failed, request, answer, notifier, tids, queueVars, timerVars>>

\* CLKMSG_TICK: the notifier is answered first, then time goes on.
HandleTick ==
    /\ server = "loop" /\ serving.ix = Notifier
    /\ IF CanReply(serving) THEN IsAnswered(Notifier) /\ UNCHANGED failed
       ELSE failed' = TRUE /\ UNCHANGED mpVars
    /\ ms_ticks' = Wrap(ms_ticks + 1)
    /\ server' = "undelay"
    /\ serving' = Nobody
    /\ UNCHANGED <<request, answer, notifier, tids, queueVars, timerVars>>

HandleTime ==
    /\ Handling("time")
    /\ Answer(serving, "time")
    /\ serving' = Nobody
    /\ UNCHANGED <<server, notifier, ms_ticks, tids, queueVars, timerVars>>

When == LET r == request[serving.ix] IN
        IF r.type = "delay" THEN Wrap(ms_ticks + r.ticks) ELSE r.ticks

\* Mutant: a time that is just now counts as one to come.
LaterOrNow == {When >= ms_ticks}

\* What when_ticks > ms_ticks may be: the sum in the call may overflow, which C
\* leaves undefined, and gcc may compare the sum or msg.ticks with 0.
Later == {When > ms_ticks} \cup
         (LET r == request[serving.ix] IN IF r.type = "delay" THEN {r.ticks > 0} ELSE {})

\* clksrv_delayuntil queues a client whose time is to come.
Delay ==
    /\ Handling("delay") \/ Handling("delayuntil")
    /\ TRUE \in Later
    /\ PQ!PqAdd(serving.ix, When)
    /\ failed' = (added' # 0)
    /\ tids' = [tids EXCEPT ![serving.ix] = serving]
    /\ serving' = Nobody
    /\ UNCHANGED <<mpVars, request, answer, server, notifier, ms_ticks, timerVars>>

\* clksrv_delayuntil answers at once.
DelayPast ==
    /\ Handling("delay") \/ Handling("delayuntil")
    /\ FALSE \in Later
    /\ Answer(serving, IF When = ms_ticks THEN "ok" ELSE "past")
    /\ serving' = Nobody
    /\ UNCHANGED <<server, notifier, ms_ticks, tids, queueVars, timerVars>>

\* Mutant: tasks wake one tick too early.
DueEarly == delays # << >> /\ delays[earliest] <= ms_ticks + 1

Due == delays # << >> /\ delays[earliest] <= ms_ticks

\* Mutant: one task is woken at each tick.
UndelayOnce ==
    /\ server = "undelay" /\ ~failed
    /\ Due
    /\ Answer(tids[earliest], "ok")
    /\ PQ!PqPopMin
    /\ server' = "loop"
    /\ UNCHANGED <<serving, notifier, ms_ticks, tids, timerVars>>

\* One round of the loop of clksrv_undelay.  The task runs before it is off
\* the queue, which only the server sees.
Undelay ==
    /\ server = "undelay" /\ ~failed
    /\ Due
    /\ Answer(tids[earliest], "ok")
    /\ PQ!PqPopMin
    /\ UNCHANGED <<serving, server, notifier, ms_ticks, tids, timerVars>>

UndelayEnd ==
    /\ server = "undelay" /\ ~failed
    /\ ~Due
    /\ server' = "loop"
    /\ UNCHANGED <<mpVars, request, answer, serving, notifier, ms_ticks, tids,
                   queueVars, timerVars, failed>>

Handle == ~failed /\ (HandleTick \/ HandleTime \/ Delay \/ DelayPast)

ServerStep == \/ ServerCreate \/ ServerRegister \/ ServerReceive \/ Handle
              \/ Undelay \/ UndelayEnd

NotifierStep == NotifierStart \/ NotifierAwait \/ NotifierIrq \/ NotifierSend

ClkNext == Overflow \/ NotifierStep \/ ServerStep \/ \E c \in Clients : ClientStep(c)

ClkSpec == ClkInit /\ [][ClkNext]_clkVars

\* The server and the notifier run on (Kernel!NoStarvation).
ClkFairSpec == ClkSpec /\ WF_clkVars(ServerStep) /\ WF_clkVars(NotifierStep)

-----------------------------------------------------------------------------
(* Properties *)

\* "We should always have enough space": a delayed task is in the queue once
\* and its answer finds it waiting, although descriptors change hands (asserts).
\* For the tasks in the queue are the clients whose delay has been taken and not
\* answered, each with its own TID, and at Receive none of them is due.
DelaysExact ==
    /\ ~failed
    /\ DOMAIN delays = {c \in Clients : /\ mode[c] = "received" /\ TidOf(c) # serving
                                        /\ request[c].type \in {"delay", "delayuntil"}}
    /\ \A c \in DOMAIN delays : tids[c] = TidOf(c)
    /\ server = "loop" => \A c \in DOMAIN delays : delays[c] > ms_ticks

\* The clock is never fast: every tick of it, the one on its way included,
\* comes from an overflow of its own.
NeverFast ==
    LET OnItsWay == IF \/ notifier = "send"
                       \/ notifier = "sent" /\ mode[Notifier] # "running"
                    THEN 1 ELSE 0
    IN  ms_ticks + OnItsWay + (IF pending THEN 1 ELSE 0) <= overflows

\* A task never runs on before its time: not before ticks have gone by on the
\* server's clock since it called Delay, nor before the time it gave to
\* DelayUntil.
NeverEarly ==
    [][\A c \in Clients : answer[c] = NoAnswer /\ answer'[c] = "ok" =>
          \/ request[c].type = "delay" /\ ms_ticks' >= request[c].at + request[c].ticks
          \/ request[c].type = "delayuntil" /\ ms_ticks' >= request[c].ticks]_clkVars

\* Time goes on: an overflow that is flagged is counted.
TickCounted ==
    \A m \in 0 .. MaxOverflows - 1 : pending /\ ms_ticks = m ~> ms_ticks > m

\* Every call but a delay that is not due is answered.
Answered ==
    \A c \in Clients :
        request[c] # None ~> \/ request[c] = None
                             \/ c \in DOMAIN delays /\ delays[c] > ms_ticks
=============================================================================
