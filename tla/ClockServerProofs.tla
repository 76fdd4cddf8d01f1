------------------------- MODULE ClockServerProofs -------------------------
(***************************************************************************)
(* The clock server keeps its tables exact, never runs fast and wakes       *)
(* nobody early, for any number of clients, calls and descriptors that      *)
(* change hands, as long as its clock does not come to its end.             *)
(***************************************************************************)
EXTENDS ClockServer, MessagePassingProofs

\* No sum of the server overflows: the first 24.8 days.
BeforeItsEnd ==
    /\ MaxOverflows <= IntMax
    /\ \A n \in Delays : n \in Int /\ MaxOverflows + n <= IntMax
    /\ Times \subseteq Int

\* The server handles a task that is blocked for it, and only in its loop.
ServerInPlace ==
    /\ server \in {"create", "register", "loop", "undelay"}
    /\ mode[Clk] = "receiving" => server = "loop" /\ serving = Nobody
    /\ \/ serving = Nobody
       \/ /\ server = "loop"
          /\ serving.ix \in Task \ {Clk} /\ serving = TidOf(serving.ix)
          /\ mode[serving.ix] = "received"

\* The notifier is blocked only in its Send.
NotifierInPlace ==
    /\ notifier \in {"none", "start", "whois", "await", "send", "sent"}
    /\ notifier = "none" <=> server = "create"
    /\ notifier = "none" => mode[Notifier] = "dead"
    /\ notifier \in {"start", "whois", "await", "send"} => mode[Notifier] = "running"
    /\ notifier = "sent" => mode[Notifier] # "dead"
    /\ mode[Notifier] = "received" => serving.ix = Notifier

\* A client has a request exactly while it is blocked.
RequestsExact ==
    /\ DOMAIN request = Clients /\ DOMAIN answer = Clients
    /\ \A c \in Clients :
          IF mode[c] \in {"dead", "running"} THEN request[c] = None
          ELSE /\ request[c].type \in {"time", "delay", "delayuntil"}
               /\ request[c].at \in Int /\ request[c].at <= ms_ticks
               /\ request[c].type = "delay" => request[c].ticks \in Delays
               /\ request[c].type = "delayuntil" => request[c].ticks \in Times

\* What DelaysExact says, and the keys: they are not before the time asked for.
QueueExact ==
    /\ failed = FALSE
    /\ DOMAIN tids = Task
    /\ \A c \in DOMAIN delays : /\ c \in Clients /\ mode[c] = "received" /\ c # serving.ix
                                /\ request[c].type \in {"delay", "delayuntil"}
    /\ \A c \in Clients : mode[c] = "received" /\ c # serving.ix => c \in DOMAIN delays
    /\ delays = [c \in DOMAIN delays |-> delays[c]]
    /\ \A c \in DOMAIN delays :
          /\ tids[c] = TidOf(c)
          /\ delays[c] \in Int
          /\ request[c].type = "delay" => delays[c] >= request[c].at + request[c].ticks
          /\ request[c].type = "delayuntil" => delays[c] >= request[c].ticks
          /\ server = "loop" => delays[c] > ms_ticks
    /\ server \in {"create", "register"} => DOMAIN delays = {}
    /\ IF DOMAIN delays = {} THEN earliest = -1
       ELSE earliest \in DOMAIN delays /\ \A c \in DOMAIN delays : delays[earliest] <= delays[c]

TimeExact ==
    /\ ms_ticks \in Nat /\ overflows \in 0 .. MaxOverflows /\ pending \in BOOLEAN
    /\ NeverFast

ClkInv == /\ InboxExact(Clk) /\ ServerInPlace /\ NotifierInPlace /\ RequestsExact
          /\ QueueExact /\ TimeExact

-----------------------------------------------------------------------------
(* Facts *)

LEMMA Descriptors ==
    /\ Clk \in Task /\ Notifier \in Task /\ Notifier # Clk
    /\ MaxTasks \in Nat /\ IntMax \in Nat /\ MaxOverflows \in Nat
    /\ \A t \in Task : t \in 0 .. MaxTasks - 1 /\ t # -1
    /\ \A c : c \in Clients <=> c \in Task /\ c # Clk /\ c # Notifier
    /\ Nobody.ix = -1
BY ClockAssumption DEF Nobody, Clients

LEMMA TidFacts == \A t : TidOf(t).ix = t
BY DEF TidOf

\* A message to the server
LEMMA SendToClock ==
    ASSUME InboxExact(Clk), NEW t \in Task \ {Clk}, SendsToClock(t)
    PROVE  /\ InboxExact(Clk)'
           /\ mode[t] = "running"
           /\ \/ /\ mode' = [mode EXCEPT ![t] = "received", ![Clk] = "running"]
                 /\ mode[Clk] = "receiving" /\ serving' = TidOf(t)
              \/ mode' = [mode EXCEPT ![t] = "sending"] /\ serving' = serving
           /\ incarnation' = incarnation
BY Descriptors, SendKeepsInbox DEF SendsToClock, SendsToReceiver, SendsToInbox

-----------------------------------------------------------------------------
(* The timer and the notifier *)

LEMMA OverflowStep == ClkInv /\ Overflow => ClkInv'
<1> SUFFICES ASSUME ClkInv, Overflow PROVE ClkInv'
  OBVIOUS
<1> USE DEF ClkInv, Overflow, mpVars, queueVars
<1>1. InboxExact(Clk)' /\ ServerInPlace' /\ NotifierInPlace'
  BY DEF InboxExact, ServerInPlace, NotifierInPlace, TidOf
<1>2. RequestsExact' /\ QueueExact'
  BY DEF RequestsExact, QueueExact, TidOf
<1>3. TimeExact'
  BY Descriptors DEF TimeExact, NeverFast
<1> QED BY <1>1, <1>2, <1>3

LEMMA NotifierLocalStep ==
    ClkInv /\ (NotifierStart \/ NotifierAwait \/ NotifierIrq) => ClkInv'
<1> SUFFICES ASSUME ClkInv, NotifierStart \/ NotifierAwait \/ NotifierIrq PROVE ClkInv'
  OBVIOUS
<1>1. /\ UNCHANGED <<mpVars, request, answer, serving, server, ms_ticks, tids, queueVars,
                     overflows, failed>>
      /\ notifier # "none" /\ notifier' # "none" /\ mode[Notifier] = "running"
      /\ notifier' \in {"whois", "await", "send"}
      /\ IF notifier' = "send" THEN pending = TRUE /\ pending' = FALSE
         ELSE pending' = pending
      /\ notifier = "sent" => mode[Notifier] = "running"
      /\ notifier # "send"
  BY DEF ClkInv, NotifierStart, NotifierAwait, NotifierIrq, timerVars, NotifierInPlace,
         TimeExact
<1> USE <1>1 DEF ClkInv, mpVars, queueVars
<1>2. InboxExact(Clk)' /\ ServerInPlace' /\ NotifierInPlace'
  BY DEF InboxExact, ServerInPlace, NotifierInPlace, TidOf
<1>3. RequestsExact' /\ QueueExact'
  BY DEF RequestsExact, QueueExact, TidOf
<1>4. TimeExact'
  <2>1. CASE notifier' = "send"
    <3>1. pending = TRUE /\ pending' = FALSE
      BY <2>1
    <3>2. ms_ticks + 1 <= overflows /\ ms_ticks \in Nat /\ overflows \in 0 .. MaxOverflows
      BY <3>1 DEF TimeExact, NeverFast
    <3>3. (IF pending' THEN 1 ELSE 0) = 0
      BY <3>1
    <3>4. ms_ticks' = ms_ticks /\ overflows' = overflows
      OBVIOUS
    <3> HIDE <1>1 DEF ClkInv, mpVars, queueVars
    <3>5. NeverFast'
      BY <2>1, <3>2, <3>3, <3>4 DEF NeverFast
    <3> QED BY <3>1, <3>2, <3>4, <3>5 DEF TimeExact
  <2>2. CASE notifier' # "send"
    BY <2>2 DEF TimeExact, NeverFast
  <2> QED BY <2>1, <2>2
<1> QED BY <1>2, <1>3, <1>4

LEMMA NotifierSendStep == ClkInv /\ NotifierSend => ClkInv'
<1> SUFFICES ASSUME ClkInv, NotifierSend PROVE ClkInv'
  OBVIOUS
<1>1. /\ SendsToClock(Notifier) /\ notifier = "send" /\ notifier' = "sent"
      /\ UNCHANGED <<request, answer, server, ms_ticks, tids, delays, earliest, added,
                     pending, overflows, failed>>
      /\ Notifier \in Task \ {Clk}
  BY Descriptors DEF NotifierSend, queueVars, timerVars
<1>2. InboxExact(Clk)' /\ incarnation' = incarnation /\ mode[Notifier] = "running"
  BY <1>1, SendToClock DEF ClkInv
<1>3. \A t \in Task \ {Notifier, Clk} : mode'[t] = mode[t]
  BY <1>1, SendToClock DEF ClkInv, InboxExact
<1>4. \/ /\ mode'[Notifier] = "received" /\ serving' = TidOf(Notifier)
         /\ mode[Clk] = "receiving" /\ mode'[Clk] = "running"
         /\ serving = Nobody /\ server = "loop"
      \/ /\ mode'[Notifier] = "sending" /\ serving' = serving
         /\ mode'[Clk] = mode[Clk]
  BY <1>1, SendToClock, Descriptors DEF ClkInv, InboxExact, ServerInPlace
<1> USE Descriptors, TidFacts
<1>5. \A t : TidOf(t)' = TidOf(t)
  BY <1>2 DEF TidOf
<1>6. ServerInPlace'
  BY <1>1, <1>2, <1>3, <1>4, <1>5 DEF ClkInv, ServerInPlace
<1>7. NotifierInPlace'
  BY <1>1, <1>2, <1>3, <1>4 DEF ClkInv, ServerInPlace, NotifierInPlace
<1>8. RequestsExact'
  BY <1>1, <1>3 DEF ClkInv, RequestsExact
<1>9. QueueExact'
  BY <1>1, <1>2, <1>3, <1>4, <1>5, SMTT(30) DEF ClkInv, QueueExact
<1>10. TimeExact'
  BY <1>1, <1>2, <1>4 DEF ClkInv, TimeExact, NeverFast
<1> QED BY <1>2, <1>6, <1>7, <1>8, <1>9, <1>10 DEF ClkInv

-----------------------------------------------------------------------------
(* Clients *)

LEMMA ComeAndGoStep ==
    ASSUME ClkInv, NEW c \in Clients, ComeAndGo(c)
    PROVE  ClkInv'
<1>1. /\ c \in Task /\ c # Clk /\ c # Notifier
      /\ UNCHANGED <<request, serving, server, notifier, ms_ticks, tids, delays, earliest,
                     added, pending, overflows, failed>>
      /\ answer' = [answer EXCEPT ![c] = NoAnswer]
  BY Descriptors DEF ComeAndGo, queueVars, timerVars
<1>2. \/ mode[c] = "dead" /\ mode' = [mode EXCEPT ![c] = "running"]
         /\ incarnation' = incarnation /\ inbox' = inbox
      \/ mode[c] = "running" /\ mode' = [mode EXCEPT ![c] = "dead"]
         /\ incarnation' = [incarnation EXCEPT ![c] = (@ + 1) % Incarnations]
         /\ inbox' = [inbox EXCEPT ![c] = << >>]
  BY DEF ComeAndGo, Born, Dies, Alive
<1>3. InboxExact(Clk)'
  <2>1. /\ DOMAIN incarnation' = Task /\ DOMAIN inbox' = Task
        /\ inbox'[Clk] = inbox[Clk]
    BY <1>1, <1>2, Descriptors DEF ClkInv, InboxExact
  <2> QED BY <1>1, <1>2, <2>1, Descriptors, ModeKeepsInbox DEF ClkInv
<1>4. /\ \A t \in Task \ {c} : mode'[t] = mode[t] /\ TidOf(t)' = TidOf(t)
      /\ mode[c] \in {"dead", "running"} /\ mode'[c] \in {"dead", "running"}
  BY <1>1, <1>2 DEF ClkInv, InboxExact, TidOf
<1> USE Descriptors
<1>5. ServerInPlace'
  BY <1>1, <1>4 DEF ClkInv, ServerInPlace
<1>6. NotifierInPlace'
  BY <1>1, <1>4 DEF ClkInv, NotifierInPlace
<1>7. RequestsExact'
  BY <1>1, <1>4 DEF ClkInv, RequestsExact
<1>8. QueueExact'
  BY <1>1, <1>4, SMTT(30) DEF ClkInv, QueueExact
<1>9. TimeExact'
  BY <1>1, <1>4 DEF ClkInv, TimeExact, NeverFast
<1> QED BY <1>3, <1>5, <1>6, <1>7, <1>8, <1>9 DEF ClkInv

LEMMA AskStep ==
    ASSUME ClkInv, NEW c \in Clients, NEW type \in {"time", "delay", "delayuntil"},
           NEW ticks, type = "delay" => ticks \in Delays,
           type = "delayuntil" => ticks \in Times, Ask(c, type, ticks)
    PROVE  ClkInv'
<1>1. /\ c \in Task \ {Clk} /\ c # Notifier /\ SendsToClock(c)
      /\ UNCHANGED <<server, notifier, ms_ticks, tids, delays, earliest, added,
                     pending, overflows, failed>>
      /\ request' = [request EXCEPT ![c] = [type |-> type, ticks |-> ticks, at |-> ms_ticks]]
      /\ answer' = [answer EXCEPT ![c] = NoAnswer]
  BY Descriptors DEF Ask, queueVars, timerVars
<1>2. InboxExact(Clk)' /\ incarnation' = incarnation /\ mode[c] = "running"
  BY <1>1, SendToClock DEF ClkInv
<1>3. \A t \in Task \ {c, Clk} : mode'[t] = mode[t]
  BY <1>1, SendToClock DEF ClkInv, InboxExact
<1>4. \/ /\ mode'[c] = "received" /\ serving' = TidOf(c)
         /\ mode[Clk] = "receiving" /\ mode'[Clk] = "running"
         /\ serving = Nobody /\ server = "loop"
      \/ /\ mode'[c] = "sending" /\ serving' = serving
         /\ mode'[Clk] = mode[Clk]
  BY <1>1, SendToClock, Descriptors DEF ClkInv, InboxExact, ServerInPlace
<1> USE Descriptors, TidFacts
<1>5. \A t : TidOf(t)' = TidOf(t)
  BY <1>2 DEF TidOf
<1>6. ServerInPlace'
  BY <1>1, <1>2, <1>3, <1>4, <1>5 DEF ClkInv, ServerInPlace
<1>7. NotifierInPlace'
  BY <1>1, <1>2, <1>3, <1>4 DEF ClkInv, ServerInPlace, NotifierInPlace
<1>8. RequestsExact'
  BY <1>1, <1>3, <1>4 DEF ClkInv, RequestsExact, TimeExact
<1>9. QueueExact'
  <2>1. c \notin DOMAIN delays
    BY <1>2 DEF ClkInv, QueueExact
  <2>2. \A d \in Clients : d # c => request'[d] = request[d] /\ mode'[d] = mode[d]
    BY <1>1, <1>3 DEF ClkInv, RequestsExact
  <2>3. \A d \in DOMAIN delays : d \in Clients /\ d # c
    BY <2>1 DEF ClkInv, QueueExact
  <2>4. \A d \in Clients : d # c /\ d # serving'.ix <=> d # c /\ d # serving.ix
    BY <1>4, <2>1
  <2>5. \A d \in DOMAIN delays' :
           /\ d \in Clients /\ mode'[d] = "received" /\ d # serving'.ix
           /\ request'[d].type \in {"delay", "delayuntil"}
    BY <1>1, <2>2, <2>3, <2>4, SMTT(30) DEF ClkInv, QueueExact
  <2>6. \A d \in Clients : mode'[d] = "received" /\ d # serving'.ix => d \in DOMAIN delays'
    BY <1>1, <1>4, <2>2, <2>4 DEF ClkInv, QueueExact
  <2>7. ASSUME NEW d \in DOMAIN delays'
        PROVE  /\ tids'[d] = TidOf(d)'
               /\ delays'[d] \in Int
               /\ request'[d].type = "delay" => delays'[d] >= request'[d].at + request'[d].ticks
               /\ request'[d].type = "delayuntil" => delays'[d] >= request'[d].ticks
               /\ server' = "loop" => delays'[d] > ms_ticks'
    <3>1. /\ UNCHANGED <<delays, tids, server, ms_ticks>> /\ d \in DOMAIN delays
          /\ request'[d] = request[d] /\ TidOf(d)' = TidOf(d)
      BY <1>1, <1>5, <2>2, <2>3
    <3> QED BY <3>1 DEF ClkInv, QueueExact
  <2> QED BY <1>1, <2>5, <2>6, <2>7 DEF ClkInv, QueueExact
<1>10. TimeExact'
  BY <1>1, <1>3 DEF ClkInv, TimeExact, NeverFast
<1> QED BY <1>2, <1>6, <1>7, <1>8, <1>9, <1>10 DEF ClkInv

-----------------------------------------------------------------------------
(* The server *)

LEMMA ServerCreateStep == ClkInv /\ ServerCreate => ClkInv'
<1> SUFFICES ASSUME ClkInv, ServerCreate PROVE ClkInv'
  OBVIOUS
<1>1. /\ server = "create" /\ server' = "register" /\ notifier' = "start"
      /\ UNCHANGED <<request, answer, serving, ms_ticks, tids, delays, earliest, added,
                     pending, overflows, failed, incarnation, inbox>>
      /\ mode[Notifier] = "dead" /\ mode' = [mode EXCEPT ![Notifier] = "running"]
  BY DEF ServerCreate, Born, Alive, queueVars, timerVars
<1> USE Descriptors
<1>2. InboxExact(Clk)'
  BY <1>1, ModeKeepsInbox DEF ClkInv, InboxExact
<1>3. /\ \A t \in Task \ {Notifier} : mode'[t] = mode[t]
      /\ \A t : TidOf(t)' = TidOf(t)
      /\ mode'[Notifier] = "running" /\ notifier = "none"
  BY <1>1 DEF ClkInv, InboxExact, TidOf, NotifierInPlace
<1>4. ServerInPlace' /\ NotifierInPlace'
  BY <1>1, <1>3 DEF ClkInv, ServerInPlace, NotifierInPlace
<1>5. RequestsExact'
  BY <1>1, <1>3 DEF ClkInv, RequestsExact
<1>6. QueueExact'
  BY <1>1, <1>3 DEF ClkInv, QueueExact
<1>7. TimeExact'
  BY <1>1, <1>3 DEF ClkInv, TimeExact, NeverFast
<1> QED BY <1>2, <1>4, <1>5, <1>6, <1>7 DEF ClkInv

\* Back to Receive: nothing is due.
LEMMA ServerLocalStep == ClkInv /\ (ServerRegister \/ UndelayEnd) => ClkInv'
<1> SUFFICES ASSUME ClkInv, ServerRegister \/ UndelayEnd PROVE ClkInv'
  OBVIOUS
<1>1. /\ server \in {"register", "undelay"} /\ server' = "loop"
      /\ UNCHANGED <<mode, incarnation, inbox, request, answer, serving, notifier, ms_ticks,
                     tids, delays, earliest, added, pending, overflows, failed>>
      /\ server = "undelay" => ~Due
  BY DEF ServerRegister, UndelayEnd, mpVars, queueVars, timerVars
<1>2. \A t : TidOf(t)' = TidOf(t)
  BY <1>1 DEF TidOf
<1>3. InboxExact(Clk)' /\ ServerInPlace' /\ NotifierInPlace' /\ RequestsExact'
  BY <1>1, <1>2 DEF ClkInv, InboxExact, ServerInPlace, NotifierInPlace, RequestsExact
<1>4. ASSUME NEW c \in DOMAIN delays PROVE delays[c] > ms_ticks
  <2>1. delays # << >>
    OBVIOUS
  <2>2. CASE server = "undelay"
    BY <1>1, <2>1, <2>2 DEF Due, ClkInv, QueueExact, TimeExact
  <2>3. CASE server = "register"
    BY <2>3 DEF ClkInv, QueueExact
  <2> QED BY <1>1, <2>2, <2>3
<1>5. QueueExact'
  BY <1>1, <1>2, <1>4 DEF ClkInv, QueueExact
<1>6. TimeExact'
  BY <1>1 DEF ClkInv, TimeExact, NeverFast
<1> QED BY <1>3, <1>5, <1>6 DEF ClkInv

LEMMA ServerReceiveStep == ClkInv /\ ServerReceive => ClkInv'
<1> SUFFICES ASSUME ClkInv, ServerReceive PROVE ClkInv'
  OBVIOUS
<1>1. /\ server = "loop" /\ serving = Nobody
      /\ UNCHANGED <<request, answer, server, notifier, ms_ticks, tids, delays, earliest,
                     added, pending, overflows, failed>>
  BY DEF ServerReceive, queueVars, timerVars
<1> USE Descriptors, TidFacts
<1>2. CASE WaitsForMessage(Clk) /\ UNCHANGED serving
  <2>1. /\ mode' = [mode EXCEPT ![Clk] = "receiving"] /\ mode[Clk] = "running"
        /\ incarnation' = incarnation /\ inbox' = inbox /\ serving' = serving
        /\ inbox[Clk] = << >>
    BY <1>2 DEF WaitsForMessage
  <2>2. /\ \A t \in Task \ {Clk} : mode'[t] = mode[t]
        /\ \A t : TidOf(t)' = TidOf(t)
        /\ mode'[Clk] = "receiving"
    BY <2>1 DEF ClkInv, InboxExact, TidOf
  <2>3. InboxExact(Clk)'
    BY <2>1, <2>2 DEF ClkInv, InboxExact
  <2>4. ServerInPlace' /\ NotifierInPlace'
    BY <1>1, <2>1, <2>2 DEF ClkInv, ServerInPlace, NotifierInPlace
  <2>5. RequestsExact'
    BY <1>1, <2>2 DEF ClkInv, RequestsExact
  <2>6. QueueExact'
    BY <1>1, <2>1, <2>2 DEF ClkInv, QueueExact
  <2>7. TimeExact'
    BY <1>1, <2>2 DEF ClkInv, TimeExact, NeverFast
  <2> QED BY <2>3, <2>4, <2>5, <2>6, <2>7 DEF ClkInv
<1>3. CASE ReceivesMessage(Clk) /\ serving' = TidOf(Head(inbox[Clk]))
  <2>1. PICK h : h = Head(inbox[Clk])
    OBVIOUS
  <2>2. /\ InboxExact(Clk)' /\ h \in Task \ {Clk} /\ mode[h] = "sending"
        /\ mode' = [mode EXCEPT ![h] = "received"] /\ incarnation' = incarnation
        /\ serving' = TidOf(h) /\ mode[Clk] = "running"
    BY <1>3, <2>1, ReceiveKeepsInbox DEF ClkInv, ReceivesMessage
  <2>3. /\ \A t \in Task \ {h} : mode'[t] = mode[t]
        /\ \A t : TidOf(t)' = TidOf(t)
        /\ mode'[h] = "received" /\ serving'.ix = h
    BY <2>2 DEF ClkInv, InboxExact, TidOf
  <2>4. ServerInPlace'
    BY <1>1, <2>2, <2>3 DEF ClkInv, ServerInPlace
  <2>5. NotifierInPlace'
    BY <1>1, <2>2, <2>3 DEF ClkInv, NotifierInPlace
  <2>6. RequestsExact'
    BY <1>1, <2>2, <2>3 DEF ClkInv, RequestsExact
  <2>7. QueueExact'
    <3>1. \A c \in DOMAIN delays : c # h /\ c \in Clients
      BY <2>2 DEF ClkInv, QueueExact
    <3> QED BY <1>1, <2>2, <2>3, <3>1 DEF ClkInv, QueueExact
  <2>8. TimeExact'
    BY <1>1, <2>2, <2>3 DEF ClkInv, TimeExact, NeverFast
  <2> QED BY <2>2, <2>4, <2>5, <2>6, <2>7, <2>8 DEF ClkInv
<1> QED BY <1>2, <1>3 DEF ServerReceive

LEMMA HandleTickStep ==
    ASSUME BeforeItsEnd, ClkInv, HandleTick
    PROVE  ClkInv'
<1> USE Descriptors, TidFacts
<1>1. /\ server = "loop" /\ server' = "undelay" /\ serving.ix = Notifier
      /\ serving' = Nobody /\ ms_ticks' = Wrap(ms_ticks + 1)
      /\ UNCHANGED <<request, answer, notifier, tids, delays, earliest, added,
                     pending, overflows>>
  BY DEF HandleTick, queueVars, timerVars
<1>2. /\ serving = TidOf(Notifier) /\ mode[Notifier] = "received"
      /\ notifier = "sent" /\ mode[Clk] = "running"
  BY <1>1 DEF ClkInv, ServerInPlace, NotifierInPlace, InboxExact
<1>3. CanReply(serving)
  BY <1>1, <1>2 DEF CanReply, Alive
<1>4. /\ mode' = [mode EXCEPT ![Notifier] = "running"] /\ failed' = failed
      /\ incarnation' = incarnation /\ inbox' = inbox
  BY <1>3 DEF HandleTick, IsAnswered
<1>5. InboxExact(Clk)'
  BY <1>2, <1>4, ModeKeepsInbox DEF ClkInv, InboxExact
<1>6. /\ \A t \in Task \ {Notifier} : mode'[t] = mode[t]
      /\ \A t : TidOf(t)' = TidOf(t)
      /\ mode'[Notifier] = "running"
  BY <1>4 DEF ClkInv, InboxExact, TidOf
<1>7. /\ ms_ticks \in Nat /\ overflows \in 0 .. MaxOverflows
      /\ ms_ticks + 1 + (IF pending THEN 1 ELSE 0) <= overflows
  BY <1>2 DEF ClkInv, TimeExact, NeverFast
<1>8. ms_ticks' = ms_ticks + 1
  BY <1>1, <1>7 DEF Wrap, BeforeItsEnd
<1>9. ServerInPlace' /\ NotifierInPlace'
  BY <1>1, <1>2, <1>6 DEF ClkInv, ServerInPlace, NotifierInPlace
<1>10. RequestsExact'
  BY <1>1, <1>6, <1>7, <1>8 DEF ClkInv, RequestsExact
<1>11. QueueExact'
  BY <1>1, <1>4, <1>6 DEF ClkInv, QueueExact
<1>12. TimeExact'
  BY <1>1, <1>2, <1>6, <1>7, <1>8 DEF ClkInv, TimeExact, NeverFast
<1> QED BY <1>5, <1>9, <1>10, <1>11, <1>12 DEF ClkInv

\* The server answers a client that it serves or that is delayed.
LEMMA AnswerFacts ==
    ASSUME ClkInv, NEW c \in Clients, mode[c] = "received", NEW rply, Answer(TidOf(c), rply)
    PROVE  /\ InboxExact(Clk)' /\ failed' = failed /\ incarnation' = incarnation
           /\ \A t \in Task \ {c} : mode'[t] = mode[t]
           /\ \A t : TidOf(t)' = TidOf(t)
           /\ mode'[c] = "running"
           /\ request' = [request EXCEPT ![c] = None]
           /\ answer' = [answer EXCEPT ![c] = rply]
<1> USE Descriptors, TidFacts
<1>1. CanReply(TidOf(c))
  BY DEF CanReply, Alive
<1>2. /\ mode' = [mode EXCEPT ![c] = "running"] /\ failed' = failed
      /\ incarnation' = incarnation /\ inbox' = inbox
      /\ request' = [request EXCEPT ![c] = None]
      /\ answer' = [answer EXCEPT ![c] = rply]
  BY <1>1 DEF Answer, IsAnswered
<1>3. InboxExact(Clk)'
  BY <1>2, ModeKeepsInbox DEF ClkInv, InboxExact
<1>4. \A t \in Task \ {c} : mode'[t] = mode[t]
  BY <1>2 DEF ClkInv, InboxExact
<1>5. mode'[c] = "running"
  BY <1>2 DEF ClkInv, InboxExact
<1>6. \A t : TidOf(t)' = TidOf(t)
  BY <1>2 DEF TidOf
<1> QED BY <1>2, <1>3, <1>4, <1>5, <1>6

LEMMA AnswerServedStep == ClkInv /\ (HandleTime \/ DelayPast) => ClkInv'
<1> SUFFICES ASSUME ClkInv, HandleTime \/ DelayPast PROVE ClkInv'
  OBVIOUS
<1> USE Descriptors, TidFacts
<1>1. PICK c \in Clients : c = serving.ix
  BY DEF HandleTime, DelayPast, Handling
<1>2. /\ server = "loop" /\ serving' = Nobody
      /\ UNCHANGED <<server, notifier, ms_ticks, tids, delays, earliest, added,
                     pending, overflows>>
      /\ \E rply : Answer(serving, rply)
  BY DEF HandleTime, DelayPast, Handling, queueVars, timerVars
<1>3. serving = TidOf(c) /\ mode[c] = "received" /\ c \in Task /\ c # Clk /\ c # Notifier
  BY <1>1 DEF ClkInv, ServerInPlace
<1>4. PICK rply : Answer(TidOf(c), rply)
  BY <1>2, <1>3
<1>5. /\ InboxExact(Clk)' /\ failed' = failed /\ incarnation' = incarnation
      /\ \A t \in Task \ {c} : mode'[t] = mode[t]
      /\ \A t : TidOf(t)' = TidOf(t)
      /\ mode'[c] = "running"
      /\ request' = [request EXCEPT ![c] = None]
      /\ answer' = [answer EXCEPT ![c] = rply]
  BY <1>3, <1>4, AnswerFacts
<1>6. mode[Clk] = "running" /\ mode'[Clk] = "running"
  BY <1>1, <1>3, <1>5 DEF ClkInv, InboxExact, ServerInPlace
<1>7. ServerInPlace' /\ NotifierInPlace'
  BY <1>1, <1>2, <1>3, <1>5, <1>6 DEF ClkInv, ServerInPlace, NotifierInPlace
<1>8. RequestsExact'
  BY <1>2, <1>3, <1>5 DEF ClkInv, RequestsExact
<1>9. QueueExact'
  <2>1. \A d \in DOMAIN delays : d # c /\ d \in Clients
    BY <1>1 DEF ClkInv, QueueExact
  <2>2. \A d \in Clients : d # c => request'[d] = request[d] /\ mode'[d] = mode[d]
    BY <1>5 DEF ClkInv, RequestsExact
  <2>3. \A d \in Clients : d # c => (d # serving'.ix <=> d # serving.ix)
    BY <1>1, <1>2
  <2>4. \A d \in DOMAIN delays' :
           /\ d \in Clients /\ mode'[d] = "received" /\ d # serving'.ix
           /\ request'[d].type \in {"delay", "delayuntil"}
    BY <1>2, <2>1, <2>2, <2>3 DEF ClkInv, QueueExact
  <2>5. \A d \in Clients : mode'[d] = "received" /\ d # serving'.ix => d \in DOMAIN delays'
    BY <1>2, <1>5, <2>2, <2>3 DEF ClkInv, QueueExact
  <2>6. \A d \in DOMAIN delays' :
           /\ tids'[d] = TidOf(d)'
           /\ delays'[d] \in Int
           /\ request'[d].type = "delay" => delays'[d] >= request'[d].at + request'[d].ticks
           /\ request'[d].type = "delayuntil" => delays'[d] >= request'[d].ticks
           /\ server' = "loop" => delays'[d] > ms_ticks'
    BY <1>2, <1>5, <2>1, <2>2 DEF ClkInv, QueueExact
  <2> QED BY <1>2, <1>5, <2>4, <2>5, <2>6 DEF ClkInv, QueueExact
<1>10. TimeExact'
  BY <1>2, <1>3, <1>5 DEF ClkInv, TimeExact, NeverFast
<1> QED BY <1>5, <1>7, <1>8, <1>9, <1>10 DEF ClkInv

\* The sum of the server's time and a delay is exact.
LEMMA WhenIs ==
    ASSUME BeforeItsEnd, ClkInv, NEW c \in Clients, serving.ix = c,
           request[c].type \in {"delay", "delayuntil"}
    PROVE  /\ When \in Int /\ ms_ticks \in Nat
           /\ request[c].type = "delay" => When = ms_ticks + request[c].ticks
           /\ request[c].type = "delayuntil" => When = request[c].ticks
           /\ request[c].at \in Int /\ request[c].at <= ms_ticks
           /\ request[c].ticks \in Int
           /\ TRUE \in Later <=> When > ms_ticks
           /\ FALSE \in Later <=> ~ (When > ms_ticks)
<1>1. mode[c] \notin {"dead", "running"}
  BY Descriptors DEF ClkInv, ServerInPlace
<1>2. /\ request[c].at \in Int /\ request[c].at <= ms_ticks
      /\ request[c].type = "delay" => request[c].ticks \in Delays
      /\ request[c].type = "delayuntil" => request[c].ticks \in Times
  BY <1>1 DEF ClkInv, RequestsExact
<1>3. /\ ms_ticks \in Nat /\ overflows \in 0 .. MaxOverflows /\ ms_ticks <= overflows
      /\ MaxOverflows \in Nat /\ IntMax \in Nat
  BY Descriptors DEF ClkInv, TimeExact, NeverFast
<1>4. CASE request[c].type = "delay"
  <2>1. request[c].ticks \in Int /\ ms_ticks + request[c].ticks <= IntMax
    BY <1>2, <1>3, <1>4 DEF BeforeItsEnd
  <2>2. When = ms_ticks + request[c].ticks
    BY <1>3, <1>4, <2>1 DEF When, Wrap
  <2>3. (request[c].ticks > 0) = (When > ms_ticks)
    BY <1>3, <2>1, <2>2
  <2>4. Later = {When > ms_ticks} \cup {request[c].ticks > 0}
    BY <1>4 DEF Later
  <2>5. Later = {When > ms_ticks}
    BY <2>3, <2>4, Zenon
  <2>6. (When > ms_ticks) \in BOOLEAN
    OBVIOUS
  <2>7. TRUE \in Later <=> When > ms_ticks
    BY <2>5, <2>6, Zenon
  <2>8. FALSE \in Later <=> ~ (When > ms_ticks)
    BY <2>5, <2>6, Zenon
  <2>9. /\ When \in Int /\ ms_ticks \in Nat
        /\ request[c].type = "delay" => When = ms_ticks + request[c].ticks
        /\ request[c].type = "delayuntil" => When = request[c].ticks
        /\ request[c].at \in Int /\ request[c].at <= ms_ticks
        /\ request[c].ticks \in Int
    BY <1>2, <1>3, <1>4, <2>1, <2>2
  <2> QED BY <2>7, <2>8, <2>9, Zenon
<1>5. CASE request[c].type = "delayuntil"
  <2>1. When = request[c].ticks /\ request[c].ticks \in Int
    BY <1>2, <1>5 DEF When, BeforeItsEnd
  <2>2. request[c].type # "delay"
    BY <1>5
  <2>3. Later = {When > ms_ticks} \cup {}
    BY <2>2, Zenon DEF Later
  <2>4. (When > ms_ticks) \in BOOLEAN
    OBVIOUS
  <2>5. TRUE \in Later <=> When > ms_ticks
    BY <2>3, <2>4, Zenon
  <2>6. FALSE \in Later <=> ~ (When > ms_ticks)
    BY <2>3, <2>4, Zenon
  <2> QED BY <1>2, <1>3, <1>5, <2>1, <2>5, <2>6
<1> QED BY <1>4, <1>5

LEMMA DelayStep ==
    ASSUME BeforeItsEnd, ClkInv, Delay
    PROVE  ClkInv'
<1> USE Descriptors, TidFacts
<1>1. PICK c \in Clients : c = serving.ix
  BY DEF Delay, Handling
<1>2. /\ server = "loop" /\ serving' = Nobody
      /\ UNCHANGED <<mode, incarnation, inbox, request, answer, server, notifier, ms_ticks,
                     pending, overflows>>
      /\ request[c].type \in {"delay", "delayuntil"} /\ TRUE \in Later
      /\ tids' = [tids EXCEPT ![c] = serving]
      /\ PQ!PqAdd(c, When) /\ failed' = (added' # 0)
  BY <1>1 DEF Delay, Handling, mpVars, timerVars
<1>3. serving = TidOf(c) /\ mode[c] = "received" /\ c \in Task /\ c # Clk /\ c # Notifier
  BY <1>1 DEF ClkInv, ServerInPlace
<1>4. c \in 0 .. MaxTasks - 1 /\ c \notin DOMAIN delays
  BY <1>1, <1>3 DEF ClkInv, QueueExact
<1>5. /\ delays' = [u \in DOMAIN delays \cup {c} |-> IF u = c THEN When ELSE delays[u]]
      /\ earliest' \in PQ!Least(delays') /\ added' = 0
  BY <1>2, <1>4 DEF PQ!PqAdd, PQ!Vals, PQ!Becomes, PQ!With
<1>6. /\ When \in Int /\ When > ms_ticks
      /\ request[c].type = "delay" => When >= request[c].at + request[c].ticks
      /\ request[c].type = "delayuntil" => When >= request[c].ticks
  <2>1. When > ms_ticks
    BY <1>1, <1>2, WhenIs, Zenon
  <2>2. /\ When \in Int /\ ms_ticks \in Nat
        /\ request[c].type = "delay" => When = ms_ticks + request[c].ticks
        /\ request[c].type = "delayuntil" => When = request[c].ticks
        /\ request[c].at \in Int /\ request[c].at <= ms_ticks
        /\ request[c].ticks \in Int
    BY <1>1, <1>2, WhenIs, Zenon
  <2> QED BY <2>1, <2>2
<1>7. \A t : TidOf(t)' = TidOf(t)
  BY <1>2 DEF TidOf
<1>8. InboxExact(Clk)' /\ ServerInPlace' /\ NotifierInPlace'
  BY <1>1, <1>2, <1>3, <1>7 DEF ClkInv, InboxExact, ServerInPlace, NotifierInPlace
<1>9. RequestsExact'
  BY <1>2 DEF ClkInv, RequestsExact
<1>10. QueueExact'
  <2>1. /\ DOMAIN delays' = DOMAIN delays \cup {c} /\ delays'[c] = When
        /\ \A d \in DOMAIN delays : d # c /\ d \in Clients /\ d \in Task /\ delays'[d] = delays[d]
        /\ delays' = [d \in DOMAIN delays' |-> delays'[d]]
    BY <1>4, <1>5 DEF ClkInv, QueueExact
  <2>2. /\ earliest' \in DOMAIN delays' /\ DOMAIN delays' # {}
        /\ \A d \in DOMAIN delays' : delays'[earliest'] <= delays'[d]
    BY <1>5, <2>1 DEF PQ!Least
  <2>3. failed' = FALSE /\ DOMAIN tids' = Task
    BY <1>2, <1>5 DEF ClkInv, QueueExact
  <2>4. \A d \in DOMAIN delays' :
           /\ d \in Clients /\ mode'[d] = "received" /\ d # serving'.ix
           /\ request'[d].type \in {"delay", "delayuntil"}
    BY <1>2, <1>3, <2>1 DEF ClkInv, QueueExact
  <2>5. \A d \in Clients : mode'[d] = "received" /\ d # serving'.ix => d \in DOMAIN delays'
    BY <1>1, <1>2, <2>1 DEF ClkInv, QueueExact
  <2>6. ASSUME NEW d \in DOMAIN delays'
        PROVE  /\ tids'[d] = TidOf(d)'
               /\ delays'[d] \in Int
               /\ request'[d].type = "delay" => delays'[d] >= request'[d].at + request'[d].ticks
               /\ request'[d].type = "delayuntil" => delays'[d] >= request'[d].ticks
               /\ server' = "loop" => delays'[d] > ms_ticks'
    <3>1. CASE d = c
      BY <1>2, <1>3, <1>6, <1>7, <2>1, <3>1 DEF ClkInv, QueueExact
    <3>2. CASE d # c
      BY <1>2, <1>3, <1>7, <2>1, <3>2 DEF ClkInv, QueueExact
    <3> QED BY <3>1, <3>2
  <2> QED BY <1>2, <2>1, <2>2, <2>3, <2>4, <2>5, <2>6 DEF QueueExact
<1>11. TimeExact'
  BY <1>2 DEF ClkInv, TimeExact, NeverFast
<1> QED BY <1>8, <1>9, <1>10, <1>11 DEF ClkInv

LEMMA UndelayStep == ClkInv /\ Undelay => ClkInv'
<1> SUFFICES ASSUME ClkInv, Undelay PROVE ClkInv'
  OBVIOUS
<1> USE Descriptors, TidFacts
<1>1. /\ server = "undelay"
      /\ UNCHANGED <<serving, server, notifier, ms_ticks, tids, pending, overflows>>
      /\ PQ!PqPopMin /\ Answer(tids[earliest], "ok")
  BY DEF Undelay, timerVars
<1>2. /\ earliest \in DOMAIN delays
      /\ delays' = PQ!Restrict(delays, DOMAIN delays \ {earliest})
      /\ earliest' \in PQ!Least(delays')
  <2>1. earliest # -1
    BY <1>1 DEF PQ!PqPopMin, PQ!NoVal
  <2>2. earliest \in DOMAIN delays
    BY <2>1 DEF ClkInv, QueueExact
  <2> QED BY <1>1, <2>2 DEF PQ!PqPopMin, PQ!Becomes
<1>3. PICK c \in Clients : c = earliest
  BY <1>2 DEF ClkInv, QueueExact
<1>4. /\ c \in Task /\ c # Clk /\ c # Notifier
      /\ tids[c] = TidOf(c) /\ mode[c] = "received" /\ serving = Nobody
  BY <1>1, <1>2, <1>3 DEF ClkInv, QueueExact, ServerInPlace
<1>5. /\ InboxExact(Clk)' /\ failed' = failed /\ incarnation' = incarnation
      /\ \A t \in Task \ {c} : mode'[t] = mode[t]
      /\ \A t : TidOf(t)' = TidOf(t)
      /\ mode'[c] = "running"
      /\ request' = [request EXCEPT ![c] = None]
      /\ answer' = [answer EXCEPT ![c] = "ok"]
  BY <1>1, <1>3, <1>4, AnswerFacts
<1>6. ServerInPlace' /\ NotifierInPlace'
  <2>1. mode[Clk] = "running" /\ mode'[Clk] = "running"
    BY <1>1, <1>4, <1>5 DEF ClkInv, InboxExact, ServerInPlace
  <2> QED BY <1>1, <1>4, <1>5, <2>1 DEF ClkInv, ServerInPlace, NotifierInPlace
<1>7. RequestsExact'
  BY <1>1, <1>4, <1>5 DEF ClkInv, RequestsExact
<1>8. QueueExact'
  <2>1. /\ DOMAIN delays' = DOMAIN delays \ {c}
        /\ \A d \in DOMAIN delays' : d # c /\ d \in Clients /\ delays'[d] = delays[d]
        /\ delays' = [d \in DOMAIN delays' |-> delays'[d]]
    BY <1>2, <1>3 DEF PQ!Restrict, ClkInv, QueueExact
  <2>2. IF DOMAIN delays' = {} THEN earliest' = -1
        ELSE earliest' \in DOMAIN delays' /\ \A d \in DOMAIN delays' : delays'[earliest'] <= delays'[d]
    BY <1>2 DEF PQ!Least, PQ!NoVal
  <2>3. \A d \in Clients : d # c => request'[d] = request[d] /\ mode'[d] = mode[d]
    BY <1>5 DEF ClkInv, RequestsExact
  <2>4. \A d \in DOMAIN delays' :
           /\ d \in Clients /\ mode'[d] = "received" /\ d # serving'.ix
           /\ request'[d].type \in {"delay", "delayuntil"}
    BY <1>1, <2>1, <2>3 DEF ClkInv, QueueExact
  <2>5. \A d \in Clients : mode'[d] = "received" /\ d # serving'.ix => d \in DOMAIN delays'
    BY <1>1, <1>5, <2>1, <2>3 DEF ClkInv, QueueExact
  <2>6. \A d \in DOMAIN delays' :
           /\ tids'[d] = TidOf(d)'
           /\ delays'[d] \in Int
           /\ request'[d].type = "delay" => delays'[d] >= request'[d].at + request'[d].ticks
           /\ request'[d].type = "delayuntil" => delays'[d] >= request'[d].ticks
           /\ server' = "loop" => delays'[d] > ms_ticks'
    BY <1>1, <1>5, <2>1, <2>3 DEF ClkInv, QueueExact
  <2> QED BY <1>1, <1>5, <2>1, <2>2, <2>4, <2>5, <2>6 DEF ClkInv, QueueExact
<1>9. TimeExact'
  BY <1>1, <1>4, <1>5 DEF ClkInv, TimeExact, NeverFast
<1> QED BY <1>5, <1>6, <1>7, <1>8, <1>9 DEF ClkInv

LEMMA ClkInvInit == ClkInit => ClkInv
<1> SUFFICES ASSUME ClkInit PROVE ClkInv
  OBVIOUS
<1> USE Descriptors
<1>1. /\ mode = [t \in Task |-> IF t \in FirstTasks THEN "running" ELSE "dead"]
      /\ incarnation = [t \in Task |-> 0] /\ inbox = [t \in Task |-> << >>]
      /\ Clk \in FirstTasks /\ Notifier \notin FirstTasks
  BY ClockAssumption DEF ClkInit, MpInit
<1>2. InboxExact(Clk)
  BY <1>1 DEF InboxExact
<1>3. ServerInPlace /\ NotifierInPlace
  BY <1>1 DEF ClkInit, ServerInPlace, NotifierInPlace
<1>4. RequestsExact
  BY <1>1 DEF ClkInit, RequestsExact
<1>5. QueueExact
  BY <1>1 DEF ClkInit, QueueExact, PQ!PqInit, PQ!NoVal
<1>6. TimeExact
  <2>1. /\ ms_ticks = 0 /\ overflows = 0 /\ pending = FALSE /\ notifier = "none"
    BY DEF ClkInit
  <2>2. (IF pending THEN 1 ELSE 0) = 0
    BY <2>1
  <2>3. NeverFast
    BY <2>1, <2>2 DEF NeverFast
  <2>4. pending \in BOOLEAN
    BY <2>1
  <2>5. ms_ticks \in Nat /\ overflows \in 0 .. MaxOverflows
    BY <2>1
  <2> QED BY <2>3, <2>4, <2>5 DEF TimeExact
<1> QED BY <1>2, <1>3, <1>4, <1>5, <1>6 DEF ClkInv

LEMMA ClkInvStep ==
    ASSUME BeforeItsEnd
    PROVE  ClkInv /\ [ClkNext]_clkVars => ClkInv'
<1> SUFFICES ASSUME ClkInv, [ClkNext]_clkVars PROVE ClkInv'
  OBVIOUS
<1>1. CASE Overflow
  BY <1>1, OverflowStep
<1>2. CASE NotifierStep
  BY <1>2, NotifierLocalStep, NotifierSendStep DEF NotifierStep
<1>3. CASE ServerStep
  BY <1>3, ServerCreateStep, ServerLocalStep, ServerReceiveStep, HandleTickStep,
     AnswerServedStep, DelayStep, UndelayStep DEF ServerStep, Handle
<1>4. ASSUME NEW c \in Clients, ClientStep(c) PROVE ClkInv'
  <2>1. CASE ComeAndGo(c)
    BY <2>1, ComeAndGoStep
  <2>2. CASE Ask(c, "time", 0)
    BY <2>2, AskStep
  <2>3. CASE \E n \in Delays : Ask(c, "delay", n)
    BY <2>3, AskStep
  <2>4. CASE \E n \in Times : Ask(c, "delayuntil", n)
    BY <2>4, AskStep
  <2> QED BY <1>4, <2>1, <2>2, <2>3, <2>4 DEF ClientStep
<1>5. CASE UNCHANGED clkVars
  <2> USE <1>5 DEF ClkInv, clkVars, mpVars, queueVars, timerVars
  <2>1. \A t : TidOf(t)' = TidOf(t)
    BY DEF TidOf
  <2>2. InboxExact(Clk)' /\ ServerInPlace' /\ NotifierInPlace' /\ RequestsExact'
    BY <2>1 DEF InboxExact, ServerInPlace, NotifierInPlace, RequestsExact
  <2>3. QueueExact' /\ TimeExact'
    BY <2>1 DEF QueueExact, TimeExact, NeverFast
  <2> QED BY <2>2, <2>3
<1> QED BY <1>1, <1>2, <1>3, <1>4, <1>5 DEF ClkNext

LEMMA ClkInvHolds ==
    ASSUME BeforeItsEnd
    PROVE  ClkSpec => []ClkInv
BY ClkInvInit, ClkInvStep, PTL DEF ClkSpec

-----------------------------------------------------------------------------
(* Theorems *)

LEMMA ClkInvGivesDelays == ClkInv => DelaysExact
<1> SUFFICES ASSUME ClkInv PROVE DelaysExact
  OBVIOUS
<1> USE Descriptors, TidFacts
<1>1. \A c \in Clients : TidOf(c) # serving <=> c # serving.ix
  BY DEF ClkInv, ServerInPlace
<1>2. \A c \in Clients : mode[c] = "received" /\ c # serving.ix =>
                         request[c].type \in {"delay", "delayuntil"}
  BY DEF ClkInv, QueueExact
<1>3. DOMAIN delays = {c \in Clients : /\ mode[c] = "received" /\ TidOf(c) # serving
                                      /\ request[c].type \in {"delay", "delayuntil"}}
  BY <1>1, <1>2 DEF ClkInv, QueueExact
<1>4. /\ ~failed
      /\ \A c \in DOMAIN delays : tids[c] = TidOf(c)
      /\ server = "loop" => \A c \in DOMAIN delays : delays[c] > ms_ticks
  BY DEF ClkInv, QueueExact
<1> QED BY <1>3, <1>4 DEF DelaysExact

\* The server's asserts hold, the tasks in its queue are those it owes an
\* answer, under the TIDs they wait with, and none is overdue at Receive
\* (clksrv_delayuntil, clksrv_undelay).
THEOREM DelayedTasksAreKnown ==
    ASSUME BeforeItsEnd
    PROVE  ClkSpec => []DelaysExact
<1>1. ClkInv => DelaysExact
  BY ClkInvGivesDelays
<1> QED BY <1>1, ClkInvHolds, PTL

\* However overflows, IRQs and the notifier's messages interleave, no tick is
\* counted that the timer did not make (clksrv_notify, clksrv_notify_cb).
THEOREM ClockNeverFast ==
    ASSUME BeforeItsEnd
    PROVE  ClkSpec => []NeverFast
<1>1. ClkInv => NeverFast
  BY DEF ClkInv, TimeExact
<1> QED BY <1>1, ClkInvHolds, PTL

\* What a step of the clock answers "ok", it answers in time.
LEMMA OkInTime ==
    ASSUME BeforeItsEnd, ClkInv, [ClkNext]_clkVars, NEW c \in Clients,
           answer[c] = NoAnswer, answer'[c] = "ok"
    PROVE  \/ request[c].type = "delay" /\ ms_ticks' >= request[c].at + request[c].ticks
           \/ request[c].type = "delayuntil" /\ ms_ticks' >= request[c].ticks
<1> USE Descriptors, TidFacts
<1>1. DOMAIN answer = Clients /\ answer'[c] # answer[c] /\ answer'[c] # NoAnswer
      /\ answer'[c] # "time"
  BY DEF ClkInv, RequestsExact, NoAnswer
<1>2. CASE Undelay
  <2>1. /\ UNCHANGED ms_ticks /\ Due /\ Answer(tids[earliest], "ok")
    BY <1>2 DEF Undelay
  <2>2. earliest \in DOMAIN delays /\ earliest \in Clients /\ tids[earliest] = TidOf(earliest)
        /\ mode[earliest] = "received"
    <3>1. earliest # -1
      BY <1>2 DEF Undelay, PQ!PqPopMin, PQ!NoVal
    <3> QED BY <3>1 DEF ClkInv, QueueExact
  <2>3. answer' = [answer EXCEPT ![earliest] = "ok"]
    BY <2>1, <2>2, AnswerFacts
  <2>4. c = earliest
    BY <1>1, <2>3
  <2>5. delays[c] <= ms_ticks /\ ms_ticks \in Nat
    BY <2>1, <2>4 DEF Due, ClkInv, TimeExact
  <2>6. /\ c \in DOMAIN delays /\ delays[c] \in Int
        /\ request[c].type \in {"delay", "delayuntil"}
        /\ request[c].type = "delay" => delays[c] >= request[c].at + request[c].ticks
        /\ request[c].type = "delayuntil" => delays[c] >= request[c].ticks
        /\ request[c].ticks \in Int /\ request[c].at \in Int
    BY <2>2, <2>4 DEF ClkInv, QueueExact, RequestsExact, BeforeItsEnd
  <2> QED BY <2>1, <2>5, <2>6
<1>3. CASE DelayPast
  <2>1. PICK d \in Clients : d = serving.ix
    BY <1>3 DEF DelayPast, Handling
  <2>2. /\ UNCHANGED ms_ticks /\ request[d].type \in {"delay", "delayuntil"}
        /\ Answer(serving, IF When = ms_ticks THEN "ok" ELSE "past")
    BY <1>3, <2>1 DEF DelayPast, Handling
  <2>3. serving = TidOf(d) /\ mode[d] = "received"
    BY <2>1 DEF ClkInv, ServerInPlace
  <2>4. answer' = [answer EXCEPT ![d] = IF When = ms_ticks THEN "ok" ELSE "past"]
    BY <2>2, <2>3, AnswerFacts
  <2>5. c = d /\ When = ms_ticks
    BY <1>1, <2>4
  <2>6. /\ When \in Int /\ ms_ticks \in Nat
        /\ request[c].type = "delay" => When = ms_ticks + request[c].ticks
        /\ request[c].type = "delayuntil" => When = request[c].ticks
        /\ request[c].at \in Int /\ request[c].at <= ms_ticks
        /\ request[c].ticks \in Int
    BY <2>1, <2>2, <2>5, WhenIs, Zenon
  <2> QED BY <2>2, <2>5, <2>6
<1>4. CASE HandleTime
  <2>1. PICK d \in Clients : d = serving.ix
    BY <1>4 DEF HandleTime, Handling
  <2>2. serving = TidOf(d) /\ mode[d] = "received" /\ Answer(serving, "time")
    BY <1>4, <2>1 DEF ClkInv, ServerInPlace, HandleTime
  <2>3. answer' = [answer EXCEPT ![d] = "time"]
    BY <2>2, AnswerFacts
  <2> QED BY <1>1, <2>3
<1>5. CASE \/ Overflow \/ NotifierStep \/ ServerCreate \/ ServerRegister \/ ServerReceive
           \/ HandleTick \/ Delay \/ UndelayEnd \/ UNCHANGED clkVars
  <2>1. UNCHANGED answer
    BY <1>5 DEF Overflow, NotifierStep, NotifierStart, NotifierAwait, NotifierIrq,
                NotifierSend, ServerCreate, ServerRegister, ServerReceive, HandleTick, Delay,
                UndelayEnd, clkVars
  <2> QED BY <1>1, <2>1
<1>6. CASE \E d \in Clients : ClientStep(d)
  <2>1. \E d \in Clients : answer' = [answer EXCEPT ![d] = NoAnswer]
    BY <1>6 DEF ClientStep, ComeAndGo, Ask
  <2> QED BY <1>1, <2>1
<1> QED BY <1>2, <1>3, <1>4, <1>5, <1>6 DEF ClkNext, ServerStep, Handle

\* No client runs on before its time, whoever else delays, comes or goes
\* meanwhile (clksrv_delayuntil, clksrv_undelay).
THEOREM NobodyWakesEarly ==
    ASSUME BeforeItsEnd
    PROVE  ClkSpec => NeverEarly
<1>1. ClkInv /\ [ClkNext]_clkVars =>
      [\A c \in Clients : answer[c] = NoAnswer /\ answer'[c] = "ok" =>
          \/ request[c].type = "delay" /\ ms_ticks' >= request[c].at + request[c].ticks
          \/ request[c].type = "delayuntil" /\ ms_ticks' >= request[c].ticks]_clkVars
  BY OkInTime
<1> QED BY <1>1, ClkInvHolds, PTL DEF ClkSpec, NeverEarly
=============================================================================
